------------------------ MODULE RegistrationsFinish ------------------------
(***************************************************************************)
(* internal/slice/registrations_finish:                                    *)
(* POST /v1/registrations/{id}/attestation.                                *)
(*                                                                         *)
(* A request loads the registration session outside any transaction,       *)
(* checks that it is fresh and that the attestation answers its challenge, *)
(* issues a token pair, and then, in one transaction, creates the user,    *)
(* the credential and the refresh token and deletes the session.  Nothing  *)
(* reserves the session between the SELECT and the DELETE, so any number   *)
(* of requests may carry the same one through the checks.                  *)
(***************************************************************************)
EXTENDS RegistrationsStart, Tokens

VARIABLES
    finishPc,      \* what a request does next
    finishReply,   \* the code it answers with; "OK" from its COMMIT on
    command,       \* the RegistrationFinishCommand
    loaded,        \* the session row as LoadRegistrationSession returned it
    checkedAt,     \* the clock reading given to NewFreshRegistrationSession
    issued         \* the token pair

finishVars == <<finishPc, finishReply, command, loaded, checkedAt, issued>>

(* The states in which the request's transaction holds the write lock.     *)
InTransaction == {"insertCredential", "insertRefreshToken", "deleteSession",
                  "commit"}
FinishRunning == {"load", "check", "issue", "insertUser", "respond"}
                     \cup InTransaction
FinishPcs == {"idle", "done", "lost", "killed"} \cup FinishRunning
FinishReplies == {"OK", "VALIDATION_ERROR", "NOT_FOUND", "ATTESTATION_INVALID",
                  "HANDLE_TAKEN", "db_locked", "db_disk_full",
                  "INTERNAL_ERROR", None}

(* An id of None parses as a UUID that no session has; a challenge of None *)
(* was offered by no session of this service.                              *)
RegistrationFinishCommand ==
    [id : RegStarts \cup {None}, challenge : RegStarts \cup {None},
     credential_id : CredIDs, sign_count : SignCounts]

(* What a client can send: ids and challenges that it was given.  Sending  *)
(* the same command again, from the same client or another, is a retry.    *)
CanSend(c) == /\ c.id # None => Offered(c.id)
              /\ c.challenge # None => Offered(c.challenge)

(* The authenticator signs the challenge it was shown; verifyAttestation   *)
(* compares it, with the origin and relying party, to the session's own.   *)
Verified(c, session) == c.challenge = session.id

(* The rows of FinishRegistration.                                         *)
UserOf(p) == [id |-> p, handle |-> loaded[p].handle]
CredentialOf(p) == [credential_id |-> command[p].credential_id,
                    user_id       |-> p,
                    sign_count    |-> command[p].sign_count]
RefreshTokenOf(p) == [token_hash |-> p,
                      user_id    |-> p,
                      expires_at |-> issued[p].refresh_exp,
                      revoked_at |-> None]

(* Mutant of ConstraintError: every constraint is taken for the handle's.  *)
AnyConstraintError(extended) == "HANDLE_TAKEN"

(* mapSQLiteErrWrite tells only SQLITE_CONSTRAINT_UNIQUE from the other    *)
(* constraints: a primary key that exists already is an internal error.    *)
ConstraintError(extended) ==
    IF extended = "UNIQUE" THEN "HANDLE_TAKEN" ELSE "INTERNAL_ERROR"

GoTo(p, pc) == finishPc' = [finishPc EXCEPT ![p] = pc]

Answer(p, code) ==
    /\ GoTo(p, "respond")
    /\ finishReply' = [finishReply EXCEPT ![p] = code]

----------------------------------------------------------------------------

(* Either the id does not parse or the attestation does not.               *)
RejectAttestation(p) ==
    /\ finishPc[p] = "idle"
    /\ Answer(p, "VALIDATION_ERROR")
    /\ UNCHANGED <<command, loaded, checkedAt, issued, storeVars>>

AcceptCommand(p, c) ==
    /\ finishPc[p] = "idle"
    /\ CanSend(c)
    /\ command' = [command EXCEPT ![p] = c]
    /\ GoTo(p, "load")
    /\ UNCHANGED <<finishReply, loaded, checkedAt, issued, storeVars>>

LoadRegistrationSession(p) ==
    /\ finishPc[p] = "load"
    /\ \E row \in db.registration_sessions :
          /\ row.id = command[p].id
          /\ loaded' = [loaded EXCEPT ![p] = row]
    /\ GoTo(p, "check")
    /\ UNCHANGED <<finishReply, command, checkedAt, issued, storeVars>>

SessionNotFound(p) ==
    /\ finishPc[p] = "load"
    /\ \A row \in db.registration_sessions : row.id # command[p].id
    /\ Answer(p, "NOT_FOUND")
    /\ UNCHANGED <<command, loaded, checkedAt, issued, storeVars>>

LoadFails(p, f) ==
    /\ finishPc[p] = "load"
    /\ Answer(p, ReadError(f))
    /\ UNCHANGED <<command, loaded, checkedAt, issued, storeVars>>

(* The session of p is fresh at t, as its row has it.                      *)
FreshSession(p, t) == Fresh(t, FromUnix(loaded[p].expires_at))

VerifyAttestation(p) ==
    /\ finishPc[p] = "check"
    /\ FreshSession(p, now)
    /\ Verified(command[p], loaded[p])
    /\ checkedAt' = [checkedAt EXCEPT ![p] = now]
    /\ GoTo(p, "issue")
    /\ UNCHANGED <<finishReply, command, loaded, issued, storeVars>>

SessionExpired(p) ==
    /\ finishPc[p] = "check"
    /\ ~FreshSession(p, now)
    /\ checkedAt' = [checkedAt EXCEPT ![p] = now]
    /\ Answer(p, "NOT_FOUND")
    /\ UNCHANGED <<command, loaded, issued, storeVars>>

AttestationInvalid(p) ==
    /\ finishPc[p] = "check"
    /\ FreshSession(p, now)
    /\ ~Verified(command[p], loaded[p])
    /\ checkedAt' = [checkedAt EXCEPT ![p] = now]
    /\ Answer(p, "ATTESTATION_INVALID")
    /\ UNCHANGED <<command, loaded, issued, storeVars>>

IssueTokenPair(p) ==
    /\ finishPc[p] = "issue"
    /\ issued' = [issued EXCEPT ![p] = GenerateTokenPair(now, boots)]
    /\ GoTo(p, "insertUser")
    /\ UNCHANGED <<finishReply, command, loaded, checkedAt, storeVars>>

----------------------------------------------------------------------------
(* Store.FinishRegistration, one statement a step.                         *)

InsertUser(p) ==
    /\ finishPc[p] = "insertUser"
    /\ ~HandleTaken(db, loaded[p].handle)
    /\ FirstWrite(p, InsertRow(db, "users", UserOf(p)))
    /\ GoTo(p, "insertCredential")
    /\ UNCHANGED <<finishReply, command, loaded, checkedAt, issued>>

InsertUserConflicts(p) ==
    /\ finishPc[p] = "insertUser"
    /\ writer = None
    /\ HandleTaken(db, loaded[p].handle)
    /\ Answer(p, ConstraintError("UNIQUE"))
    /\ UNCHANGED <<command, loaded, checkedAt, issued, storeVars>>

InsertCredential(p) ==
    /\ finishPc[p] = "insertCredential"
    /\ ~CredentialExists(view, command[p].credential_id)
    /\ NextWrite(p, InsertRow(view, "credentials", CredentialOf(p)))
    /\ GoTo(p, "insertRefreshToken")
    /\ UNCHANGED <<finishReply, command, loaded, checkedAt, issued>>

InsertCredentialConflicts(p) ==
    /\ finishPc[p] = "insertCredential"
    /\ CredentialExists(view, command[p].credential_id)
    /\ Rollback(p)
    /\ Answer(p, ConstraintError("PRIMARYKEY"))
    /\ UNCHANGED <<command, loaded, checkedAt, issued>>

InsertRefreshToken(p) ==
    /\ finishPc[p] = "insertRefreshToken"
    /\ NextWrite(p, InsertRow(view, "refresh_tokens", RefreshTokenOf(p)))
    /\ GoTo(p, "deleteSession")
    /\ UNCHANGED <<finishReply, command, loaded, checkedAt, issued>>

(* Mutant of DeleteSession: s.db.ExecContext instead of tx.ExecContext, so *)
(* that the statement waits for the lock that its own transaction holds.   *)
DeleteOutsideTransaction(p) ==
    /\ finishPc[p] = "deleteSession"
    /\ Autocommit(DeleteByID(view, "registration_sessions", loaded[p].id))
    /\ GoTo(p, "commit")
    /\ UNCHANGED <<finishReply, command, loaded, checkedAt, issued>>

(* The DELETE does not look at the number of rows it affected.             *)
DeleteSession(p) ==
    /\ finishPc[p] = "deleteSession"
    /\ NextWrite(p, DeleteByID(view, "registration_sessions", loaded[p].id))
    /\ GoTo(p, "commit")
    /\ UNCHANGED <<finishReply, command, loaded, checkedAt, issued>>

CommitRegistration(p) ==
    /\ finishPc[p] = "commit"
    /\ Commit(p)
    /\ Answer(p, "OK")
    /\ UNCHANGED <<command, loaded, checkedAt, issued>>

(* Any statement may fail, the first for want of the write lock; the       *)
(* deferred Rollback runs on the way out.                                  *)
WriteFails(p, f) ==
    /\ finishPc[p] \in InTransaction \cup {"insertUser"}
    /\ Rollback(p)
    /\ Answer(p, WriteError(f))
    /\ UNCHANGED <<command, loaded, checkedAt, issued>>

RespondFinish(p) ==
    /\ finishPc[p] = "respond"
    /\ \E end \in {"done", "lost"} : GoTo(p, end)
    /\ UNCHANGED <<finishReply, command, loaded, checkedAt, issued, storeVars>>

----------------------------------------------------------------------------

FinishArrives(p) ==
    \/ RejectAttestation(p)
    \/ \E c \in RegistrationFinishCommand : AcceptCommand(p, c)

FinishProceeds(p) ==
    \/ LoadRegistrationSession(p)
    \/ SessionNotFound(p)
    \/ VerifyAttestation(p)
    \/ SessionExpired(p)
    \/ AttestationInvalid(p)
    \/ IssueTokenPair(p)
    \/ InsertUser(p)
    \/ InsertUserConflicts(p)
    \/ InsertCredential(p)
    \/ InsertCredentialConflicts(p)
    \/ InsertRefreshToken(p)
    \/ DeleteSession(p)
    \/ CommitRegistration(p)
    \/ RespondFinish(p)

FinishFails(p) == \E f \in Faults : LoadFails(p, f) \/ WriteFails(p, f)

FinishKilled ==
    /\ finishPc' = [p \in RegFinishes |-> IF finishPc[p] \in FinishRunning
                                          THEN "killed" ELSE finishPc[p]]
    /\ UNCHANGED <<finishReply, command, loaded, checkedAt, issued>>

FinishAtRest(p) == finishPc[p] \in {"done", "lost", "killed"}

FinishInit ==
    /\ finishPc = [p \in RegFinishes |-> "idle"]
    /\ finishReply = [p \in RegFinishes |-> None]
    /\ command = [p \in RegFinishes |-> None]
    /\ loaded = [p \in RegFinishes |-> None]
    /\ checkedAt = [p \in RegFinishes |-> None]
    /\ issued = [p \in RegFinishes |-> None]

FinishTypeOK ==
    /\ finishPc \in [RegFinishes -> FinishPcs]
    /\ finishReply \in [RegFinishes -> FinishReplies]
    /\ command \in [RegFinishes -> RegistrationFinishCommand \cup {None}]
    /\ loaded \in [RegFinishes -> RegSessionRow \cup {None}]
    /\ checkedAt \in [RegFinishes -> Nat \cup {None}]
    /\ issued \in [RegFinishes -> TokenPair \cup {None}]
=============================================================================
