--------------------------- MODULE SessionsFinish ---------------------------
(***************************************************************************)
(* internal/slice/sessions_finish: POST /v1/sessions/{id}/assertion.       *)
(*                                                                         *)
(* A request loads the login session, checks that it is fresh, loads the   *)
(* credential that the assertion names and its owner, verifies the         *)
(* assertion against the session's challenge, issues a token pair and, in  *)
(* one transaction, stores the assertion's counter and the refresh token   *)
(* and deletes the session.  All it read, it read outside the transaction: *)
(* the transaction checks nothing.                                         *)
(***************************************************************************)
EXTENDS SessionsStart, Tokens

VARIABLES
    assertPc,       \* what a request does next
    assertReply,    \* the code it answers with; "OK" from its COMMIT on
    assertion,      \* the SessionFinishCommand
    loginLoaded,    \* the session row as LoadLoginSession returned it
    freshAt,        \* the clock reading given to NewFreshLoginSession
    target,         \* the credentials row that LoadAssertionTarget found
    loginIssued     \* the token pair

assertVars == <<assertPc, assertReply, assertion, loginLoaded, freshAt, target,
                loginIssued>>

(* The states in which the request's transaction holds the write lock.     *)
LoginTransaction == {"insertToken", "deleteSession", "commit"}
AssertRunning == {"load", "check", "credential", "owner", "verify",
                  "updateCount", "respond"} \cup LoginTransaction
AssertPcs == {"idle", "done", "lost", "killed"} \cup AssertRunning
AssertReplies == {"OK", "VALIDATION_ERROR", "NOT_FOUND", "ASSERTION_INVALID",
                  "db_locked", "db_disk_full", "INTERNAL_ERROR", None}

(* What an authenticator signs: the challenge of the session that it was   *)
(* shown and the value of its counter, under the credential's key.         *)
Assertion == [challenge : LoginStarts, credential_id : CredIDs,
              sign_count : SignCounts]

(* The session in the path and the assertion in the body are the client's  *)
(* to combine.  A session of None is a UUID that names none.               *)
SessionFinishCommand == [id : LoginStarts \cup {None}, signed : Assertion]

(* The signature verifies under the key stored for the credential it       *)
(* names; verifyAssertion compares the challenge to the session's.  The    *)
(* counter that is stored is not given to it.                              *)
AssertionVerified(c, row) == c.signed.challenge = row.id

(* The row that FinishLogin inserts.                                       *)
LoginTokenOf(q) == [token_hash |-> q,
                    user_id    |-> target[q].user_id,
                    expires_at |-> loginIssued[q].refresh_exp,
                    revoked_at |-> None]

AssertGoes(q, pc) == assertPc' = [assertPc EXCEPT ![q] = pc]

AnswerAssertion(q, code) ==
    /\ AssertGoes(q, "respond")
    /\ assertReply' = [assertReply EXCEPT ![q] = code]

----------------------------------------------------------------------------

(* Either the id does not parse or the assertion does not.                 *)
RejectAssertion(q) ==
    /\ assertPc[q] = "idle"
    /\ AnswerAssertion(q, "VALIDATION_ERROR")
    /\ UNCHANGED <<assertion, loginLoaded, freshAt, target, loginIssued, storeVars>>

AcceptAssertion(q, c) ==
    /\ assertPc[q] = "idle"
    /\ c.id # None => Challenged(c.id)
    /\ assertion' = [assertion EXCEPT ![q] = c]
    /\ AssertGoes(q, "load")
    /\ UNCHANGED <<assertReply, loginLoaded, freshAt, target, loginIssued, storeVars>>

LoadLoginSession(q) ==
    /\ assertPc[q] = "load"
    /\ \E row \in db.login_sessions :
          /\ row.id = assertion[q].id
          /\ loginLoaded' = [loginLoaded EXCEPT ![q] = row]
    /\ AssertGoes(q, "check")
    /\ UNCHANGED <<assertReply, assertion, freshAt, target, loginIssued, storeVars>>

LoginSessionNotFound(q) ==
    /\ assertPc[q] = "load"
    /\ \A row \in db.login_sessions : row.id # assertion[q].id
    /\ AnswerAssertion(q, "NOT_FOUND")
    /\ UNCHANGED <<assertion, loginLoaded, freshAt, target, loginIssued, storeVars>>

NewFreshLoginSession(q) ==
    /\ assertPc[q] = "check"
    /\ freshAt' = [freshAt EXCEPT ![q] = now]
    /\ Fresh(now, FromUnix(loginLoaded[q].expires_at))
    /\ AssertGoes(q, "credential")
    /\ UNCHANGED <<assertReply, assertion, loginLoaded, target, loginIssued, storeVars>>

LoginSessionExpired(q) ==
    /\ assertPc[q] = "check"
    /\ freshAt' = [freshAt EXCEPT ![q] = now]
    /\ ~Fresh(now, FromUnix(loginLoaded[q].expires_at))
    /\ AnswerAssertion(q, "NOT_FOUND")
    /\ UNCHANGED <<assertion, loginLoaded, target, loginIssued, storeVars>>

(* Mutant of OwnCredential: the owner is not compared.                     *)
AnyonesCredential(q, k) == k.credential_id = assertion[q].signed.credential_id

(* The credential that the assertion names, if the session's user owns it. *)
OwnCredential(q, k) == /\ k.credential_id = assertion[q].signed.credential_id
                       /\ k.user_id = loginLoaded[q].user_id

LoadCredential(q) ==
    /\ assertPc[q] = "credential"
    /\ \E k \in db.credentials : /\ OwnCredential(q, k)
                                 /\ target' = [target EXCEPT ![q] = k]
    /\ AssertGoes(q, "owner")
    /\ UNCHANGED <<assertReply, assertion, loginLoaded, freshAt, loginIssued, storeVars>>

CredentialNotFound(q) ==
    /\ assertPc[q] = "credential"
    /\ \A k \in db.credentials : ~OwnCredential(q, k)
    /\ AnswerAssertion(q, "NOT_FOUND")
    /\ UNCHANGED <<assertion, loginLoaded, freshAt, target, loginIssued, storeVars>>

(* The SELECT of the owner: a row that is gone would be a 404 as well.     *)
LoadOwner(q) ==
    /\ assertPc[q] = "owner"
    /\ IF \E u \in db.users : u.id = target[q].user_id
       THEN AssertGoes(q, "verify") /\ UNCHANGED assertReply
       ELSE AnswerAssertion(q, "NOT_FOUND")
    /\ UNCHANGED <<assertion, loginLoaded, freshAt, target, loginIssued, storeVars>>

LoadAssertionFails(q, f) ==
    /\ assertPc[q] \in {"load", "credential", "owner"}
    /\ AnswerAssertion(q, ReadError(f))
    /\ UNCHANGED <<assertion, loginLoaded, freshAt, target, loginIssued, storeVars>>

(* verifyAssertion, and the token pair that follows on success.            *)
VerifyAssertion(q) ==
    /\ assertPc[q] = "verify"
    /\ AssertionVerified(assertion[q], loginLoaded[q])
    /\ loginIssued' = [loginIssued EXCEPT ![q] = GenerateTokenPair(now, boots)]
    /\ AssertGoes(q, "updateCount")
    /\ UNCHANGED <<assertReply, assertion, loginLoaded, freshAt, target, storeVars>>

AssertionInvalid(q) ==
    /\ assertPc[q] = "verify"
    /\ ~AssertionVerified(assertion[q], loginLoaded[q])
    /\ AnswerAssertion(q, "ASSERTION_INVALID")
    /\ UNCHANGED <<assertion, loginLoaded, freshAt, target, loginIssued, storeVars>>

----------------------------------------------------------------------------
(* Store.FinishLogin, one statement a step.                                *)

UpdateSignCount(q) ==
    /\ assertPc[q] = "updateCount"
    /\ FirstWrite(q, SetSignCount(db, target[q].credential_id,
                                  assertion[q].signed.sign_count))
    /\ AssertGoes(q, "insertToken")
    /\ UNCHANGED <<assertReply, assertion, loginLoaded, freshAt, target, loginIssued>>

InsertLoginToken(q) ==
    /\ assertPc[q] = "insertToken"
    /\ NextWrite(q, InsertRow(view, "refresh_tokens", LoginTokenOf(q)))
    /\ AssertGoes(q, "deleteSession")
    /\ UNCHANGED <<assertReply, assertion, loginLoaded, freshAt, target, loginIssued>>

(* The DELETE does not look at the number of rows it affected.             *)
DeleteLoginSession(q) ==
    /\ assertPc[q] = "deleteSession"
    /\ NextWrite(q, DeleteByID(view, "login_sessions", loginLoaded[q].id))
    /\ AssertGoes(q, "commit")
    /\ UNCHANGED <<assertReply, assertion, loginLoaded, freshAt, target, loginIssued>>

CommitLogin(q) ==
    /\ assertPc[q] = "commit"
    /\ Commit(q)
    /\ AnswerAssertion(q, "OK")
    /\ UNCHANGED <<assertion, loginLoaded, freshAt, target, loginIssued>>

(* Mutant of FinishLoginFails: the transaction is tried again.             *)
TryLoginAgain(q, f) ==
    /\ assertPc[q] \in LoginTransaction \cup {"updateCount"}
    /\ Rollback(q)
    /\ AssertGoes(q, "updateCount")
    /\ UNCHANGED <<assertReply, assertion, loginLoaded, freshAt, target, loginIssued>>

(* Any statement may fail, the first for want of the write lock; the       *)
(* deferred Rollback runs on the way out.                                  *)
FinishLoginFails(q, f) ==
    /\ assertPc[q] \in LoginTransaction \cup {"updateCount"}
    /\ Rollback(q)
    /\ AnswerAssertion(q, WriteError(f))
    /\ UNCHANGED <<assertion, loginLoaded, freshAt, target, loginIssued>>

RespondAssertion(q) ==
    /\ assertPc[q] = "respond"
    /\ \E end \in {"done", "lost"} : AssertGoes(q, end)
    /\ UNCHANGED <<assertReply, assertion, loginLoaded, freshAt, target, loginIssued,
                   storeVars>>

----------------------------------------------------------------------------

AssertProceeds(q) ==
    \/ LoadLoginSession(q)
    \/ LoginSessionNotFound(q)
    \/ NewFreshLoginSession(q)
    \/ LoginSessionExpired(q)
    \/ LoadCredential(q)
    \/ CredentialNotFound(q)
    \/ LoadOwner(q)
    \/ VerifyAssertion(q)
    \/ AssertionInvalid(q)
    \/ UpdateSignCount(q)
    \/ InsertLoginToken(q)
    \/ DeleteLoginSession(q)
    \/ CommitLogin(q)
    \/ RespondAssertion(q)

AssertFails(q) ==
    \E f \in Faults : LoadAssertionFails(q, f) \/ FinishLoginFails(q, f)

AssertKilled ==
    /\ assertPc' = [q \in LoginFinishes |-> IF assertPc[q] \in AssertRunning
                                            THEN "killed" ELSE assertPc[q]]
    /\ UNCHANGED <<assertReply, assertion, loginLoaded, freshAt, target, loginIssued>>

AssertAtRest(q) == assertPc[q] \in {"done", "lost", "killed"}

AssertInit ==
    /\ assertPc = [q \in LoginFinishes |-> "idle"]
    /\ assertReply = [q \in LoginFinishes |-> None]
    /\ assertion = [q \in LoginFinishes |-> None]
    /\ loginLoaded = [q \in LoginFinishes |-> None]
    /\ freshAt = [q \in LoginFinishes |-> None]
    /\ target = [q \in LoginFinishes |-> None]
    /\ loginIssued = [q \in LoginFinishes |-> None]

AssertTypeOK ==
    /\ assertPc \in [LoginFinishes -> AssertPcs]
    /\ assertReply \in [LoginFinishes -> AssertReplies]
    /\ assertion \in [LoginFinishes -> SessionFinishCommand \cup {None}]
    /\ loginLoaded \in [LoginFinishes -> LoginSessionRow \cup {None}]
    /\ freshAt \in [LoginFinishes -> Nat \cup {None}]
    /\ target \in [LoginFinishes -> CredentialRow \cup {None}]
    /\ loginIssued \in [LoginFinishes -> TokenPair \cup {None}]
=============================================================================
