---------------------------- MODULE Registration ----------------------------
(***************************************************************************)
(* Registration as a whole: any number of concurrent requests of the two   *)
(* registration slices over one database, with failures of the database,   *)
(* lost responses and restarts of the process.                             *)
(***************************************************************************)
EXTENDS RegistrationsFinish

vars == <<storeVars, startVars, finishVars>>

Init == StoreInit /\ StartInit /\ FinishInit

StartStep(r) ==
    /\ StartArrives(r) \/ StartProceeds(r) \/ StartFails(r)
    /\ UNCHANGED finishVars

FinishStep(p) ==
    /\ FinishArrives(p) \/ FinishProceeds(p) \/ FinishFails(p)
    /\ UNCHANGED startVars

ClockStep == Tick /\ UNCHANGED <<startVars, finishVars>>

Restart == Reboot /\ StartKilled /\ FinishKilled

(* Every request of the run is over.                                       *)
Quiescent ==
    /\ \A r \in RegStarts : StartAtRest(r)
    /\ \A p \in RegFinishes : FinishAtRest(p)
    /\ UNCHANGED vars

Next ==
    \/ \E r \in RegStarts : StartStep(r)
    \/ \E p \in RegFinishes : FinishStep(p)
    \/ ClockStep
    \/ Restart
    \/ Quiescent

Spec == Init /\ [][Next]_vars

(* net/http runs each handler in a goroutine that the Go scheduler does    *)
(* not starve.  Nothing makes a client send a request, a statement fail or *)
(* the process end.                                                        *)
Fairness ==
    /\ \A r \in RegStarts : WF_vars(StartProceeds(r) /\ UNCHANGED finishVars)
    /\ \A p \in RegFinishes : WF_vars(FinishProceeds(p) /\ UNCHANGED startVars)

FairSpec == Spec /\ Fairness

----------------------------------------------------------------------------

(* Every variable keeps its type.                                          *)
TypeOK == StoreTypeOK /\ StartTypeOK /\ FinishTypeOK

(* The requests whose registration is committed, and the sessions stored.  *)
Registered == {p \in RegFinishes : finishReply[p] = "OK"}
Stored == {r \in RegStarts : startReply[r] = "OK"}
Consumed(r) == \E p \in Registered : command[p].id = r

(* The committed database is exactly what the answers account for: a user, *)
(* a credential and a refresh token for every registration that succeeded  *)
(* and nothing for one that failed, was interrupted or is still running;   *)
(* and a session for every stored one that no registration has used up.    *)
(* This is the all-or-nothing promise of FinishRegistration's transaction, *)
(* kept across failing statements, lost responses and restarts.            *)
DatabaseMatchesAnswers ==
    /\ db.users = {UserOf(p) : p \in Registered}
    /\ db.credentials = {CredentialOf(p) : p \in Registered}
    /\ db.refresh_tokens = {RefreshTokenOf(p) : p \in Registered}
    /\ db.registration_sessions =
           {SessionRow(r) : r \in {s \in Stored : ~Consumed(s)}}

(* One ceremony creates at most one account, although the session is read  *)
(* outside the transaction that deletes it and the DELETE ignores how many *)
(* rows it found: a retry that overtakes or overlaps the first request     *)
(* must not open a second account or take the handle twice.                *)
OneAccountPerCeremony ==
    \A p, q \in Registered :
        (command[p].id = command[q].id \/ loaded[p].handle = loaded[q].handle)
            => p = q

(* A registration is accepted only for the session, handle and challenge   *)
(* of the client that opened it, and before the expiry that the start      *)
(* slice computed, which the row keeps only to the second.                 *)
AcceptedInTime ==
    \A p \in Registered :
        LET r == command[p].id IN
          /\ r \in Stored
          /\ command[p].challenge = r
          /\ loaded[p].handle = opened[r].handle
          /\ checkedAt[p] < opened[r].expiresAt

(* A session is refused as expired at most one second before the expiry    *)
(* the start slice computed: storing Unix seconds costs no more than that. *)
RefusedNotTooEarly ==
    \A p \in RegFinishes :
        (finishReply[p] = "NOT_FOUND" /\ checkedAt[p] # None)
            => opened[command[p].id].expiresAt < checkedAt[p] + TicksPerSecond

(* A client that is told its session does not exist, without an expiry     *)
(* check, either sent an id that was never handed out or lost the session  *)
(* to a registration that succeeded: no failure eats a session.            *)
NotFoundMeansConsumed ==
    \A p \in RegFinishes :
        (finishReply[p] = "NOT_FOUND" /\ checkedAt[p] = None)
            => \/ command[p].id = None
               \/ Consumed(command[p].id)

(* HANDLE_TAKEN is answered only when a committed user other than the one  *)
(* the request was creating has the handle; a credential id that is stored *)
(* already is not reported so.                                             *)
HandleTakenIsTrue ==
    \A p \in RegFinishes :
        finishReply[p] = "HANDLE_TAKEN"
            => \E u \in db.users : u.handle = loaded[p].handle /\ u.id # p

(* While a transaction is open its holder is the one request inside it,    *)
(* and the image it will publish is the committed one plus the statements  *)
(* that it has executed so far, and nothing else: whatever other requests  *)
(* committed before is in it, and nobody can commit meanwhile.             *)
IsolatedTransaction ==
    /\ \A p \in RegFinishes : finishPc[p] \in InTransaction <=> writer = p
    /\ writer = None => view = db
    /\ \A p \in RegFinishes :
         finishPc[p] \in InTransaction =>
           /\ view.users = db.users \cup {UserOf(p)}
           /\ view.credentials =
                 IF finishPc[p] = "insertCredential" THEN db.credentials
                 ELSE db.credentials \cup {CredentialOf(p)}
           /\ view.refresh_tokens =
                 IF finishPc[p] \in {"insertCredential", "insertRefreshToken"}
                 THEN db.refresh_tokens
                 ELSE db.refresh_tokens \cup {RefreshTokenOf(p)}
           /\ view.registration_sessions =
                 IF finishPc[p] = "commit"
                 THEN {s \in db.registration_sessions : s.id # command[p].id}
                 ELSE db.registration_sessions
           /\ view.login_sessions = db.login_sessions

(* What a request knows at each point of its handler: no code is decided   *)
(* while it runs, its session was read from a stored row and stays equal   *)
(* to it, and it writes nothing before both checks have passed.            *)
StartKnows(r) ==
    /\ startPc[r] \in {"idle", "persist"} => startReply[r] = None
    /\ (startPc[r] = "persist" \/ r \in Stored)
          => opened[r] \in RegistrationSession

FinishKnows(p) ==
    /\ finishPc[p] \in {"idle"} \cup (FinishRunning \ {"respond"})
          => finishReply[p] = None
    /\ finishPc[p] \in {"idle", "load", "check"} => checkedAt[p] = None
    /\ (finishPc[p] = "load" \/ finishReply[p] = "NOT_FOUND")
          => /\ command[p] \in RegistrationFinishCommand
             /\ command[p].id \in Stored \cup {None}
    /\ (\/ finishPc[p] \in {"check", "issue", "insertUser"} \cup InTransaction
        \/ finishReply[p] \in {"OK", "HANDLE_TAKEN"}
        \/ finishReply[p] = "NOT_FOUND" /\ checkedAt[p] # None)
          => /\ command[p] \in RegistrationFinishCommand
             /\ command[p].id \in Stored
             /\ loaded[p] = SessionRow(command[p].id)
    /\ (\/ finishPc[p] \in {"issue", "insertUser"} \cup InTransaction
        \/ finishReply[p] = "OK")
          => /\ checkedAt[p] \in Nat
             /\ FreshSession(p, checkedAt[p])
             /\ Verified(command[p], loaded[p])
    /\ (\/ finishPc[p] \in {"insertUser"} \cup InTransaction
        \/ finishReply[p] = "OK")
          => issued[p] \in TokenPair
    /\ finishPc[p] \in InTransaction
          => ~HandleTaken(db, loaded[p].handle)
    /\ finishPc[p] \in InTransaction \ {"insertCredential"}
          => ~CredentialExists(db, command[p].credential_id)

HandlersKnow ==
    /\ \A r \in RegStarts : StartKnows(r)
    /\ \A p \in RegFinishes : FinishKnows(p)

(* No two committed registrations share a handle or a credential.          *)
OwnersAreUnique ==
    \A p, q \in Registered :
        (\/ loaded[p].handle = loaded[q].handle
         \/ command[p].credential_id = command[q].credential_id)
            => p = q

(* The invariant that the proofs carry from step to step.                  *)
InductiveInvariant ==
    /\ TypeOK
    /\ HandlersKnow
    /\ IsolatedTransaction
    /\ DatabaseMatchesAnswers
    /\ OwnersAreUnique

----------------------------------------------------------------------------

(* Every request that arrives is answered, or its process is restarted,    *)
(* even when no wait for the write lock ever times out: no request of      *)
(* these slices waits for one that waits for it.                           *)
EveryRequestEnds ==
    /\ \A r \in RegStarts : startPc[r] # "idle" ~> StartAtRest(r)
    /\ \A p \in RegFinishes : finishPc[p] # "idle" ~> FinishAtRest(p)

----------------------------------------------------------------------------

(* Registration implements the promise stated in Accounts.  A session is   *)
(* spent when it was stored and its row is gone.                           *)
TheOne(rows) == CHOOSE row \in rows : TRUE

AccountOf(h) == LET owners == {u \in db.users : u.handle = h}
                IN  IF owners = {} THEN None ELSE TheOne(owners).id
HolderOf(c) == LET keys == {k \in db.credentials : k.credential_id = c}
               IN  IF keys = {} THEN None ELSE TheOne(keys).user_id

Promise == INSTANCE Accounts WITH
    Ceremonies <- RegStarts,
    People <- RegFinishes,
    Passkeys <- CredIDs,
    wanted <- [r \in RegStarts |-> IF r \in Stored THEN opened[r].handle ELSE None],
    spent <- {r \in Stored : \A s \in db.registration_sessions : s.id # r},
    owner <- [h \in Handles |-> AccountOf(h)],
    holder <- [c \in CredIDs |-> HolderOf(c)]

(* Seen from outside, each registration happens in one step, or not at     *)
(* all, whatever its requests, failures and restarts do in between.        *)
ImplementsAccounts == Promise!Spec
=============================================================================
