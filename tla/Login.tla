-------------------------------- MODULE Login --------------------------------
(***************************************************************************)
(* Login as a whole: any number of concurrent requests of the two login    *)
(* slices over one database, the authenticators that answer the            *)
(* challenges, failures of the database, lost responses and restarts.      *)
(*                                                                         *)
(* Accounts come into being in one step, as module Registration shows that *)
(* they do.                                                                *)
(***************************************************************************)
EXTENDS Authenticators

vars == <<storeVars, loginVars, assertVars, authenticatorVars>>

(* A registration that succeeds: FinishRegistration, from outside.  Its    *)
(* token pair was issued and its authenticator counted a little earlier.   *)
Register(u, h, k, n, t) ==
    /\ n <= counter[k]
    /\ t <= now
    /\ \A row \in db.users : row.id # u
    /\ ~HandleTaken(db, h)
    /\ ~CredentialExists(db, k)
    /\ Autocommit([db EXCEPT
          !.users = @ \cup {[id |-> u, handle |-> h]},
          !.credentials = @ \cup {[credential_id |-> k, user_id |-> u,
                                   sign_count |-> n]},
          !.refresh_tokens = @ \cup
              {[token_hash |-> u, user_id |-> u,
                expires_at |-> GenerateTokenPair(t, boots).refresh_exp,
                revoked_at |-> None]}])

Init == StoreInit /\ LoginInit /\ AssertInit /\ AuthenticatorInit

LoginStep(r) ==
    /\ LoginArrives(r) \/ LoginProceeds(r) \/ LoginFails(r)
    /\ UNCHANGED <<assertVars, authenticatorVars>>

AssertStep(q) ==
    /\ AssertArrives(q) \/ AssertProceeds(q) \/ AssertFails(q)
    /\ UNCHANGED <<loginVars, authenticatorVars>>

RegisterStep ==
    /\ \E u \in RegFinishes, h \in Handles, k \in CredIDs,
          n \in SignCounts, t \in 0 .. MaxTime : Register(u, h, k, n, t)
    /\ UNCHANGED <<loginVars, assertVars, authenticatorVars>>

SignStep ==
    /\ \E r \in LoginStarts, k \in CredIDs : Sign(r, k)
    /\ UNCHANGED <<storeVars, loginVars, assertVars>>

ClockStep == Tick /\ UNCHANGED <<loginVars, assertVars, authenticatorVars>>

Restart ==
    Reboot /\ LoginKilled /\ AssertKilled /\ UNCHANGED authenticatorVars

(* Every request of the run is over.                                       *)
Quiescent ==
    /\ \A r \in LoginStarts : LoginAtRest(r)
    /\ \A q \in LoginFinishes : AssertAtRest(q)
    /\ UNCHANGED vars

Next ==
    \/ \E r \in LoginStarts : LoginStep(r)
    \/ \E q \in LoginFinishes : AssertStep(q)
    \/ RegisterStep
    \/ SignStep
    \/ ClockStep
    \/ Restart
    \/ Quiescent

Spec == Init /\ [][Next]_vars

(* As for registration: the scheduler starves no handler, and nothing      *)
(* makes a client send, an authenticator sign or a statement fail.         *)
Fairness ==
    /\ \A r \in LoginStarts :
          WF_vars(LoginProceeds(r) /\ UNCHANGED <<assertVars, authenticatorVars>>)
    /\ \A q \in LoginFinishes :
          WF_vars(AssertProceeds(q) /\ UNCHANGED <<loginVars, authenticatorVars>>)

FairSpec == Spec /\ Fairness

----------------------------------------------------------------------------

(* Every variable keeps its type.                                          *)
TypeOK == StoreTypeOK /\ LoginTypeOK /\ AssertTypeOK /\ AuthenticatorTypeOK

(* The logins that are committed, and the sessions stored.                 *)
LoggedIn == {q \in LoginFinishes : assertReply[q] = "OK"}
Opened == {r \in LoginStarts : loginReply[r] = "OK"}
Used(r) == \E q \in LoggedIn : assertion[q].id = r

(* The committed tables are what the answers account for: one refresh      *)
(* token for every login that succeeded and none for one that failed, was  *)
(* interrupted or is still running; and a row for every session opened     *)
(* that no login has used.  All or nothing, across failing statements,     *)
(* lost responses and restarts.                                            *)
LoginTablesMatchAnswers ==
    /\ db.login_sessions =
           {LoginSessionRowOf(r) : r \in {s \in Opened : ~Used(s)}}
    /\ {t \in db.refresh_tokens : t.token_hash \in LoginFinishes} =
           {LoginTokenOf(q) : q \in LoggedIn}

(* A token pair is issued only to the user for whose handle the session    *)
(* was opened, for an assertion over that session's challenge made by a    *)
(* credential of that user, and before the expiry the start slice computed *)
(* - although session, credential and owner are read at different moments  *)
(* and the client chooses which assertion goes with which session.         *)
LoginIsTheOwners ==
    \A q \in LoggedIn :
        LET r == assertion[q].id IN
          /\ r \in Opened
          /\ assertion[q].signed \in signed
          /\ assertion[q].signed.challenge = r
          /\ assertion[q].signed.credential_id \in allowed[r]
          /\ \E k \in db.credentials :
                /\ k.credential_id = assertion[q].signed.credential_id
                /\ k.user_id = user[r].id
          /\ LoginTokenOf(q).user_id = user[r].id
          /\ freshAt[q] < session[r].expiresAt

(* NOT_FOUND is answered for a reason: a session that was never handed out *)
(* or that a login has used, one that expires within the second, or a      *)
(* credential that is not its user's.                                      *)
NotFoundHasReason(q) ==
    LET r == assertion[q].id IN
      IF freshAt[q] = None THEN r = None \/ Used(r)
      ELSE \/ session[r].expiresAt < freshAt[q] + TicksPerSecond
           \/ assertion[q].signed.credential_id \notin allowed[r]

LoginNotFoundIsTrue ==
    \A q \in LoginFinishes :
        assertReply[q] = "NOT_FOUND" => NotFoundHasReason(q)

(* The count stored for a credential is one that its own authenticator     *)
(* had: the one it was registered with or that of a login that succeeded.  *)
CountersAreSigned ==
    \A k \in db.credentials :
        \/ \E q \in LoggedIn :
              /\ assertion[q].signed.credential_id = k.credential_id
              /\ assertion[q].signed.sign_count = k.sign_count
        \/ /\ \A q \in LoggedIn :
                 assertion[q].signed.credential_id # k.credential_id
           /\ k.sign_count <= counter[k.credential_id]

(* While a login's transaction is open its holder is the one request       *)
(* inside it, and the image it will publish is the committed one with the  *)
(* statements it has executed and nothing else.                            *)
LoginTransactionIsIsolated ==
    /\ \A q \in LoginFinishes : assertPc[q] \in LoginTransaction <=> writer = q
    /\ writer = None => view = db
    /\ \A q \in LoginFinishes :
         assertPc[q] \in LoginTransaction =>
           LET counted == SetSignCount(db, target[q].credential_id,
                                       assertion[q].signed.sign_count)
               granted == InsertRow(counted, "refresh_tokens", LoginTokenOf(q))
           IN  view = CASE assertPc[q] = "insertToken" -> counted
                        [] assertPc[q] = "deleteSession" -> granted
                        [] assertPc[q] = "commit" ->
                             DeleteByID(granted, "login_sessions", assertion[q].id)

(* What a request knows at each point of its handler.  A start slice's     *)
(* user stays in the table and keeps the credentials that were read.       *)
Owns(u, c) == \E k \in db.credentials : k.credential_id = c /\ k.user_id = u

LoginKnows(r) ==
    /\ loginPc[r] \in {"idle", "credentials", "open", "persist"}
          => loginReply[r] = None
    /\ loginPc[r] \in {"credentials", "open", "persist"} \/ r \in Opened
          => user[r] \in db.users
    /\ loginPc[r] \in {"open", "persist"} \/ r \in Opened
          => \A c \in CredIDs : c \in allowed[r] <=> Owns(user[r].id, c)
    /\ loginPc[r] = "persist" \/ r \in Opened
          => session[r] \in LoginSession /\ session[r].user_id = user[r].id

(* A finish request's session was stored and never changes; no code is     *)
(* decided while it runs; what it writes, all its checks have passed.      *)
AssertKnows(q) ==
    /\ assertPc[q] \in {"idle"} \cup (AssertRunning \ {"respond"})
          => assertReply[q] = None
    /\ assertPc[q] \in {"idle", "load", "check"} => freshAt[q] = None
    /\ assertPc[q] = "load"
          => /\ assertion[q] \in SessionFinishCommand
             /\ assertion[q].signed \in signed
             /\ assertion[q].id \in Opened \cup {None}
    /\ (\/ assertPc[q] \in AssertRunning \ {"load", "respond"}
        \/ q \in LoggedIn
        \/ assertReply[q] = "NOT_FOUND" /\ freshAt[q] # None)
          => /\ assertion[q] \in SessionFinishCommand
             /\ assertion[q].signed \in signed
             /\ assertion[q].id \in Opened
             /\ loginLoaded[q] = LoginSessionRowOf(assertion[q].id)
    /\ (\/ assertPc[q] \in AssertRunning \ {"load", "check", "respond"}
        \/ q \in LoggedIn)
          => /\ freshAt[q] \in Nat
             /\ freshAt[q] < session[assertion[q].id].expiresAt
    /\ (\/ assertPc[q] \in {"owner", "verify", "updateCount"} \cup LoginTransaction
        \/ q \in LoggedIn)
          => /\ target[q] \in CredentialRow
             /\ target[q].credential_id = assertion[q].signed.credential_id
             /\ target[q].user_id = session[assertion[q].id].user_id
             /\ Owns(target[q].user_id, target[q].credential_id)
    /\ assertPc[q] \in {"updateCount"} \cup LoginTransaction \/ q \in LoggedIn
          => /\ assertion[q].signed.challenge = assertion[q].id
             /\ loginIssued[q] \in TokenPair

(* The credentials stored belong to users stored.                          *)
CredentialsHaveOwners ==
    \A k \in db.credentials : \E u \in db.users : u.id = k.user_id

(* The invariant that the proofs carry from step to step.                  *)
LoginInvariant ==
    /\ TypeOK
    /\ \A r \in LoginStarts : LoginKnows(r)
    /\ \A q \in LoginFinishes : AssertKnows(q)
    /\ CredentialsHaveOwners
    /\ LoginTransactionIsIsolated
    /\ LoginTablesMatchAnswers

----------------------------------------------------------------------------

(* A session that a login has used is refused to every request that loads  *)
(* it afterwards: what is left of single use, see SessionIsUsedOnce.       *)
UsedSessionIsRefused ==
    [][\A q \in LoginFinishes :
          loginLoaded'[q] # loginLoaded[q] => ~Used(assertion[q].id)]_vars

(* docs/design/passkey-demo/slices/04-sessions-finish.md:210: once         *)
(* FinishLogin has committed, "повторное использование id невозможно" (the *)
(* id cannot be used again).  Two requests that both loaded the session    *)
(* before either committed both succeed: the DELETE of the second affects  *)
(* no row and FinishLogin does not look.                                   *)
SessionIsUsedOnce ==
    \A p, q \in LoggedIn : assertion[p].id = assertion[q].id => p = q

(* devlog/00-intent.md:125: the server checks that the counter has grown   *)
(* ("счётчик вырос").  verifyAssertion is not given the stored counter and *)
(* the UPDATE is unconditional: of two logins of one authenticator the one *)
(* that signed first may commit last.                                      *)
CounterGrows ==
    [][\A k \in db.credentials, n \in db'.credentials :
          n.credential_id = k.credential_id => n.sign_count >= k.sign_count]_vars
=============================================================================
