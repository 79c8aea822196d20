------------------------------- MODULE Passkey -------------------------------
(***************************************************************************)
(* The service: the five slices over one database and one clock, with      *)
(* registrations as they really are - requests that overlap logins and     *)
(* logouts - and the clients' side of the protocol: a credential that is   *)
(* registered is the one that signs in, and the access tokens presented    *)
(* are those of either answer.                                             *)
(*                                                                         *)
(* Modules Registration and Sessions look at halves of this system.  The   *)
(* two refinements at the end show that each half is right about it.       *)
(***************************************************************************)
EXTENDS RegistrationsFinish, Authenticators, SessionsLogout

passkeyVars == <<storeVars, startVars, finishVars, loginVars, assertVars,
                 authenticatorVars, logoutVars>>

PasskeyInit ==
    /\ StoreInit /\ StartInit /\ FinishInit
    /\ LoginInit /\ AssertInit /\ AuthenticatorInit /\ LogoutInit

Registered == {p \in RegFinishes : finishReply[p] = "OK"}
SignedIn == {q \in LoginFinishes : assertReply[q] = "OK"}

(* The counter in an attestation is one that the authenticator has had     *)
(* by then; an attestation sent late or again may carry an old one.        *)
AttestationArrives(p) ==
    /\ FinishArrives(p)
    /\ finishPc'[p] = "load" =>
          command'[p].sign_count <= counter[command'[p].credential_id]

(* The token pairs that clients have, and whose they are.                  *)
Answered == {p \in Registered : finishPc[p] = "done"}
                \cup {q \in SignedIn : assertPc[q] = "done"}
IssuedTo(g) == IF g \in RegFinishes THEN g ELSE target[g].user_id
PairIn(g) == IF g \in RegFinishes THEN issued[g] ELSE loginIssued[g]

BearerArrives(l) ==
    \/ RejectBearer(l)
    \/ \E g \in Answered :
          LET token == AccessTokenIn(PairIn(g), g, IssuedTo(g))
          IN  AuthenticateLogout(l, token) \/ AccessTokenInvalid(l, token)

----------------------------------------------------------------------------
(* POST /v1/registrations, POST /v1/registrations/{id}/attestation,        *)
(* POST /v1/sessions, POST /v1/sessions/{id}/assertion,                    *)
(* DELETE /v1/sessions/current.                                            *)

RegistrationsStartStep(r) ==
    /\ StartArrives(r) \/ StartProceeds(r) \/ StartFails(r)
    /\ UNCHANGED <<finishVars, loginVars, assertVars, authenticatorVars, logoutVars>>

RegistrationsFinishStep(p) ==
    /\ AttestationArrives(p) \/ FinishProceeds(p) \/ FinishFails(p)
    /\ UNCHANGED <<startVars, loginVars, assertVars, authenticatorVars, logoutVars>>

SessionsStartStep(r) ==
    /\ LoginArrives(r) \/ LoginProceeds(r) \/ LoginFails(r)
    /\ UNCHANGED <<startVars, finishVars, assertVars, authenticatorVars, logoutVars>>

SessionsFinishStep(q) ==
    /\ AssertArrives(q) \/ AssertProceeds(q) \/ AssertFails(q)
    /\ UNCHANGED <<startVars, finishVars, loginVars, authenticatorVars, logoutVars>>

SessionsLogoutStep(l) ==
    /\ BearerArrives(l) \/ LogoutProceeds(l) \/ LogoutFails(l)
    /\ UNCHANGED <<startVars, finishVars, loginVars, assertVars, authenticatorVars>>

AuthenticatorStep ==
    /\ \E r \in LoginStarts, k \in CredIDs : Sign(r, k)
    /\ UNCHANGED <<storeVars, startVars, finishVars, loginVars, assertVars, logoutVars>>

TimePasses ==
    /\ Tick
    /\ UNCHANGED <<startVars, finishVars, loginVars, assertVars,
                   authenticatorVars, logoutVars>>

ProcessRestarts ==
    /\ Reboot
    /\ StartKilled /\ FinishKilled /\ LoginKilled /\ AssertKilled /\ LogoutKilled
    /\ UNCHANGED authenticatorVars

EveryoneAtRest ==
    /\ \A r \in RegStarts : StartAtRest(r)
    /\ \A p \in RegFinishes : FinishAtRest(p)
    /\ \A r \in LoginStarts : LoginAtRest(r)
    /\ \A q \in LoginFinishes : AssertAtRest(q)
    /\ \A l \in Logouts : LogoutAtRest(l)
    /\ UNCHANGED passkeyVars

PasskeyNext ==
    \/ \E r \in RegStarts : RegistrationsStartStep(r)
    \/ \E p \in RegFinishes : RegistrationsFinishStep(p)
    \/ \E r \in LoginStarts : SessionsStartStep(r)
    \/ \E q \in LoginFinishes : SessionsFinishStep(q)
    \/ \E l \in Logouts : SessionsLogoutStep(l)
    \/ AuthenticatorStep
    \/ TimePasses
    \/ ProcessRestarts
    \/ EveryoneAtRest

PasskeySpec == PasskeyInit /\ [][PasskeyNext]_passkeyVars

(* net/http runs every handler in a goroutine that is not starved.  No     *)
(* client has to send, no authenticator to sign, no statement to fail.     *)
PasskeyFairness ==
    /\ \A r \in RegStarts :
          WF_passkeyVars(StartProceeds(r) /\ RegistrationsStartStep(r))
    /\ \A p \in RegFinishes :
          WF_passkeyVars(FinishProceeds(p) /\ RegistrationsFinishStep(p))
    /\ \A r \in LoginStarts :
          WF_passkeyVars(LoginProceeds(r) /\ SessionsStartStep(r))
    /\ \A q \in LoginFinishes :
          WF_passkeyVars(AssertProceeds(q) /\ SessionsFinishStep(q))
    /\ \A l \in Logouts :
          WF_passkeyVars(LogoutProceeds(l) /\ SessionsLogoutStep(l))

FairPasskeySpec == PasskeySpec /\ PasskeyFairness

----------------------------------------------------------------------------

(* Every variable keeps its type.                                          *)
PasskeyTypeOK ==
    /\ StoreTypeOK /\ StartTypeOK /\ FinishTypeOK
    /\ LoginTypeOK /\ AssertTypeOK /\ AuthenticatorTypeOK /\ LogoutTypeOK

(* From end to end: a login gives tokens only to the account that a        *)
(* registration ceremony made, for the handle that was asked for when the  *)
(* ceremony began and again when the login began, and only for an          *)
(* assertion by the very credential that the ceremony attested.            *)
SameHandleSameCredential ==
    \A q \in SignedIn :
        LET p == target[q].user_id
            c == command[p]
        IN  /\ p \in Registered
            /\ opened[c.id].handle = user[assertion[q].id].handle
            /\ c.credential_id = assertion[q].signed.credential_id
            /\ assertion[q].signed.challenge = assertion[q].id

(* Nobody is shut out by the reads in between: a user row that a request   *)
(* has found has its credential, and a credential its user, although the   *)
(* login slices read the tables one by one outside any transaction while   *)
(* registrations write them row by row.                                    *)
NobodyIsHalfRegistered ==
    /\ \A r \in LoginStarts :
         user[r] # None => loginReply[r] # "NOT_FOUND"
    /\ \A q \in LoginFinishes :
         target[q] # None => assertReply[q] # "NOT_FOUND"

(* A refresh token that the database holds was issued in the answer of one *)
(* committed request to that request's user, and what expires_at says is   *)
(* what the answer said; a request that answered anything else left none.  *)
TokensMatchAnswers ==
    /\ {t.token_hash : t \in db.refresh_tokens} = Registered \cup SignedIn
    /\ \A t \in db.refresh_tokens :
         /\ t.user_id = IssuedTo(t.token_hash)
         /\ t.expires_at = PairIn(t.token_hash).refresh_exp

(* The write lock goes round: every request of every slice ends, whichever *)
(* others it waits for.                                                    *)
EveryRequestOfAllEnds ==
    /\ \A r \in RegStarts : startPc[r] # "idle" ~> StartAtRest(r)
    /\ \A p \in RegFinishes : finishPc[p] # "idle" ~> FinishAtRest(p)
    /\ \A r \in LoginStarts : loginPc[r] # "idle" ~> LoginAtRest(r)
    /\ \A q \in LoginFinishes : assertPc[q] # "idle" ~> AssertAtRest(q)
    /\ \A l \in Logouts : logoutPc[l] # "idle" ~> LogoutAtRest(l)

(* Whoever takes the write lock gives it back, whatever fails inside.      *)
WriteLockComesFree == writer # None ~> writer = None

----------------------------------------------------------------------------
(* The halves.  Each sees the database without what only the other half    *)
(* writes, and no transaction of the other half's.                         *)

ImageFor(half) == IF writer \in half THEN view ELSE db
WriterFor(half) == IF writer \in half THEN writer ELSE None

Registering(d) ==
    [d EXCEPT
       !.credentials = {[k EXCEPT !.sign_count = command[k.user_id].sign_count] :
                          k \in @},
       !.refresh_tokens = {[t EXCEPT !.revoked_at = None] :
                             t \in {s \in @ : s.token_hash \in RegFinishes}},
       !.login_sessions = {}]

RegistrationHalf == INSTANCE Registration WITH
    db <- Registering(db),
    view <- Registering(ImageFor(RegFinishes)),
    writer <- WriterFor(RegFinishes)

(* Logins and logouts do not disturb registration: what is shown of module *)
(* Registration, the promise of module Accounts included, holds of the     *)
(* whole service.                                                          *)
ImplementsRegistration == RegistrationHalf!Spec

SigningIn(d) == [d EXCEPT !.registration_sessions = {}]
EnrolledPairs ==
    [p \in RegFinishes |-> IF p \in Registered THEN issued[p] ELSE None]

SessionsHalf == INSTANCE Sessions WITH
    db <- SigningIn(db),
    view <- SigningIn(ImageFor(LoginFinishes)),
    writer <- WriterFor(LoginFinishes),
    enrolled <- EnrolledPairs

(* Registration is the one step that modules Login and Sessions take it    *)
(* for: what is shown of them, that logins and logouts keep the promise of *)
(* module Grants included, holds of the whole service.                     *)
ImplementsSessions == SessionsHalf!SessionsSpec

----------------------------------------------------------------------------
(* The promises, of the service as a whole.  A session is offered once it  *)
(* is answered for, and spent when its row is gone.                        *)

Offers == {r \in RegStarts : startReply[r] = "OK"}

PersonIn(people) == IF people = {} THEN None ELSE CHOOSE p \in people : TRUE
NamedBy(h) == {u.id : u \in {v \in db.users : v.handle = h}}
HoldersOf(c) == {k.user_id : k \in {j \in db.credentials : j.credential_id = c}}

AccountsPromise == INSTANCE Accounts WITH
    Ceremonies <- RegStarts,
    People <- RegFinishes,
    Passkeys <- CredIDs,
    wanted <- [r \in RegStarts |-> IF r \in Offers THEN opened[r].handle ELSE None],
    spent <- {r \in Offers : \A s \in db.registration_sessions : s.id # r},
    owner <- [h \in Handles |-> PersonIn(NamedBy(h))],
    holder <- [c \in CredIDs |-> PersonIn(HoldersOf(c))]

(* To an observer of the committed tables each registration happens at one *)
(* instant or not at all, whatever logins, logouts and failures overlap    *)
(* it; handles and passkeys have one owner for ever.                       *)
ImplementsAccounts == AccountsPromise!Spec

GrantOf(t) == [name  |-> t.token_hash,
               owner |-> t.user_id,
               epoch |-> PairIn(t.token_hash).key,
               live  |-> t.revoked_at = None]

GrantsPromise == INSTANCE Grants WITH
    People <- RegFinishes,
    Names <- RegFinishes \cup LoginFinishes,
    epoch <- boots,
    given <- {GrantOf(t) : t \in db.refresh_tokens}

(* An account brings its first grant, a login one more, and a logout ends  *)
(* at one instant all that its user has, for which it takes an access      *)
(* token of the running process.                                           *)
ImplementsGrants == GrantsPromise!Spec
=============================================================================
