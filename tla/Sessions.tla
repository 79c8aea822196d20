------------------------------ MODULE Sessions ------------------------------
(***************************************************************************)
(* Login and logout together: the two login slices as module Login has     *)
(* them, with requests of the logout slice beside them over the same       *)
(* database.  Clients present the access tokens they were answered with,   *)
(* late, again, or after the process that signed them has ended.           *)
(***************************************************************************)
EXTENDS Login, SessionsLogout

VARIABLE enrolled    \* the token pair that each registration answered with

sessionsVars == <<vars, logoutVars, enrolled>>

SessionsInit ==
    /\ Init
    /\ LogoutInit
    /\ enrolled = [u \in RegFinishes |-> None]

(* The requests whose access token a client may have, and those tokens.    *)
Holding == {u \in RegFinishes : enrolled[u] # None}
               \cup {q \in LoginFinishes : /\ assertPc[q] = "done"
                                           /\ assertReply[q] = "OK"}
PairOf(g) == IF g \in RegFinishes THEN enrolled[g] ELSE loginIssued[g]
OwnerOf(g) == IF g \in RegFinishes THEN g ELSE target[g].user_id
AccessTokenOf(g) == AccessTokenIn(PairOf(g), g, OwnerOf(g))

LogoutArrives(l) ==
    \/ RejectBearer(l)
    \/ \E g \in Holding : \/ AuthenticateLogout(l, AccessTokenOf(g))
                          \/ AccessTokenInvalid(l, AccessTokenOf(g))

LogoutStep(l) ==
    /\ LogoutArrives(l) \/ LogoutProceeds(l) \/ LogoutFails(l)
    /\ UNCHANGED <<loginVars, assertVars, authenticatorVars, enrolled>>

(* A registration, and the token pair in its answer.                       *)
Enroll ==
    /\ \E u \in RegFinishes, h \in Handles, k \in CredIDs,
          n \in SignCounts, t \in 0 .. MaxTime :
          /\ Register(u, h, k, n, t)
          /\ enrolled' = [enrolled EXCEPT ![u] = GenerateTokenPair(t, boots)]
    /\ UNCHANGED <<loginVars, assertVars, authenticatorVars, logoutVars>>

SessionsRestart == Restart /\ LogoutKilled /\ UNCHANGED enrolled

SessionsQuiescent ==
    /\ Quiescent
    /\ \A l \in Logouts : LogoutAtRest(l)
    /\ UNCHANGED <<logoutVars, enrolled>>

SessionsNext ==
    \/ \E r \in LoginStarts : LoginStep(r) /\ UNCHANGED <<logoutVars, enrolled>>
    \/ \E q \in LoginFinishes : AssertStep(q) /\ UNCHANGED <<logoutVars, enrolled>>
    \/ \E l \in Logouts : LogoutStep(l)
    \/ Enroll
    \/ SignStep /\ UNCHANGED <<logoutVars, enrolled>>
    \/ ClockStep /\ UNCHANGED <<logoutVars, enrolled>>
    \/ SessionsRestart
    \/ SessionsQuiescent

SessionsSpec == SessionsInit /\ [][SessionsNext]_sessionsVars

----------------------------------------------------------------------------

LoggedOut == {l \in Logouts : logoutReply[l] = "OK"}

(* A client that is answered 204 has ended the session it logged out of:   *)
(* the refresh token that was issued with the access token it presented is *)
(* there and revoked, and stays so, although the access token does not     *)
(* name it and logins of the same user commit meanwhile.                   *)
LogoutEndsTheSession ==
    \A l \in LoggedOut : \E t \in db.refresh_tokens :
        /\ t.token_hash = verifyInput[l].token.from
        /\ t.revoked_at # None

(* A refresh token is revoked only by a logout of its own user: one that   *)
(* presented an access token of that user's, signed by the very process    *)
(* that served it and not older than an access token may be.               *)
RevokedByItsOwner ==
    \A t \in db.refresh_tokens :
        t.revoked_at # None =>
          \E l \in LoggedOut :
            LET token == verifyInput[l].token IN
              /\ \E own \in db.refresh_tokens : /\ own.token_hash = token.from
                                                /\ own.user_id = t.user_id
              /\ token.key = verifyInput[l].key
              /\ verifyInput[l].now <
                     FromUnix(token.iat + 1) + AccessTTL
              /\ t.revoked_at = Unix(revocation[l].now)

(* UNAUTHORIZED is answered for a reason: no token, one of an earlier      *)
(* process, or one in the last second of its life or past it.              *)
UnauthorizedIsTrue ==
    \A l \in Logouts :
        logoutReply[l] = "UNAUTHORIZED" =>
          \/ verifyInput[l] = None
          \/ verifyInput[l].token.key < verifyInput[l].key
          \/ FromUnix(verifyInput[l].token.iat) + AccessTTL
                 < verifyInput[l].now + TicksPerSecond

(* What is revoked stays revoked, as of the time it was first revoked: a   *)
(* second logout, a retry or a login that finishes later changes no row    *)
(* that a logout has closed.                                               *)
RevocationIsFinal ==
    [][\A t \in db.refresh_tokens :
          t.revoked_at # None => t \in db'.refresh_tokens]_sessionsVars

----------------------------------------------------------------------------

(* Login does not notice that there are logouts: with revocations put out  *)
(* of sight, every behaviour is one of module Login, so what is shown of   *)
(* login there holds here.                                                 *)
Unrevoked(d) ==
    [d EXCEPT !.refresh_tokens = {[t EXCEPT !.revoked_at = None] : t \in @}]

LoginAlone == INSTANCE Login WITH
    db <- Unrevoked(db),
    view <- Unrevoked(view)

ImplementsLogin == LoginAlone!Spec

(* The refresh tokens of the database are the grants of module Grants: a   *)
(* login gives one, a logout ends all that its user has at one instant and *)
(* none that is given later, and only with an access token whose key is    *)
(* still in use.                                                           *)
Promised == INSTANCE Grants WITH
    People <- RegFinishes,
    Names <- RegFinishes \cup LoginFinishes,
    epoch <- boots,
    given <- {[name  |-> t.token_hash,
               owner |-> t.user_id,
               epoch |-> PairOf(t.token_hash).key,
               live  |-> t.revoked_at = None] : t \in db.refresh_tokens}

ImplementsGrants == Promised!Spec
=============================================================================
