--------------------------- MODULE SessionsLogout ---------------------------
(***************************************************************************)
(* internal/slice/sessions_logout: DELETE /v1/sessions/current.            *)
(*                                                                         *)
(* A request verifies the access token of its Authorization header, reads  *)
(* the clock again for the time of the revocation, and then, with one      *)
(* autocommitted UPDATE, revokes every refresh token of the token's user   *)
(* that is not revoked yet.  It never looks at the refresh token that came *)
(* with the access token, which carries no name of it.                     *)
(***************************************************************************)
EXTENDS Tokens

CONSTANT Logouts    \* invocations of DELETE /v1/sessions/current

VARIABLES
    logoutPc,       \* what a request does next
    logoutReply,    \* the code it answers with; "OK" from its UPDATE on
    verifyInput,    \* the VerifyAccessTokenInput
    revocation      \* the RevokeUserSessionsInput

logoutVars == <<logoutPc, logoutReply, verifyInput, revocation>>

LogoutRunning == {"stamp", "revoke", "respond"}
LogoutPcs == {"idle", "done", "lost", "killed"} \cup LogoutRunning
LogoutReplies == {"OK", "UNAUTHORIZED", "db_locked", "db_disk_full",
                  "INTERNAL_ERROR", None}

VerifyAccessTokenInput == [token : AccessToken, key : Nat, now : Nat]
RevokeUserSessionsInput == [user_id : RegFinishes, now : Nat]

ASSUME LogoutAssumption == None \notin VerifyAccessTokenInput

(* Mutants of RevokeTokens: WHERE user_id only; WHERE revoked_at only;     *)
(* DELETE.                                                                 *)
RevokeAgain(d, u, s) ==
    [d EXCEPT !.refresh_tokens = {IF t.user_id = u
                                  THEN [t EXCEPT !.revoked_at = s] ELSE t : t \in @}]
RevokeEverybodys(d, u, s) ==
    [d EXCEPT !.refresh_tokens = {IF t.revoked_at = None
                                  THEN [t EXCEPT !.revoked_at = s] ELSE t : t \in @}]
DeleteTokens(d, u, s) ==
    [d EXCEPT !.refresh_tokens = {t \in @ : t.user_id # u}]

(* UPDATE refresh_tokens SET revoked_at = s                                *)
(*  WHERE user_id = u AND revoked_at IS NULL                               *)
RevokeTokens(d, u, s) ==
    [d EXCEPT !.refresh_tokens = {IF t.user_id = u /\ t.revoked_at = None
                                  THEN [t EXCEPT !.revoked_at = s] ELSE t : t \in @}]

LogoutGoes(l, pc) == logoutPc' = [logoutPc EXCEPT ![l] = pc]

AnswerLogout(l, code) ==
    /\ LogoutGoes(l, "respond")
    /\ logoutReply' = [logoutReply EXCEPT ![l] = code]

VerifyWith(l, token) ==
    verifyInput' = [verifyInput EXCEPT
                      ![l] = [token |-> token, key |-> boots, now |-> now]]

----------------------------------------------------------------------------

(* No Authorization header, another scheme, an empty token, or a text that *)
(* is not a token.                                                         *)
RejectBearer(l) ==
    /\ logoutPc[l] = "idle"
    /\ AnswerLogout(l, "UNAUTHORIZED")
    /\ UNCHANGED <<verifyInput, revocation, storeVars>>

AuthenticateLogout(l, token) ==
    /\ logoutPc[l] = "idle"
    /\ VerifyWith(l, token)
    /\ VerifyAccessToken(token, boots, now)
    /\ LogoutGoes(l, "stamp")
    /\ UNCHANGED <<logoutReply, revocation, storeVars>>

AccessTokenInvalid(l, token) ==
    /\ logoutPc[l] = "idle"
    /\ VerifyWith(l, token)
    /\ ~VerifyAccessToken(token, boots, now)
    /\ AnswerLogout(l, "UNAUTHORIZED")
    /\ UNCHANGED <<revocation, storeVars>>

StampRevocation(l) ==
    /\ logoutPc[l] = "stamp"
    /\ revocation' = [revocation EXCEPT
                        ![l] = [user_id |-> verifyInput[l].token.sub, now |-> now]]
    /\ LogoutGoes(l, "revoke")
    /\ UNCHANGED <<logoutReply, verifyInput, storeVars>>

(* Mutant of RevokeUserSessions: the UPDATE runs in a transaction that     *)
(* nobody commits.                                                         *)
RevokeAndHold(l) ==
    /\ logoutPc[l] = "revoke"
    /\ FirstWrite(l, RevokeTokens(db, revocation[l].user_id,
                                  Unix(revocation[l].now)))
    /\ AnswerLogout(l, "OK")
    /\ UNCHANGED <<verifyInput, revocation>>

(* The UPDATE waits for the write lock; it does not look at the number of  *)
(* rows it affected.                                                       *)
RevokeUserSessions(l) ==
    /\ logoutPc[l] = "revoke"
    /\ Autocommit(RevokeTokens(db, revocation[l].user_id,
                               Unix(revocation[l].now)))
    /\ AnswerLogout(l, "OK")
    /\ UNCHANGED <<verifyInput, revocation>>

RevokeFails(l, f) ==
    /\ logoutPc[l] = "revoke"
    /\ AnswerLogout(l, WriteError(f))
    /\ UNCHANGED <<verifyInput, revocation, storeVars>>

RespondLogout(l) ==
    /\ logoutPc[l] = "respond"
    /\ \E end \in {"done", "lost"} : LogoutGoes(l, end)
    /\ UNCHANGED <<logoutReply, verifyInput, revocation, storeVars>>

----------------------------------------------------------------------------

LogoutProceeds(l) ==
    \/ StampRevocation(l)
    \/ RevokeUserSessions(l)
    \/ RespondLogout(l)

LogoutFails(l) == \E f \in Faults : RevokeFails(l, f)

LogoutKilled ==
    /\ logoutPc' = [l \in Logouts |-> IF logoutPc[l] \in LogoutRunning
                                      THEN "killed" ELSE logoutPc[l]]
    /\ UNCHANGED <<logoutReply, verifyInput, revocation>>

LogoutAtRest(l) == logoutPc[l] \in {"done", "lost", "killed"}

LogoutInit ==
    /\ logoutPc = [l \in Logouts |-> "idle"]
    /\ logoutReply = [l \in Logouts |-> None]
    /\ verifyInput = [l \in Logouts |-> None]
    /\ revocation = [l \in Logouts |-> None]

LogoutTypeOK ==
    /\ logoutPc \in [Logouts -> LogoutPcs]
    /\ logoutReply \in [Logouts -> LogoutReplies]
    /\ verifyInput \in [Logouts -> VerifyAccessTokenInput \cup {None}]
    /\ revocation \in [Logouts -> RevokeUserSessionsInput \cup {None}]
=============================================================================
