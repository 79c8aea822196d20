--------------------------- MODULE SessionsProofs ---------------------------
(***************************************************************************)
(* What holds of Sessions, login with logouts beside it, for every value   *)
(* of its constants.                                                       *)
(*                                                                         *)
(* A logout knows its session by the access token alone, which names a     *)
(* user; the invariant therefore follows each token pair from the request  *)
(* that minted it, through the table, to the logout that presents it.      *)
(***************************************************************************)
EXTENDS Sessions, LoginProofs

(* The requests that were given a token pair.                              *)
Enrolled == {u \in RegFinishes : enrolled[u] # None}
Granted == Enrolled \cup LoggedIn

(* generateTokenPair has returned the pair, in this process or an earlier  *)
(* one.                                                                    *)
MintedBy(pair, t, n) ==
    \E s \in 0 .. t, key \in 0 .. n : pair = GenerateTokenPair(s, key)
Minted(pair) == MintedBy(pair, now, boots)

PairsAreMinted ==
    /\ \A u \in Enrolled : Minted(enrolled[u])
    /\ \A q \in LoginFinishes :
         assertPc[q] \in {"updateCount"} \cup LoginTransaction \/ q \in LoggedIn
           => Minted(loginIssued[q])

(* The open transaction has not changed the users, and of the refresh      *)
(* tokens it adds at most its own.                                         *)
PendingTokens ==
    /\ \A q \in LoginFinishes : assertPc[q] \in LoginTransaction <=> writer = q
    /\ writer = None => view = db
    /\ \A q \in LoginFinishes :
         assertPc[q] \in LoginTransaction =>
           /\ view.users = db.users
           /\ \/ /\ assertPc[q] = "insertToken"
                 /\ view.refresh_tokens = db.refresh_tokens
              \/ /\ assertPc[q] # "insertToken"
                 /\ view.refresh_tokens = db.refresh_tokens \cup {LoginTokenOf(q)}

(* Whoever was given a token pair has its refresh token in the table.      *)
GrantsAreStored ==
    /\ \A u \in Enrolled : \E row \in db.users : row.id = u
    /\ \A g \in Granted : \E t \in db.refresh_tokens :
          t.token_hash = g /\ t.user_id = OwnerOf(g)

(* What a logout request knows at each point of its handler.               *)
LogoutKnows(l) ==
    /\ logoutPc[l] \in {"idle", "stamp", "revoke"} => logoutReply[l] = None
    /\ logoutPc[l] = "idle" => verifyInput[l] = None
    /\ verifyInput[l] # None
          => /\ verifyInput[l].token.from \in Granted
             /\ verifyInput[l].token = AccessTokenOf(verifyInput[l].token.from)
    /\ logoutPc[l] \in {"stamp", "revoke"} \/ l \in LoggedOut
          => /\ verifyInput[l] # None
             /\ VerifyAccessToken(verifyInput[l].token, verifyInput[l].key,
                                  verifyInput[l].now)
    /\ logoutPc[l] = "revoke" \/ l \in LoggedOut
          => /\ revocation[l] \in RevokeUserSessionsInput
             /\ revocation[l].user_id = verifyInput[l].token.sub

SessionsTypeOK ==
    /\ LoginReady
    /\ LogoutTypeOK
    /\ enrolled \in [RegFinishes -> TokenPair \cup {None}]

SessionsInvariant ==
    /\ SessionsTypeOK
    /\ PairsAreMinted
    /\ PendingTokens
    /\ GrantsAreStored
    /\ \A l \in Logouts : LogoutKnows(l)
    /\ LogoutEndsTheSession
    /\ RevokedByItsOwner

----------------------------------------------------------------------------
(* Types.                                                                  *)

(* The UPDATE of a logout, row by row.                                     *)
LEMMA RevokeTokensIs ==
    ASSUME NEW d \in Database, NEW u, NEW s \in Nat
    PROVE  /\ RevokeTokens(d, u, s) \in Database
           /\ RevokeTokens(d, u, s).users = d.users
           /\ RevokeTokens(d, u, s).refresh_tokens =
                 {IF t.user_id = u /\ t.revoked_at = None
                  THEN [t EXCEPT !.revoked_at = s] ELSE t : t \in d.refresh_tokens}
<1>1. \A t \in RefreshTokenRow : [t EXCEPT !.revoked_at = s] \in RefreshTokenRow
  BY DEF RefreshTokenRow
<1>2. {IF t.user_id = u /\ t.revoked_at = None
       THEN [t EXCEPT !.revoked_at = s] ELSE t : t \in d.refresh_tokens}
         \in SUBSET RefreshTokenRow
  BY <1>1 DEF Database
<1> QED
  BY <1>2 DEF RevokeTokens, Database

(* What a row of the table is after that UPDATE: the same refresh token of *)
(* the same user, and the same row if it was revoked before.               *)
LEMMA RevokedRow ==
    ASSUME NEW t \in RefreshTokenRow, NEW u, NEW s \in Nat
    PROVE  LET r == IF t.user_id = u /\ t.revoked_at = None
                    THEN [t EXCEPT !.revoked_at = s] ELSE t IN
             /\ r.token_hash = t.token_hash
             /\ r.user_id = t.user_id
             /\ t.revoked_at # None => r = t
             /\ t.user_id = u => r.revoked_at # None
             /\ r.revoked_at # None
                  => r = t \/ (t.user_id = u /\ r.revoked_at = s)
BY StoreAssumption DEF RefreshTokenRow

(* The access token in an answer is one.                                   *)
LEMMA AccessTokenTyped ==
    ASSUME SessionsTypeOK, NEW g \in Granted
    PROVE  /\ PairOf(g) \in TokenPair
           /\ OwnerOf(g) \in RegFinishes
           /\ AccessTokenOf(g) \in AccessToken
<1>1. CASE g \in Enrolled
  <2>1. g \in RegFinishes /\ enrolled[g] \in TokenPair
    BY <1>1 DEF Enrolled, SessionsTypeOK
  <2> QED
    BY <2>1 DEF PairOf, OwnerOf, AccessTokenOf, AccessTokenIn, AccessToken,
                TokenPair
<1>2. CASE g \in LoggedIn
  <2>1. /\ g \in LoginFinishes /\ g \notin RegFinishes
        /\ loginIssued[g] \in TokenPair /\ target[g] \in CredentialRow
    BY <1>2, StoreAssumption DEF LoggedIn, SessionsTypeOK, LoginReady
  <2> QED
    BY <2>1 DEF PairOf, OwnerOf, AccessTokenOf, AccessTokenIn, AccessToken,
                TokenPair, CredentialRow
<1> QED
  BY <1>1, <1>2 DEF Granted

(* Only who was given a token pair can present one.                        *)
LEMMA HoldersAreGranted == Holding \subseteq Granted
BY DEF Holding, Granted, Enrolled, LoggedIn

----------------------------------------------------------------------------
(* Steps.                                                                  *)

(* A step is one of login, or one of a logout that leaves login alone.     *)
LEMMA WhoseStep ==
    ASSUME [SessionsNext]_sessionsVars
    PROVE  \/ [Next]_vars /\ UNCHANGED <<logoutVars, enrolled>>
           \/ Enroll /\ RegisterStep /\ UNCHANGED logoutVars
           \/ Restart /\ LogoutKilled /\ UNCHANGED enrolled
           \/ \E l \in Logouts : LogoutStep(l)
BY DEF SessionsNext, sessionsVars, Enroll, RegisterStep, SessionsRestart,
       SessionsQuiescent, Next

(* What a step of somebody else, or a restart, does to a logout request.   *)
LogoutUnmoved(l) ==
    /\ \/ logoutPc'[l] = logoutPc[l]
       \/ logoutPc[l] \in LogoutRunning /\ logoutPc'[l] = "killed"
    /\ logoutReply'[l] = logoutReply[l]
    /\ verifyInput'[l] = verifyInput[l]
    /\ revocation'[l] = revocation[l]

(* A logout request moves by a step of its own or not at all.              *)
LEMMA LogoutFrame ==
    ASSUME LogoutTypeOK, [SessionsNext]_sessionsVars, NEW l \in Logouts
    PROVE  LogoutUnmoved(l) \/ LogoutStep(l)
<1> USE DEF LogoutTypeOK, LogoutUnmoved
<1>1. ASSUME NEW k \in Logouts, LogoutStep(k), k # l
      PROVE  LogoutUnmoved(l)
  BY <1>1
  DEF LogoutStep, LogoutArrives, LogoutProceeds, LogoutFails, RejectBearer,
      AuthenticateLogout, AccessTokenInvalid, VerifyWith, StampRevocation,
      RevokeUserSessions, RevokeFails, RespondLogout, AnswerLogout, LogoutGoes
<1>2. CASE UNCHANGED logoutVars
  BY <1>2 DEF logoutVars
<1>3. CASE LogoutKilled
  BY <1>3 DEF LogoutKilled
<1> QED
  BY <1>1, <1>2, <1>3, WhoseStep

(* A logout leaves login alone and the store too, unless it revokes.       *)
LEMMA LogoutLeaves ==
    ASSUME NEW l \in Logouts, LogoutStep(l)
    PROVE  /\ UNCHANGED <<loginVars, assertVars, authenticatorVars, enrolled>>
           /\ UNCHANGED storeVars \/ RevokeUserSessions(l)
BY DEF LogoutStep, LogoutArrives, LogoutProceeds, LogoutFails, RejectBearer,
       AuthenticateLogout, AccessTokenInvalid, StampRevocation, RevokeFails,
       RespondLogout

(* A step keeps every variable in its type.                                *)
LEMMA SessionsTypeStep ==
    ASSUME SessionsInvariant, [SessionsNext]_sessionsVars
    PROVE  SessionsTypeOK'
<1>1. LoginReady /\ LogoutTypeOK /\ enrolled \in [RegFinishes -> TokenPair \cup {None}]
  BY DEF SessionsInvariant, SessionsTypeOK
<1>2. CASE [Next]_vars /\ UNCHANGED <<logoutVars, enrolled>>
  BY <1>1, <1>2, ReadyStep DEF SessionsTypeOK, LogoutTypeOK, logoutVars
<1>3. CASE Enroll /\ RegisterStep /\ UNCHANGED logoutVars
  <2>1. LoginReady'
    BY <1>1, <1>3, ReadyStep DEF Next
  <2>2. boots \in Nat
    BY <1>1 DEF LoginReady, TypeOK, StoreTypeOK
  <2>3. PICK u \in RegFinishes, t \in 0 .. MaxTime :
           enrolled' = [enrolled EXCEPT ![u] = GenerateTokenPair(t, boots)]
    BY <1>3 DEF Enroll
  <2>4. GenerateTokenPair(t, boots) \in TokenPair
    BY <2>2, TokenPairTyped, StoreAssumption
  <2> QED
    BY <1>1, <1>3, <2>1, <2>3, <2>4 DEF SessionsTypeOK, LogoutTypeOK, logoutVars
<1>4. CASE Restart /\ LogoutKilled /\ UNCHANGED enrolled
  <2>1. LoginReady'
    BY <1>1, <1>4, ReadyStep DEF Next
  <2> QED
    BY <1>1, <1>4, <2>1
    DEF SessionsTypeOK, LogoutTypeOK, LogoutKilled, LogoutPcs, LogoutRunning
<1>5. ASSUME NEW l \in Logouts, LogoutStep(l)
      PROVE  SessionsTypeOK'
  <2>1. LogoutKnows(l) /\ TypeOK /\ StoreTypeOK
    BY <1>1 DEF SessionsInvariant, LoginReady, TypeOK
  <2>2. UNCHANGED <<loginVars, assertVars, authenticatorVars, enrolled>>
    BY <1>5, LogoutLeaves
  <2>3. StoreTypeOK'
    <3>1. CASE UNCHANGED storeVars
      BY <2>1, <3>1 DEF StoreTypeOK, storeVars
    <3>2. CASE RevokeUserSessions(l)
      <4>1. Unix(revocation[l].now) \in Nat
        BY <2>1, <3>2, UnixTyped
        DEF RevokeUserSessions, LogoutKnows, RevokeUserSessionsInput
      <4> QED
        BY <2>1, <3>2, <4>1, RevokeTokensIs
        DEF RevokeUserSessions, Autocommit, StoreTypeOK
    <3> QED
      BY <1>5, <3>1, <3>2, LogoutLeaves
  <2>4. LoginReady'
    BY <1>1, <2>2, <2>3
    DEF LoginReady, TypeOK, LoginTypeOK, AssertTypeOK, AuthenticatorTypeOK,
        LoggedIn, loginVars, assertVars, authenticatorVars
  <2>5. LogoutTypeOK'
    <3> USE <1>1, <2>1
        DEF LogoutTypeOK, LogoutPcs, LogoutRunning, LogoutReplies
    <3>1. CASE \/ RejectBearer(l) \/ RevokeUserSessions(l) \/ RespondLogout(l)
               \/ LogoutFails(l)
      BY <3>1, ErrorTyped
      DEF RejectBearer, RevokeUserSessions, RespondLogout, LogoutFails,
          RevokeFails, AnswerLogout, LogoutGoes
    <3>2. ASSUME NEW g \in Holding,
                 \/ AuthenticateLogout(l, AccessTokenOf(g))
                 \/ AccessTokenInvalid(l, AccessTokenOf(g))
          PROVE  LogoutTypeOK'
      <4>1. [token |-> AccessTokenOf(g), key |-> boots, now |-> now]
               \in VerifyAccessTokenInput
        BY AccessTokenTyped, HoldersAreGranted
        DEF SessionsInvariant, VerifyAccessTokenInput, StoreTypeOK
      <4> QED
        BY <3>2, <4>1
        DEF AuthenticateLogout, AccessTokenInvalid, VerifyWith, AnswerLogout,
            LogoutGoes
    <3>3. CASE StampRevocation(l)
      <4>1. verifyInput[l].token.sub \in RegFinishes
        BY <3>3
        DEF StampRevocation, LogoutKnows, VerifyAccessTokenInput, AccessToken
      <4>2. [user_id |-> verifyInput[l].token.sub, now |-> now]
               \in RevokeUserSessionsInput
        BY <4>1 DEF RevokeUserSessionsInput, StoreTypeOK
      <4> QED
        BY <3>3, <4>2 DEF StampRevocation, LogoutGoes
    <3> QED
      BY <1>5, <3>1, <3>2, <3>3 DEF LogoutStep, LogoutArrives, LogoutProceeds
  <2> QED
    BY <1>1, <2>2, <2>4, <2>5 DEF SessionsTypeOK
<1> QED
  BY <1>2, <1>3, <1>4, <1>5, WhoseStep

(* Who was given a token pair keeps it, and is the same person's: uuid.New *)
(* gives no second registration the id of a user.                          *)
LEMMA GrantsStay ==
    ASSUME SessionsInvariant, [SessionsNext]_sessionsVars, NEW g \in Granted
    PROVE  g \in Granted' /\ PairOf(g)' = PairOf(g) /\ OwnerOf(g)' = OwnerOf(g)
<1>1. SessionsTypeOK /\ LoginReady
  BY DEF SessionsInvariant, SessionsTypeOK
<1>2. CASE g \in Enrolled
  <2>1. g \in RegFinishes /\ \E row \in db.users : row.id = g
    BY <1>2 DEF SessionsInvariant, GrantsAreStored, Enrolled
  <2>2. enrolled'[g] = enrolled[g]
    <3>1. CASE Enroll
      <4>1. PICK u \in RegFinishes, h \in Handles, k \in CredIDs,
                 n \in SignCounts, t \in 0 .. MaxTime :
               /\ Register(u, h, k, n, t)
               /\ enrolled' = [enrolled EXCEPT ![u] = GenerateTokenPair(t, boots)]
        BY <3>1 DEF Enroll
      <4>2. u # g
        BY <2>1, <4>1 DEF Register
      <4> QED
        BY <1>1, <2>1, <4>1, <4>2 DEF SessionsTypeOK
    <3> QED
      BY <3>1, WhoseStep, LogoutLeaves
  <2> QED
    BY <1>2, <2>1, <2>2 DEF Granted, Enrolled, PairOf, OwnerOf
<1>3. CASE g \in LoggedIn
  <2>1. g \in LoginFinishes /\ g \notin RegFinishes
    BY <1>3, StoreAssumption DEF LoggedIn
  <2>2. /\ g \in LoggedIn' /\ target'[g] = target[g]
        /\ loginIssued'[g] = loginIssued[g]
    <3>1. CASE [Next]_vars
      BY <1>1, <1>3, <2>1, <3>1, LoggedInStays
    <3>2. CASE \E l \in Logouts : LogoutStep(l)
      BY <1>3, <3>2, LogoutLeaves DEF assertVars, LoggedIn
    <3> QED
      BY <3>1, <3>2, WhoseStep DEF Next
  <2> QED
    BY <2>1, <2>2 DEF Granted, PairOf, OwnerOf
<1> QED
  BY <1>2, <1>3 DEF Granted

(* What a step does to the users and the refresh tokens.                   *)
LEMMA TokenSteps ==
    ASSUME SessionsInvariant, [SessionsNext]_sessionsVars
    PROVE  \/ /\ Granted' = Granted
              /\ db'.users = db.users
              /\ db'.refresh_tokens = db.refresh_tokens
           \/ \E q \in LoginFinishes :
              /\ AssertStep(q) /\ CommitLogin(q)
              /\ Granted' = Granted \cup {q}
              /\ q \in LoggedIn'
              /\ db'.users = db.users
              /\ db'.refresh_tokens = db.refresh_tokens \cup {LoginTokenOf(q)'}
           \/ \E u \in RegFinishes, h \in Handles, e \in Nat :
              /\ \A row \in db.users : row.id # u
              /\ enrolled'[u].key = boots
              /\ Granted' = Granted \cup {u}
              /\ db'.users = db.users \cup {[id |-> u, handle |-> h]}
              /\ db'.refresh_tokens = db.refresh_tokens \cup
                    {[token_hash |-> u, user_id |-> u, expires_at |-> e,
                      revoked_at |-> None]}
           \/ \E l \in Logouts :
              /\ LogoutStep(l) /\ RevokeUserSessions(l)
              /\ Granted' = Granted
              /\ revocation[l] \in RevokeUserSessionsInput
              /\ db'.users = db.users
              /\ db'.refresh_tokens =
                    {IF t.user_id = revocation[l].user_id /\ t.revoked_at = None
                     THEN [t EXCEPT !.revoked_at = Unix(revocation[l].now)]
                     ELSE t : t \in db.refresh_tokens}
<1>1. /\ SessionsTypeOK /\ LoginReady /\ TypeOK /\ StoreTypeOK /\ AssertTypeOK
      /\ PendingTokens
  BY DEF SessionsInvariant, SessionsTypeOK, LoginReady, TypeOK
<1>2. ASSUME NEW q \in LoginFinishes, AssertStep(q), CommitLogin(q),
             enrolled' = enrolled
      PROVE  /\ Granted' = Granted \cup {q}
             /\ q \in LoggedIn'
             /\ db'.users = db.users
             /\ db'.refresh_tokens = db.refresh_tokens \cup {LoginTokenOf(q)'}
  <2>1. /\ LoggedIn' = LoggedIn \cup {q}
        /\ LoginTokenOf(q)' = LoginTokenOf(q)
    BY <1>1, <1>2
    DEF CommitLogin, AnswerAssertion, LoggedIn, AssertTypeOK, LoginTokenOf
  <2>2. /\ db' = view /\ view.users = db.users
        /\ view.refresh_tokens = db.refresh_tokens \cup {LoginTokenOf(q)}
    BY <1>1, <1>2 DEF CommitLogin, Commit, PendingTokens, LoginTransaction
  <2> QED
    BY <1>2, <2>1, <2>2 DEF Granted, Enrolled
<1> DEFINE Same == /\ Granted' = Granted
                   /\ db'.users = db.users
                   /\ db'.refresh_tokens = db.refresh_tokens
<1>3. ASSUME NEW r \in LoginStarts, LoginStep(r), enrolled' = enrolled
      PROVE  Same
  <2>1. Granted' = Granted
    BY <1>3 DEF LoginStep, assertVars, Granted, Enrolled, LoggedIn
  <2> QED
    BY <1>1, <1>3, <2>1, LoginDb, PersistPublishes
<1>4. ASSUME NEW q \in LoginFinishes, AssertStep(q), enrolled' = enrolled,
             \A p \in LoginFinishes : ~(AssertStep(p) /\ CommitLogin(p))
      PROVE  Same
  <2>1. \A p \in LoginFinishes : p \in LoggedIn' <=> p \in LoggedIn
    BY <1>1, <1>4, LoggedInStays DEF Next
  <2>2. LoggedIn' = LoggedIn
    BY <2>1 DEF LoggedIn
  <2> QED
    BY <1>4, <2>2, AssertDb DEF Granted, Enrolled
<1>5. ASSUME SignStep \/ ClockStep \/ Restart \/ UNCHANGED vars,
             enrolled' = enrolled
      PROVE  Same
  BY <1>5
  DEF SignStep, ClockStep, Tick, Restart, Reboot, AssertKilled, vars,
      storeVars, assertVars, Granted, Enrolled, LoggedIn
<1>6. ASSUME NEW u \in RegFinishes, NEW h \in Handles, NEW k \in CredIDs,
             NEW n \in SignCounts, NEW t \in 0 .. MaxTime,
             Register(u, h, k, n, t), UNCHANGED assertVars,
             enrolled' = [enrolled EXCEPT ![u] = GenerateTokenPair(t, boots)]
      PROVE  \E e \in Nat :
              /\ \A row \in db.users : row.id # u
              /\ enrolled'[u].key = boots
              /\ Granted' = Granted \cup {u}
              /\ db'.users = db.users \cup {[id |-> u, handle |-> h]}
              /\ db'.refresh_tokens = db.refresh_tokens \cup
                    {[token_hash |-> u, user_id |-> u, expires_at |-> e,
                      revoked_at |-> None]}
  <2> DEFINE e == GenerateTokenPair(t, boots).refresh_exp
  <2>1. GenerateTokenPair(t, boots) \in TokenPair
    BY <1>1, TokenPairTyped, StoreAssumption DEF StoreTypeOK
  <2>2. e \in Nat /\ GenerateTokenPair(t, boots) # None
    BY <2>1, TokensAssumption DEF TokenPair
  <2> HIDE DEF e
  <2>3. Granted' = Granted \cup {u}
    BY <1>1, <1>6, <2>2
    DEF Granted, Enrolled, LoggedIn, assertVars, SessionsTypeOK
  <2>4. /\ db'.users = db.users \cup {[id |-> u, handle |-> h]}
        /\ db'.refresh_tokens = db.refresh_tokens \cup
              {[token_hash |-> u, user_id |-> u, expires_at |-> e,
                revoked_at |-> None]}
    BY <1>1, <1>6 DEF Register, Autocommit, StoreTypeOK, Database, e
  <2>5. /\ \A row \in db.users : row.id # u
        /\ enrolled'[u].key = boots
    BY <1>1, <1>6 DEF Register, GenerateTokenPair, SessionsTypeOK
  <2> QED
    BY <2>2, <2>3, <2>4, <2>5
<1>7. ASSUME NEW l \in Logouts, LogoutStep(l)
      PROVE  \/ Same
             \/ /\ LogoutStep(l) /\ RevokeUserSessions(l)
                /\ Granted' = Granted
                /\ revocation[l] \in RevokeUserSessionsInput
                /\ db'.users = db.users
                /\ db'.refresh_tokens =
                      {IF t.user_id = revocation[l].user_id /\ t.revoked_at = None
                       THEN [t EXCEPT !.revoked_at = Unix(revocation[l].now)]
                       ELSE t : t \in db.refresh_tokens}
  <2>1. Granted' = Granted
    BY <1>7, LogoutLeaves DEF assertVars, Granted, Enrolled, LoggedIn
  <2>2. CASE UNCHANGED storeVars
    BY <2>1, <2>2 DEF storeVars
  <2>3. CASE RevokeUserSessions(l)
    <3>1. revocation[l] \in RevokeUserSessionsInput
      BY <2>3 DEF SessionsInvariant, LogoutKnows, RevokeUserSessions
    <3>2. Unix(revocation[l].now) \in Nat
      BY <3>1, UnixTyped DEF RevokeUserSessionsInput
    <3>3. db' = RevokeTokens(db, revocation[l].user_id, Unix(revocation[l].now))
      BY <2>3 DEF RevokeUserSessions, Autocommit
    <3>4. db \in Database
      BY <1>1 DEF StoreTypeOK
    <3> QED
      BY <1>7, <2>1, <2>3, <3>1, <3>2, <3>3, <3>4, RevokeTokensIs
  <2> QED
    BY <1>7, <2>2, <2>3, LogoutLeaves
<1>8. CASE Enroll
  <2>1. PICK u \in RegFinishes, h \in Handles, k \in CredIDs,
             n \in SignCounts, t \in 0 .. MaxTime :
           /\ Register(u, h, k, n, t)
           /\ enrolled' = [enrolled EXCEPT ![u] = GenerateTokenPair(t, boots)]
    BY <1>8 DEF Enroll
  <2>2. UNCHANGED assertVars
    BY <1>8 DEF Enroll
  <2>3. PICK e \in Nat :
           /\ \A row \in db.users : row.id # u
           /\ enrolled'[u].key = boots
           /\ Granted' = Granted \cup {u}
           /\ db'.users = db.users \cup {[id |-> u, handle |-> h]}
           /\ db'.refresh_tokens = db.refresh_tokens \cup
                 {[token_hash |-> u, user_id |-> u, expires_at |-> e,
                   revoked_at |-> None]}
    BY <1>6, <2>1, <2>2
  <2> QED
    BY <2>3
<1> HIDE DEF Same
<1>9. CASE /\ \E q \in LoginFinishes : AssertStep(q) /\ CommitLogin(q)
           /\ enrolled' = enrolled
  BY <1>2, <1>9
<1>10. \/ Same
       \/ Enroll
       \/ /\ \E q \in LoginFinishes : AssertStep(q) /\ CommitLogin(q)
          /\ enrolled' = enrolled
       \/ \E l \in Logouts : LogoutStep(l)
  BY <1>3, <1>4, <1>5
  DEF SessionsNext, sessionsVars, SessionsRestart, SessionsQuiescent, Quiescent
<1> QED
  BY <1>7, <1>8, <1>9, <1>10 DEF Same

(* A request of the finish slice moves by a step of its own or not at all. *)
LEMMA FinishFrame ==
    ASSUME AssertTypeOK, [SessionsNext]_sessionsVars, NEW q \in LoginFinishes
    PROVE  AssertUnmoved(q) \/ AssertStep(q)
<1>1. CASE [Next]_vars
  BY <1>1, AssertFrame
<1>2. CASE \E l \in Logouts : LogoutStep(l)
  BY <1>2, LogoutLeaves DEF assertVars, AssertUnmoved
<1> QED
  BY <1>1, <1>2, WhoseStep DEF Next

(* Time passes and processes follow each other.                            *)
LEMMA ClockAdvances ==
    ASSUME StoreTypeOK, [SessionsNext]_sessionsVars
    PROVE  /\ now <= now' /\ now' \in Nat
           /\ boots <= boots' /\ boots' \in Nat
           /\ boots' = boots \/ (SessionsRestart /\ boots' = boots + 1)
<1> USE DEF StoreTypeOK
<1>1. ASSUME NEW r \in LoginStarts, LoginStep(r)
      PROVE  UNCHANGED <<now, boots>>
  BY <1>1
  DEF LoginStep, LoginArrives, LoginProceeds, LoginFails, RejectLoginHandle,
      LoadUser, UserNotFound, LoadCredentials, OpenLoginSession,
      PersistLoginSession, Autocommit, LoadUserCredentialsFails,
      PersistLoginFails, RespondLogin, storeVars
<1>2. ASSUME NEW q \in LoginFinishes, AssertStep(q)
      PROVE  UNCHANGED <<now, boots>>
  <2>1. CASE AssertArrives(q)
    BY <2>1
    DEF AssertArrives, RejectAssertion, AcceptAssertion, storeVars
  <2>2. CASE AssertProceeds(q)
    BY <2>2
    DEF AssertProceeds, LoadLoginSession, LoginSessionNotFound,
        NewFreshLoginSession, LoginSessionExpired, LoadCredential,
        CredentialNotFound, LoadOwner, VerifyAssertion, AssertionInvalid,
        UpdateSignCount, InsertLoginToken, DeleteLoginSession, CommitLogin,
        RespondAssertion, FirstWrite, NextWrite, Commit, storeVars
  <2>3. CASE AssertFails(q)
    BY <2>3
    DEF AssertFails, LoadAssertionFails, FinishLoginFails, Rollback, storeVars
  <2> QED
    BY <1>2, <2>1, <2>2, <2>3 DEF AssertStep
<1>3. ASSUME Enroll \/ SignStep
      PROVE  UNCHANGED <<now, boots>>
  <2>1. CASE Enroll
    <3>1. PICK u \in RegFinishes, h \in Handles, k \in CredIDs,
               n \in SignCounts, t \in 0 .. MaxTime : Register(u, h, k, n, t)
      BY <2>1 DEF Enroll
    <3> QED
      BY <3>1 DEF Register, Autocommit
  <2>2. CASE SignStep
    BY <2>2 DEF SignStep, storeVars
  <2> QED
    BY <1>3, <2>1, <2>2
<1>4. ASSUME NEW l \in Logouts, LogoutStep(l)
      PROVE  UNCHANGED <<now, boots>>
  BY <1>4, LogoutLeaves DEF RevokeUserSessions, Autocommit, storeVars
<1>5. CASE ClockStep
  BY <1>5 DEF ClockStep, Tick
<1>6. CASE SessionsRestart
  BY <1>6 DEF SessionsRestart, Restart, Reboot
<1>7. ASSUME SessionsQuiescent \/ UNCHANGED sessionsVars
      PROVE  UNCHANGED <<now, boots>>
  BY <1>7 DEF SessionsQuiescent, Quiescent, sessionsVars, vars, storeVars
<1>8. \/ \E r \in LoginStarts : LoginStep(r)
      \/ \E q \in LoginFinishes : AssertStep(q)
      \/ \E l \in Logouts : LogoutStep(l)
      \/ Enroll \/ SignStep \/ ClockStep \/ SessionsRestart
      \/ SessionsQuiescent \/ UNCHANGED sessionsVars
  BY DEF SessionsNext
<1>9. ASSUME UNCHANGED <<now, boots>>
      PROVE  /\ now <= now' /\ now' \in Nat
             /\ boots <= boots' /\ boots' \in Nat /\ boots' = boots
  BY <1>9
<1> QED
  BY <1>1, <1>2, <1>3, <1>4, <1>5, <1>6, <1>7, <1>8, <1>9

(* A step keeps every token pair one that was minted.                      *)
LEMMA MintedStep ==
    ASSUME SessionsInvariant, [SessionsNext]_sessionsVars
    PROVE  PairsAreMinted'
<1>1. /\ SessionsTypeOK /\ LoginReady /\ StoreTypeOK /\ AssertTypeOK
      /\ PairsAreMinted
  BY DEF SessionsInvariant, SessionsTypeOK, LoginReady, TypeOK
<1>2. \A pair : MintedBy(pair, now, boots) => MintedBy(pair, now', boots')
  BY <1>1, ClockAdvances DEF MintedBy, StoreTypeOK
<1>3. ASSUME NEW t \in Nat, t <= now
      PROVE  MintedBy(GenerateTokenPair(t, boots), now, boots)
  BY <1>1, <1>3 DEF MintedBy, StoreTypeOK
<1>4. ASSUME NEW u \in Enrolled'
      PROVE  Minted(enrolled[u])'
  <2>1. CASE u \in Enrolled /\ enrolled'[u] = enrolled[u]
    BY <1>1, <1>2, <2>1 DEF PairsAreMinted, Minted
  <2>2. CASE ~(u \in Enrolled /\ enrolled'[u] = enrolled[u])
    <3>1. Enroll
      BY <1>4, <2>2, WhoseStep, LogoutLeaves DEF Enrolled
    <3>2. PICK v \in RegFinishes, h \in Handles, k \in CredIDs,
               n \in SignCounts, t \in 0 .. MaxTime :
             /\ Register(v, h, k, n, t)
             /\ enrolled' = [enrolled EXCEPT ![v] = GenerateTokenPair(t, boots)]
      BY <3>1 DEF Enroll
    <3>3. enrolled'[u] = GenerateTokenPair(t, boots)
      BY <1>1, <1>4, <2>2, <3>2 DEF Enrolled, SessionsTypeOK
    <3>4. t \in Nat /\ t <= now
      BY <3>2, StoreAssumption DEF Register
    <3> QED
      BY <1>2, <1>3, <3>3, <3>4 DEF Minted
  <2> QED
    BY <2>1, <2>2
<1>5. ASSUME NEW q \in LoginFinishes,
             \/ assertPc'[q] \in {"updateCount"} \cup LoginTransaction
             \/ q \in LoggedIn'
      PROVE  Minted(loginIssued[q])'
  <2>1. CASE /\ \/ assertPc[q] \in {"updateCount"} \cup LoginTransaction
                \/ q \in LoggedIn
             /\ loginIssued'[q] = loginIssued[q]
    BY <1>1, <1>2, <2>1 DEF PairsAreMinted, Minted
  <2>2. CASE AssertUnmoved(q)
    BY <1>5, <2>1, <2>2
    DEF AssertUnmoved, LoggedIn, AssertRunning, LoginTransaction
  <2>3. CASE AssertStep(q) /\ VerifyAssertion(q)
    <3>1. loginIssued'[q] = GenerateTokenPair(now, boots)
      BY <1>1, <2>3 DEF VerifyAssertion, AssertTypeOK
    <3> QED
      BY <1>1, <1>2, <1>3, <3>1 DEF Minted, StoreTypeOK
  <2>4. CASE AssertStep(q) /\ ~VerifyAssertion(q)
    <3> USE <1>1, NoneIsNoReply DEF AssertTypeOK, LoggedIn, LoginTransaction
    <3>1. CASE AssertArrives(q)
      BY <1>5, <2>1, <3>1
      DEF AssertArrives, RejectAssertion, AcceptAssertion, AnswerAssertion,
          AssertGoes
    <3>2. CASE AssertProceeds(q)
      BY <1>5, <2>1, <2>4, <3>2
      DEF AssertProceeds, LoadLoginSession, LoginSessionNotFound,
          NewFreshLoginSession, LoginSessionExpired, LoadCredential,
          CredentialNotFound, LoadOwner, AssertionInvalid, UpdateSignCount,
          InsertLoginToken, DeleteLoginSession, CommitLogin,
          RespondAssertion, AnswerAssertion, AssertGoes
    <3>3. CASE AssertFails(q)
      BY <1>5, <2>1, <3>3, ErrorTyped
      DEF AssertFails, LoadAssertionFails, FinishLoginFails, AnswerAssertion,
          AssertGoes
    <3> QED
      BY <2>4, <3>1, <3>2, <3>3 DEF AssertStep
  <2> QED
    BY <1>1, <2>2, <2>3, <2>4, FinishFrame
<1> QED
  BY <1>4, <1>5 DEF PairsAreMinted

(* What is pending stays so while nobody writes,                           *)
LEMMA PendingFrame ==
    ASSUME PendingTokens, UNCHANGED <<db, view, writer>>,
           \A q \in LoginFinishes :
              \/ AssertUnmoved(q) /\ assertPc'[q] = assertPc[q]
              \/ /\ assertPc[q] \notin LoginTransaction
                 /\ assertPc'[q] \notin LoginTransaction
    PROVE  PendingTokens'
<1>1. \A q \in LoginFinishes :
         assertPc[q] \in LoginTransaction =>
           assertPc'[q] = assertPc[q] /\ LoginTokenOf(q)' = LoginTokenOf(q)
  BY DEF AssertUnmoved, LoginTokenOf
<1>2. \A q \in LoginFinishes :
         assertPc'[q] \in LoginTransaction <=> assertPc[q] \in LoginTransaction
  BY DEF AssertUnmoved
<1> QED
  BY <1>1, <1>2 DEF PendingTokens

(* and nothing is outside a transaction.                                   *)
LEMMA PendingWithoutWriter ==
    ASSUME writer' = None, view' = db',
           \A q \in LoginFinishes : assertPc'[q] \notin LoginTransaction
    PROVE  PendingTokens'
BY StoreAssumption DEF PendingTokens

(* A step keeps the refresh tokens of the open transaction its own.        *)
LEMMA PendingStep ==
    ASSUME SessionsInvariant, [SessionsNext]_sessionsVars
    PROVE  PendingTokens'
<1>1. /\ PendingTokens /\ StoreTypeOK /\ AssertTypeOK
      /\ writer = None =>
            \A q \in LoginFinishes : assertPc[q] \notin LoginTransaction
  BY StoreAssumption
  DEF SessionsInvariant, SessionsTypeOK, LoginReady, TypeOK, PendingTokens
<1>2. ASSUME UNCHANGED assertVars, UNCHANGED <<db, view, writer>>
      PROVE  PendingTokens'
  BY <1>1, <1>2, PendingFrame DEF assertVars, AssertUnmoved
<1>3. ASSUME UNCHANGED assertVars, writer = None, writer' = None, view' = db'
      PROVE  PendingTokens'
  BY <1>1, <1>3, PendingWithoutWriter DEF assertVars
<1>4. ASSUME NEW r \in LoginStarts, LoginStep(r)
      PROVE  PendingTokens'
  <2>1. UNCHANGED assertVars
    BY <1>4 DEF LoginStep
  <2>2. CASE PersistLoginSession(r)
    BY <1>3, <2>1, <2>2 DEF PersistLoginSession, Autocommit
  <2>3. CASE ~PersistLoginSession(r)
    BY <1>2, <1>4, <2>1, <2>3
    DEF LoginStep, LoginArrives, LoginProceeds, LoginFails,
        RejectLoginHandle, LoadUser, UserNotFound, LoadCredentials,
        OpenLoginSession, LoadUserCredentialsFails, PersistLoginFails,
        RespondLogin, storeVars
  <2> QED
    BY <2>2, <2>3
<1>5. ASSUME NEW q \in LoginFinishes, AssertStep(q)
      PROVE  PendingTokens'
  <2>1. \A p \in LoginFinishes : p # q =>
           AssertUnmoved(p) /\ assertPc'[p] = assertPc[p]
    BY <1>1, <1>5, AssertAlone
  <2>2. \A p \in LoginFinishes :
           p # q /\ writer = q => assertPc[p] \notin LoginTransaction
    BY <1>1 DEF PendingTokens
  <2>3. CASE /\ UNCHANGED <<db, view, writer>>
             /\ assertPc[q] \notin LoginTransaction
             /\ assertPc'[q] \notin LoginTransaction
    BY <1>1, <2>1, <2>3, PendingFrame
  <2>4. CASE UpdateSignCount(q)
    <3>1. /\ \A p \in LoginFinishes : p # q => assertPc'[p] \notin LoginTransaction
          /\ assertPc'[q] = "insertToken"
          /\ writer' = q /\ db' = db
          /\ view' = SetSignCount(db, target[q].credential_id,
                                  assertion[q].signed.sign_count)
      BY <1>1, <2>1, <2>4
      DEF UpdateSignCount, AssertGoes, FirstWrite, AssertTypeOK
    <3>2. view'.users = db.users /\ view'.refresh_tokens = db.refresh_tokens
      BY <1>1, <3>1 DEF SetSignCount, StoreTypeOK, Database
    <3> QED
      BY <3>1, <3>2, StoreAssumption DEF PendingTokens, LoginTransaction
  <2>5. CASE InsertLoginToken(q)
    <3>1. /\ \A p \in LoginFinishes : p # q => assertPc'[p] \notin LoginTransaction
          /\ assertPc[q] = "insertToken" /\ assertPc'[q] = "deleteSession"
          /\ writer' = q /\ db' = db
          /\ view' = InsertRow(view, "refresh_tokens", LoginTokenOf(q))
          /\ LoginTokenOf(q)' = LoginTokenOf(q)
      BY <1>1, <2>1, <2>2, <2>5
      DEF InsertLoginToken, AssertGoes, NextWrite, LoginTokenOf, AssertTypeOK
    <3>2. /\ view'.users = view.users
          /\ view'.refresh_tokens = view.refresh_tokens \cup {LoginTokenOf(q)}
      BY <1>1, <3>1 DEF InsertRow, StoreTypeOK, Database
    <3>3. view.users = db.users /\ view.refresh_tokens = db.refresh_tokens
      BY <1>1, <3>1 DEF PendingTokens, LoginTransaction
    <3> QED
      BY <3>1, <3>2, <3>3, StoreAssumption DEF PendingTokens, LoginTransaction
  <2>6. CASE DeleteLoginSession(q)
    <3>1. /\ \A p \in LoginFinishes : p # q => assertPc'[p] \notin LoginTransaction
          /\ assertPc[q] = "deleteSession" /\ assertPc'[q] = "commit"
          /\ writer' = q /\ db' = db
          /\ view' = DeleteByID(view, "login_sessions", loginLoaded[q].id)
          /\ LoginTokenOf(q)' = LoginTokenOf(q)
      BY <1>1, <2>1, <2>2, <2>6
      DEF DeleteLoginSession, AssertGoes, NextWrite, LoginTokenOf, AssertTypeOK
    <3>2. /\ view'.users = view.users
          /\ view'.refresh_tokens = view.refresh_tokens
      BY <1>1, <3>1 DEF DeleteByID, StoreTypeOK, Database
    <3>3. /\ view.users = db.users
          /\ view.refresh_tokens = db.refresh_tokens \cup {LoginTokenOf(q)}
      BY <1>1, <3>1 DEF PendingTokens, LoginTransaction
    <3> QED
      BY <3>1, <3>2, <3>3, StoreAssumption DEF PendingTokens, LoginTransaction
  <2>7. CASE CommitLogin(q)
    <3>1. /\ writer' = None /\ view' = db'
          /\ \A p \in LoginFinishes : assertPc'[p] \notin LoginTransaction
      BY <1>1, <2>1, <2>2, <2>7
      DEF CommitLogin, Commit, AnswerAssertion, AssertGoes, AssertTypeOK,
          LoginTransaction
    <3> QED
      BY <3>1, PendingWithoutWriter
  <2>8. ASSUME NEW f \in Faults, FinishLoginFails(q, f), writer = q
        PROVE  PendingTokens'
    <3>1. /\ writer' = None /\ view' = db'
          /\ \A p \in LoginFinishes : assertPc'[p] \notin LoginTransaction
      BY <1>1, <2>1, <2>2, <2>8
      DEF FinishLoginFails, Rollback, AnswerAssertion, AssertGoes,
          AssertTypeOK, LoginTransaction
    <3> QED
      BY <3>1, PendingWithoutWriter
  <2>9. ASSUME NEW f \in Faults, FinishLoginFails(q, f), writer # q
        PROVE  PendingTokens'
    BY <1>1, <2>3, <2>9
    DEF FinishLoginFails, Rollback, AnswerAssertion, AssertGoes,
        AssertTypeOK, PendingTokens, LoginTransaction
  <2>10. ASSUME \/ AssertArrives(q)
                \/ LoadLoginSession(q) \/ LoginSessionNotFound(q)
                \/ NewFreshLoginSession(q) \/ LoginSessionExpired(q)
                \/ LoadCredential(q) \/ CredentialNotFound(q)
                \/ LoadOwner(q) \/ VerifyAssertion(q) \/ AssertionInvalid(q)
                \/ RespondAssertion(q)
                \/ \E f \in Faults : LoadAssertionFails(q, f)
         PROVE  PendingTokens'
    <3>1. /\ UNCHANGED <<db, view, writer>>
          /\ assertPc[q] \notin LoginTransaction
          /\ assertPc'[q] \notin LoginTransaction
      BY <1>1, <2>10
      DEF AssertArrives, RejectAssertion, AcceptAssertion, LoadLoginSession,
          LoginSessionNotFound, NewFreshLoginSession, LoginSessionExpired,
          LoadCredential, CredentialNotFound, LoadOwner, VerifyAssertion,
          AssertionInvalid, RespondAssertion, LoadAssertionFails,
          AnswerAssertion, AssertGoes, storeVars, AssertTypeOK,
          LoginTransaction
    <3> QED
      BY <2>3, <3>1
  <2> QED
    BY <1>5, <2>4, <2>5, <2>6, <2>7, <2>8, <2>9, <2>10
    DEF AssertStep, AssertProceeds, AssertFails
<1>6. CASE RegisterStep
  BY <1>3, <1>6 DEF RegisterStep, Register, Autocommit
<1>7. CASE SignStep \/ ClockStep \/ UNCHANGED vars
  BY <1>2, <1>7 DEF SignStep, ClockStep, Tick, vars, storeVars
<1>8. CASE Restart
  BY <1>1, <1>8, PendingWithoutWriter
  DEF Restart, Reboot, AssertKilled, AssertRunning, LoginTransaction
<1>9. ASSUME NEW l \in Logouts, LogoutStep(l)
      PROVE  PendingTokens'
  <2>1. UNCHANGED assertVars
    BY <1>9, LogoutLeaves
  <2>2. CASE UNCHANGED storeVars
    BY <1>2, <2>1, <2>2 DEF storeVars
  <2>3. CASE RevokeUserSessions(l)
    BY <1>3, <2>1, <2>3 DEF RevokeUserSessions, Autocommit
  <2> QED
    BY <1>9, <2>2, <2>3, LogoutLeaves
<1> QED
  BY <1>4, <1>5, <1>6, <1>7, <1>8, <1>9, WhoseStep DEF Next, Quiescent

(* No step takes a refresh token away or changes one that is revoked.      *)
LEMMA TokensStay ==
    ASSUME SessionsInvariant, [SessionsNext]_sessionsVars,
           NEW t \in db.refresh_tokens
    PROVE  /\ \E s \in db'.refresh_tokens : /\ s.token_hash = t.token_hash
                                            /\ s.user_id = t.user_id
           /\ t.revoked_at # None => t \in db'.refresh_tokens
<1>1. t \in RefreshTokenRow
  BY DEF SessionsInvariant, SessionsTypeOK, LoginReady, TypeOK, StoreTypeOK,
         Database
<1>2. CASE db.refresh_tokens \subseteq db'.refresh_tokens
  BY <1>2
<1>3. ASSUME NEW i \in RevokeUserSessionsInput,
             db'.refresh_tokens =
                {IF s.user_id = i.user_id /\ s.revoked_at = None
                 THEN [s EXCEPT !.revoked_at = Unix(i.now)]
                 ELSE s : s \in db.refresh_tokens}
      PROVE  /\ \E s \in db'.refresh_tokens : /\ s.token_hash = t.token_hash
                                              /\ s.user_id = t.user_id
             /\ t.revoked_at # None => t \in db'.refresh_tokens
  <2> DEFINE r == IF t.user_id = i.user_id /\ t.revoked_at = None
                  THEN [t EXCEPT !.revoked_at = Unix(i.now)] ELSE t
  <2>1. Unix(i.now) \in Nat
    BY UnixTyped DEF RevokeUserSessionsInput
  <2>2. /\ r.token_hash = t.token_hash /\ r.user_id = t.user_id
        /\ t.revoked_at # None => r = t
    BY <1>1, <2>1, RevokedRow
  <2>3. r \in db'.refresh_tokens
    BY <1>3
  <2> QED
    BY <2>2, <2>3
<1> QED
  BY <1>2, <1>3, TokenSteps

(* A refresh token that is revoked was so before, or a logout of its user  *)
(* revokes it now.                                                         *)
LEMMA RevokedBecause ==
    ASSUME SessionsInvariant, [SessionsNext]_sessionsVars,
           NEW t \in db'.refresh_tokens, t.revoked_at # None
    PROVE  \/ t \in db.refresh_tokens
           \/ \E l \in Logouts : /\ LogoutStep(l) /\ RevokeUserSessions(l)
                                 /\ t.user_id = revocation[l].user_id
                                 /\ t.revoked_at = Unix(revocation[l].now)
<1>1. db.refresh_tokens \subseteq RefreshTokenRow
  BY DEF SessionsInvariant, SessionsTypeOK, LoginReady, TypeOK, StoreTypeOK,
         Database
<1>2. CASE \E l \in Logouts :
              /\ LogoutStep(l) /\ RevokeUserSessions(l)
              /\ revocation[l] \in RevokeUserSessionsInput
              /\ db'.refresh_tokens =
                    {IF s.user_id = revocation[l].user_id /\ s.revoked_at = None
                     THEN [s EXCEPT !.revoked_at = Unix(revocation[l].now)]
                     ELSE s : s \in db.refresh_tokens}
  <2>1. PICK l \in Logouts :
              /\ LogoutStep(l) /\ RevokeUserSessions(l)
              /\ revocation[l] \in RevokeUserSessionsInput
              /\ db'.refresh_tokens =
                    {IF s.user_id = revocation[l].user_id /\ s.revoked_at = None
                     THEN [s EXCEPT !.revoked_at = Unix(revocation[l].now)]
                     ELSE s : s \in db.refresh_tokens}
    BY <1>2
  <2>2. PICK s \in db.refresh_tokens :
              t = IF s.user_id = revocation[l].user_id /\ s.revoked_at = None
                  THEN [s EXCEPT !.revoked_at = Unix(revocation[l].now)]
                  ELSE s
    BY <2>1
  <2>3. s \in RefreshTokenRow /\ Unix(revocation[l].now) \in Nat
    BY <1>1, <2>1, UnixTyped DEF RevokeUserSessionsInput
  <2>4. /\ t.user_id = s.user_id
        /\ t = s \/ (/\ s.user_id = revocation[l].user_id
                     /\ t.revoked_at = Unix(revocation[l].now))
    BY <2>2, <2>3, RevokedRow
  <2> QED
    BY <2>1, <2>4
<1>3. CASE \E q \in LoginFinishes :
              db'.refresh_tokens = db.refresh_tokens \cup {LoginTokenOf(q)'}
  BY <1>3 DEF LoginTokenOf
<1>4. CASE \E u \in RegFinishes, e \in Nat :
              db'.refresh_tokens = db.refresh_tokens \cup
                    {[token_hash |-> u, user_id |-> u, expires_at |-> e,
                      revoked_at |-> None]}
  BY <1>4
<1>5. CASE db'.refresh_tokens = db.refresh_tokens
  BY <1>5
<1> QED
  BY <1>2, <1>3, <1>4, <1>5, TokenSteps

(* A step keeps the refresh token of everyone who was given one.           *)
LEMMA StoredStep ==
    ASSUME SessionsInvariant, [SessionsNext]_sessionsVars
    PROVE  GrantsAreStored'
<1>1. GrantsAreStored
  BY DEF SessionsInvariant
<1>2. \A u \in RegFinishes : u \in Granted <=> u \in Enrolled
  BY StoreAssumption DEF Granted, Enrolled, LoggedIn
<1>3. \A u \in RegFinishes : u \in Granted' <=> u \in Enrolled'
  BY StoreAssumption DEF Granted, Enrolled, LoggedIn
<1>4. ASSUME NEW g \in Granted
      PROVE  \E t \in db'.refresh_tokens :
                t.token_hash = g /\ t.user_id = OwnerOf(g)'
  <2>1. PICK t \in db.refresh_tokens : t.token_hash = g /\ t.user_id = OwnerOf(g)
    BY <1>1 DEF GrantsAreStored
  <2> QED
    BY <2>1, GrantsStay, TokensStay
<1>5. CASE Granted' = Granted /\ db'.users = db.users
  BY <1>1, <1>2, <1>3, <1>4, <1>5 DEF GrantsAreStored, Enrolled
<1>6. ASSUME NEW q \in LoginFinishes,
             Granted' = Granted \cup {q}, db'.users = db.users,
             LoginTokenOf(q)' \in db'.refresh_tokens
      PROVE  GrantsAreStored'
  <2>1. q \notin RegFinishes
    BY StoreAssumption
  <2>2. /\ LoginTokenOf(q)'.token_hash = q
        /\ LoginTokenOf(q)'.user_id = OwnerOf(q)'
    BY <2>1 DEF LoginTokenOf, OwnerOf
  <2> QED
    BY <1>1, <1>2, <1>3, <1>4, <1>6, <2>1, <2>2 DEF GrantsAreStored, Enrolled
<1>7. ASSUME NEW u \in RegFinishes, NEW h \in Handles, NEW e \in Nat,
             Granted' = Granted \cup {u},
             db'.users = db.users \cup {[id |-> u, handle |-> h]},
             [token_hash |-> u, user_id |-> u, expires_at |-> e,
              revoked_at |-> None] \in db'.refresh_tokens
      PROVE  GrantsAreStored'
  <2> DEFINE row == [id |-> u, handle |-> h]
             t == [token_hash |-> u, user_id |-> u, expires_at |-> e,
                   revoked_at |-> None]
  <2>1. row.id = u /\ t.token_hash = u /\ t.user_id = OwnerOf(u)'
    BY DEF OwnerOf
  <2>2. row \in db'.users /\ t \in db'.refresh_tokens
    BY <1>7
  <2> HIDE DEF row, t
  <2>3. \A v \in Enrolled' : v \in Enrolled \/ v = u
    BY <1>2, <1>3, <1>7 DEF Enrolled
  <2>4. \A v \in Enrolled' : \E w \in db'.users : w.id = v
    BY <1>1, <1>7, <2>1, <2>2, <2>3 DEF GrantsAreStored
  <2> QED
    BY <1>4, <1>7, <2>1, <2>2, <2>4 DEF GrantsAreStored
<1> QED
  BY <1>5, <1>6, <1>7, TokenSteps

(* Seconds and ticks: a token is stamped no later than it was minted, and  *)
(* expires less than a second before its lifetime is over.                 *)
LEMMA MintedTimes ==
    ASSUME NEW s \in Nat, NEW t \in Nat, NEW key
    PROVE  LET pair == GenerateTokenPair(s, key) IN
             /\ pair.issued_at \in Nat
             /\ FromUnix(pair.issued_at) <= s
             /\ Fresh(t, FromUnix(pair.access_exp))
                  => t < FromUnix(pair.issued_at + 1) + AccessTTL
             /\ ~Fresh(t, FromUnix(pair.access_exp))
                  => FromUnix(pair.issued_at) + AccessTTL < t + TicksPerSecond
<1> DEFINE i == Unix(s)
           x == Unix(s + AccessTTL)
<1>1. /\ i \in Nat /\ x \in Nat /\ AccessTTL \in Nat
      /\ TicksPerSecond \in Nat \ {0}
  BY UnixTyped, StoreAssumption, TokensAssumption
<1>2. /\ i * TicksPerSecond <= s
      /\ s < i * TicksPerSecond + TicksPerSecond
      /\ x * TicksPerSecond <= s + AccessTTL
      /\ s + AccessTTL < x * TicksPerSecond + TicksPerSecond
  BY <1>1 DEF Unix
<1>3. (i + 1) * TicksPerSecond = i * TicksPerSecond + TicksPerSecond
  BY <1>1
<1>4. i * TicksPerSecond \in Nat /\ x * TicksPerSecond \in Nat
  BY <1>1
<1>5. /\ GenerateTokenPair(s, key).issued_at = i
      /\ GenerateTokenPair(s, key).access_exp = x
  BY DEF GenerateTokenPair
<1> HIDE DEF i, x
<1>6. /\ i * TicksPerSecond <= s
      /\ t < x * TicksPerSecond
           => t < i * TicksPerSecond + TicksPerSecond + AccessTTL
      /\ ~(t < x * TicksPerSecond)
           => i * TicksPerSecond + AccessTTL < t + TicksPerSecond
  BY <1>1, <1>2, <1>4
<1> QED
  BY <1>1, <1>3, <1>5, <1>6 DEF Fresh, FromUnix

(* Whoever was given a token pair was given one that was minted.           *)
LEMMA GrantedIsMinted ==
    ASSUME SessionsInvariant, NEW g \in Granted
    PROVE  Minted(PairOf(g))
BY StoreAssumption
DEF SessionsInvariant, PairsAreMinted, Granted, Enrolled, LoggedIn, PairOf

(* What a logout knows rests on what no step takes back.                   *)
LEMMA LogoutKnowsStep ==
    ASSUME SessionsInvariant, [SessionsNext]_sessionsVars, NEW l \in Logouts
    PROVE  LogoutKnows(l)'
<1>1. LogoutKnows(l) /\ LogoutTypeOK /\ SessionsTypeOK /\ StoreTypeOK
  BY DEF SessionsInvariant, SessionsTypeOK, LoginReady, TypeOK
<1>2. \A g \in Granted : g \in Granted' /\ AccessTokenOf(g)' = AccessTokenOf(g)
  BY GrantsStay DEF AccessTokenOf
<1>3. CASE LogoutUnmoved(l)
  BY <1>1, <1>2, <1>3
  DEF LogoutUnmoved, LogoutKnows, LoggedOut, LogoutRunning
<1>4. CASE LogoutStep(l)
  <2> USE <1>1, <1>2, LogoutAssumption, StoreAssumption
      DEF LogoutTypeOK, LogoutKnows, LoggedOut, Codes
  <2>1. CASE \/ RejectBearer(l) \/ RevokeUserSessions(l) \/ RespondLogout(l)
             \/ LogoutFails(l)
    BY <2>1, ErrorTyped
    DEF RejectBearer, RevokeUserSessions, RespondLogout, LogoutFails,
        RevokeFails, AnswerLogout, LogoutGoes
  <2>2. ASSUME NEW g \in Holding,
               \/ AuthenticateLogout(l, AccessTokenOf(g))
               \/ AccessTokenInvalid(l, AccessTokenOf(g))
        PROVE  LogoutKnows(l)'
    <3>1. g \in Granted /\ AccessTokenOf(g).from = g
      BY HoldersAreGranted DEF AccessTokenOf, AccessTokenIn
    <3>2. verifyInput'[l] = [token |-> AccessTokenOf(g), key |-> boots, now |-> now]
      BY <2>2 DEF AuthenticateLogout, AccessTokenInvalid, VerifyWith
    <3>3. (/\ verifyInput[l].token.from \in Granted
           /\ verifyInput[l].token = AccessTokenOf(verifyInput[l].token.from))'
      BY <3>1, <3>2
    <3>4. verifyInput'[l] # None
      <4>1. verifyInput'[l] \in VerifyAccessTokenInput
        BY <3>1, <3>2, AccessTokenTyped DEF VerifyAccessTokenInput, StoreTypeOK
      <4> QED
        BY <4>1
    <3>5. CASE AuthenticateLogout(l, AccessTokenOf(g))
      BY <3>2, <3>3, <3>4, <3>5 DEF AuthenticateLogout, LogoutGoes
    <3>6. CASE AccessTokenInvalid(l, AccessTokenOf(g))
      BY <3>2, <3>3, <3>4, <3>6 DEF AccessTokenInvalid, AnswerLogout, LogoutGoes
    <3> QED
      BY <2>2, <3>5, <3>6
  <2>3. CASE StampRevocation(l)
    <3>1. verifyInput[l].token.sub \in RegFinishes
      BY <2>3 DEF StampRevocation, VerifyAccessTokenInput, AccessToken
    <3>2. [user_id |-> verifyInput[l].token.sub, now |-> now]
             \in RevokeUserSessionsInput
      BY <3>1 DEF RevokeUserSessionsInput, StoreTypeOK
    <3> QED
      BY <2>3, <3>2 DEF StampRevocation, LogoutGoes
  <2> QED
    BY <1>4, <2>1, <2>2, <2>3 DEF LogoutStep, LogoutArrives, LogoutProceeds
<1> QED
  BY <1>1, <1>3, <1>4, LogoutFrame

(* A logout is answered once: what one that succeeded presented and wrote  *)
(* stays as it was, and only RevokeUserSessions makes one succeed.         *)
LEMMA LoggedOutStays ==
    ASSUME SessionsInvariant, [SessionsNext]_sessionsVars, NEW l \in Logouts
    PROVE  /\ l \in LoggedOut => /\ l \in LoggedOut'
                                 /\ verifyInput'[l] = verifyInput[l]
                                 /\ revocation'[l] = revocation[l]
           /\ l \in LoggedOut' => \/ l \in LoggedOut
                                  \/ LogoutStep(l) /\ RevokeUserSessions(l)
<1>1. LogoutKnows(l) /\ LogoutTypeOK
  BY DEF SessionsInvariant, SessionsTypeOK
<1>2. CASE LogoutUnmoved(l)
  BY <1>2 DEF LogoutUnmoved, LoggedOut
<1>3. CASE LogoutStep(l)
  BY <1>1, <1>3, NoneIsNoReply, ErrorTyped
  DEF LogoutStep, LogoutArrives, LogoutProceeds, LogoutFails, RejectBearer,
      AuthenticateLogout, AccessTokenInvalid, StampRevocation,
      RevokeUserSessions, RevokeFails, RespondLogout, AnswerLogout,
      LogoutGoes, VerifyWith, LogoutKnows, LogoutTypeOK, LoggedOut
<1> QED
  BY <1>1, <1>2, <1>3, LogoutFrame

(* A logout that revokes has in hand the access token of somebody whose    *)
(* refresh token is in the table, and will be revoked.                     *)
LEMMA RevokesItsOwn ==
    ASSUME SessionsInvariant, [SessionsNext]_sessionsVars, NEW l \in Logouts,
           LogoutStep(l), RevokeUserSessions(l)
    PROVE  /\ verifyInput'[l] = verifyInput[l] /\ revocation'[l] = revocation[l]
           /\ l \in LoggedOut'
           /\ \E t \in db'.refresh_tokens :
                 /\ t.token_hash = verifyInput[l].token.from
                 /\ t.user_id = revocation[l].user_id
                 /\ t.revoked_at # None
<1> DEFINE g == verifyInput[l].token.from
           i == revocation[l]
<1>1. LogoutKnows(l) /\ LogoutTypeOK /\ GrantsAreStored /\ db \in Database
  BY DEF SessionsInvariant, SessionsTypeOK, LoginReady, TypeOK, StoreTypeOK
<1>2. /\ g \in Granted /\ verifyInput[l].token = AccessTokenOf(g)
      /\ i \in RevokeUserSessionsInput /\ i.user_id = verifyInput[l].token.sub
  BY <1>1 DEF LogoutKnows, RevokeUserSessions
<1>3. i.user_id = OwnerOf(g)
  BY <1>2 DEF AccessTokenOf, AccessTokenIn
<1>4. PICK t \in db.refresh_tokens : t.token_hash = g /\ t.user_id = OwnerOf(g)
  BY <1>1, <1>2 DEF GrantsAreStored
<1>5. t \in RefreshTokenRow /\ Unix(i.now) \in Nat
  BY <1>1, <1>2, UnixTyped DEF Database, RevokeUserSessionsInput
<1> DEFINE r == IF t.user_id = i.user_id /\ t.revoked_at = None
                THEN [t EXCEPT !.revoked_at = Unix(i.now)] ELSE t
<1>6. db' = RevokeTokens(db, i.user_id, Unix(i.now))
  BY DEF RevokeUserSessions, Autocommit
<1>7. db'.refresh_tokens =
         {IF s.user_id = i.user_id /\ s.revoked_at = None
          THEN [s EXCEPT !.revoked_at = Unix(i.now)] ELSE s : s \in db.refresh_tokens}
  BY <1>1, <1>5, <1>6, RevokeTokensIs
<1>8. /\ r \in db'.refresh_tokens
      /\ r.token_hash = g /\ r.user_id = i.user_id /\ r.revoked_at # None
  BY <1>3, <1>4, <1>5, <1>7, RevokedRow
<1>9. /\ verifyInput'[l] = verifyInput[l] /\ revocation'[l] = revocation[l]
      /\ l \in LoggedOut'
  BY <1>1 DEF RevokeUserSessions, AnswerLogout, LogoutTypeOK, LoggedOut
<1> QED
  BY <1>8, <1>9

(* A step keeps every session ended that somebody was told has ended.      *)
LEMMA EndsStep ==
    ASSUME SessionsInvariant, [SessionsNext]_sessionsVars
    PROVE  LogoutEndsTheSession'
<1> SUFFICES ASSUME NEW l \in LoggedOut'
             PROVE  \E t \in db'.refresh_tokens :
                       /\ t.token_hash = verifyInput'[l].token.from
                       /\ t.revoked_at # None
  BY DEF LogoutEndsTheSession
<1>1. l \in Logouts
  BY DEF LoggedOut
<1>2. CASE l \in LoggedOut
  <2>1. PICK t \in db.refresh_tokens :
           /\ t.token_hash = verifyInput[l].token.from
           /\ t.revoked_at # None
    BY <1>2 DEF SessionsInvariant, LogoutEndsTheSession
  <2>2. t \in db'.refresh_tokens
    BY <2>1, TokensStay
  <2> QED
    BY <1>1, <1>2, <2>1, <2>2, LoggedOutStays
<1>3. CASE LogoutStep(l) /\ RevokeUserSessions(l)
  BY <1>1, <1>3, RevokesItsOwn
<1> QED
  BY <1>1, <1>2, <1>3, LoggedOutStays

(* A step revokes nobody's refresh token but the user's who logs out.      *)
LEMMA OwnerStep ==
    ASSUME SessionsInvariant, [SessionsNext]_sessionsVars
    PROVE  RevokedByItsOwner'
<1> DEFINE Presented(token, key, at) ==
             token.key = key /\ at < FromUnix(token.iat + 1) + AccessTTL
<1> SUFFICES ASSUME NEW t \in db'.refresh_tokens, t.revoked_at # None
             PROVE  \E l \in LoggedOut' :
                       /\ \E own \in db'.refresh_tokens :
                             /\ own.token_hash = verifyInput'[l].token.from
                             /\ own.user_id = t.user_id
                       /\ Presented(verifyInput'[l].token, verifyInput'[l].key,
                                    verifyInput'[l].now)
                       /\ t.revoked_at = Unix(revocation'[l].now)
  BY DEF RevokedByItsOwner
<1>1. CASE t \in db.refresh_tokens
  <2>1. PICK l \in LoggedOut :
           /\ \E own \in db.refresh_tokens :
                 /\ own.token_hash = verifyInput[l].token.from
                 /\ own.user_id = t.user_id
           /\ Presented(verifyInput[l].token, verifyInput[l].key,
                        verifyInput[l].now)
           /\ t.revoked_at = Unix(revocation[l].now)
    BY <1>1 DEF SessionsInvariant, RevokedByItsOwner
  <2>2. \E own \in db'.refresh_tokens :
           /\ own.token_hash = verifyInput[l].token.from
           /\ own.user_id = t.user_id
    BY <2>1, TokensStay
  <2>3. /\ l \in LoggedOut'
        /\ verifyInput'[l] = verifyInput[l] /\ revocation'[l] = revocation[l]
    BY LoggedOutStays DEF LoggedOut
  <2> QED
    BY <2>1, <2>2, <2>3
<1>2. ASSUME NEW l \in Logouts, LogoutStep(l), RevokeUserSessions(l),
             t.user_id = revocation[l].user_id,
             t.revoked_at = Unix(revocation[l].now)
      PROVE  /\ l \in LoggedOut'
             /\ \E own \in db'.refresh_tokens :
                   /\ own.token_hash = verifyInput'[l].token.from
                   /\ own.user_id = t.user_id
             /\ Presented(verifyInput'[l].token, verifyInput'[l].key,
                          verifyInput'[l].now)
             /\ t.revoked_at = Unix(revocation'[l].now)
  <2> DEFINE in == verifyInput[l]
             g == in.token.from
  <2>1. /\ verifyInput'[l] = in /\ revocation'[l] = revocation[l]
        /\ l \in LoggedOut'
        /\ \E own \in db'.refresh_tokens :
              own.token_hash = g /\ own.user_id = revocation[l].user_id
    BY <1>2, RevokesItsOwn
  <2>2. /\ g \in Granted /\ in.token = AccessTokenOf(g)
        /\ VerifyAccessToken(in.token, in.key, in.now)
        /\ in \in VerifyAccessTokenInput
    BY <1>2
    DEF RevokeUserSessions, SessionsInvariant, SessionsTypeOK, LogoutTypeOK,
        LogoutKnows
  <2>3. PICK s \in 0 .. now, key \in 0 .. boots :
           PairOf(g) = GenerateTokenPair(s, key)
    BY <2>2, GrantedIsMinted DEF Minted, MintedBy
  <2>4. /\ in.token.iat = GenerateTokenPair(s, key).issued_at
        /\ in.token.exp = GenerateTokenPair(s, key).access_exp
    BY <2>2, <2>3 DEF AccessTokenOf, AccessTokenIn
  <2>5. in.now \in Nat /\ s \in Nat
    BY <2>2, <2>3 DEF VerifyAccessTokenInput
  <2>6. Presented(in.token, in.key, in.now)
    BY <2>2, <2>4, <2>5, MintedTimes DEF VerifyAccessToken
  <2> QED
    BY <1>2, <2>1, <2>6
<1> QED
  BY <1>1, <1>2, RevokedBecause

(* A step keeps the reason of every UNAUTHORIZED answered.                 *)
LEMMA UnauthorizedStep ==
    ASSUME SessionsInvariant, UnauthorizedIsTrue, [SessionsNext]_sessionsVars
    PROVE  UnauthorizedIsTrue'
<1> DEFINE Reason(in) ==
             \/ in = None
             \/ in.token.key < in.key
             \/ FromUnix(in.token.iat) + AccessTTL < in.now + TicksPerSecond
<1> SUFFICES ASSUME NEW l \in Logouts, logoutReply'[l] = "UNAUTHORIZED"
             PROVE  Reason(verifyInput'[l])
  BY DEF UnauthorizedIsTrue
<1>1. /\ LogoutKnows(l) /\ LogoutTypeOK /\ SessionsTypeOK /\ StoreTypeOK
      /\ logoutPc[l] = "idle" => logoutReply[l] = None
  BY DEF SessionsInvariant, SessionsTypeOK, LoginReady, TypeOK, LogoutKnows
<1>2. CASE logoutReply[l] = "UNAUTHORIZED" /\ verifyInput'[l] = verifyInput[l]
  BY <1>2 DEF UnauthorizedIsTrue
<1>3. CASE LogoutUnmoved(l)
  BY <1>2, <1>3 DEF LogoutUnmoved
<1>4. CASE LogoutStep(l)
  <2>1. CASE RejectBearer(l)
    BY <1>1, <2>1 DEF RejectBearer, LogoutKnows
  <2>2. ASSUME NEW g \in Holding, AccessTokenInvalid(l, AccessTokenOf(g))
        PROVE  Reason(verifyInput'[l])
    <3> DEFINE token == AccessTokenOf(g)
    <3>1. g \in Granted
      BY HoldersAreGranted
    <3>2. PICK s \in 0 .. now, key \in 0 .. boots :
             PairOf(g) = GenerateTokenPair(s, key)
      BY <3>1, GrantedIsMinted DEF Minted, MintedBy
    <3>3. /\ token.key = key
          /\ token.iat = GenerateTokenPair(s, key).issued_at
          /\ token.exp = GenerateTokenPair(s, key).access_exp
      BY <3>2 DEF AccessTokenOf, AccessTokenIn, GenerateTokenPair
    <3>4. /\ verifyInput'[l].token = token
          /\ verifyInput'[l].key = boots
          /\ verifyInput'[l].now = now
          /\ ~VerifyAccessToken(token, boots, now)
      BY <1>1, <2>2 DEF AccessTokenInvalid, VerifyWith, LogoutTypeOK
    <3> HIDE DEF token
    <3>5. s \in Nat /\ key \in Nat /\ now \in Nat /\ boots \in Nat
      BY <1>1, <3>2 DEF StoreTypeOK
    <3>6. s <= now /\ key <= boots
      BY <3>2, <3>5
    <3>7. /\ token.iat \in Nat /\ FromUnix(token.iat) <= s
          /\ ~Fresh(now, FromUnix(token.exp))
               => FromUnix(token.iat) + AccessTTL < now + TicksPerSecond
      BY <3>3, <3>5, MintedTimes
    <3>8. FromUnix(token.iat) \in Nat
      BY <3>7, StoreAssumption DEF FromUnix
    <3>9. token.key # boots \/ ~Fresh(now, FromUnix(token.exp))
      BY <3>4, <3>5, <3>6, <3>7, <3>8 DEF VerifyAccessToken
    <3>10. CASE token.key # boots
      BY <3>3, <3>4, <3>5, <3>6, <3>10
    <3>11. CASE ~Fresh(now, FromUnix(token.exp))
      BY <3>4, <3>7, <3>11
    <3> QED
      BY <3>9, <3>10, <3>11
  <2>3. CASE RespondLogout(l)
    BY <1>2, <2>3 DEF RespondLogout
  <2>4. ASSUME \/ \E g \in Holding : AuthenticateLogout(l, AccessTokenOf(g))
               \/ StampRevocation(l) \/ RevokeUserSessions(l) \/ LogoutFails(l)
        PROVE  FALSE
    BY <1>1, <2>4, ErrorTyped, StoreAssumption
    DEF AuthenticateLogout, StampRevocation, RevokeUserSessions, LogoutFails,
        RevokeFails, AnswerLogout, LogoutKnows, LogoutTypeOK, Codes
  <2> QED
    BY <1>4, <2>1, <2>2, <2>3, <2>4 DEF LogoutStep, LogoutArrives, LogoutProceeds
<1> QED
  BY <1>1, <1>3, <1>4, LogoutFrame

----------------------------------------------------------------------------
(* Results.                                                                *)

(* What holds before the first request.                                    *)
LEMMA SessionsInvariantInit == SessionsInit => SessionsInvariant
<1> SUFFICES ASSUME SessionsInit
             PROVE  SessionsInvariant
  OBVIOUS
<1>1. /\ Init /\ LogoutInit
      /\ \A u \in RegFinishes : enrolled[u] = None
      /\ enrolled \in [RegFinishes -> TokenPair \cup {None}]
  BY DEF SessionsInit
<1>2. LoginReady
  BY <1>1, InvariantInit, InvariantIsReady
<1>3. LogoutTypeOK
  BY <1>1 DEF LogoutInit, LogoutTypeOK, LogoutPcs, LogoutReplies
<1>4. /\ \A q \in LoginFinishes : assertPc[q] = "idle" /\ assertReply[q] = None
      /\ \A l \in Logouts : /\ logoutPc[l] = "idle" /\ logoutReply[l] = None
                            /\ verifyInput[l] = None
      /\ writer = None /\ view = db /\ db.refresh_tokens = {}
  BY <1>1
  DEF Init, AssertInit, LogoutInit, StoreInit, EmptyDatabase
<1>5. Granted = {} /\ Enrolled = {} /\ LoggedIn = {} /\ LoggedOut = {}
  BY <1>1, <1>4, NoneIsNoReply DEF Granted, Enrolled, LoggedIn, LoggedOut
<1>6. PairsAreMinted /\ PendingTokens /\ GrantsAreStored
  BY <1>4, <1>5, StoreAssumption
  DEF PairsAreMinted, PendingTokens, GrantsAreStored, LoginTransaction
<1>7. \A l \in Logouts : LogoutKnows(l)
  BY <1>4, <1>5 DEF LogoutKnows
<1>8. LogoutEndsTheSession /\ RevokedByItsOwner
  BY <1>4, <1>5 DEF LogoutEndsTheSession, RevokedByItsOwner
<1> QED
  BY <1>1, <1>2, <1>3, <1>6, <1>7, <1>8 DEF SessionsInvariant, SessionsTypeOK

(* And every step keeps it.                                                *)
LEMMA SessionsInvariantStep ==
    SessionsInvariant /\ [SessionsNext]_sessionsVars => SessionsInvariant'
BY SessionsTypeStep, MintedStep, PendingStep, StoredStep, LogoutKnowsStep,
   EndsStep, OwnerStep
DEF SessionsInvariant

(* Every token pair is followed from its answer to the logout that         *)
(* presents it, in every state that login with logouts beside it reaches.  *)
THEOREM SessionsInvariantHolds == SessionsSpec => []SessionsInvariant
BY SessionsInvariantInit, SessionsInvariantStep, PTL DEF SessionsSpec

(* A 204 is never taken back: the session it logged out of is ended.       *)
THEOREM LogoutsEndSessions == SessionsSpec => []LogoutEndsTheSession
BY SessionsInvariantHolds, PTL DEF SessionsInvariant

(* Nobody's session is ended but by a logout of that user's, with a token  *)
(* of that user's that was good when it was looked at.                     *)
THEOREM OwnersRevoke == SessionsSpec => []RevokedByItsOwner
BY SessionsInvariantHolds, PTL DEF SessionsInvariant

(* No step undoes, moves or deletes a revocation.                          *)
THEOREM RevocationsAreFinal == SessionsSpec => RevocationIsFinal
<1>1. SessionsInvariant /\ [SessionsNext]_sessionsVars =>
         [\A t \in db.refresh_tokens :
             t.revoked_at # None => t \in db'.refresh_tokens]_sessionsVars
  BY TokensStay
<1> QED
  BY <1>1, SessionsInvariantHolds, PTL DEF SessionsSpec, RevocationIsFinal

(* UNAUTHORIZED is answered for a reason.                                  *)
THEOREM UnauthorizedHasAReason == SessionsSpec => []UnauthorizedIsTrue
<1>1. SessionsInit => UnauthorizedIsTrue
  BY StoreAssumption DEF SessionsInit, LogoutInit, UnauthorizedIsTrue, Codes
<1>2. SessionsInvariant /\ UnauthorizedIsTrue /\ [SessionsNext]_sessionsVars
         => UnauthorizedIsTrue'
  BY UnauthorizedStep
<1> QED
  BY <1>1, <1>2, SessionsInvariantHolds, PTL DEF SessionsSpec

----------------------------------------------------------------------------
(* What login with logouts beside it implements.                           *)
(*                                                                         *)
(* Grants: the refresh tokens of the table, whatever is running, are       *)
(* grants that are given one by one and ended all at once.                 *)
(*                                                                         *)
(* Login alone: no statement of a login looks at a revocation, and the one *)
(* of a logout changes nothing else.  With it every theorem of LoginProofs *)
(* is about Sessions too, its tables taken without revocations.            *)

----------------------------------------------------------------------------
(* Sessions implements Grants.                                             *)

(* Who has a row of any kind was given a token pair by a registration, and *)
(* every refresh token was given to whom it names.  A key that a request   *)
(* has signed with, or has found good, is in use while the request runs.   *)
RowsAreGranted ==
    /\ \A row \in db.users : row.id \in Enrolled
    /\ \A k \in db.credentials \cup view.credentials : k.user_id \in Enrolled
    /\ \A t \in db.refresh_tokens :
          t.token_hash \in Granted /\ t.user_id \in Enrolled

KeysAreInUse ==
    /\ \A q \in LoginFinishes :
          /\ (\/ assertPc[q] \in {"owner", "verify", "updateCount"}
                                    \cup LoginTransaction
              \/ q \in LoggedIn)
               => target[q].user_id \in Enrolled
          /\ assertPc[q] \in {"updateCount"} \cup LoginTransaction
               => loginIssued[q].key = boots
    /\ \A l \in Logouts :
          logoutPc[l] \in {"stamp", "revoke"} => verifyInput[l].key = boots

GrantsInvariant == SessionsInvariant /\ RowsAreGranted /\ KeysAreInUse

(* What the grants of Grants stand for.                                    *)
GrantOf(t) == [name  |-> t.token_hash,
               owner |-> t.user_id,
               epoch |-> PairOf(t.token_hash).key,
               live  |-> t.revoked_at = None]
Given == {GrantOf(t) : t \in db.refresh_tokens}

----------------------------------------------------------------------------
(* The invariant.                                                          *)

(* Whoever has enrolled stays enrolled.                                    *)
LEMMA EnrolledStay ==
    ASSUME SessionsInvariant, [SessionsNext]_sessionsVars
    PROVE  Enrolled \subseteq Enrolled' /\ Granted \subseteq Granted'
<1>1. ASSUME NEW g \in Granted
      PROVE  g \in Granted'
  BY GrantsStay
<1>2. ASSUME NEW u \in Enrolled
      PROVE  u \in Enrolled'
  BY <1>1, StoreAssumption DEF Granted, Enrolled, LoggedIn
<1> QED
  BY <1>1, <1>2

(* A statement changes no credential's user.                               *)
CredentialUsers(d) == {k.user_id : k \in d.credentials}

LEMMA StatementsKeepUsers ==
    ASSUME NEW d \in Database
    PROVE  /\ \A c, n : CredentialUsers(SetSignCount(d, c, n)) = CredentialUsers(d)
           /\ \A row : CredentialUsers(InsertRow(d, "refresh_tokens", row))
                          = CredentialUsers(d)
           /\ \A row : CredentialUsers(InsertRow(d, "login_sessions", row))
                          = CredentialUsers(d)
           /\ \A r : CredentialUsers(DeleteByID(d, "login_sessions", r))
                          = CredentialUsers(d)
           /\ \A u, s : CredentialUsers(RevokeTokens(d, u, s)) = CredentialUsers(d)
<1>1. ASSUME NEW c, NEW n
      PROVE  CredentialUsers(SetSignCount(d, c, n)) = CredentialUsers(d)
  <2> DEFINE counted(k) == IF k.credential_id = c
                           THEN [k EXCEPT !.sign_count = n] ELSE k
  <2>1. SetSignCount(d, c, n).credentials = {counted(k) : k \in d.credentials}
    BY DEF SetSignCount, Database
  <2>2. \A k \in d.credentials : counted(k).user_id = k.user_id
    BY DEF Database, CredentialRow
  <2> HIDE DEF counted
  <2> QED
    BY <2>1, <2>2 DEF CredentialUsers
<1>2. /\ \A row : InsertRow(d, "refresh_tokens", row).credentials = d.credentials
      /\ \A row : InsertRow(d, "login_sessions", row).credentials = d.credentials
      /\ \A r : DeleteByID(d, "login_sessions", r).credentials = d.credentials
      /\ \A u, s : RevokeTokens(d, u, s).credentials = d.credentials
  BY DEF InsertRow, DeleteByID, RevokeTokens, Database
<1> QED
  BY <1>1, <1>2 DEF CredentialUsers

(* A credential comes with the registration of its user.                   *)
LEMMA CredentialsStep ==
    ASSUME SessionsInvariant, [SessionsNext]_sessionsVars
    PROVE  CredentialUsers(db)' \cup CredentialUsers(view)'
              \subseteq CredentialUsers(db) \cup CredentialUsers(view) \cup Enrolled'
<1>1. /\ StoreTypeOK /\ AssertTypeOK /\ SessionsTypeOK
      /\ db \in Database /\ view \in Database
  BY DEF SessionsInvariant, SessionsTypeOK, LoginReady, TypeOK, StoreTypeOK
<1> DEFINE Known == CredentialUsers(db) \cup CredentialUsers(view)
           Goal == CredentialUsers(db)' \cup CredentialUsers(view)'
                      \subseteq Known \cup Enrolled'
<1>2. ASSUME db' = db \/ db' = view,
             view' = db \/ view' = view
      PROVE  Goal
  BY <1>2 DEF CredentialUsers
<1>3. ASSUME NEW d, d = db \/ d = view, NEW e,
             CredentialUsers(e) = CredentialUsers(d),
             db' = db \/ db' = e, view' = e
      PROVE  Goal
  BY <1>3 DEF CredentialUsers
<1> HIDE DEF Goal
<1>4. ASSUME NEW r \in LoginStarts, LoginStep(r)
      PROVE  Goal
  <2>1. CASE PersistLoginSession(r)
    BY <1>1, <1>3, <2>1, StatementsKeepUsers DEF PersistLoginSession, Autocommit
  <2>2. CASE ~PersistLoginSession(r)
    BY <1>2, <1>4, <2>2
    DEF LoginStep, LoginArrives, LoginProceeds, LoginFails,
        RejectLoginHandle, LoadUser, UserNotFound, LoadCredentials,
        OpenLoginSession, LoadUserCredentialsFails, PersistLoginFails,
        RespondLogin, storeVars
  <2> QED
    BY <2>1, <2>2
<1>5. ASSUME NEW q \in LoginFinishes, AssertStep(q)
      PROVE  Goal
  <2>1. CASE UpdateSignCount(q)
    BY <1>1, <1>3, <2>1, StatementsKeepUsers DEF UpdateSignCount, FirstWrite
  <2>2. CASE InsertLoginToken(q)
    BY <1>1, <1>3, <2>2, StatementsKeepUsers DEF InsertLoginToken, NextWrite
  <2>3. CASE DeleteLoginSession(q)
    BY <1>1, <1>3, <2>3, StatementsKeepUsers DEF DeleteLoginSession, NextWrite
  <2>4. CASE CommitLogin(q)
    BY <1>2, <2>4 DEF CommitLogin, Commit
  <2>5. CASE AssertFails(q)
    BY <1>2, <2>5
    DEF AssertFails, LoadAssertionFails, FinishLoginFails, Rollback, storeVars
  <2>6. CASE \/ AssertArrives(q)
             \/ LoadLoginSession(q) \/ LoginSessionNotFound(q)
             \/ NewFreshLoginSession(q) \/ LoginSessionExpired(q)
             \/ LoadCredential(q) \/ CredentialNotFound(q) \/ LoadOwner(q)
             \/ VerifyAssertion(q) \/ AssertionInvalid(q) \/ RespondAssertion(q)
    BY <1>2, <2>6
    DEF AssertArrives, RejectAssertion, AcceptAssertion, LoadLoginSession,
        LoginSessionNotFound, NewFreshLoginSession, LoginSessionExpired,
        LoadCredential, CredentialNotFound, LoadOwner, VerifyAssertion,
        AssertionInvalid, RespondAssertion, storeVars
  <2> QED
    BY <1>5, <2>1, <2>2, <2>3, <2>4, <2>5, <2>6 DEF AssertStep, AssertProceeds
<1>6. CASE Enroll
  <2>1. PICK u \in RegFinishes, h \in Handles, k \in CredIDs,
             n \in SignCounts, t \in 0 .. MaxTime :
           /\ Register(u, h, k, n, t)
           /\ enrolled' = [enrolled EXCEPT ![u] = GenerateTokenPair(t, boots)]
    BY <1>6 DEF Enroll
  <2>2. GenerateTokenPair(t, boots) \in TokenPair
    BY <1>1, TokenPairTyped, StoreAssumption DEF StoreTypeOK
  <2>3. u \in Enrolled'
    BY <1>1, <2>1, <2>2, TokensAssumption DEF Enrolled, SessionsTypeOK
  <2> DEFINE row == [credential_id |-> k, user_id |-> u, sign_count |-> n]
  <2>4. row.user_id = u
    OBVIOUS
  <2>5. view' = db' /\ db'.credentials = db.credentials \cup {row}
    BY <1>1, <2>1 DEF Register, Autocommit, Database
  <2> HIDE DEF row
  <2> QED
    BY <2>3, <2>4, <2>5 DEF Goal, CredentialUsers
<1>7. ASSUME NEW l \in Logouts, LogoutStep(l)
      PROVE  Goal
  <2>1. CASE UNCHANGED storeVars
    BY <1>2, <2>1 DEF storeVars
  <2>2. CASE RevokeUserSessions(l)
    BY <1>1, <1>3, <2>2, StatementsKeepUsers DEF RevokeUserSessions, Autocommit
  <2> QED
    BY <1>7, <2>1, <2>2, LogoutLeaves
<1>8. CASE \/ SignStep \/ ClockStep \/ SessionsRestart \/ SessionsQuiescent
           \/ UNCHANGED sessionsVars
  BY <1>2, <1>8
  DEF SignStep, ClockStep, Tick, SessionsRestart, Restart, Reboot,
      SessionsQuiescent, Quiescent, sessionsVars, vars, storeVars
<1> QED
  BY <1>4, <1>5, <1>6, <1>7, <1>8 DEF SessionsNext, Goal

(* A step keeps the keys of what is under way.                             *)
LEMMA KeysStep ==
    ASSUME GrantsInvariant, [SessionsNext]_sessionsVars
    PROVE  KeysAreInUse'
<1>1. /\ SessionsInvariant /\ RowsAreGranted /\ KeysAreInUse
      /\ StoreTypeOK /\ AssertTypeOK /\ SessionsTypeOK /\ LogoutTypeOK /\ LoginReady
  BY DEF GrantsInvariant, SessionsInvariant, SessionsTypeOK, LoginReady, TypeOK
<1>2. Enrolled \subseteq Enrolled'
  BY <1>1, EnrolledStay
<1>3. boots' = boots \/ SessionsRestart
  BY <1>1, ClockAdvances
<1>4. ASSUME NEW q \in LoginFinishes,
             \/ assertPc'[q] \in {"owner", "verify", "updateCount"}
                                   \cup LoginTransaction
             \/ q \in LoggedIn'
      PROVE  target'[q].user_id \in Enrolled'
  <2> USE <1>1, <1>2 DEF AssertTypeOK, LoggedIn, LoginTransaction
  <2>1. CASE /\ \/ assertPc[q] \in {"owner", "verify", "updateCount"}
                                     \cup LoginTransaction
                \/ q \in LoggedIn
             /\ target'[q] = target[q]
    BY <2>1 DEF KeysAreInUse
  <2>2. CASE AssertUnmoved(q)
    BY <1>4, <2>1, <2>2 DEF AssertUnmoved, AssertRunning
  <2>3. CASE LoadCredential(q)
    BY <2>3 DEF LoadCredential, RowsAreGranted
  <2>4. CASE AssertStep(q) /\ ~LoadCredential(q)
    <3>1. CASE AssertArrives(q)
      BY <1>4, <2>1, <3>1, NoneIsNoReply
      DEF AssertArrives, RejectAssertion, AcceptAssertion, AnswerAssertion,
          AssertGoes, LoginReady
    <3>2. CASE AssertProceeds(q)
      BY <1>4, <2>1, <2>4, <3>2, NoneIsNoReply
      DEF AssertProceeds, LoadLoginSession, LoginSessionNotFound,
          NewFreshLoginSession, LoginSessionExpired, CredentialNotFound,
          LoadOwner, VerifyAssertion, AssertionInvalid, UpdateSignCount,
          InsertLoginToken, DeleteLoginSession, CommitLogin,
          RespondAssertion, AnswerAssertion, AssertGoes
    <3>3. CASE AssertFails(q)
      BY <1>4, <2>1, <3>3, ErrorTyped
      DEF AssertFails, LoadAssertionFails, FinishLoginFails, AnswerAssertion,
          AssertGoes
    <3> QED
      BY <2>4, <3>1, <3>2, <3>3 DEF AssertStep
  <2> QED
    BY <2>2, <2>3, <2>4, FinishFrame
<1>5. ASSUME NEW q \in LoginFinishes,
             assertPc'[q] \in {"updateCount"} \cup LoginTransaction
      PROVE  loginIssued'[q].key = boots'
  <2> USE <1>1 DEF AssertTypeOK, LoginTransaction
  <2>1. ~SessionsRestart
    BY <1>5 DEF SessionsRestart, Restart, AssertKilled, AssertRunning
  <2>2. boots' = boots
    BY <1>3, <2>1
  <2>3. CASE /\ assertPc[q] \in {"updateCount"} \cup LoginTransaction
             /\ loginIssued'[q] = loginIssued[q]
    BY <2>2, <2>3 DEF KeysAreInUse
  <2>4. CASE AssertUnmoved(q)
    BY <1>5, <2>3, <2>4 DEF AssertUnmoved, AssertRunning
  <2>5. CASE VerifyAssertion(q)
    BY <2>2, <2>5 DEF VerifyAssertion, GenerateTokenPair
  <2>6. CASE AssertStep(q) /\ ~VerifyAssertion(q)
    BY <1>5, <2>3, <2>6
    DEF AssertStep, AssertArrives, AssertProceeds, AssertFails,
        RejectAssertion, AcceptAssertion, LoadLoginSession,
        LoginSessionNotFound, NewFreshLoginSession, LoginSessionExpired,
        LoadCredential, CredentialNotFound, LoadOwner, AssertionInvalid,
        UpdateSignCount, InsertLoginToken, DeleteLoginSession, CommitLogin,
        RespondAssertion, LoadAssertionFails, FinishLoginFails,
        AnswerAssertion, AssertGoes
  <2> QED
    BY <2>4, <2>5, <2>6, FinishFrame
<1>6. ASSUME NEW l \in Logouts, logoutPc'[l] \in {"stamp", "revoke"}
      PROVE  verifyInput'[l].key = boots'
  <2> USE <1>1 DEF LogoutTypeOK
  <2>1. ~SessionsRestart
    BY <1>6 DEF SessionsRestart, LogoutKilled, LogoutRunning
  <2>2. boots' = boots
    BY <1>3, <2>1
  <2>3. CASE LogoutUnmoved(l)
    BY <1>6, <2>2, <2>3 DEF LogoutUnmoved, LogoutRunning, KeysAreInUse
  <2>4. CASE LogoutStep(l)
    BY <1>6, <2>2, <2>4
    DEF LogoutStep, LogoutArrives, LogoutProceeds, LogoutFails, RejectBearer,
        AuthenticateLogout, AccessTokenInvalid, VerifyWith, StampRevocation,
        RevokeUserSessions, RevokeFails, RespondLogout, AnswerLogout,
        LogoutGoes, KeysAreInUse
  <2> QED
    BY <2>3, <2>4, LogoutFrame
<1> QED
  BY <1>4, <1>5, <1>6 DEF KeysAreInUse

(* A step keeps every row that of somebody who was given a token pair.     *)
LEMMA RowsStep ==
    ASSUME GrantsInvariant, [SessionsNext]_sessionsVars
    PROVE  RowsAreGranted'
<1>1. /\ SessionsInvariant /\ RowsAreGranted /\ KeysAreInUse'
      /\ Enrolled \subseteq Enrolled' /\ Granted \subseteq Granted'
      /\ db.refresh_tokens \subseteq RefreshTokenRow
  BY KeysStep, EnrolledStay
  DEF GrantsInvariant, SessionsInvariant, SessionsTypeOK, LoginReady, TypeOK,
      StoreTypeOK, Database
<1>2. \A k \in db'.credentials \cup view'.credentials : k.user_id \in Enrolled'
  BY <1>1, CredentialsStep DEF CredentialUsers, RowsAreGranted
<1>3. \A u \in RegFinishes : u \in Granted' => u \in Enrolled'
  BY StoreAssumption DEF Granted, Enrolled, LoggedIn
<1> DEFINE Kept(rows) == \A t \in rows : /\ t.token_hash \in Granted'
                                         /\ t.user_id \in Enrolled'
<1>4. Kept(db.refresh_tokens)
  BY <1>1 DEF RowsAreGranted
<1>5. CASE db'.users = db.users /\ Kept(db'.refresh_tokens)
  BY <1>1, <1>2, <1>5 DEF RowsAreGranted
<1>6. ASSUME NEW q \in LoginFinishes, q \in LoggedIn',
             Granted' = Granted \cup {q},
             db'.refresh_tokens = db.refresh_tokens \cup {LoginTokenOf(q)'}
      PROVE  Kept(db'.refresh_tokens)
  <2>1. /\ LoginTokenOf(q)'.token_hash = q
        /\ LoginTokenOf(q)'.user_id = target'[q].user_id
    BY DEF LoginTokenOf
  <2>2. target'[q].user_id \in Enrolled'
    BY <1>1, <1>6 DEF KeysAreInUse
  <2> QED
    BY <1>4, <1>6, <2>1, <2>2
<1>7. ASSUME NEW u \in RegFinishes, NEW h \in Handles, NEW e \in Nat,
             Granted' = Granted \cup {u},
             db'.users = db.users \cup {[id |-> u, handle |-> h]},
             db'.refresh_tokens = db.refresh_tokens \cup
                {[token_hash |-> u, user_id |-> u, expires_at |-> e,
                  revoked_at |-> None]}
      PROVE  RowsAreGranted'
  <2>1. u \in Enrolled'
    BY <1>3, <1>7
  <2>2. \A row \in db'.users : row.id \in Enrolled'
    BY <1>1, <1>7, <2>1 DEF RowsAreGranted
  <2>3. Kept(db'.refresh_tokens)
    BY <1>4, <1>7, <2>1
  <2> QED
    BY <1>2, <2>2, <2>3 DEF RowsAreGranted
<1>8. ASSUME NEW i \in RevokeUserSessionsInput,
             db'.refresh_tokens =
                {IF t.user_id = i.user_id /\ t.revoked_at = None
                 THEN [t EXCEPT !.revoked_at = Unix(i.now)]
                 ELSE t : t \in db.refresh_tokens}
      PROVE  Kept(db'.refresh_tokens)
  <2> DEFINE r(t) == IF t.user_id = i.user_id /\ t.revoked_at = None
                     THEN [t EXCEPT !.revoked_at = Unix(i.now)] ELSE t
  <2>1. Unix(i.now) \in Nat
    BY UnixTyped DEF RevokeUserSessionsInput
  <2>2. \A t \in db.refresh_tokens : /\ r(t).token_hash = t.token_hash
                                     /\ r(t).user_id = t.user_id
    BY <1>1, <2>1, RevokedRow
  <2>3. db'.refresh_tokens = {r(t) : t \in db.refresh_tokens}
    BY <1>8
  <2> HIDE DEF r
  <2> QED
    BY <1>4, <2>2, <2>3
<1> HIDE DEF Kept
<1> QED
  BY <1>1, <1>4, <1>5, <1>6, <1>7, <1>8, TokenSteps

(* What holds before the first request.                                    *)
LEMMA GrantsInvariantInit == SessionsInit => GrantsInvariant
<1> SUFFICES ASSUME SessionsInit
             PROVE  GrantsInvariant
  OBVIOUS
<1>1. /\ db = EmptyDatabase /\ view = EmptyDatabase
      /\ \A q \in LoginFinishes : assertPc[q] = "idle" /\ assertReply[q] = None
      /\ \A l \in Logouts : logoutPc[l] = "idle"
  BY DEF SessionsInit, Init, StoreInit, AssertInit, LogoutInit
<1>2. RowsAreGranted
  BY <1>1 DEF RowsAreGranted, EmptyDatabase
<1>3. KeysAreInUse
  BY <1>1, NoneIsNoReply DEF KeysAreInUse, LoginTransaction, LoggedIn
<1> QED
  BY <1>2, <1>3, SessionsInvariantInit DEF GrantsInvariant

(* And every step keeps it.                                                *)
LEMMA GrantsInvariantStep ==
    GrantsInvariant /\ [SessionsNext]_sessionsVars => GrantsInvariant'
BY SessionsInvariantStep, RowsStep, KeysStep DEF GrantsInvariant

----------------------------------------------------------------------------
(* Sessions implements Grants.                                             *)

(* A refresh token that stays as it was stands for the same grant.         *)
LEMMA GrantStays ==
    ASSUME GrantsInvariant, [SessionsNext]_sessionsVars,
           NEW t \in db.refresh_tokens
    PROVE  PairOf(t.token_hash)' = PairOf(t.token_hash)
BY GrantsStay DEF GrantsInvariant, RowsAreGranted

(* The epoch, and a step that leaves the table alone.                      *)
LEMMA QuietIsNothing ==
    ASSUME GrantsInvariant, [SessionsNext]_sessionsVars,
           db'.refresh_tokens = db.refresh_tokens
    PROVE  Given' = Given
<1>1. \A t \in db.refresh_tokens : PairOf(t.token_hash)' = PairOf(t.token_hash)
  BY GrantStays
<1> QED
  BY <1>1 DEF Given, GrantOf

(* A row that is added is a grant that is given.                           *)
LEMMA AddedIsGiven ==
    ASSUME GrantsInvariant, [SessionsNext]_sessionsVars, boots' = boots,
           NEW t, t.revoked_at = None, PairOf(t.token_hash)'.key = boots,
           \A s \in db.refresh_tokens : s.token_hash # t.token_hash,
           db'.refresh_tokens = db.refresh_tokens \cup {t}
    PROVE  Promised!Give(t.user_id, t.token_hash)
<1>1. \A s \in db.refresh_tokens : PairOf(s.token_hash)' = PairOf(s.token_hash)
  BY GrantStays
<1> DEFINE new == [name  |-> t.token_hash, owner |-> t.user_id,
                   epoch |-> boots, live |-> TRUE]
           Of(s) == [name  |-> s.token_hash, owner |-> s.user_id,
                     epoch |-> PairOf(s.token_hash)'.key,
                     live  |-> s.revoked_at = None]
<1>2. Of(t) = new
  OBVIOUS
<1>3. Given' = {Of(s) : s \in db'.refresh_tokens}
  BY DEF Given, GrantOf
<1>4. Given = {Of(s) : s \in db.refresh_tokens}
  BY <1>1 DEF Given, GrantOf
<1>5. {Of(s) : s \in db'.refresh_tokens} =
         {Of(s) : s \in db.refresh_tokens} \cup {Of(t)}
  <2> HIDE DEF Of
  <2> QED
    OBVIOUS
<1>6. Given' = Given \cup {new}
  BY <1>2, <1>3, <1>4, <1>5
<1>7. \A g \in Given : g.name # t.token_hash
  BY DEF Given, GrantOf
<1> QED
  BY <1>6, <1>7 DEF Promised!Give, Given, GrantOf

(* A COMMIT of the finish slice is a SignIn.                               *)
LEMMA CommitSignsIn ==
    ASSUME GrantsInvariant, [SessionsNext]_sessionsVars, boots' = boots,
           NEW q \in LoginFinishes, AssertStep(q), CommitLogin(q),
           db'.refresh_tokens = db.refresh_tokens \cup {LoginTokenOf(q)'}
    PROVE  \E p \in RegFinishes : Promised!SignIn(p, q)
<1> DEFINE t == LoginTokenOf(q)
<1>1. /\ SessionsInvariant /\ RowsAreGranted /\ KeysAreInUse /\ LoginReady
  BY DEF GrantsInvariant, SessionsInvariant, SessionsTypeOK
<1>2. /\ assertPc[q] = "commit" /\ q \notin RegFinishes
      /\ UNCHANGED <<target, loginIssued>>
  BY StoreAssumption DEF CommitLogin
<1>3. q \notin Granted
  BY <1>1, <1>2, NoneIsNoReply
  DEF Granted, Enrolled, LoggedIn, LoginReady, AssertRunning, LoginTransaction
<1>4. PICK p \in RegFinishes : /\ p = target[q].user_id
                              /\ p \in Enrolled
                              /\ loginIssued[q].key = boots
  BY <1>1, <1>2 DEF KeysAreInUse, LoginTransaction, Enrolled
<1>5. /\ t.token_hash = q /\ t.user_id = p /\ t.revoked_at = None
      /\ LoginTokenOf(q)' = t
  BY <1>2, <1>4 DEF LoginTokenOf
<1>6. PairOf(q)'.key = boots
  BY <1>2, <1>4 DEF PairOf
<1>7. \A s \in db.refresh_tokens : s.token_hash # q
  BY <1>1, <1>3 DEF RowsAreGranted
<1> HIDE DEF t
<1>8. Promised!Give(p, q)
  BY <1>5, <1>6, <1>7, AddedIsGiven
<1>9. PICK s \in db.refresh_tokens : s.token_hash = p /\ s.user_id = p
  BY <1>1, <1>4 DEF SessionsInvariant, GrantsAreStored, Granted, OwnerOf
<1>10. GrantOf(s) \in Given /\ GrantOf(s).owner = p
  BY <1>9 DEF Given, GrantOf
<1>11. Promised!SignIn(p, q)
  BY <1>8, <1>10 DEF Promised!SignIn, Promised!GrantsOf, Given, GrantOf
<1> QED
  BY <1>11

(* A registration is a SignUp.                                             *)
LEMMA EnrollSignsUp ==
    ASSUME GrantsInvariant, [SessionsNext]_sessionsVars, boots' = boots,
           NEW u \in RegFinishes, NEW e \in Nat,
           \A row \in db.users : row.id # u, enrolled'[u].key = boots,
           db'.refresh_tokens = db.refresh_tokens \cup
              {[token_hash |-> u, user_id |-> u, expires_at |-> e,
                revoked_at |-> None]}
    PROVE  Promised!SignUp(u, u)
<1> DEFINE t == [token_hash |-> u, user_id |-> u, expires_at |-> e,
                 revoked_at |-> None]
<1>1. SessionsInvariant /\ RowsAreGranted
  BY DEF GrantsInvariant
<1>2. u \notin Enrolled
  BY <1>1 DEF SessionsInvariant, GrantsAreStored
<1>3. u \notin Granted
  BY <1>2, StoreAssumption DEF Granted, Enrolled, LoggedIn
<1>4. \A s \in db.refresh_tokens : s.token_hash # u /\ s.user_id # u
  BY <1>1, <1>2, <1>3 DEF RowsAreGranted
<1>5. PairOf(u)'.key = boots
  BY DEF PairOf
<1>6. t.token_hash = u /\ t.user_id = u /\ t.revoked_at = None
  OBVIOUS
<1>7. db'.refresh_tokens = db.refresh_tokens \cup {t}
  OBVIOUS
<1> HIDE DEF t
<1>8. Promised!Give(u, u)
  BY <1>4, <1>5, <1>6, <1>7, AddedIsGiven
<1>9. \A g \in Given : g.owner # u
  BY <1>4 DEF Given, GrantOf
<1> QED
  BY <1>8, <1>9 DEF Promised!SignUp, Promised!GrantsOf, Given, GrantOf

(* The UPDATE of a logout is a SignOut.                                    *)
LEMMA RevokeSignsOut ==
    ASSUME GrantsInvariant, [SessionsNext]_sessionsVars, boots' = boots,
           NEW l \in Logouts, RevokeUserSessions(l),
           revocation[l] \in RevokeUserSessionsInput,
           db'.refresh_tokens =
              {IF t.user_id = revocation[l].user_id /\ t.revoked_at = None
               THEN [t EXCEPT !.revoked_at = Unix(revocation[l].now)]
               ELSE t : t \in db.refresh_tokens}
    PROVE  \E p \in RegFinishes : Promised!SignOut(p)
<1>p. PICK p \in RegFinishes : p = revocation[l].user_id
  BY DEF RevokeUserSessionsInput
<1>s. PICK s \in Nat : s = Unix(revocation[l].now)
  BY UnixTyped DEF RevokeUserSessionsInput
<1> DEFINE r(t) == IF t.user_id = p /\ t.revoked_at = None
                   THEN [t EXCEPT !.revoked_at = s] ELSE t
           Of(t) == [name  |-> t.token_hash, owner |-> t.user_id,
                     epoch |-> PairOf(t.token_hash)'.key,
                     live  |-> t.revoked_at = None]
           ended(g) == [g EXCEPT !.live = FALSE]
           mine == {g \in Given : g.owner = p}
<1>1. /\ SessionsInvariant /\ RowsAreGranted /\ KeysAreInUse
      /\ db.refresh_tokens \subseteq RefreshTokenRow
      /\ LogoutKnows(l)
  BY DEF GrantsInvariant, SessionsInvariant, SessionsTypeOK, LoginReady,
         TypeOK, StoreTypeOK, Database
<1>2. \A t \in db.refresh_tokens : PairOf(t.token_hash)' = PairOf(t.token_hash)
  BY GrantStays
<1>3. ASSUME NEW t \in db.refresh_tokens
      PROVE  Of(r(t)) = IF t.user_id = p THEN ended(Of(t)) ELSE Of(t)
  <2>1. /\ r(t).token_hash = t.token_hash /\ r(t).user_id = t.user_id
        /\ t.user_id = p => r(t).revoked_at # None
        /\ t.user_id # p => r(t) = t
    BY <1>1, RevokedRow
  <2> HIDE DEF r
  <2>2. CASE t.user_id = p
    <3>1. (r(t).revoked_at = None) = FALSE
      BY <2>1, <2>2
    <3>2. Of(r(t)) = [name  |-> t.token_hash, owner |-> t.user_id,
                      epoch |-> PairOf(t.token_hash)'.key, live |-> FALSE]
      BY <2>1, <3>1
    <3> QED
      BY <2>2, <3>2
  <2>3. CASE t.user_id # p
    BY <2>1, <2>3
  <2> QED
    BY <2>2, <2>3
<1>4. Given' = {Of(r(t)) : t \in db.refresh_tokens}
  <2>1. Given' = {Of(t) : t \in db'.refresh_tokens}
    BY DEF Given, GrantOf
  <2>2. db'.refresh_tokens = {r(t) : t \in db.refresh_tokens}
    BY <1>p, <1>s
  <2> HIDE DEF r, Of
  <2> QED
    BY <2>1, <2>2
<1>5. Given = {Of(t) : t \in db.refresh_tokens}
  BY <1>2 DEF Given, GrantOf
<1>6. \A t \in db.refresh_tokens : Of(t).owner = t.user_id
  OBVIOUS
<1>7. Given' = (Given \ mine) \cup {ended(g) : g \in mine}
  <2> HIDE DEF r, Of, ended
  <2> QED
    BY <1>3, <1>4, <1>5, <1>6
<1>8. \E g \in mine : g.epoch = boots
  <2> DEFINE in == verifyInput[l]
             h == in.token.from
  <2>1. /\ h \in Granted /\ in.token = AccessTokenOf(h)
        /\ p = in.token.sub /\ in.token.key = boots
    BY <1>1, <1>p
    DEF LogoutKnows, RevokeUserSessions, VerifyAccessToken, KeysAreInUse
  <2>2. p = OwnerOf(h) /\ PairOf(h).key = boots
    BY <2>1 DEF AccessTokenOf, AccessTokenIn
  <2>3. PICK t \in db.refresh_tokens : t.token_hash = h /\ t.user_id = p
    BY <1>1, <2>1, <2>2 DEF SessionsInvariant, GrantsAreStored
  <2>4. GrantOf(t) \in Given
    BY <2>3 DEF Given
  <2>5. GrantOf(t).owner = p /\ GrantOf(t).epoch = boots
    BY <2>2, <2>3 DEF GrantOf
  <2> QED
    BY <2>4, <2>5
<1>9. /\ Given = Promised!GrantsOf(p) \cup (Given \ mine)
      /\ mine = Promised!GrantsOf(p)
  <2> QED
    BY DEF Promised!GrantsOf, Given, GrantOf
<1>10. Promised!SignOut(p)
  <2> HIDE DEF mine
  <2> QED
    BY <1>7, <1>8, <1>9 DEF Promised!SignOut, Given, GrantOf, ended
<1> QED
  BY <1>10

(* A restart is a NewEpoch, and changes nothing else.                      *)
LEMMA RestartIsNewEpoch ==
    ASSUME GrantsInvariant, SessionsRestart, boots' = boots + 1
    PROVE  Promised!NewEpoch
<1>1. db' = db /\ [SessionsNext]_sessionsVars
  BY DEF SessionsRestart, Restart, Reboot, SessionsNext
<1>2. Given' = Given
  BY <1>1, QuietIsNothing
<1> QED
  BY <1>2 DEF Promised!NewEpoch, Given, GrantOf

(* Whatever fails, overlaps or restarts, the refresh tokens are grants:    *)
(* given once each, to whom registered, and ended together, for good, by a *)
(* logout that shows a grant of the process that serves it.                *)
THEOREM SessionsImplementsGrants == SessionsSpec => ImplementsGrants
<1>1. SessionsInit => Promised!Init
  BY DEF SessionsInit, Init, StoreInit, EmptyDatabase, Promised!Init
<1>2. GrantsInvariant /\ [SessionsNext]_sessionsVars
         => [Promised!Next]_(Promised!grantVars)
  <2> SUFFICES ASSUME GrantsInvariant, [SessionsNext]_sessionsVars
               PROVE  [Promised!Next]_(Promised!grantVars)
    OBVIOUS
  <2>1. \/ boots' = boots
        \/ SessionsRestart /\ boots' = boots + 1
    BY ClockAdvances
    DEF GrantsInvariant, SessionsInvariant, SessionsTypeOK, LoginReady, TypeOK
  <2>2. CASE SessionsRestart /\ boots' = boots + 1
    BY <2>2, RestartIsNewEpoch DEF Promised!Next
  <2>3. CASE boots' = boots /\ db'.refresh_tokens = db.refresh_tokens
    <3>1. Given' = Given
      BY <2>3, QuietIsNothing
    <3> QED
      BY <2>3, <3>1 DEF Promised!grantVars, Given, GrantOf
  <2>4. ASSUME boots' = boots, NEW q \in LoginFinishes,
               AssertStep(q), CommitLogin(q),
               db'.refresh_tokens = db.refresh_tokens \cup {LoginTokenOf(q)'}
        PROVE  Promised!Next
    BY <2>4, CommitSignsIn DEF Promised!Next
  <2>5. ASSUME boots' = boots, NEW u \in RegFinishes, NEW e \in Nat,
               \A row \in db.users : row.id # u, enrolled'[u].key = boots,
               db'.refresh_tokens = db.refresh_tokens \cup
                  {[token_hash |-> u, user_id |-> u, expires_at |-> e,
                    revoked_at |-> None]}
        PROVE  Promised!Next
    BY <2>5, EnrollSignsUp DEF Promised!Next
  <2>6. ASSUME boots' = boots, NEW l \in Logouts, RevokeUserSessions(l),
               revocation[l] \in RevokeUserSessionsInput,
               db'.refresh_tokens =
                  {IF t.user_id = revocation[l].user_id /\ t.revoked_at = None
                   THEN [t EXCEPT !.revoked_at = Unix(revocation[l].now)]
                   ELSE t : t \in db.refresh_tokens}
        PROVE  Promised!Next
    BY <2>6, RevokeSignsOut DEF Promised!Next
  <2> QED
    BY <2>1, <2>2, <2>3, <2>4, <2>5, <2>6, TokenSteps DEF GrantsInvariant
<1>3. SessionsSpec => []GrantsInvariant
  BY GrantsInvariantInit, GrantsInvariantStep, PTL DEF SessionsSpec
<1> QED
  BY <1>1, <1>2, <1>3, PTL DEF SessionsSpec, ImplementsGrants, Promised!Spec

----------------------------------------------------------------------------
(* Sessions implements Login.                                              *)

(* Putting revocations out of sight leaves the other tables alone.         *)
LEMMA UnrevokedIs ==
    ASSUME NEW d \in Database
    PROVE  /\ Unrevoked(d).users = d.users
           /\ Unrevoked(d).credentials = d.credentials
           /\ Unrevoked(d).login_sessions = d.login_sessions
           /\ Unrevoked(d).registration_sessions = d.registration_sessions
           /\ Unrevoked(d).refresh_tokens =
                 {[t EXCEPT !.revoked_at = None] : t \in d.refresh_tokens}
BY DEF Unrevoked, Database

(* It commutes with each statement of a login and with a registration ...  *)
LEMMA StatementsIgnoreRevocations ==
    ASSUME NEW d \in Database
    PROVE  /\ \A row : LoginAlone!InsertRow(Unrevoked(d), "login_sessions", row)
                          = Unrevoked(InsertRow(d, "login_sessions", row))
           /\ \A row \in RefreshTokenRow : row.revoked_at = None =>
                 LoginAlone!InsertRow(Unrevoked(d), "refresh_tokens", row)
                    = Unrevoked(InsertRow(d, "refresh_tokens", row))
           /\ \A id : LoginAlone!DeleteByID(Unrevoked(d), "login_sessions", id)
                         = Unrevoked(DeleteByID(d, "login_sessions", id))
           /\ \A c, n : LoginAlone!SetSignCount(Unrevoked(d), c, n)
                           = Unrevoked(SetSignCount(d, c, n))
<1>1. ASSUME NEW row
      PROVE  LoginAlone!InsertRow(Unrevoked(d), "login_sessions", row)
                = Unrevoked(InsertRow(d, "login_sessions", row))
  BY DEF LoginAlone!InsertRow, InsertRow, Unrevoked, Database
<1>2. ASSUME NEW row \in RefreshTokenRow, row.revoked_at = None
      PROVE  LoginAlone!InsertRow(Unrevoked(d), "refresh_tokens", row)
                = Unrevoked(InsertRow(d, "refresh_tokens", row))
  <2>1. [row EXCEPT !.revoked_at = None] = row
    BY <1>2 DEF RefreshTokenRow
  <2>2. {[t EXCEPT !.revoked_at = None] : t \in d.refresh_tokens \cup {row}}
           = {[t EXCEPT !.revoked_at = None] : t \in d.refresh_tokens}
                \cup {row}
    BY <2>1
  <2> QED
    BY <2>2 DEF LoginAlone!InsertRow, InsertRow, Unrevoked, Database
<1>3. ASSUME NEW id
      PROVE  LoginAlone!DeleteByID(Unrevoked(d), "login_sessions", id)
                = Unrevoked(DeleteByID(d, "login_sessions", id))
  BY DEF LoginAlone!DeleteByID, DeleteByID, Unrevoked, Database
<1>4. ASSUME NEW c, NEW n
      PROVE  LoginAlone!SetSignCount(Unrevoked(d), c, n)
                = Unrevoked(SetSignCount(d, c, n))
  BY DEF LoginAlone!SetSignCount, SetSignCount, Unrevoked, Database
<1> QED
  BY <1>1, <1>2, <1>3, <1>4

(* ... and absorbs the UPDATE of a logout.                                 *)
LEMMA RevocationsAreOutOfSight ==
    ASSUME NEW d \in Database, NEW u, NEW s
    PROVE  Unrevoked(RevokeTokens(d, u, s)) = Unrevoked(d)
<1> DEFINE r(t) == IF t.user_id = u /\ t.revoked_at = None
                   THEN [t EXCEPT !.revoked_at = s] ELSE t
           hide(t) == [t EXCEPT !.revoked_at = None]
<1>1. \A t \in RefreshTokenRow : hide(r(t)) = hide(t)
  BY DEF RefreshTokenRow
<1>2. {hide(r(t)) : t \in d.refresh_tokens} = {hide(t) : t \in d.refresh_tokens}
  <2> HIDE DEF r, hide
  <2> QED
    BY <1>1 DEF Database
<1>3. {hide(t) : t \in {r(t) : t \in d.refresh_tokens}}
         = {hide(r(t)) : t \in d.refresh_tokens}
  <2> HIDE DEF r, hide
  <2> QED
    OBVIOUS
<1> QED
  BY <1>2, <1>3 DEF RevokeTokens, Unrevoked, Database

-----------------------------------------------------------------------------
(* What moves the store, seen without revocations.                         *)

LEMMA StoreMaps ==
    ASSUME NEW d, NEW p
    PROVE  /\ UNCHANGED storeVars => UNCHANGED LoginAlone!storeVars
           /\ Autocommit(d) => LoginAlone!Autocommit(Unrevoked(d))
           /\ FirstWrite(p, d) => LoginAlone!FirstWrite(p, Unrevoked(d))
           /\ NextWrite(p, d) => LoginAlone!NextWrite(p, Unrevoked(d))
           /\ Commit(p) => LoginAlone!Commit(p)
           /\ Rollback(p) => LoginAlone!Rollback(p)
           /\ Tick => LoginAlone!Tick
           /\ Reboot => LoginAlone!Reboot
BY DEF storeVars, LoginAlone!storeVars, Autocommit, LoginAlone!Autocommit,
       FirstWrite, LoginAlone!FirstWrite, NextWrite, LoginAlone!NextWrite,
       Commit, LoginAlone!Commit, Rollback, LoginAlone!Rollback,
       Tick, LoginAlone!Tick, Reboot, LoginAlone!Reboot

(* A step of login keeps its name.                                         *)
LEMMA LoginStepMaps ==
    ASSUME StoreTypeOK, NEW r \in LoginStarts, LoginStep(r)
    PROVE  LoginAlone!LoginStep(r)
<1> USE DEF AnswerLogin, LoginAlone!AnswerLogin, LoginGoes, LoginAlone!LoginGoes
<1>1. /\ db \in Database
      /\ Unrevoked(db).users = db.users
      /\ Unrevoked(db).credentials = db.credentials
  BY UnrevokedIs DEF StoreTypeOK
<1>2. UNCHANGED storeVars => UNCHANGED LoginAlone!storeVars
  BY StoreMaps
<1>3. RejectLoginHandle(r) => LoginAlone!RejectLoginHandle(r)
  BY <1>2 DEF RejectLoginHandle, LoginAlone!RejectLoginHandle
<1>4. ASSUME NEW h \in Handles, LoadUser(r, h)
      PROVE  LoginAlone!LoadUser(r, h)
  BY <1>1, <1>2, <1>4 DEF LoadUser, LoginAlone!LoadUser
<1>5. ASSUME NEW h \in Handles, UserNotFound(r, h)
      PROVE  LoginAlone!UserNotFound(r, h)
  BY <1>1, <1>2, <1>5
  DEF UserNotFound, LoginAlone!UserNotFound, HandleTaken, LoginAlone!HandleTaken
<1>6. ASSUME LoadCredentials(r)
      PROVE  LoginAlone!LoadCredentials(r)
  <2>1. LoginAlone!CredentialsOf(user[r]) = CredentialsOf(user[r])
    BY <1>1 DEF CredentialsOf, LoginAlone!CredentialsOf
  <2> QED
    BY <1>2, <1>6, <2>1 DEF LoadCredentials, LoginAlone!LoadCredentials
<1>7. ASSUME OpenLoginSession(r)
      PROVE  LoginAlone!OpenLoginSession(r)
  BY <1>2, <1>7
  DEF OpenLoginSession, LoginAlone!OpenLoginSession, NewLoginSession,
      LoginAlone!NewLoginSession
<1>8. ASSUME PersistLoginSession(r)
      PROVE  LoginAlone!PersistLoginSession(r)
  <2>1. PICK row : row = LoginSessionRowOf(r)
    OBVIOUS
  <2>2. LoginAlone!LoginSessionRowOf(r) = row
    BY <2>1 DEF LoginSessionRowOf, LoginAlone!LoginSessionRowOf, Unix,
                LoginAlone!Unix
  <2>3. Autocommit(InsertRow(db, "login_sessions", row))
    BY <1>8, <2>1 DEF PersistLoginSession
  <2>4. LoginAlone!Autocommit(
           LoginAlone!InsertRow(Unrevoked(db), "login_sessions", row))
    BY <1>1, <2>3, StatementsIgnoreRevocations
    DEF Autocommit, LoginAlone!Autocommit
  <2> QED
    BY <1>8, <2>2, <2>4
    DEF PersistLoginSession, LoginAlone!PersistLoginSession
<1>9. ASSUME RespondLogin(r)
      PROVE  LoginAlone!RespondLogin(r)
  BY <1>2, <1>9 DEF RespondLogin, LoginAlone!RespondLogin
<1>10. ASSUME NEW f \in Faults, LoadUserCredentialsFails(r, f)
       PROVE  LoginAlone!LoadUserCredentialsFails(r, f)
  BY <1>2, <1>10
  DEF LoadUserCredentialsFails, LoginAlone!LoadUserCredentialsFails, ReadError,
      LoginAlone!ReadError
<1>11. ASSUME NEW f \in Faults, PersistLoginFails(r, f)
       PROVE  LoginAlone!PersistLoginFails(r, f)
  BY <1>2, <1>11
  DEF PersistLoginFails, LoginAlone!PersistLoginFails, WriteError,
      LoginAlone!WriteError
<1>12. UNCHANGED <<LoginAlone!assertVars, LoginAlone!authenticatorVars>>
  BY DEF LoginStep, assertVars, LoginAlone!assertVars, authenticatorVars,
         LoginAlone!authenticatorVars
<1>13. \/ LoginAlone!LoginArrives(r)
       \/ LoginAlone!LoginProceeds(r)
       \/ LoginAlone!LoginFails(r)
  <2> USE DEF LoginAlone!LoginArrives, LoginAlone!LoginProceeds,
              LoginAlone!LoginFails
  <2>1. CASE LoginArrives(r)
    BY <1>3, <1>4, <1>5, <2>1 DEF LoginArrives
  <2>2. CASE LoginProceeds(r)
    BY <1>6, <1>7, <1>8, <1>9, <2>2 DEF LoginProceeds
  <2>3. CASE LoginFails(r)
    BY <1>10, <1>11, <2>3 DEF LoginFails
  <2> QED
    BY <2>1, <2>2, <2>3 DEF LoginStep
<1> QED
  BY <1>12, <1>13 DEF LoginAlone!LoginStep

LEMMA AssertStepMaps ==
    ASSUME SessionsInvariant, NEW q \in LoginFinishes, AssertStep(q)
    PROVE  LoginAlone!AssertStep(q)
<1> USE DEF AnswerAssertion, LoginAlone!AnswerAssertion, AssertGoes,
            LoginAlone!AssertGoes
<1>1. /\ LoginReady /\ db \in Database /\ view \in Database
      /\ Unrevoked(db).users = db.users
      /\ Unrevoked(db).credentials = db.credentials
      /\ Unrevoked(db).login_sessions = db.login_sessions
  BY UnrevokedIs
  DEF SessionsInvariant, SessionsTypeOK, LoginReady, TypeOK, StoreTypeOK
<1>2. UNCHANGED storeVars => UNCHANGED LoginAlone!storeVars
  BY StoreMaps
<1>3. RejectAssertion(q) => LoginAlone!RejectAssertion(q)
  BY <1>2 DEF RejectAssertion, LoginAlone!RejectAssertion
<1>4. ASSUME NEW c, AcceptAssertion(q, c)
      PROVE  LoginAlone!AcceptAssertion(q, c)
  BY <1>2, <1>4
  DEF AcceptAssertion, LoginAlone!AcceptAssertion, Challenged,
      LoginAlone!Challenged
<1>5. LoadLoginSession(q) => LoginAlone!LoadLoginSession(q)
  BY <1>1, <1>2 DEF LoadLoginSession, LoginAlone!LoadLoginSession
<1>6. LoginSessionNotFound(q) => LoginAlone!LoginSessionNotFound(q)
  BY <1>1, <1>2 DEF LoginSessionNotFound, LoginAlone!LoginSessionNotFound
<1>7. NewFreshLoginSession(q) => LoginAlone!NewFreshLoginSession(q)
  BY <1>2
  DEF NewFreshLoginSession, LoginAlone!NewFreshLoginSession, Fresh,
      LoginAlone!Fresh, FromUnix, LoginAlone!FromUnix
<1>8. LoginSessionExpired(q) => LoginAlone!LoginSessionExpired(q)
  BY <1>2
  DEF LoginSessionExpired, LoginAlone!LoginSessionExpired, Fresh,
      LoginAlone!Fresh, FromUnix, LoginAlone!FromUnix
<1>9. LoadCredential(q) => LoginAlone!LoadCredential(q)
  BY <1>1, <1>2
  DEF LoadCredential, LoginAlone!LoadCredential, OwnCredential,
      LoginAlone!OwnCredential
<1>10. CredentialNotFound(q) => LoginAlone!CredentialNotFound(q)
  BY <1>1, <1>2
  DEF CredentialNotFound, LoginAlone!CredentialNotFound, OwnCredential,
      LoginAlone!OwnCredential
<1>11. LoadOwner(q) => LoginAlone!LoadOwner(q)
  BY <1>1, <1>2 DEF LoadOwner, LoginAlone!LoadOwner
<1>12. VerifyAssertion(q) => LoginAlone!VerifyAssertion(q)
  BY <1>2
  DEF VerifyAssertion, LoginAlone!VerifyAssertion, AssertionVerified,
      LoginAlone!AssertionVerified, GenerateTokenPair,
      LoginAlone!GenerateTokenPair, Unix, LoginAlone!Unix
<1>13. AssertionInvalid(q) => LoginAlone!AssertionInvalid(q)
  BY <1>2
  DEF AssertionInvalid, LoginAlone!AssertionInvalid, AssertionVerified,
      LoginAlone!AssertionVerified
<1>14. ASSUME UpdateSignCount(q)
       PROVE  LoginAlone!UpdateSignCount(q)
  <2>1. PICK c, n : c = target[q].credential_id
                      /\ n = assertion[q].signed.sign_count
    OBVIOUS
  <2>2. LoginAlone!FirstWrite(q, LoginAlone!SetSignCount(Unrevoked(db), c, n))
    BY <1>1, <1>14, <2>1, StatementsIgnoreRevocations
    DEF UpdateSignCount, FirstWrite, LoginAlone!FirstWrite
  <2> QED
    BY <1>14, <2>1, <2>2 DEF UpdateSignCount, LoginAlone!UpdateSignCount
<1>15. ASSUME InsertLoginToken(q)
       PROVE  LoginAlone!InsertLoginToken(q)
  <2>1. PICK row \in RefreshTokenRow : row = LoginTokenOf(q)
    BY <1>1, <1>15, LoginTokenTyped DEF InsertLoginToken, LoginTransaction
  <2>2. row.revoked_at = None /\ LoginAlone!LoginTokenOf(q) = row
    BY <2>1 DEF LoginTokenOf, LoginAlone!LoginTokenOf
  <2>3. LoginAlone!NextWrite(q,
           LoginAlone!InsertRow(Unrevoked(view), "refresh_tokens", row))
    BY <1>1, <1>15, <2>1, <2>2, StatementsIgnoreRevocations
    DEF InsertLoginToken, NextWrite, LoginAlone!NextWrite
  <2> QED
    BY <1>15, <2>2, <2>3 DEF InsertLoginToken, LoginAlone!InsertLoginToken
<1>16. ASSUME DeleteLoginSession(q)
       PROVE  LoginAlone!DeleteLoginSession(q)
  <2>1. PICK id : id = loginLoaded[q].id
    OBVIOUS
  <2>2. LoginAlone!NextWrite(q,
           LoginAlone!DeleteByID(Unrevoked(view), "login_sessions", id))
    BY <1>1, <1>16, <2>1, StatementsIgnoreRevocations
    DEF DeleteLoginSession, NextWrite, LoginAlone!NextWrite
  <2> QED
    BY <1>16, <2>1, <2>2 DEF DeleteLoginSession, LoginAlone!DeleteLoginSession
<1>17. CommitLogin(q) => LoginAlone!CommitLogin(q)
  BY StoreMaps DEF CommitLogin, LoginAlone!CommitLogin
<1>18. RespondAssertion(q) => LoginAlone!RespondAssertion(q)
  BY <1>2 DEF RespondAssertion, LoginAlone!RespondAssertion
<1>19. ASSUME NEW f \in Faults, LoadAssertionFails(q, f)
       PROVE  LoginAlone!LoadAssertionFails(q, f)
  BY <1>2, <1>19
  DEF LoadAssertionFails, LoginAlone!LoadAssertionFails, ReadError,
      LoginAlone!ReadError
<1>20. ASSUME NEW f \in Faults, FinishLoginFails(q, f)
       PROVE  LoginAlone!FinishLoginFails(q, f)
  BY <1>20, StoreMaps
  DEF FinishLoginFails, LoginAlone!FinishLoginFails, WriteError,
      LoginAlone!WriteError, LoginTransaction, LoginAlone!LoginTransaction
<1>21. UNCHANGED <<LoginAlone!loginVars, LoginAlone!authenticatorVars>>
  BY DEF AssertStep, loginVars, LoginAlone!loginVars, authenticatorVars,
         LoginAlone!authenticatorVars
<1>22. AssertArrives(q) => LoginAlone!AssertArrives(q)
  BY <1>3, <1>4 DEF AssertArrives, LoginAlone!AssertArrives
<1>23. AssertProceeds(q) => LoginAlone!AssertProceeds(q)
  BY <1>5, <1>6, <1>7, <1>8, <1>9, <1>10, <1>11, <1>12, <1>13, <1>14, <1>15,
     <1>16, <1>17, <1>18
  DEF AssertProceeds, LoginAlone!AssertProceeds
<1>24. AssertFails(q) => LoginAlone!AssertFails(q)
  BY <1>19, <1>20 DEF AssertFails, LoginAlone!AssertFails
<1> QED
  BY <1>21, <1>22, <1>23, <1>24 DEF AssertStep, LoginAlone!AssertStep

LEMMA RegisterStepMaps ==
    ASSUME StoreTypeOK, RegisterStep
    PROVE  LoginAlone!RegisterStep
<1>1. PICK u \in RegFinishes, h \in Handles, k \in CredIDs,
           n \in SignCounts, t \in 0 .. MaxTime : Register(u, h, k, n, t)
  BY DEF RegisterStep
<1>2. /\ db \in Database
      /\ Unrevoked(db).users = db.users
      /\ Unrevoked(db).credentials = db.credentials
  BY UnrevokedIs DEF StoreTypeOK
<1>3. PICK e : e = GenerateTokenPair(t, boots).refresh_exp
  OBVIOUS
<1>4. LoginAlone!GenerateTokenPair(t, boots).refresh_exp = e
  BY <1>3 DEF GenerateTokenPair, LoginAlone!GenerateTokenPair, Unix,
              LoginAlone!Unix
<1> DEFINE first == [token_hash |-> u, user_id |-> u, expires_at |-> e,
                     revoked_at |-> None]
           with(d) == [d EXCEPT
              !.users = @ \cup {[id |-> u, handle |-> h]},
              !.credentials = @ \cup {[credential_id |-> k, user_id |-> u,
                                       sign_count |-> n]},
              !.refresh_tokens = @ \cup {first}]
<1>5. Unrevoked(with(db)) = with(Unrevoked(db))
  <2>1. [first EXCEPT !.revoked_at = None] = first
    OBVIOUS
  <2> HIDE DEF first
  <2>2. {[s EXCEPT !.revoked_at = None] : s \in db.refresh_tokens \cup {first}}
           = {[s EXCEPT !.revoked_at = None] : s \in db.refresh_tokens}
                \cup {first}
    BY <2>1
  <2> QED
    BY <1>2, <2>2 DEF Unrevoked, Database
<1>6. Autocommit(with(db))
  BY <1>1, <1>3 DEF Register
<1>7. LoginAlone!Autocommit(with(Unrevoked(db)))
  <2> HIDE DEF with
  <2> QED
    BY <1>5, <1>6 DEF Autocommit, LoginAlone!Autocommit
<1>8. LoginAlone!Register(u, h, k, n, t)
  BY <1>1, <1>2, <1>4, <1>7
  DEF Register, LoginAlone!Register, HandleTaken, LoginAlone!HandleTaken,
      CredentialExists, LoginAlone!CredentialExists
<1> QED
  BY <1>8
  DEF RegisterStep, LoginAlone!RegisterStep, loginVars, LoginAlone!loginVars,
      assertVars, LoginAlone!assertVars, authenticatorVars,
      LoginAlone!authenticatorVars

(* The steps that touch no table.                                          *)
LEMMA OtherStepsMap ==
    /\ SignStep => LoginAlone!SignStep
    /\ ClockStep => LoginAlone!ClockStep
    /\ Restart => LoginAlone!Restart
    /\ Quiescent => LoginAlone!Quiescent
    /\ UNCHANGED vars => UNCHANGED LoginAlone!vars
<1> USE DEF loginVars, LoginAlone!loginVars, assertVars, LoginAlone!assertVars,
            authenticatorVars, LoginAlone!authenticatorVars
<1>1. SignStep => LoginAlone!SignStep
  BY StoreMaps
  DEF SignStep, LoginAlone!SignStep, Sign, LoginAlone!Sign, Challenged,
      LoginAlone!Challenged
<1>2. ClockStep => LoginAlone!ClockStep
  BY StoreMaps DEF ClockStep, LoginAlone!ClockStep
<1>3. Restart => LoginAlone!Restart
  BY StoreMaps
  DEF Restart, LoginAlone!Restart, LoginKilled, LoginAlone!LoginKilled,
      AssertKilled, LoginAlone!AssertKilled, LoginRunning,
      LoginAlone!LoginRunning, AssertRunning, LoginAlone!AssertRunning,
      LoginTransaction, LoginAlone!LoginTransaction
<1>4. UNCHANGED vars => UNCHANGED LoginAlone!vars
  BY StoreMaps DEF vars, LoginAlone!vars
<1>5. Quiescent => LoginAlone!Quiescent
  BY <1>4
  DEF Quiescent, LoginAlone!Quiescent, LoginAtRest, LoginAlone!LoginAtRest,
      AssertAtRest, LoginAlone!AssertAtRest
<1> QED
  BY <1>1, <1>2, <1>3, <1>4, <1>5

(* A logout is nothing to login: when its UPDATE runs, no login is between *)
(* its statements, so that `view' is the committed image.                  *)
LEMMA LogoutIsNothing ==
    ASSUME SessionsInvariant, NEW l \in Logouts, LogoutStep(l)
    PROVE  UNCHANGED LoginAlone!vars
<1>1. db \in Database /\ (writer = None => view = db)
  BY DEF SessionsInvariant, SessionsTypeOK, LoginReady, TypeOK, StoreTypeOK,
         PendingTokens
<1>2. UNCHANGED LoginAlone!storeVars
  <2>1. CASE UNCHANGED storeVars
    BY <2>1, StoreMaps
  <2>2. CASE RevokeUserSessions(l)
    <3>1. PICK u, s : /\ u = revocation[l].user_id
                      /\ s = Unix(revocation[l].now)
      OBVIOUS
    <3>2. Autocommit(RevokeTokens(db, u, s))
      BY <2>2, <3>1 DEF RevokeUserSessions
    <3> QED
      BY <1>1, <3>2, RevocationsAreOutOfSight
      DEF Autocommit, LoginAlone!storeVars
  <2> QED
    BY <2>1, <2>2, LogoutLeaves
<1> QED
  BY <1>2, LogoutLeaves
  DEF LoginAlone!vars, loginVars, LoginAlone!loginVars, assertVars,
      LoginAlone!assertVars, authenticatorVars, LoginAlone!authenticatorVars

-----------------------------------------------------------------------------

(* Login does not notice that there are logouts, however many, whenever    *)
(* they come and whatever fails.                                           *)
THEOREM SessionsImplementsLogin == SessionsSpec => ImplementsLogin
<1>1. SessionsInit => LoginAlone!Init
  <2>1. {[t EXCEPT !.revoked_at = None] : t \in {}} = {}
    OBVIOUS
  <2>2. Unrevoked(EmptyDatabase) = LoginAlone!EmptyDatabase
    BY <2>1 DEF Unrevoked, EmptyDatabase, LoginAlone!EmptyDatabase
  <2> QED
    BY <2>2
    DEF SessionsInit, Init, LoginAlone!Init, StoreInit, LoginAlone!StoreInit,
        LoginInit, LoginAlone!LoginInit, AssertInit, LoginAlone!AssertInit,
        AuthenticatorInit, LoginAlone!AuthenticatorInit
<1>2. SessionsInvariant /\ [SessionsNext]_sessionsVars
         => [LoginAlone!Next]_(LoginAlone!vars)
  <2> SUFFICES ASSUME SessionsInvariant, [SessionsNext]_sessionsVars
               PROVE  [LoginAlone!Next]_(LoginAlone!vars)
    OBVIOUS
  <2> USE DEF LoginAlone!Next
  <2>1. StoreTypeOK
    BY DEF SessionsInvariant, SessionsTypeOK, LoginReady, TypeOK
  <2>2. ASSUME NEW r \in LoginStarts, LoginStep(r)
        PROVE  LoginAlone!Next
    BY <2>1, <2>2, LoginStepMaps
  <2>3. ASSUME NEW q \in LoginFinishes, AssertStep(q)
        PROVE  LoginAlone!Next
    BY <2>3, AssertStepMaps
  <2>4. RegisterStep => LoginAlone!Next
    BY <2>1, RegisterStepMaps
  <2>5. SignStep \/ ClockStep \/ Restart \/ Quiescent => LoginAlone!Next
    BY OtherStepsMap
  <2>6. UNCHANGED vars => UNCHANGED LoginAlone!vars
    BY OtherStepsMap
  <2>7. ASSUME NEW l \in Logouts, LogoutStep(l)
        PROVE  UNCHANGED LoginAlone!vars
    BY <2>7, LogoutIsNothing
  <2> HIDE DEF LoginAlone!Next
  <2> QED
    BY <2>2, <2>3, <2>4, <2>5, <2>6, <2>7, WhoseStep DEF Next
<1> QED
  BY <1>1, <1>2, SessionsInvariantHolds, PTL
  DEF SessionsSpec, ImplementsLogin, LoginAlone!Spec
=============================================================================
