----------------------------- MODULE LoginProofs -----------------------------
(***************************************************************************)
(* What holds of Login for every value of its constants.                   *)
(*                                                                         *)
(* The invariant is LoginInvariant.  A step moves one request: the lemmas  *)
(* LoginFrame and AssertFrame say so once for all the others, Stored and   *)
(* OwnersStay say what no step takes back, and the lemmas ...Step keep one *)
(* part of the invariant each.                                             *)
(***************************************************************************)
EXTENDS Login, TLAPS

----------------------------------------------------------------------------
(* Types.                                                                  *)

(* The statements of the login slices give databases again.                *)
LEMMA StatementsTyped ==
    ASSUME NEW d \in Database
    PROVE  /\ \A row \in LoginSessionRow :
                 InsertRow(d, "login_sessions", row) \in Database
           /\ \A row \in RefreshTokenRow :
                 InsertRow(d, "refresh_tokens", row) \in Database
           /\ \A id : DeleteByID(d, "login_sessions", id) \in Database
<1>1. \A row \in LoginSessionRow : InsertRow(d, "login_sessions", row) \in Database
  BY DEF Database, InsertRow
<1>2. \A row \in RefreshTokenRow : InsertRow(d, "refresh_tokens", row) \in Database
  BY DEF Database, InsertRow
<1>3. \A id : DeleteByID(d, "login_sessions", id) \in Database
  BY DEF Database, DeleteByID
<1> QED
  BY <1>1, <1>2, <1>3

(* The UPDATE of sign_count changes nothing but the counts.                *)
LEMMA SetSignCountTyped ==
    ASSUME NEW d \in Database, NEW c, NEW n \in SignCounts
    PROVE  /\ SetSignCount(d, c, n) \in Database
           /\ SetSignCount(d, c, n).users = d.users
           /\ SetSignCount(d, c, n).refresh_tokens = d.refresh_tokens
           /\ SetSignCount(d, c, n).login_sessions = d.login_sessions
           /\ SetSignCount(d, c, n).credentials =
                 {IF k.credential_id = c THEN [k EXCEPT !.sign_count = n]
                  ELSE k : k \in d.credentials}
<1>1. \A k \in CredentialRow : [k EXCEPT !.sign_count = n] \in CredentialRow
  BY DEF CredentialRow
<1>2. {IF k.credential_id = c THEN [k EXCEPT !.sign_count = n]
       ELSE k : k \in d.credentials} \in SUBSET CredentialRow
  BY <1>1 DEF Database
<1> QED
  BY <1>2 DEF SetSignCount, Database

(* Time.Unix of an instant is a number of seconds.                         *)
LEMMA UnixTyped == \A t \in Nat : Unix(t) \in Nat
BY StoreAssumption DEF Unix

(* What is fresh by the stored second is fresh by the instant it was cut   *)
(* from, and what is not expires within the second.                        *)
LEMMA Truncation ==
    ASSUME NEW t \in Nat, NEW e \in Nat
    PROVE  /\ Fresh(t, FromUnix(Unix(e))) => t < e
           /\ ~Fresh(t, FromUnix(Unix(e))) => e < t + TicksPerSecond
<1>1. /\ (e \div TicksPerSecond) * TicksPerSecond <= e
      /\ e < (e \div TicksPerSecond) * TicksPerSecond + TicksPerSecond
      /\ e \div TicksPerSecond \in Nat
  BY StoreAssumption
<1>2. (e \div TicksPerSecond) * TicksPerSecond \in Nat
  BY <1>1, StoreAssumption
<1> QED
  BY <1>1, <1>2, StoreAssumption DEF Fresh, FromUnix, Unix

(* The error mappings answer only codes their slices know.                 *)
LEMMA ErrorTyped ==
    /\ \A f : WriteError(f) \in {"db_locked", "db_disk_full", "INTERNAL_ERROR"}
    /\ \A f : ReadError(f) \in {"db_locked", "INTERNAL_ERROR"}
BY DEF WriteError, ReadError

(* generateTokenPair returns a token pair.                                 *)
LEMMA TokenPairTyped ==
    ASSUME NEW t \in Nat, NEW key \in Nat
    PROVE  GenerateTokenPair(t, key) \in TokenPair
<1>1. t + AccessTTL \in Nat /\ t + RefreshTTL \in Nat
  BY TokensAssumption
<1> QED
  BY <1>1, UnixTyped DEF GenerateTokenPair, TokenPair

(* A session that was built can be stored.                                 *)
LEMMA LoginSessionRowTyped ==
    ASSUME NEW r \in LoginStarts, session[r] \in LoginSession
    PROVE  LoginSessionRowOf(r) \in LoginSessionRow
BY UnixTyped DEF LoginSessionRowOf, LoginSessionRow, LoginSession

(* A request that has not decided its answer has not answered.             *)
LEMMA NoneIsNoReply == None # "OK" /\ None # "NOT_FOUND"
BY StoreAssumption DEF Codes

(* What types need of the handlers: a row is in hand before it is used,    *)
(* and a request still running has not answered.  It holds of login with   *)
(* logouts beside it, where LoginInvariant does not.                       *)
LoginReady ==
    /\ TypeOK
    /\ \A r \in LoginStarts :
          /\ loginPc[r] \in {"credentials", "open"} => user[r] \in UserRow
          /\ loginPc[r] = "persist" => session[r] \in LoginSession
    /\ \A q \in LoginFinishes :
          /\ assertPc[q] \in {"idle"} \cup (AssertRunning \ {"respond"})
                => assertReply[q] = None
          /\ assertPc[q] \in AssertRunning \ {"respond"}
                => assertion[q] \in SessionFinishCommand
          /\ (\/ assertPc[q] \in {"owner", "verify", "updateCount"}
                                    \cup LoginTransaction
              \/ q \in LoggedIn)
                => target[q] \in CredentialRow
          /\ assertPc[q] \in {"updateCount"} \cup LoginTransaction \/ q \in LoggedIn
                => loginIssued[q] \in TokenPair

LEMMA InvariantIsReady == LoginInvariant => LoginReady
<1> SUFFICES ASSUME LoginInvariant
             PROVE  LoginReady
  OBVIOUS
<1>1. TypeOK
  BY DEF LoginInvariant
<1>2. ASSUME NEW r \in LoginStarts
      PROVE  /\ loginPc[r] \in {"credentials", "open"} => user[r] \in UserRow
             /\ loginPc[r] = "persist" => session[r] \in LoginSession
  BY <1>1, <1>2
  DEF LoginInvariant, LoginKnows, TypeOK, StoreTypeOK, Database
<1>3. ASSUME NEW q \in LoginFinishes
      PROVE  AssertKnows(q)
  BY DEF LoginInvariant
<1> QED
  BY <1>1, <1>2, <1>3
  DEF LoginReady, AssertKnows, AssertRunning, LoginTransaction

(* The refresh token of a login that passed its checks fits its table.     *)
LEMMA LoginTokenTyped ==
    ASSUME LoginReady, NEW q \in LoginFinishes,
           assertPc[q] \in {"updateCount"} \cup LoginTransaction
    PROVE  LoginTokenOf(q) \in RefreshTokenRow
<1>1. target[q] \in CredentialRow /\ loginIssued[q] \in TokenPair
  BY DEF LoginReady
<1> QED
  BY <1>1 DEF LoginTokenOf, RefreshTokenRow, CredentialRow, TokenPair

(* The rows that a registration brings fit their tables.                   *)
LEMMA RegisterTyped ==
    ASSUME StoreTypeOK, NEW u \in RegFinishes, NEW h \in Handles,
           NEW k \in CredIDs, NEW n \in SignCounts, NEW t \in 0 .. MaxTime,
           Register(u, h, k, n, t)
    PROVE  db' \in Database
<1>1. GenerateTokenPair(t, boots).refresh_exp \in Nat
  BY TokenPairTyped, StoreAssumption DEF TokenPair, StoreTypeOK
<1>2. /\ [id |-> u, handle |-> h] \in UserRow
      /\ [credential_id |-> k, user_id |-> u, sign_count |-> n] \in CredentialRow
      /\ [token_hash |-> u, user_id |-> u,
          expires_at |-> GenerateTokenPair(t, boots).refresh_exp,
          revoked_at |-> None] \in RefreshTokenRow
  BY <1>1 DEF UserRow, CredentialRow, RefreshTokenRow
<1> QED
  BY <1>2 DEF Register, Autocommit, StoreTypeOK, Database

----------------------------------------------------------------------------
(* Each step of Next keeps each part of the invariant.                     *)

(* A step keeps every variable in its type.                                *)
LEMMA TypeStep ==
    ASSUME LoginReady, [Next]_vars
    PROVE  TypeOK'
<1> USE DEF LoginReady, TypeOK, StoreTypeOK, LoginTypeOK, AssertTypeOK,
        AuthenticatorTypeOK, LoginPcs, LoginReplies, LoginRunning, AssertPcs,
        AssertReplies, AssertRunning, LoginTransaction
<1>1. ASSUME NEW r \in LoginStarts,
             (\/ RejectLoginHandle(r)
              \/ \E h \in Handles : LoadUser(r, h) \/ UserNotFound(r, h)
              \/ RespondLogin(r)),
             UNCHANGED <<assertVars, authenticatorVars>>
      PROVE  TypeOK'
  BY <1>1
  DEF RejectLoginHandle, LoadUser, UserNotFound, RespondLogin, AnswerLogin,
      LoginGoes, storeVars, assertVars, authenticatorVars, Database
<1>2. ASSUME NEW r \in LoginStarts, LoadCredentials(r),
             UNCHANGED <<assertVars, authenticatorVars>>
      PROVE  TypeOK'
  <2>1. {k.credential_id : k \in CredentialsOf(user[r])} \in SUBSET CredIDs
    BY DEF CredentialsOf, Database, CredentialRow
  <2> QED
    BY <1>2, <2>1
    DEF LoadCredentials, AnswerLogin, LoginGoes, storeVars, assertVars,
        authenticatorVars
<1>3. ASSUME NEW r \in LoginStarts, OpenLoginSession(r),
             UNCHANGED <<assertVars, authenticatorVars>>
      PROVE  TypeOK'
  <2>1. user[r].id \in RegFinishes
    BY <1>3 DEF OpenLoginSession, UserRow
  <2>2. NewLoginSession(user[r].id, now) \in LoginSession
    BY <2>1, ChallengeTTLAssumption DEF NewLoginSession, LoginSession
  <2> QED
    BY <1>3, <2>2
    DEF OpenLoginSession, LoginGoes, storeVars, assertVars, authenticatorVars
<1>4. ASSUME NEW r \in LoginStarts, PersistLoginSession(r),
             UNCHANGED <<assertVars, authenticatorVars>>
      PROVE  TypeOK'
  BY <1>4, StatementsTyped, LoginSessionRowTyped
  DEF PersistLoginSession, AnswerLogin, LoginGoes, Autocommit, assertVars, authenticatorVars
<1>5. ASSUME NEW r \in LoginStarts, NEW f \in Faults,
             LoadUserCredentialsFails(r, f) \/ PersistLoginFails(r, f),
             UNCHANGED <<assertVars, authenticatorVars>>
      PROVE  TypeOK'
  BY <1>5, ErrorTyped
  DEF LoadUserCredentialsFails, PersistLoginFails, AnswerLogin, LoginGoes,
      storeVars, assertVars, authenticatorVars
<1>6. ASSUME NEW q \in LoginFinishes,
             (\/ RejectAssertion(q) \/ LoginSessionNotFound(q)
              \/ NewFreshLoginSession(q) \/ LoginSessionExpired(q)
              \/ CredentialNotFound(q) \/ LoadOwner(q) \/ AssertionInvalid(q)
              \/ RespondAssertion(q)),
             UNCHANGED <<loginVars, authenticatorVars>>
      PROVE  TypeOK'
  BY <1>6
  DEF RejectAssertion, LoginSessionNotFound, NewFreshLoginSession,
      LoginSessionExpired, CredentialNotFound, LoadOwner, AssertionInvalid,
      RespondAssertion, AnswerAssertion, AssertGoes, storeVars, loginVars,
      authenticatorVars
<1>7. ASSUME NEW q \in LoginFinishes, NEW id \in LoginStarts \cup {None},
             NEW a \in signed, AcceptAssertion(q, [id |-> id, signed |-> a]),
             UNCHANGED <<loginVars, authenticatorVars>>
      PROVE  TypeOK'
  <2>1. [id |-> id, signed |-> a] \in SessionFinishCommand
    BY DEF SessionFinishCommand
  <2> QED
    BY <1>7, <2>1
    DEF AcceptAssertion, AssertGoes, storeVars, loginVars, authenticatorVars
<1>8. ASSUME NEW q \in LoginFinishes,
             LoadLoginSession(q) \/ LoadCredential(q),
             UNCHANGED <<loginVars, authenticatorVars>>
      PROVE  TypeOK'
  BY <1>8
  DEF LoadLoginSession, LoadCredential, AssertGoes, storeVars, loginVars,
      authenticatorVars, Database
<1>9. ASSUME NEW q \in LoginFinishes, NEW f \in Faults,
             LoadAssertionFails(q, f) \/ FinishLoginFails(q, f),
             UNCHANGED <<loginVars, authenticatorVars>>
      PROVE  TypeOK'
  BY <1>9, ErrorTyped
  DEF LoadAssertionFails, FinishLoginFails, AnswerAssertion, AssertGoes,
      Rollback, storeVars, loginVars, authenticatorVars
<1>10. ASSUME NEW q \in LoginFinishes, VerifyAssertion(q),
              UNCHANGED <<loginVars, authenticatorVars>>
       PROVE  TypeOK'
  BY <1>10, TokenPairTyped
  DEF VerifyAssertion, AssertGoes, storeVars, loginVars, authenticatorVars
<1>11. ASSUME NEW q \in LoginFinishes, UpdateSignCount(q),
              UNCHANGED <<loginVars, authenticatorVars>>
       PROVE  TypeOK'
  <2>1. assertion[q].signed.sign_count \in SignCounts
    BY <1>11
    DEF UpdateSignCount, SessionFinishCommand, Assertion
  <2> QED
    BY <1>11, <2>1, SetSignCountTyped
    DEF UpdateSignCount, AssertGoes, FirstWrite, loginVars, authenticatorVars
<1>12. ASSUME NEW q \in LoginFinishes,
              InsertLoginToken(q) \/ DeleteLoginSession(q),
              UNCHANGED <<loginVars, authenticatorVars>>
       PROVE  TypeOK'
  BY <1>12, StatementsTyped, LoginTokenTyped
  DEF InsertLoginToken, DeleteLoginSession, AssertGoes, NextWrite, loginVars,
      authenticatorVars
<1>13. ASSUME NEW q \in LoginFinishes, CommitLogin(q),
              UNCHANGED <<loginVars, authenticatorVars>>
       PROVE  TypeOK'
  BY <1>13
  DEF CommitLogin, AnswerAssertion, AssertGoes, Commit, loginVars,
      authenticatorVars
<1>14. ASSUME NEW u \in RegFinishes, NEW h \in Handles, NEW k \in CredIDs,
              NEW n \in SignCounts, NEW t \in 0 .. MaxTime,
              Register(u, h, k, n, t),
              UNCHANGED <<loginVars, assertVars, authenticatorVars>>
       PROVE  TypeOK'
  BY <1>14, RegisterTyped
  DEF Register, Autocommit, loginVars, assertVars, authenticatorVars
<1>15. ASSUME NEW r \in LoginStarts, NEW k \in CredIDs, Sign(r, k),
              UNCHANGED <<storeVars, loginVars, assertVars>>
       PROVE  TypeOK'
  <2>1. [challenge |-> r, credential_id |-> k, sign_count |-> counter[k] + 1]
           \in Assertion
    BY <1>15 DEF Sign, Assertion
  <2> QED
    BY <1>15, <2>1 DEF Sign, storeVars, loginVars, assertVars
<1>16. ASSUME ClockStep
       PROVE  TypeOK'
  BY <1>16
  DEF ClockStep, Tick, loginVars, assertVars, authenticatorVars
<1>17. ASSUME Restart
       PROVE  TypeOK'
  BY <1>17
  DEF Restart, Reboot, LoginKilled, AssertKilled, authenticatorVars
<1>18. ASSUME UNCHANGED vars
       PROVE  TypeOK'
  BY <1>18
  DEF vars, storeVars, loginVars, assertVars, authenticatorVars
<1> QED
  BY <1>1, <1>2, <1>3, <1>4, <1>5, <1>6, <1>7, <1>8, <1>9, <1>10, <1>11,
     <1>12, <1>13, <1>14, <1>15, <1>16, <1>17, <1>18
  DEF Next, LoginStep, LoginArrives, LoginProceeds, LoginFails, AssertStep,
      AssertArrives, AssertProceeds, AssertFails, RegisterStep, SignStep,
      Quiescent

----------------------------------------------------------------------------
(* A step moves one request.                                               *)

(* What a step of somebody else, or a restart, does to a request.          *)
LoginUnmoved(r) ==
    /\ \/ loginPc'[r] = loginPc[r]
       \/ loginPc[r] \in LoginRunning /\ loginPc'[r] = "killed"
    /\ loginReply'[r] = loginReply[r]
    /\ user'[r] = user[r]
    /\ allowed'[r] = allowed[r]
    /\ session'[r] = session[r]

AssertUnmoved(q) ==
    /\ \/ assertPc'[q] = assertPc[q]
       \/ assertPc[q] \in AssertRunning /\ assertPc'[q] = "killed"
    /\ assertReply'[q] = assertReply[q]
    /\ assertion'[q] = assertion[q]
    /\ loginLoaded'[q] = loginLoaded[q]
    /\ freshAt'[q] = freshAt[q]
    /\ target'[q] = target[q]
    /\ loginIssued'[q] = loginIssued[q]

(* A request of the start slice moves by a step of its own or not at all.  *)
LEMMA LoginFrame ==
    ASSUME LoginTypeOK, [Next]_vars, NEW r \in LoginStarts
    PROVE  LoginUnmoved(r) \/ LoginStep(r)
<1> USE DEF LoginTypeOK, LoginUnmoved
<1>1. ASSUME NEW s \in LoginStarts, LoginStep(s), s # r
      PROVE  LoginUnmoved(r)
  BY <1>1
  DEF LoginStep, LoginArrives, LoginProceeds, LoginFails, RejectLoginHandle,
      LoadUser, UserNotFound, LoadCredentials, OpenLoginSession,
      PersistLoginSession, LoadUserCredentialsFails, PersistLoginFails,
      RespondLogin, AnswerLogin, LoginGoes
<1>2. ASSUME NEW q \in LoginFinishes, AssertStep(q)
      PROVE  LoginUnmoved(r)
  BY <1>2 DEF AssertStep, loginVars
<1>3. ASSUME RegisterStep \/ SignStep \/ ClockStep
      PROVE  LoginUnmoved(r)
  BY <1>3 DEF RegisterStep, SignStep, ClockStep, loginVars
<1>4. ASSUME Restart
      PROVE  LoginUnmoved(r)
  BY <1>4 DEF Restart, LoginKilled
<1>5. ASSUME UNCHANGED vars
      PROVE  LoginUnmoved(r)
  BY <1>5 DEF vars, loginVars
<1> QED
  BY <1>1, <1>2, <1>3, <1>4, <1>5 DEF Next, Quiescent

(* A step of one request of the finish slice leaves the others alone.    *)
LEMMA AssertAlone ==
    ASSUME AssertTypeOK, NEW p \in LoginFinishes, AssertStep(p),
           NEW q \in LoginFinishes, p # q
    PROVE  AssertUnmoved(q) /\ assertPc'[q] = assertPc[q]
<1> USE DEF AssertTypeOK, AssertUnmoved
<1>1. CASE AssertArrives(p)
  BY <1>1
  DEF AssertArrives, RejectAssertion, AcceptAssertion, AnswerAssertion,
      AssertGoes
<1>2. CASE AssertProceeds(p)
  BY <1>2
  DEF AssertProceeds, LoadLoginSession, LoginSessionNotFound,
      NewFreshLoginSession, LoginSessionExpired, LoadCredential,
      CredentialNotFound, LoadOwner, VerifyAssertion, AssertionInvalid,
      UpdateSignCount, InsertLoginToken, DeleteLoginSession, CommitLogin,
      RespondAssertion, AnswerAssertion, AssertGoes
<1>3. CASE AssertFails(p)
  BY <1>3
  DEF AssertFails, LoadAssertionFails, FinishLoginFails, AnswerAssertion,
      AssertGoes
<1> QED
  BY <1>1, <1>2, <1>3 DEF AssertStep

(* So does a request of the finish slice.                                  *)
LEMMA AssertFrame ==
    ASSUME AssertTypeOK, [Next]_vars, NEW q \in LoginFinishes
    PROVE  AssertUnmoved(q) \/ AssertStep(q)
<1> USE DEF AssertTypeOK, AssertUnmoved
<1>1. ASSUME NEW p \in LoginFinishes, AssertStep(p), p # q
      PROVE  AssertUnmoved(q)
  BY <1>1, AssertAlone
<1>2. ASSUME NEW r \in LoginStarts, LoginStep(r)
      PROVE  AssertUnmoved(q)
  BY <1>2 DEF LoginStep, assertVars
<1>3. ASSUME RegisterStep \/ SignStep \/ ClockStep
      PROVE  AssertUnmoved(q)
  BY <1>3 DEF RegisterStep, SignStep, ClockStep, assertVars
<1>4. ASSUME Restart
      PROVE  AssertUnmoved(q)
  BY <1>4 DEF Restart, AssertKilled
<1>5. ASSUME UNCHANGED vars
      PROVE  AssertUnmoved(q)
  BY <1>5 DEF vars, assertVars
<1> QED
  BY <1>1, <1>2, <1>3, <1>4, <1>5 DEF Next, Quiescent

(* A request of the start slice is answered once: what it opened stays     *)
(* opened and as it was, and only PersistLoginSession opens.               *)
LEMMA OpenedStays ==
    ASSUME LoginInvariant, [Next]_vars, NEW r \in LoginStarts
    PROVE  /\ r \in Opened => /\ r \in Opened'
                              /\ user'[r] = user[r]
                              /\ allowed'[r] = allowed[r]
                              /\ session'[r] = session[r]
           /\ r \in Opened' => r \in Opened \/ (LoginStep(r) /\ PersistLoginSession(r))
<1> USE DEF LoginInvariant, TypeOK, LoginTypeOK, LoginKnows, Opened,
        LoginRunning, LoginPcs
<1>1. CASE LoginUnmoved(r)
  BY <1>1 DEF LoginUnmoved
<1>2. CASE LoginStep(r)
  BY <1>2, NoneIsNoReply, ErrorTyped
  DEF LoginStep, LoginArrives, LoginProceeds, LoginFails, RejectLoginHandle,
      LoadUser, UserNotFound, LoadCredentials, OpenLoginSession,
      PersistLoginSession, LoadUserCredentialsFails, PersistLoginFails,
      RespondLogin, AnswerLogin, LoginGoes
<1> QED
  BY <1>1, <1>2, LoginFrame

(* A request of the finish slice is answered once as well: a login stays   *)
(* as it was, and only CommitLogin logs in.                                *)
LEMMA LoggedInStays ==
    ASSUME LoginReady, [Next]_vars, NEW q \in LoginFinishes
    PROVE  /\ q \in LoggedIn => /\ q \in LoggedIn'
                                /\ assertion'[q] = assertion[q]
                                /\ loginLoaded'[q] = loginLoaded[q]
                                /\ freshAt'[q] = freshAt[q]
                                /\ target'[q] = target[q]
                                /\ loginIssued'[q] = loginIssued[q]
           /\ q \in LoggedIn' => q \in LoggedIn \/ (AssertStep(q) /\ CommitLogin(q))
<1> USE DEF LoginReady, TypeOK, AssertTypeOK, LoggedIn,
        AssertRunning, LoginTransaction
<1>1. CASE AssertUnmoved(q)
  BY <1>1 DEF AssertUnmoved
<1>2. CASE AssertStep(q)
  <2>1. CASE AssertArrives(q)
    BY <2>1, NoneIsNoReply
    DEF AssertArrives, RejectAssertion, AcceptAssertion, AnswerAssertion,
        AssertGoes
  <2>2. CASE AssertProceeds(q)
    BY <1>2, <2>2, NoneIsNoReply
    DEF AssertProceeds, LoadLoginSession, LoginSessionNotFound,
        NewFreshLoginSession, LoginSessionExpired, LoadCredential,
        CredentialNotFound, LoadOwner, VerifyAssertion, AssertionInvalid,
        UpdateSignCount, InsertLoginToken, DeleteLoginSession, CommitLogin,
        RespondAssertion, AnswerAssertion, AssertGoes
  <2>3. CASE AssertFails(q)
    BY <2>3, NoneIsNoReply, ErrorTyped
    DEF AssertFails, LoadAssertionFails, FinishLoginFails, AnswerAssertion,
        AssertGoes
  <2> QED
    BY <1>2, <2>1, <2>2, <2>3 DEF AssertStep
<1> QED
  BY <1>1, <1>2, AssertFrame

(* A step keeps the handlers ready.                                        *)
LEMMA ReadyStep ==
    ASSUME LoginReady, [Next]_vars
    PROVE  LoginReady'
<1>1. TypeOK'
  BY TypeStep
<1>2. ASSUME NEW r \in LoginStarts
      PROVE  /\ loginPc'[r] \in {"credentials", "open"} => user'[r] \in UserRow
             /\ loginPc'[r] = "persist" => session'[r] \in LoginSession
  <2> USE DEF LoginReady, TypeOK, StoreTypeOK, LoginTypeOK
  <2>1. CASE LoginUnmoved(r)
    BY <2>1 DEF LoginUnmoved
  <2>2. CASE LoginStep(r)
    <3>1. CASE LoginArrives(r)
      BY <3>1
      DEF LoginArrives, RejectLoginHandle, LoadUser, UserNotFound,
          AnswerLogin, LoginGoes, Database
    <3>2. CASE OpenLoginSession(r)
      <4>1. NewLoginSession(user[r].id, now) \in LoginSession
        BY <3>2, ChallengeTTLAssumption
        DEF OpenLoginSession, UserRow, NewLoginSession, LoginSession
      <4> QED
        BY <3>2, <4>1 DEF OpenLoginSession, LoginGoes
    <3>3. CASE LoadCredentials(r) \/ PersistLoginSession(r) \/ RespondLogin(r)
      BY <3>3
      DEF LoadCredentials, PersistLoginSession, RespondLogin, AnswerLogin,
          LoginGoes
    <3>4. CASE LoginFails(r)
      BY <3>4
      DEF LoginFails, LoadUserCredentialsFails, PersistLoginFails,
          AnswerLogin, LoginGoes
    <3> QED
      BY <2>2, <3>1, <3>2, <3>3, <3>4 DEF LoginStep, LoginProceeds
  <2> QED
    BY <2>1, <2>2, LoginFrame
<1>3. ASSUME NEW q \in LoginFinishes
      PROVE  /\ assertPc'[q] \in {"idle"} \cup (AssertRunning \ {"respond"})
                  => assertReply'[q] = None
             /\ assertPc'[q] \in AssertRunning \ {"respond"}
                  => assertion'[q] \in SessionFinishCommand
             /\ (\/ assertPc'[q] \in {"owner", "verify", "updateCount"}
                                       \cup LoginTransaction
                 \/ q \in LoggedIn')
                  => target'[q] \in CredentialRow
             /\ (\/ assertPc'[q] \in {"updateCount"} \cup LoginTransaction
                 \/ q \in LoggedIn')
                  => loginIssued'[q] \in TokenPair
  <2> USE NoneIsNoReply
      DEF LoginReady, TypeOK, StoreTypeOK, AssertTypeOK, AssertRunning,
          LoginTransaction, LoggedIn
  <2>1. CASE AssertUnmoved(q)
    BY <2>1 DEF AssertUnmoved
  <2>2. CASE AssertStep(q)
    <3>1. CASE RejectAssertion(q)
      BY <3>1 DEF RejectAssertion, AnswerAssertion, AssertGoes
    <3>2. ASSUME NEW id \in LoginStarts \cup {None}, NEW a \in signed,
                 AcceptAssertion(q, [id |-> id, signed |-> a])
          PROVE  /\ assertPc'[q] = "load" /\ assertReply'[q] = None
                 /\ assertion'[q] \in SessionFinishCommand
      <4>1. [id |-> id, signed |-> a] \in SessionFinishCommand
        BY DEF SessionFinishCommand, AuthenticatorTypeOK
      <4> QED
        BY <3>2, <4>1 DEF AcceptAssertion, AssertGoes
    <3>3. CASE \/ LoadLoginSession(q) \/ LoginSessionNotFound(q)
               \/ NewFreshLoginSession(q) \/ LoginSessionExpired(q)
               \/ CredentialNotFound(q) \/ LoadOwner(q) \/ AssertionInvalid(q)
               \/ UpdateSignCount(q) \/ InsertLoginToken(q)
               \/ DeleteLoginSession(q) \/ CommitLogin(q)
               \/ RespondAssertion(q)
      BY <3>3
      DEF LoadLoginSession, LoginSessionNotFound, NewFreshLoginSession,
          LoginSessionExpired, CredentialNotFound, LoadOwner,
          AssertionInvalid, UpdateSignCount, InsertLoginToken,
          DeleteLoginSession, CommitLogin, RespondAssertion, AnswerAssertion,
          AssertGoes
    <3>4. CASE LoadCredential(q)
      BY <3>4 DEF LoadCredential, AssertGoes, Database
    <3>5. CASE VerifyAssertion(q)
      BY <3>5, TokenPairTyped DEF VerifyAssertion, AssertGoes
    <3>6. CASE AssertFails(q)
      BY <3>6, ErrorTyped
      DEF AssertFails, LoadAssertionFails, FinishLoginFails, AnswerAssertion,
          AssertGoes
    <3> QED
      BY <2>2, <3>1, <3>2, <3>3, <3>4, <3>5, <3>6
      DEF AssertStep, AssertArrives, AssertProceeds
  <2> QED
    BY <2>1, <2>2, AssertFrame
<1> QED
  BY <1>1, <1>2, <1>3 DEF LoginReady

(* The start slice changes the database when it stores a session.          *)
LEMMA LoginDb ==
    ASSUME NEW r \in LoginStarts, LoginStep(r)
    PROVE  db' = db \/ PersistLoginSession(r)
BY DEF LoginStep, LoginArrives, LoginProceeds, LoginFails, RejectLoginHandle,
       LoadUser, UserNotFound, LoadCredentials, OpenLoginSession,
       LoadUserCredentialsFails, PersistLoginFails, RespondLogin, storeVars

(* The finish slice changes it when it commits.                            *)
LEMMA AssertDb ==
    ASSUME NEW q \in LoginFinishes, AssertStep(q)
    PROVE  db' = db \/ CommitLogin(q)
<1>1. CASE AssertArrives(q)
  BY <1>1
  DEF AssertArrives, RejectAssertion, AcceptAssertion, storeVars
<1>2. CASE AssertProceeds(q)
  BY <1>2
  DEF AssertProceeds, LoadLoginSession, LoginSessionNotFound,
      NewFreshLoginSession, LoginSessionExpired, LoadCredential,
      CredentialNotFound, LoadOwner, VerifyAssertion, AssertionInvalid,
      UpdateSignCount, InsertLoginToken, DeleteLoginSession,
      RespondAssertion, FirstWrite, NextWrite, storeVars
<1>3. CASE AssertFails(q)
  BY <1>3
  DEF AssertFails, LoadAssertionFails, FinishLoginFails, Rollback, storeVars
<1> QED
  BY <1>1, <1>2, <1>3 DEF AssertStep

(* The database changes when a session is stored, when a login commits and *)
(* when somebody registers.                                                *)
LEMMA DbSteps ==
    ASSUME [Next]_vars
    PROVE  \/ db' = db
           \/ \E r \in LoginStarts : (LoginStep(r) /\ PersistLoginSession(r))
           \/ \E q \in LoginFinishes : (AssertStep(q) /\ CommitLogin(q))
           \/ RegisterStep
<1>1. ASSUME SignStep \/ ClockStep \/ Restart \/ UNCHANGED vars
      PROVE  db' = db
  BY <1>1 DEF SignStep, ClockStep, Tick, Restart, Reboot, vars, storeVars
<1> QED
  BY <1>1, LoginDb, AssertDb DEF Next, Quiescent

(* What a login commits, table by table.                                   *)
LEMMA CommitPublishes ==
    ASSUME LoginInvariant, NEW q \in LoginFinishes, CommitLogin(q)
    PROVE  /\ db'.users = db.users
           /\ db'.credentials =
                 {IF k.credential_id = target[q].credential_id
                  THEN [k EXCEPT !.sign_count = assertion[q].signed.sign_count]
                  ELSE k : k \in db.credentials}
           /\ db'.refresh_tokens = db.refresh_tokens \cup {LoginTokenOf(q)}
           /\ db'.login_sessions =
                 {s \in db.login_sessions : s.id # assertion[q].id}
<1> DEFINE counted == SetSignCount(db, target[q].credential_id,
                                   assertion[q].signed.sign_count)
           granted == InsertRow(counted, "refresh_tokens", LoginTokenOf(q))
<1>1. db' = DeleteByID(granted, "login_sessions", assertion[q].id)
  BY DEF CommitLogin, Commit, LoginInvariant, LoginTransactionIsIsolated,
         LoginTransaction
<1>2. assertion[q].signed.sign_count \in SignCounts
  BY DEF LoginInvariant, AssertKnows, CommitLogin, AssertRunning,
         LoginTransaction, SessionFinishCommand, Assertion
<1>3. db \in Database
  BY DEF LoginInvariant, TypeOK, StoreTypeOK
<1>4. /\ counted \in Database
      /\ counted.users = db.users
      /\ counted.refresh_tokens = db.refresh_tokens
      /\ counted.login_sessions = db.login_sessions
      /\ counted.credentials =
            {IF k.credential_id = target[q].credential_id
             THEN [k EXCEPT !.sign_count = assertion[q].signed.sign_count]
             ELSE k : k \in db.credentials}
  BY <1>2, <1>3, SetSignCountTyped
<1>5. /\ granted.users = counted.users
      /\ granted.credentials = counted.credentials
      /\ granted.refresh_tokens = counted.refresh_tokens \cup {LoginTokenOf(q)}
      /\ granted.login_sessions = counted.login_sessions
      /\ DOMAIN granted = DOMAIN counted
  <2> HIDE DEF counted
  <2> QED
    BY <1>4 DEF InsertRow, Database
<1>6. /\ db'.users = granted.users
      /\ db'.credentials = granted.credentials
      /\ db'.refresh_tokens = granted.refresh_tokens
      /\ db'.login_sessions = {s \in granted.login_sessions : s.id # assertion[q].id}
  <2>1. DOMAIN counted = {"registration_sessions", "users", "credentials",
                          "refresh_tokens", "login_sessions"}
    <3> HIDE DEF counted
    <3> QED
      BY <1>4 DEF Database
  <2> HIDE DEF granted, counted
  <2> QED
    BY <1>1, <1>5, <2>1 DEF DeleteByID
<1> HIDE DEF granted, counted
<1> QED
  BY <1>4, <1>5, <1>6

(* What a registration commits, as far as login reads it.                  *)
LEMMA RegisterPublishes ==
    ASSUME StoreTypeOK, RegisterStep
    PROVE  /\ db'.login_sessions = db.login_sessions
           /\ \E u \in RegFinishes, h \in Handles, k \in CredIDs,
                 n \in SignCounts, e \in Nat :
                 /\ n <= counter[k]
                 /\ \A row \in db.users : row.id # u
                 /\ \A c \in db.credentials : c.credential_id # k
                 /\ db'.users = db.users \cup {[id |-> u, handle |-> h]}
                 /\ db'.credentials = db.credentials \cup
                       {[credential_id |-> k, user_id |-> u, sign_count |-> n]}
                 /\ db'.refresh_tokens = db.refresh_tokens \cup
                       {[token_hash |-> u, user_id |-> u, expires_at |-> e,
                         revoked_at |-> None]}
<1>1. PICK u \in RegFinishes, h \in Handles, k \in CredIDs, n \in SignCounts,
           t \in 0 .. MaxTime : Register(u, h, k, n, t)
  BY DEF RegisterStep
<1> DEFINE e == GenerateTokenPair(t, boots).refresh_exp
<1>2. e \in Nat
  BY TokenPairTyped, StoreAssumption DEF TokenPair, StoreTypeOK
<1> HIDE DEF e
<1>3. /\ n <= counter[k]
      /\ \A row \in db.users : row.id # u
      /\ \A c \in db.credentials : c.credential_id # k
  BY <1>1 DEF Register, CredentialExists
<1>4. /\ db'.login_sessions = db.login_sessions
      /\ db'.users = db.users \cup {[id |-> u, handle |-> h]}
      /\ db'.credentials = db.credentials \cup
            {[credential_id |-> k, user_id |-> u, sign_count |-> n]}
      /\ db'.refresh_tokens = db.refresh_tokens \cup
            {[token_hash |-> u, user_id |-> u, expires_at |-> e,
              revoked_at |-> None]}
  BY <1>1 DEF Register, Autocommit, StoreTypeOK, Database, e
<1> QED
  BY <1>2, <1>3, <1>4

(* What a start slice commits.                                             *)
LEMMA PersistPublishes ==
    ASSUME StoreTypeOK, NEW r \in LoginStarts, PersistLoginSession(r)
    PROVE  /\ db'.users = db.users
           /\ db'.credentials = db.credentials
           /\ db'.refresh_tokens = db.refresh_tokens
           /\ db'.login_sessions = db.login_sessions \cup {LoginSessionRowOf(r)}
BY DEF PersistLoginSession, Autocommit, InsertRow, StoreTypeOK, Database

(* The UPDATE of a login changes neither which credentials there are nor   *)
(* whose they are.                                                         *)
LEMMA CommitKeepsOwners ==
    ASSUME LoginInvariant, NEW q \in LoginFinishes, CommitLogin(q)
    PROVE  \A u, c : Owns(u, c)' <=> Owns(u, c)
<1>1. \A k \in db.credentials : k \in CredentialRow
  BY DEF LoginInvariant, TypeOK, StoreTypeOK, Database
<1> DEFINE n == assertion[q].signed.sign_count
           counted(k) == IF k.credential_id = target[q].credential_id
                         THEN [k EXCEPT !.sign_count = n] ELSE k
<1>2. db'.credentials = {counted(k) : k \in db.credentials}
  BY CommitPublishes
<1>3. \A k \in db.credentials : /\ counted(k).credential_id = k.credential_id
                                /\ counted(k).user_id = k.user_id
  BY <1>1 DEF CredentialRow
<1> HIDE DEF counted
<1> QED
  BY <1>2, <1>3 DEF Owns

(* No step takes a user or a credential away, and no step gives a user who *)
(* is stored another credential.                                           *)
LEMMA OwnersStay ==
    ASSUME LoginInvariant, [Next]_vars
    PROVE  /\ db.users \subseteq db'.users
           /\ \A u, c : Owns(u, c) => Owns(u, c)'
           /\ \A u \in db.users, c \in CredIDs : Owns(u.id, c)' => Owns(u.id, c)
<1> USE DEF LoginInvariant, TypeOK
<1>1. CASE db' = db
  BY <1>1 DEF Owns
<1>2. ASSUME NEW r \in LoginStarts, PersistLoginSession(r)
      PROVE  db'.users = db.users /\ db'.credentials = db.credentials
  BY <1>2, PersistPublishes
<1>3. ASSUME NEW q \in LoginFinishes, CommitLogin(q)
      PROVE  db'.users = db.users /\ \A u, c : Owns(u, c)' <=> Owns(u, c)
  BY <1>3, CommitPublishes, CommitKeepsOwners
<1>4. CASE RegisterStep
  <2>1. PICK u \in RegFinishes, h \in Handles, k \in CredIDs, n \in SignCounts :
           /\ \A row \in db.users : row.id # u
           /\ db'.users = db.users \cup {[id |-> u, handle |-> h]}
           /\ db'.credentials = db.credentials \cup
                 {[credential_id |-> k, user_id |-> u, sign_count |-> n]}
    BY <1>4, RegisterPublishes
  <2> QED
    BY <2>1 DEF Owns
<1> QED
  BY <1>1, <1>2, <1>3, <1>4, DbSteps DEF Owns

(* A step keeps what the start slice knows of each of its requests.        *)
LEMMA LoginKnowsStep ==
    ASSUME LoginInvariant, [Next]_vars
    PROVE  \A r \in LoginStarts : LoginKnows(r)'
<1> SUFFICES ASSUME NEW r \in LoginStarts
             PROVE  LoginKnows(r)'
  OBVIOUS
<1>1. LoginKnows(r)
  BY DEF LoginInvariant
<1>2. CASE LoginUnmoved(r)
  BY <1>1, <1>2, OwnersStay DEF LoginUnmoved, LoginKnows, Opened
<1>3. CASE LoginStep(r)
  <2> USE <1>1, NoneIsNoReply
      DEF LoginInvariant, TypeOK, StoreTypeOK, LoginTypeOK, LoginKnows, Opened
  <2>1. ASSUME \/ RejectLoginHandle(r)
               \/ \E h \in Handles : LoadUser(r, h) \/ UserNotFound(r, h)
               \/ RespondLogin(r)
        PROVE  LoginKnows(r)'
    BY <2>1
    DEF RejectLoginHandle, LoadUser, UserNotFound, RespondLogin, AnswerLogin,
        LoginGoes, storeVars, Owns
  <2>2. ASSUME LoadCredentials(r)
        PROVE  LoginKnows(r)'
    BY <2>2
    DEF LoadCredentials, CredentialsOf, AnswerLogin, LoginGoes, storeVars, Owns
  <2>3. ASSUME OpenLoginSession(r)
        PROVE  LoginKnows(r)'
    <3>1. user[r].id \in RegFinishes
      BY <2>3 DEF OpenLoginSession, Database, UserRow
    <3>2. /\ NewLoginSession(user[r].id, now) \in LoginSession
          /\ NewLoginSession(user[r].id, now).user_id = user[r].id
      BY <3>1, ChallengeTTLAssumption DEF NewLoginSession, LoginSession
    <3> QED
      BY <2>3, <3>2 DEF OpenLoginSession, LoginGoes, storeVars, Owns
  <2>4. ASSUME PersistLoginSession(r)
        PROVE  LoginKnows(r)'
    BY <2>4, PersistPublishes
    DEF PersistLoginSession, AnswerLogin, LoginGoes, Owns
  <2>5. ASSUME LoginFails(r)
        PROVE  LoginKnows(r)'
    BY <2>5, ErrorTyped
    DEF LoginFails, LoadUserCredentialsFails, PersistLoginFails, AnswerLogin,
        LoginGoes, storeVars, Owns
  <2> QED
    BY <1>3, <2>1, <2>2, <2>3, <2>4, <2>5
    DEF LoginStep, LoginArrives, LoginProceeds
<1> QED
  BY <1>2, <1>3, LoginFrame DEF LoginInvariant, TypeOK

(* The row that a finish slice loads is the one its session was stored     *)
(* with: nobody else's, and none that was never stored.                    *)
LEMMA LoadedRowIsStored ==
    ASSUME LoginInvariant, NEW row \in db.login_sessions
    PROVE  row.id \in Opened /\ row = LoginSessionRowOf(row.id)
<1>1. PICK r \in Opened : row = LoginSessionRowOf(r)
  BY DEF LoginInvariant, LoginTablesMatchAnswers
<1>2. row.id = r
  BY <1>1 DEF LoginSessionRowOf
<1> QED
  BY <1>1, <1>2

(* What the finish slice knows rests on what no step takes back.           *)
LEMMA AssertKnowsFrame ==
    ASSUME LoginInvariant, [Next]_vars, NEW q \in LoginFinishes,
           AssertUnmoved(q)
    PROVE  AssertKnows(q)'
<1>1. \A r \in Opened : r \in Opened' /\ session'[r] = session[r]
  BY OpenedStays DEF Opened
<1>2. \A r \in Opened : LoginSessionRowOf(r)' = LoginSessionRowOf(r)
  BY <1>1 DEF LoginSessionRowOf
<1>3. signed \subseteq signed'
  BY DEF Next, LoginStep, AssertStep, RegisterStep, SignStep, Sign, ClockStep,
         Restart, Quiescent, vars, authenticatorVars
<1>4. q \in LoggedIn' <=> q \in LoggedIn
  BY DEF AssertUnmoved, LoggedIn
<1>5. AssertKnows(q)
  BY DEF LoginInvariant
<1> QED
  BY <1>1, <1>2, <1>3, <1>4, <1>5, OwnersStay
  DEF AssertKnows, AssertUnmoved, AssertRunning, LoginTransaction

(* A step keeps what the finish slice knows of each of its requests.       *)
LEMMA AssertKnowsStep ==
    ASSUME LoginInvariant, [Next]_vars
    PROVE  \A q \in LoginFinishes : AssertKnows(q)'
<1> SUFFICES ASSUME NEW q \in LoginFinishes
             PROVE  AssertKnows(q)'
  OBVIOUS
<1>1. AssertKnows(q)
  BY DEF LoginInvariant
<1>2. CASE AssertUnmoved(q)
  BY <1>2, AssertKnowsFrame
<1>3. CASE AssertStep(q)
  <2>1. /\ UNCHANGED <<loginVars, authenticatorVars>>
        /\ Opened' = Opened
        /\ \A r : LoginSessionRowOf(r)' = LoginSessionRowOf(r)
    BY <1>3 DEF AssertStep, loginVars, Opened, LoginSessionRowOf
  <2>2. \A u, c : Owns(u, c) => Owns(u, c)'
    BY OwnersStay
  <2> USE <1>1, <2>1, <2>2, NoneIsNoReply
      DEF LoginInvariant, TypeOK, StoreTypeOK, AssertTypeOK, AssertKnows,
          LoggedIn, AssertRunning, LoginTransaction, loginVars,
          authenticatorVars
  <2>3. ASSUME RejectAssertion(q) \/ RespondAssertion(q)
        PROVE  AssertKnows(q)'
    BY <2>3
    DEF RejectAssertion, RespondAssertion, AnswerAssertion, AssertGoes
  <2>4. ASSUME NEW id \in LoginStarts \cup {None}, NEW a \in signed,
               AcceptAssertion(q, [id |-> id, signed |-> a])
        PROVE  AssertKnows(q)'
    <3>1. [id |-> id, signed |-> a] \in SessionFinishCommand
      BY DEF SessionFinishCommand, AuthenticatorTypeOK
    <3>2. id \in Opened \cup {None}
      BY <2>4 DEF AcceptAssertion, Challenged, Opened
    <3> QED
      BY <2>4, <3>1, <3>2 DEF AcceptAssertion, AssertGoes
  <2>5. ASSUME LoadLoginSession(q)
        PROVE  AssertKnows(q)'
    <3>1. PICK row \in db.login_sessions :
             /\ row.id = assertion[q].id
             /\ loginLoaded' = [loginLoaded EXCEPT ![q] = row]
      BY <2>5 DEF LoadLoginSession
    <3>2. /\ assertion[q].id \in Opened
          /\ loginLoaded'[q] = LoginSessionRowOf(assertion[q].id)
      BY <3>1, LoadedRowIsStored
    <3> QED
      BY <2>5, <3>2 DEF LoadLoginSession, AssertGoes
  <2>6. ASSUME LoginSessionNotFound(q) \/ CredentialNotFound(q)
               \/ LoginSessionExpired(q) \/ LoadOwner(q)
               \/ AssertionInvalid(q)
        PROVE  AssertKnows(q)'
    BY <2>6
    DEF LoginSessionNotFound, CredentialNotFound, LoginSessionExpired,
        LoadOwner, AssertionInvalid, AnswerAssertion, AssertGoes
  <2>7. ASSUME NewFreshLoginSession(q)
        PROVE  AssertKnows(q)'
    <3> DEFINE e == session[assertion[q].id].expiresAt
    <3>1. e \in Nat
      BY <2>7 DEF NewFreshLoginSession, LoginKnows, LoginSession, Opened
    <3>2. loginLoaded[q].expires_at = Unix(e)
      BY <2>7 DEF NewFreshLoginSession, LoginSessionRowOf
    <3>3. now < e
      BY <2>7, <3>1, <3>2, Truncation DEF NewFreshLoginSession
    <3> QED
      BY <2>7, <3>3 DEF NewFreshLoginSession, AssertGoes
  <2>8. ASSUME LoadCredential(q)
        PROVE  AssertKnows(q)'
    <3>1. PICK k \in db.credentials : /\ OwnCredential(q, k)
                                      /\ target' = [target EXCEPT ![q] = k]
      BY <2>8 DEF LoadCredential
    <3>2. /\ k \in CredentialRow
          /\ k.credential_id = assertion[q].signed.credential_id
          /\ k.user_id = session[assertion[q].id].user_id
          /\ Owns(k.user_id, k.credential_id)
      BY <2>8, <3>1
      DEF LoadCredential, OwnCredential, LoginSessionRowOf, Owns, Database
    <3> QED
      BY <2>8, <3>1, <3>2 DEF LoadCredential, AssertGoes
  <2>9. ASSUME VerifyAssertion(q)
        PROVE  AssertKnows(q)'
    <3>1. assertion[q].signed.challenge = assertion[q].id
      BY <2>9 DEF VerifyAssertion, AssertionVerified, LoginSessionRowOf
    <3>2. GenerateTokenPair(now, boots) \in TokenPair
      BY TokenPairTyped
    <3> QED
      BY <2>9, <3>1, <3>2 DEF VerifyAssertion, AssertGoes
  <2>10. ASSUME UpdateSignCount(q) \/ InsertLoginToken(q)
                \/ DeleteLoginSession(q) \/ CommitLogin(q)
         PROVE  AssertKnows(q)'
    BY <2>10
    DEF UpdateSignCount, InsertLoginToken, DeleteLoginSession, CommitLogin,
        AnswerAssertion, AssertGoes
  <2>11. ASSUME AssertFails(q)
         PROVE  AssertKnows(q)'
    BY <2>11, ErrorTyped
    DEF AssertFails, LoadAssertionFails, FinishLoginFails, AnswerAssertion,
        AssertGoes
  <2> QED
    BY <1>3, <2>3, <2>4, <2>5, <2>6, <2>7, <2>8, <2>9, <2>10, <2>11
    DEF AssertStep, AssertArrives, AssertProceeds
<1> QED
  BY <1>2, <1>3, AssertFrame DEF LoginInvariant, TypeOK

(* A step keeps every credential its owner.                                *)
LEMMA OwnersStep ==
    ASSUME LoginInvariant, [Next]_vars
    PROVE  CredentialsHaveOwners'
<1> StoreTypeOK /\ CredentialsHaveOwners
  BY DEF LoginInvariant, TypeOK
<1>1. CASE db' = db
  BY <1>1 DEF CredentialsHaveOwners
<1>2. ASSUME NEW r \in LoginStarts, PersistLoginSession(r)
      PROVE  CredentialsHaveOwners'
  BY <1>2, PersistPublishes DEF CredentialsHaveOwners
<1>3. ASSUME NEW q \in LoginFinishes, CommitLogin(q)
      PROVE  CredentialsHaveOwners'
  <2>1. \A k \in db'.credentials : Owns(k.user_id, k.credential_id)
    <3>1. \A k \in db'.credentials : Owns(k.user_id, k.credential_id)'
      BY DEF Owns
    <3> QED
      BY <1>3, <3>1, CommitKeepsOwners
  <2>2. db'.users = db.users
    BY <1>3, CommitPublishes
  <2>3. \A u, c : Owns(u, c) => \E row \in db.users : row.id = u
    BY DEF CredentialsHaveOwners, Owns
  <2> QED
    BY <2>1, <2>2, <2>3 DEF CredentialsHaveOwners
<1>4. CASE RegisterStep
  <2>1. PICK u \in RegFinishes, h \in Handles, k \in CredIDs, n \in SignCounts :
           /\ db'.users = db.users \cup {[id |-> u, handle |-> h]}
           /\ db'.credentials = db.credentials \cup
                 {[credential_id |-> k, user_id |-> u, sign_count |-> n]}
    BY <1>4, RegisterPublishes
  <2>2. \A c \in db.credentials : \E row \in db'.users : row.id = c.user_id
    <3>1. \A c \in db.credentials : \E row \in db.users : row.id = c.user_id
      BY DEF CredentialsHaveOwners
    <3>2. db.users \subseteq db'.users
      BY <2>1
    <3> QED
      BY <3>1, <3>2
  <2>3. \E row \in db'.users : row.id = u
    <3>1. [id |-> u, handle |-> h] \in db'.users
      BY <2>1
    <3>2. [id |-> u, handle |-> h].id = u
      OBVIOUS
    <3> QED
      BY <3>1, <3>2
  <2>4. \A c \in db'.credentials : c \in db.credentials \/ c.user_id = u
    BY <2>1
  <2> QED
    BY <2>2, <2>3, <2>4 DEF CredentialsHaveOwners
<1> QED
  BY <1>1, <1>2, <1>3, <1>4, DbSteps

(* A step that touches neither the database nor a request that is inside   *)
(* its transaction leaves the transaction as it is.                        *)
LEMMA IsolatedFrame ==
    ASSUME LoginTransactionIsIsolated, UNCHANGED <<db, view, writer>>,
           \A q \in LoginFinishes :
              \/ AssertUnmoved(q) /\ assertPc'[q] = assertPc[q]
              \/ /\ assertPc[q] \notin LoginTransaction
                 /\ assertPc'[q] \notin LoginTransaction
    PROVE  LoginTransactionIsIsolated'
<1>1. \A q \in LoginFinishes :
         assertPc[q] \in LoginTransaction =>
           /\ assertPc'[q] = assertPc[q]
           /\ target'[q] = target[q]
           /\ assertion'[q] = assertion[q]
           /\ LoginTokenOf(q)' = LoginTokenOf(q)
  BY DEF AssertUnmoved, LoginTokenOf
<1>2. \A q \in LoginFinishes :
         assertPc'[q] \in LoginTransaction <=> assertPc[q] \in LoginTransaction
  BY DEF AssertUnmoved
<1> QED
  BY <1>1, <1>2 DEF LoginTransactionIsIsolated

(* Outside a transaction nothing is pending.                               *)
LEMMA IsolatedWithoutWriter ==
    ASSUME writer' = None, view' = db',
           \A q \in LoginFinishes : assertPc'[q] \notin LoginTransaction
    PROVE  LoginTransactionIsIsolated'
BY StoreAssumption DEF LoginTransactionIsIsolated

(* A step keeps the open transaction isolated.                             *)
LEMMA IsolatedStep ==
    ASSUME LoginInvariant, [Next]_vars
    PROVE  LoginTransactionIsIsolated'
<1> USE StoreAssumption
    DEF LoginInvariant, TypeOK, StoreTypeOK, AssertTypeOK, LoginTransaction
<1>1. writer = None =>
         \A q \in LoginFinishes : assertPc[q] \notin LoginTransaction
  BY DEF LoginTransactionIsIsolated
<1>2. ASSUME NEW r \in LoginStarts, LoginStep(r)
      PROVE  LoginTransactionIsIsolated'
  <2>1. CASE PersistLoginSession(r)
    BY <1>1, <1>2, <2>1, IsolatedWithoutWriter
    DEF PersistLoginSession, Autocommit, LoginStep, assertVars
  <2>2. CASE ~PersistLoginSession(r)
    <3>1. UNCHANGED <<db, view, writer>>
      BY <1>2, <2>2
      DEF LoginStep, LoginArrives, LoginProceeds, LoginFails,
          RejectLoginHandle, LoadUser, UserNotFound, LoadCredentials,
          OpenLoginSession, LoadUserCredentialsFails, PersistLoginFails,
          RespondLogin, storeVars
    <3> QED
      BY <1>2, <3>1, IsolatedFrame DEF LoginStep, assertVars, AssertUnmoved
  <2> QED
    BY <2>1, <2>2
<1>3. ASSUME NEW q \in LoginFinishes, AssertStep(q)
      PROVE  LoginTransactionIsIsolated'
  <2>1. \A p \in LoginFinishes : p # q =>
           AssertUnmoved(p) /\ assertPc'[p] = assertPc[p]
    BY <1>3, AssertAlone
  <2>2. \A p \in LoginFinishes :
           p # q /\ writer = q => assertPc[p] \notin LoginTransaction
    BY DEF LoginTransactionIsIsolated
  <2>3. CASE /\ UNCHANGED <<db, view, writer>>
             /\ assertPc[q] \notin LoginTransaction
             /\ assertPc'[q] \notin LoginTransaction
    BY <2>1, <2>3, IsolatedFrame
  <2>4. CASE UpdateSignCount(q)
    <3>1. /\ \A p \in LoginFinishes : p # q => assertPc'[p] \notin LoginTransaction
          /\ assertPc'[q] = "insertToken"
          /\ writer' = q /\ UNCHANGED <<db, target, assertion, loginIssued>>
          /\ view' = SetSignCount(db, target[q].credential_id,
                                  assertion[q].signed.sign_count)
      BY <1>1, <2>1, <2>4 DEF UpdateSignCount, AssertGoes, FirstWrite
    <3> QED
      BY <3>1 DEF LoginTransactionIsIsolated
  <2>5. CASE InsertLoginToken(q)
    <3>1. /\ \A p \in LoginFinishes : p # q => assertPc'[p] \notin LoginTransaction
          /\ assertPc[q] = "insertToken" /\ assertPc'[q] = "deleteSession"
          /\ writer' = q /\ UNCHANGED <<db, target, assertion, loginIssued>>
          /\ view' = InsertRow(view, "refresh_tokens", LoginTokenOf(q))
          /\ LoginTokenOf(q)' = LoginTokenOf(q)
      BY <2>1, <2>2, <2>5
      DEF InsertLoginToken, AssertGoes, NextWrite, LoginTokenOf
    <3> QED
      BY <3>1 DEF LoginTransactionIsIsolated
  <2>6. CASE DeleteLoginSession(q)
    <3>1. loginLoaded[q].id = assertion[q].id
      BY <2>6 DEF DeleteLoginSession, AssertKnows, AssertRunning, LoginSessionRowOf
    <3>2. /\ \A p \in LoginFinishes : p # q => assertPc'[p] \notin LoginTransaction
          /\ assertPc[q] = "deleteSession" /\ assertPc'[q] = "commit"
          /\ writer' = q /\ UNCHANGED <<db, target, assertion, loginIssued>>
          /\ view' = DeleteByID(view, "login_sessions", assertion[q].id)
          /\ LoginTokenOf(q)' = LoginTokenOf(q)
      BY <2>1, <2>2, <2>6, <3>1
      DEF DeleteLoginSession, AssertGoes, NextWrite, LoginTokenOf
    <3> QED
      BY <3>2 DEF LoginTransactionIsIsolated
  <2>7. CASE CommitLogin(q)
    <3>1. /\ writer' = None /\ view' = db'
          /\ \A p \in LoginFinishes : assertPc'[p] \notin LoginTransaction
      BY <2>1, <2>2, <2>7 DEF CommitLogin, Commit, AnswerAssertion, AssertGoes
    <3> QED
      BY <3>1, IsolatedWithoutWriter
  <2>8. ASSUME NEW f \in Faults, FinishLoginFails(q, f), writer = q
        PROVE  LoginTransactionIsIsolated'
    <3>1. /\ writer' = None /\ view' = db'
          /\ \A p \in LoginFinishes : assertPc'[p] \notin LoginTransaction
      BY <2>1, <2>2, <2>8
      DEF FinishLoginFails, Rollback, AnswerAssertion, AssertGoes
    <3> QED
      BY <3>1, IsolatedWithoutWriter
  <2>9. ASSUME NEW f \in Faults, FinishLoginFails(q, f), writer # q
        PROVE  LoginTransactionIsIsolated'
    BY <2>3, <2>9
    DEF FinishLoginFails, Rollback, AnswerAssertion, AssertGoes,
        LoginTransactionIsIsolated
  <2>10. ASSUME \/ AssertArrives(q)
                \/ LoadLoginSession(q) \/ LoginSessionNotFound(q)
                \/ NewFreshLoginSession(q) \/ LoginSessionExpired(q)
                \/ LoadCredential(q) \/ CredentialNotFound(q)
                \/ LoadOwner(q) \/ VerifyAssertion(q) \/ AssertionInvalid(q)
                \/ RespondAssertion(q)
                \/ \E f \in Faults : LoadAssertionFails(q, f)
         PROVE  LoginTransactionIsIsolated'
    <3>1. /\ UNCHANGED <<db, view, writer>>
          /\ assertPc[q] \notin LoginTransaction
          /\ assertPc'[q] \notin LoginTransaction
      BY <2>10
      DEF AssertArrives, RejectAssertion, AcceptAssertion, LoadLoginSession,
          LoginSessionNotFound, NewFreshLoginSession, LoginSessionExpired,
          LoadCredential, CredentialNotFound, LoadOwner, VerifyAssertion,
          AssertionInvalid, RespondAssertion, LoadAssertionFails,
          AnswerAssertion, AssertGoes, storeVars
    <3> QED
      BY <2>3, <3>1
  <2> QED
    BY <1>3, <2>4, <2>5, <2>6, <2>7, <2>8, <2>9, <2>10
    DEF AssertStep, AssertProceeds, AssertFails
<1>4. CASE RegisterStep
  BY <1>1, <1>4, IsolatedWithoutWriter
  DEF RegisterStep, Register, Autocommit, assertVars
<1>5. CASE SignStep \/ ClockStep \/ UNCHANGED vars
  BY <1>5, IsolatedFrame
  DEF SignStep, ClockStep, Tick, vars, storeVars, assertVars, AssertUnmoved
<1>6. CASE Restart
  BY <1>6, IsolatedWithoutWriter
  DEF Restart, Reboot, AssertKilled, AssertRunning
<1> QED
  BY <1>2, <1>3, <1>4, <1>5, <1>6 DEF Next, Quiescent

(* A step that opens no session and logs nobody in leaves the answers that *)
(* account for the tables as they are.                                     *)
LEMMA AnswersStay ==
    ASSUME LoginInvariant, [Next]_vars,
           \A r \in LoginStarts : ~(LoginStep(r) /\ PersistLoginSession(r)),
           \A q \in LoginFinishes : ~(AssertStep(q) /\ CommitLogin(q))
    PROVE  Opened' = Opened /\ LoggedIn' = LoggedIn
<1>1. \A r \in LoginStarts : r \in Opened' <=> r \in Opened
  BY OpenedStays
<1>2. \A q \in LoginFinishes : q \in LoggedIn' <=> q \in LoggedIn
  BY LoggedInStays, InvariantIsReady
<1> QED
  BY <1>1, <1>2 DEF Opened, LoggedIn

(* What is opened is stored as the same row, and a login's refresh token   *)
(* is the same, after every step.                                          *)
LEMMA RowsStay ==
    ASSUME LoginInvariant, [Next]_vars
    PROVE  /\ \A r \in Opened : LoginSessionRowOf(r)' = LoginSessionRowOf(r)
           /\ \A q \in LoggedIn : /\ LoginTokenOf(q)' = LoginTokenOf(q)
                                  /\ assertion'[q] = assertion[q]
<1>1. \A r \in Opened : session'[r] = session[r]
  BY OpenedStays DEF Opened
<1>2. \A q \in LoggedIn : /\ target'[q] = target[q]
                          /\ loginIssued'[q] = loginIssued[q]
                          /\ assertion'[q] = assertion[q]
  BY LoggedInStays, InvariantIsReady DEF LoggedIn
<1> QED
  BY <1>1, <1>2 DEF LoginSessionRowOf, LoginTokenOf

(* A step keeps the tables what the answers account for.                   *)
LEMMA TablesStep ==
    ASSUME LoginInvariant, [Next]_vars
    PROVE  LoginTablesMatchAnswers'
<1>1. /\ LoginTablesMatchAnswers
      /\ LoginTypeOK /\ AssertTypeOK /\ StoreTypeOK
  BY DEF LoginInvariant, TypeOK
<1>2. /\ \A r : LoginSessionRowOf(r).id = r
      /\ \A q : LoginTokenOf(q).token_hash = q
  BY DEF LoginSessionRowOf, LoginTokenOf
<1>3. CASE \E r \in LoginStarts : LoginStep(r) /\ PersistLoginSession(r)
  <2>1. PICK r \in LoginStarts : LoginStep(r) /\ PersistLoginSession(r)
    BY <1>3
  <2>2. LoggedIn' = LoggedIn /\ \A s : Used(s)' <=> Used(s)
    BY <2>1 DEF LoginStep, assertVars, LoggedIn, Used
  <2>3. Opened' = Opened \cup {r} /\ session' = session
    BY <1>1, <2>1
    DEF PersistLoginSession, AnswerLogin, LoginGoes, Opened, LoginTypeOK
  <2>4. r \notin Opened
    BY <2>1, NoneIsNoReply
    DEF PersistLoginSession, LoginInvariant, LoginKnows, Opened
  <2>5. ~Used(r)
    BY <2>4 DEF Used, LoginInvariant, AssertKnows, LoggedIn
  <2>6. \A s : LoginSessionRowOf(s)' = LoginSessionRowOf(s)
    BY <2>3 DEF LoginSessionRowOf
  <2>7. \A q : LoginTokenOf(q)' = LoginTokenOf(q)
    BY <2>1 DEF LoginStep, assertVars, LoginTokenOf
  <2>8. /\ db'.login_sessions = db.login_sessions \cup {LoginSessionRowOf(r)}
        /\ db'.refresh_tokens = db.refresh_tokens
    BY <1>1, <2>1, PersistPublishes
  <2>9. {s \in Opened' : ~Used(s)'} = {s \in Opened : ~Used(s)} \cup {r}
    BY <2>2, <2>3, <2>5
  <2>10. db'.login_sessions =
            {LoginSessionRowOf(s)' : s \in {t \in Opened' : ~Used(t)'}}
    BY <1>1, <2>6, <2>8, <2>9 DEF LoginTablesMatchAnswers
  <2>11. {t \in db'.refresh_tokens : t.token_hash \in LoginFinishes} =
            {LoginTokenOf(q)' : q \in LoggedIn'}
    BY <1>1, <2>2, <2>7, <2>8 DEF LoginTablesMatchAnswers
  <2> QED
    BY <2>10, <2>11 DEF LoginTablesMatchAnswers
<1>4. CASE \E q \in LoginFinishes : AssertStep(q) /\ CommitLogin(q)
  <2>1. PICK q \in LoginFinishes : AssertStep(q) /\ CommitLogin(q)
    BY <1>4
  <2>2. /\ Opened' = Opened
        /\ \A s : LoginSessionRowOf(s)' = LoginSessionRowOf(s)
    BY <2>1 DEF AssertStep, loginVars, Opened, LoginSessionRowOf
  <2>3. /\ LoggedIn' = LoggedIn \cup {q}
        /\ assertion' = assertion
        /\ \A p : LoginTokenOf(p)' = LoginTokenOf(p)
    BY <1>1, <2>1
    DEF CommitLogin, AnswerAssertion, AssertGoes, LoggedIn, AssertTypeOK,
        LoginTokenOf
  <2>4. \A s : Used(s)' <=> Used(s) \/ s = assertion[q].id
    BY <2>3 DEF Used
  <2>5. /\ db'.refresh_tokens = db.refresh_tokens \cup {LoginTokenOf(q)}
        /\ db'.login_sessions =
              {s \in db.login_sessions : s.id # assertion[q].id}
    BY <2>1, CommitPublishes
  <2>6. db'.login_sessions =
           {LoginSessionRowOf(s)' : s \in {t \in Opened' : ~Used(t)'}}
    BY <1>1, <1>2, <2>2, <2>4, <2>5 DEF LoginTablesMatchAnswers
  <2>7. {t \in db'.refresh_tokens : t.token_hash \in LoginFinishes} =
           {LoginTokenOf(p)' : p \in LoggedIn'}
    BY <1>1, <1>2, <2>1, <2>3, <2>5 DEF LoginTablesMatchAnswers
  <2> QED
    BY <2>6, <2>7 DEF LoginTablesMatchAnswers
<1>5. CASE /\ \A r \in LoginStarts : ~(LoginStep(r) /\ PersistLoginSession(r))
           /\ \A q \in LoginFinishes : ~(AssertStep(q) /\ CommitLogin(q))
  <2>1. Opened' = Opened /\ LoggedIn' = LoggedIn
    BY <1>5, AnswersStay
  <2>2. \A s : Used(s)' <=> Used(s)
    BY <2>1, RowsStay DEF Used
  <2>3. /\ db'.login_sessions = db.login_sessions
        /\ {t \in db'.refresh_tokens : t.token_hash \in LoginFinishes} =
              {t \in db.refresh_tokens : t.token_hash \in LoginFinishes}
    <3>1. CASE db' = db
      BY <3>1
    <3>2. CASE RegisterStep
      <4>1. PICK u \in RegFinishes, e \in Nat :
               /\ db'.login_sessions = db.login_sessions
               /\ db'.refresh_tokens = db.refresh_tokens \cup
                     {[token_hash |-> u, user_id |-> u, expires_at |-> e,
                       revoked_at |-> None]}
        BY <1>1, <3>2, RegisterPublishes
      <4>2. [token_hash |-> u, user_id |-> u, expires_at |-> e,
             revoked_at |-> None].token_hash \notin LoginFinishes
        BY StoreAssumption
      <4> QED
        BY <4>1, <4>2
    <3> QED
      BY <1>5, <3>1, <3>2, DbSteps
  <2> QED
    BY <1>1, <2>1, <2>2, <2>3, RowsStay DEF LoginTablesMatchAnswers
<1> QED
  BY <1>3, <1>4, <1>5

----------------------------------------------------------------------------
(* The theorems.                                                           *)

(* The invariant holds of an empty service.                                *)
LEMMA InvariantInit == Init => LoginInvariant
<1> SUFFICES ASSUME Init
             PROVE  LoginInvariant
  OBVIOUS
<1> USE StoreAssumption, NoneIsNoReply
    DEF Init, StoreInit, LoginInit, AssertInit, AuthenticatorInit, EmptyDatabase
<1>1. TypeOK
  BY DEF TypeOK, StoreTypeOK, LoginTypeOK, AssertTypeOK, AuthenticatorTypeOK,
         Database, LoginPcs, LoginReplies, AssertPcs, AssertReplies
<1>2. Opened = {} /\ LoggedIn = {}
  BY DEF Opened, LoggedIn
<1>3. \A r \in LoginStarts : LoginKnows(r)
  BY <1>2 DEF LoginKnows
<1>4. \A q \in LoginFinishes : AssertKnows(q)
  BY <1>2 DEF AssertKnows, AssertRunning, LoginTransaction
<1>5. CredentialsHaveOwners /\ LoginTransactionIsIsolated
  BY DEF CredentialsHaveOwners, LoginTransactionIsIsolated, LoginTransaction
<1>6. LoginTablesMatchAnswers
  BY <1>2 DEF LoginTablesMatchAnswers
<1> QED
  BY <1>1, <1>3, <1>4, <1>5, <1>6 DEF LoginInvariant

(* And every step keeps it.                                                *)
LEMMA InvariantStep == LoginInvariant /\ [Next]_vars => LoginInvariant'
BY InvariantIsReady, TypeStep, LoginKnowsStep, AssertKnowsStep, OwnersStep,
   IsolatedStep, TablesStep
DEF LoginInvariant

(* What each handler knows, what is pending and what is stored hold        *)
(* together in every state that login can reach.                           *)
THEOREM LoginInvariantHolds == Spec => []LoginInvariant
BY InvariantInit, InvariantStep, PTL DEF Spec

(* The committed tables are exactly what the answers account for, whatever *)
(* fails, restarts or overlaps.                                            *)
THEOREM LoginIsAllOrNothing == Spec => []LoginTablesMatchAnswers
BY LoginInvariantHolds, PTL DEF LoginInvariant

(* An open FinishLogin is seen by nobody and publishes only its own work.  *)
THEOREM LoginIsIsolated == Spec => []LoginTransactionIsIsolated
BY LoginInvariantHolds, PTL DEF LoginInvariant

(* A token pair is the user's for whom the session was opened, and nobody  *)
(* else's.                                                                 *)
THEOREM TokensGoToTheOwner == Spec => []LoginIsTheOwners
<1>1. LoginInvariant => LoginIsTheOwners
  <2> SUFFICES ASSUME LoginInvariant, NEW q \in LoggedIn
               PROVE  LET r == assertion[q].id IN
                        /\ r \in Opened
                        /\ assertion[q].signed \in signed
                        /\ assertion[q].signed.challenge = r
                        /\ assertion[q].signed.credential_id \in allowed[r]
                        /\ \E k \in db.credentials :
                              /\ k.credential_id = assertion[q].signed.credential_id
                              /\ k.user_id = user[r].id
                        /\ LoginTokenOf(q).user_id = user[r].id
                        /\ freshAt[q] < session[r].expiresAt
    BY DEF LoginIsTheOwners
  <2> DEFINE r == assertion[q].id
             c == assertion[q].signed.credential_id
  <2>1. /\ r \in Opened
        /\ assertion[q] \in SessionFinishCommand
        /\ assertion[q].signed \in signed
        /\ assertion[q].signed.challenge = r
        /\ freshAt[q] < session[r].expiresAt
        /\ target[q].credential_id = c
        /\ target[q].user_id = session[r].user_id
        /\ Owns(target[q].user_id, target[q].credential_id)
    BY DEF LoginInvariant, AssertKnows, LoggedIn
  <2>2. /\ session[r].user_id = user[r].id
        /\ \A d \in CredIDs : d \in allowed[r] <=> Owns(user[r].id, d)
    BY <2>1 DEF LoginInvariant, LoginKnows, Opened
  <2>3. c \in CredIDs
    BY <2>1 DEF SessionFinishCommand, Assertion
  <2>4. c \in allowed[r]
    BY <2>1, <2>2, <2>3
  <2>5. \E k \in db.credentials : k.credential_id = c /\ k.user_id = user[r].id
    BY <2>1, <2>2 DEF Owns
  <2>6. LoginTokenOf(q).user_id = user[r].id
    BY <2>1, <2>2 DEF LoginTokenOf
  <2> QED
    BY <2>1, <2>4, <2>5, <2>6
<1> QED
  BY <1>1, LoginInvariantHolds, PTL

(* No request loads a session that a login has used.                       *)
THEOREM NoLoadAfterUse == Spec => UsedSessionIsRefused
<1>1. ASSUME LoginInvariant, [Next]_vars, NEW q \in LoginFinishes,
             loginLoaded'[q] # loginLoaded[q]
      PROVE  ~Used(assertion[q].id)
  <2>1. AssertStep(q)
    BY <1>1, AssertFrame DEF AssertUnmoved, LoginInvariant, TypeOK
  <2>2. LoadLoginSession(q)
    BY <1>1, <2>1
    DEF AssertStep, AssertArrives, AssertProceeds, AssertFails,
        RejectAssertion, AcceptAssertion, LoginSessionNotFound,
        NewFreshLoginSession, LoginSessionExpired, LoadCredential,
        CredentialNotFound, LoadOwner, VerifyAssertion, AssertionInvalid,
        UpdateSignCount, InsertLoginToken, DeleteLoginSession, CommitLogin,
        RespondAssertion, LoadAssertionFails, FinishLoginFails
  <2>3. PICK row \in db.login_sessions : row.id = assertion[q].id
    BY <2>2 DEF LoadLoginSession
  <2>4. PICK r \in Opened : row = LoginSessionRowOf(r) /\ ~Used(r)
    BY <1>1, <2>3 DEF LoginInvariant, LoginTablesMatchAnswers
  <2> QED
    BY <2>3, <2>4 DEF LoginSessionRowOf
<1>2. LoginInvariant /\ [Next]_vars =>
         [\A q \in LoginFinishes :
             loginLoaded'[q] # loginLoaded[q] => ~Used(assertion[q].id)]_vars
  BY <1>1
<1> QED
  BY <1>2, LoginInvariantHolds, PTL DEF Spec, UsedSessionIsRefused

(* A step keeps the reason of every NOT_FOUND answered.                    *)
LEMMA NotFoundStep ==
    ASSUME LoginInvariant, LoginNotFoundIsTrue, [Next]_vars
    PROVE  LoginNotFoundIsTrue'
<1> SUFFICES ASSUME NEW q \in LoginFinishes, assertReply'[q] = "NOT_FOUND"
             PROVE  NotFoundHasReason(q)'
  BY DEF LoginNotFoundIsTrue
<1>1. \A r : Used(r) => Used(r)'
  BY LoggedInStays, InvariantIsReady DEF Used, LoggedIn
<1>2. \A r \in Opened : session'[r] = session[r] /\ allowed'[r] = allowed[r]
  BY OpenedStays DEF Opened
<1>3. AssertKnows(q) /\ AssertTypeOK /\ StoreTypeOK
  BY DEF LoginInvariant, TypeOK
<1>4. CASE assertReply[q] = "NOT_FOUND"
  <2>1. /\ assertion'[q] = assertion[q]
        /\ freshAt'[q] = freshAt[q]
    <3>1. CASE AssertUnmoved(q)
      BY <3>1 DEF AssertUnmoved
    <3>2. CASE AssertStep(q)
      <4>1. assertPc[q] \notin {"idle"} \cup (AssertRunning \ {"respond"})
        BY <1>3, <1>4, NoneIsNoReply DEF AssertKnows
      <4> QED
        BY <3>2, <4>1
        DEF AssertStep, AssertArrives, AssertProceeds, AssertFails,
            RejectAssertion, AcceptAssertion, LoadLoginSession,
            LoginSessionNotFound, NewFreshLoginSession, LoginSessionExpired,
            LoadCredential, CredentialNotFound, LoadOwner, VerifyAssertion,
            AssertionInvalid, UpdateSignCount, InsertLoginToken,
            DeleteLoginSession, CommitLogin, RespondAssertion,
            LoadAssertionFails, FinishLoginFails, AssertRunning,
            LoginTransaction
    <3> QED
      BY <1>3, <3>1, <3>2, AssertFrame
  <2>2. freshAt[q] # None => assertion[q].id \in Opened
    BY <1>3, <1>4 DEF AssertKnows
  <2> QED
    BY <1>1, <1>2, <1>4, <2>1, <2>2
    DEF LoginNotFoundIsTrue, NotFoundHasReason, Used
<1>5. CASE assertReply[q] # "NOT_FOUND"
  <2>1. AssertStep(q)
    BY <1>3, <1>5, AssertFrame DEF AssertUnmoved
  <2>2. \/ LoginSessionNotFound(q) \/ LoginSessionExpired(q)
        \/ CredentialNotFound(q)
        \/ LoadOwner(q) /\ ~\E u \in db.users : u.id = target[q].user_id
    BY <1>3, <1>5, <2>1, ErrorTyped
    DEF AssertStep, AssertArrives, AssertProceeds, AssertFails,
        RejectAssertion, AcceptAssertion, LoadLoginSession,
        NewFreshLoginSession, LoadCredential, LoadOwner, VerifyAssertion,
        AssertionInvalid, UpdateSignCount, InsertLoginToken,
        DeleteLoginSession, CommitLogin, RespondAssertion, LoadAssertionFails,
        FinishLoginFails, AnswerAssertion, AssertTypeOK
  <2> DEFINE r == assertion[q].id
             c == assertion[q].signed.credential_id
  <2>3. CASE LoginSessionNotFound(q)
    <3>1. /\ assertion'[q] = assertion[q] /\ freshAt'[q] = None
          /\ r \in Opened \cup {None}
          /\ \A row \in db.login_sessions : row.id # r
      BY <1>3, <2>3
      DEF LoginSessionNotFound, AssertKnows, AssertRunning
    <3>2. r \in Opened /\ ~Used(r) => LoginSessionRowOf(r) \in db.login_sessions
      BY DEF LoginInvariant, LoginTablesMatchAnswers
    <3>3. LoginSessionRowOf(r).id = r
      BY DEF LoginSessionRowOf
    <3>4. r = None \/ Used(r)
      BY <3>1, <3>2, <3>3
    <3> QED
      BY <1>1, <3>1, <3>4 DEF NotFoundHasReason, Used
  <2>4. CASE LoginSessionExpired(q)
    <3> DEFINE e == session[r].expiresAt
    <3>1. /\ assertion'[q] = assertion[q] /\ freshAt'[q] = now
          /\ ~Fresh(now, FromUnix(loginLoaded[q].expires_at))
          /\ r \in Opened /\ loginLoaded[q] = LoginSessionRowOf(r)
      BY <1>3, <2>4
      DEF LoginSessionExpired, AssertKnows, AssertRunning, AssertTypeOK
    <3>2. e \in Nat
      BY <3>1 DEF LoginInvariant, LoginKnows, LoginSession, Opened
    <3>3. e < now + TicksPerSecond
      BY <1>3, <3>1, <3>2, Truncation DEF LoginSessionRowOf, StoreTypeOK
    <3>4. now # None
      BY <1>3, StoreAssumption DEF StoreTypeOK
    <3> QED
      BY <1>2, <3>1, <3>3, <3>4 DEF NotFoundHasReason
  <2>5. CASE CredentialNotFound(q)
    <3>1. /\ assertion'[q] = assertion[q] /\ freshAt'[q] = freshAt[q]
          /\ freshAt[q] \in Nat
          /\ assertion[q] \in SessionFinishCommand
          /\ r \in Opened /\ loginLoaded[q] = LoginSessionRowOf(r)
          /\ \A k \in db.credentials : ~OwnCredential(q, k)
      BY <1>3, <2>5 DEF CredentialNotFound, AssertKnows, AssertRunning
    <3>2. ~Owns(session[r].user_id, c)
      BY <3>1 DEF Owns, OwnCredential, LoginSessionRowOf
    <3>3. /\ session[r].user_id = user[r].id
          /\ \A d \in CredIDs : d \in allowed[r] <=> Owns(user[r].id, d)
      BY <3>1 DEF LoginInvariant, LoginKnows, Opened
    <3>4. c \in CredIDs
      BY <3>1 DEF SessionFinishCommand, Assertion
    <3>5. c \notin allowed[r] /\ freshAt[q] # None
      BY <3>1, <3>2, <3>3, <3>4, StoreAssumption
    <3> QED
      BY <1>2, <3>1, <3>5 DEF NotFoundHasReason
  <2>6. CASE LoadOwner(q) /\ ~\E u \in db.users : u.id = target[q].user_id
    <3>1. Owns(target[q].user_id, target[q].credential_id)
      BY <1>3, <2>6 DEF LoadOwner, AssertKnows
    <3> QED
      BY <2>6, <3>1 DEF Owns, LoginInvariant, CredentialsHaveOwners
  <2> QED
    BY <2>2, <2>3, <2>4, <2>5, <2>6
<1> QED
  BY <1>4, <1>5

(* NOT_FOUND is answered for a reason that still holds.                    *)
THEOREM LoginNotFoundHasAReason == Spec => []LoginNotFoundIsTrue
<1>1. Init => LoginNotFoundIsTrue
  BY NoneIsNoReply DEF Init, AssertInit, LoginNotFoundIsTrue
<1>2. LoginInvariant /\ LoginNotFoundIsTrue /\ [Next]_vars => LoginNotFoundIsTrue'
  BY NotFoundStep
<1> QED
  BY <1>1, <1>2, LoginInvariantHolds, PTL DEF Spec

(* A step keeps every stored counter one that its authenticator had.       *)
LEMMA CountersStep ==
    ASSUME LoginInvariant, CountersAreSigned, [Next]_vars
    PROVE  CountersAreSigned'
<1> DEFINE Signed(q, c, n) == /\ assertion[q].signed.credential_id = c
                              /\ assertion[q].signed.sign_count = n
<1>1. /\ StoreTypeOK /\ AuthenticatorTypeOK /\ AssertTypeOK
      /\ \A k \in db.credentials : k \in CredentialRow
  BY DEF LoginInvariant, TypeOK, StoreTypeOK, Database
<1>2. \A q \in LoggedIn : q \in LoggedIn' /\ assertion'[q] = assertion[q]
  BY LoggedInStays, InvariantIsReady DEF LoggedIn
<1>3. \A c \in CredIDs : /\ counter[c] \in Nat /\ counter'[c] \in Nat
                         /\ counter[c] <= counter'[c]
  BY <1>1
  DEF Next, LoginStep, AssertStep, RegisterStep, SignStep, Sign, ClockStep,
      Restart, Quiescent, vars, authenticatorVars, AuthenticatorTypeOK
<1>4. ASSUME db'.credentials = db.credentials, LoggedIn' = LoggedIn
      PROVE  CountersAreSigned'
  <2> SUFFICES ASSUME NEW k \in db.credentials
               PROVE  \/ \E q \in LoggedIn : Signed(q, k.credential_id, k.sign_count)'
                      \/ /\ \A q \in LoggedIn :
                              assertion'[q].signed.credential_id # k.credential_id
                         /\ k.sign_count <= counter'[k.credential_id]
    BY <1>4 DEF CountersAreSigned
  <2>1. k.credential_id \in CredIDs /\ k.sign_count \in Nat
    BY <1>1, StoreAssumption DEF CredentialRow
  <2> QED
    BY <1>2, <1>3, <2>1 DEF CountersAreSigned
<1>5. CASE \E q \in LoginFinishes : AssertStep(q) /\ CommitLogin(q)
  <2>1. PICK q \in LoginFinishes : AssertStep(q) /\ CommitLogin(q)
    BY <1>5
  <2>2. LoggedIn' = LoggedIn \cup {q} /\ assertion' = assertion /\ counter' = counter
    BY <1>1, <2>1
    DEF CommitLogin, AnswerAssertion, AssertGoes, LoggedIn, AssertTypeOK,
        AssertStep, authenticatorVars
  <2> DEFINE n == assertion[q].signed.sign_count
             c == assertion[q].signed.credential_id
             counted(k) == IF k.credential_id = c
                           THEN [k EXCEPT !.sign_count = n] ELSE k
  <2>3. target[q].credential_id = c
    BY <2>1 DEF CommitLogin, LoginInvariant, AssertKnows, LoginTransaction
  <2>4. db'.credentials = {counted(k) : k \in db.credentials}
    BY <2>1, <2>3, CommitPublishes
  <2> DEFINE Good(k) ==
               \/ \E p \in LoggedIn' : Signed(p, k.credential_id, k.sign_count)
               \/ /\ \A p \in LoggedIn' :
                        assertion[p].signed.credential_id # k.credential_id
                  /\ k.sign_count <= counter[k.credential_id]
  <2>5. ASSUME NEW k \in db.credentials
        PROVE  Good(counted(k))
    <3>1. CASE k.credential_id = c
      <4>1. counted(k).credential_id = c /\ counted(k).sign_count = n
        BY <1>1, <3>1 DEF CredentialRow
      <4> QED
        BY <2>2, <4>1
    <3>2. CASE k.credential_id # c
      <4>1. counted(k) = k
        BY <3>2
      <4>2. Good(k)
        BY <2>2, <3>2 DEF CountersAreSigned
      <4> QED
        BY <4>1, <4>2
    <3> QED
      BY <3>1, <3>2
  <2> HIDE DEF counted
  <2>6. \A k \in db'.credentials : Good(k)
    BY <2>4, <2>5
  <2> QED
    BY <2>2, <2>6 DEF CountersAreSigned
<1>6. CASE RegisterStep
  <2>1. PICK u \in RegFinishes, d \in CredIDs, n \in SignCounts :
           /\ n <= counter[d]
           /\ \A k \in db.credentials : k.credential_id # d
           /\ db'.credentials = db.credentials \cup
                 {[credential_id |-> d, user_id |-> u, sign_count |-> n]}
    BY <1>1, <1>6, RegisterPublishes
  <2>2. LoggedIn' = LoggedIn /\ assertion' = assertion /\ counter' = counter
    BY <1>6 DEF RegisterStep, assertVars, authenticatorVars, LoggedIn
  <2>3. \A q \in LoggedIn : assertion[q].signed.credential_id # d
    BY <2>1 DEF LoginInvariant, AssertKnows, Owns, LoggedIn
  <2> DEFINE new == [credential_id |-> d, user_id |-> u, sign_count |-> n]
  <2>4. new.credential_id = d /\ new.sign_count = n
    OBVIOUS
  <2> HIDE DEF new
  <2>5. \A k \in db'.credentials : k \in db.credentials \/ k = new
    BY <2>1 DEF new
  <2> QED
    BY <2>1, <2>2, <2>3, <2>4, <2>5 DEF CountersAreSigned
<1>7. CASE /\ ~RegisterStep
           /\ \A q \in LoginFinishes : ~(AssertStep(q) /\ CommitLogin(q))
  <2>1. \A q \in LoginFinishes : q \in LoggedIn' <=> q \in LoggedIn
    BY <1>7, LoggedInStays, InvariantIsReady
  <2>2. LoggedIn' = LoggedIn
    BY <2>1 DEF LoggedIn
  <2>3. db'.credentials = db.credentials
    BY <1>1, <1>7, DbSteps, PersistPublishes
  <2> QED
    BY <1>4, <2>2, <2>3
<1> QED
  BY <1>5, <1>6, <1>7

(* A counter stored was never made up: it is its authenticator's.          *)
THEOREM StoredCountersWereSigned == Spec => []CountersAreSigned
<1>1. Init => CountersAreSigned
  BY DEF Init, StoreInit, EmptyDatabase, CountersAreSigned
<1>2. LoginInvariant /\ CountersAreSigned /\ [Next]_vars => CountersAreSigned'
  BY CountersStep
<1> QED
  BY <1>1, <1>2, LoginInvariantHolds, PTL DEF Spec
=============================================================================
