---------------------------- MODULE PasskeyProofs ----------------------------
(***************************************************************************)
(* The whole service implements both halves that it is taken apart into,   *)
(* Registration and Sessions, for every value of the constants: what the   *)
(* other proofs say of a half, they say of the service.                    *)
(*                                                                         *)
(* The two halves meet in the database and over the write lock, so the     *)
(* invariant says who holds the lock and what the image of the holder has  *)
(* in it that the other half can see.                                      *)
(***************************************************************************)
EXTENDS Passkey, LoginProofs

(* What types need of the handlers of registration: each has in hand what  *)
(* it is about to use, and has not answered while it runs.                 *)
FinishReady(p) ==
    /\ finishPc[p] \in {"idle"} \cup (FinishRunning \ {"respond"})
          => finishReply[p] = None
    /\ finishPc[p] \in FinishRunning \ {"respond"} \/ p \in Registered
          => command[p] \in RegistrationFinishCommand
    /\ (\/ finishPc[p] \in {"check", "issue", "insertUser"} \cup InTransaction
        \/ p \in Registered)
          => loaded[p] \in RegSessionRow
    /\ finishPc[p] \in {"insertUser"} \cup InTransaction \/ p \in Registered
          => issued[p] \in TokenPair

StartReady ==
    /\ StartTypeOK
    /\ \A r \in RegStarts :
          startPc[r] = "persist" => opened[r] \in RegistrationSession

RegistrationReady ==
    /\ StartReady
    /\ FinishTypeOK
    /\ \A p \in RegFinishes : FinishReady(p)

LogoutReady ==
    /\ LogoutTypeOK
    /\ \A l \in Logouts :
          /\ logoutPc[l] = "stamp" => verifyInput[l] \in VerifyAccessTokenInput
          /\ logoutPc[l] = "revoke" => revocation[l] \in RevokeUserSessionsInput

PasskeyReady == LoginReady /\ RegistrationReady /\ LogoutReady

----------------------------------------------------------------------------
(* Types.                                                                  *)

(* The statements of registration and of logout give databases again.      *)
LEMMA OtherStatementsTyped ==
    ASSUME NEW d \in Database
    PROVE  /\ \A row \in RegSessionRow :
                 InsertRow(d, "registration_sessions", row) \in Database
           /\ \A row \in UserRow : InsertRow(d, "users", row) \in Database
           /\ \A row \in CredentialRow :
                 InsertRow(d, "credentials", row) \in Database
           /\ \A id : DeleteByID(d, "registration_sessions", id) \in Database
           /\ \A u : \A s \in Nat : RevokeTokens(d, u, s) \in Database
<1>1. /\ \A row \in RegSessionRow :
            InsertRow(d, "registration_sessions", row) \in Database
      /\ \A row \in UserRow : InsertRow(d, "users", row) \in Database
      /\ \A row \in CredentialRow : InsertRow(d, "credentials", row) \in Database
  BY DEF Database, InsertRow
<1>2. \A id : DeleteByID(d, "registration_sessions", id) \in Database
  BY DEF Database, DeleteByID
<1>3. ASSUME NEW u, NEW s \in Nat
      PROVE  RevokeTokens(d, u, s) \in Database
  <2>1. \A t \in RefreshTokenRow : [t EXCEPT !.revoked_at = s] \in RefreshTokenRow
    BY DEF RefreshTokenRow
  <2>2. {IF t.user_id = u /\ t.revoked_at = None
         THEN [t EXCEPT !.revoked_at = s] ELSE t : t \in d.refresh_tokens}
           \in SUBSET RefreshTokenRow
    BY <2>1 DEF Database
  <2> QED
    BY <2>2 DEF RevokeTokens, Database
<1> QED
  BY <1>1, <1>2, <1>3

(* A session that was built can be stored.                                 *)
LEMMA SessionRowTyped ==
    ASSUME NEW r \in RegStarts, opened[r] \in RegistrationSession
    PROVE  SessionRow(r) \in RegSessionRow
BY UnixTyped DEF SessionRow, RegSessionRow, RegistrationSession

(* The rows that FinishRegistration inserts fit their tables.              *)
LEMMA RegistrationRowsTyped ==
    ASSUME NEW p \in RegFinishes, FinishReady(p),
           finishPc[p] \in {"insertUser"} \cup InTransaction
    PROVE  /\ UserOf(p) \in UserRow
           /\ CredentialOf(p) \in CredentialRow
           /\ RefreshTokenOf(p) \in RefreshTokenRow
<1>1. /\ command[p] \in RegistrationFinishCommand
      /\ loaded[p] \in RegSessionRow
      /\ issued[p] \in TokenPair
  BY DEF FinishReady, FinishRunning, InTransaction
<1> QED
  BY <1>1
  DEF UserOf, CredentialOf, RefreshTokenOf, UserRow, CredentialRow,
      RefreshTokenRow, RegistrationFinishCommand, RegSessionRow, TokenPair

(* An error of a constraint is answered with a code of the slice.          *)
LEMMA ConstraintTyped ==
    \A x : ConstraintError(x) \in {"HANDLE_TAKEN", "INTERNAL_ERROR"}
BY DEF ConstraintError

(* A step belongs to one slice, or is a restart; those of the login slices *)
(* are what module Login takes them for.                                   *)
LEMMA SliceSteps ==
    ASSUME [PasskeyNext]_passkeyVars
    PROVE  \/ \E r \in RegStarts : RegistrationsStartStep(r)
           \/ \E p \in RegFinishes : RegistrationsFinishStep(p)
           \/ [Next]_vars /\ UNCHANGED <<startVars, finishVars, logoutVars>>
           \/ \E l \in Logouts : SessionsLogoutStep(l)
           \/ ProcessRestarts /\ Restart
BY DEF PasskeyNext, passkeyVars, SessionsStartStep, SessionsFinishStep,
       AuthenticatorStep, TimePasses, ProcessRestarts, EveryoneAtRest, Next,
       vars, LoginStep, AssertStep, SignStep, ClockStep, Restart

(* Registration and logout leave login alone, but for the database.        *)
LEMMA ReadyBeside ==
    ASSUME LoginReady, StoreTypeOK',
           UNCHANGED <<loginVars, assertVars, authenticatorVars>>
    PROVE  LoginReady'
BY DEF LoginReady, TypeOK, LoginTypeOK, AssertTypeOK, AuthenticatorTypeOK,
       LoggedIn, loginVars, assertVars, authenticatorVars

(* Each step of the start slice keeps the types.                           *)
LEMMA StartReadyStep ==
    ASSUME PasskeyReady, NEW r \in RegStarts, RegistrationsStartStep(r)
    PROVE  PasskeyReady'
<1> USE DEF PasskeyReady, RegistrationReady, StartReady, StartTypeOK, StartPcs,
        StartReplies
<1>1. StoreTypeOK
  BY DEF LoginReady, TypeOK
<1>2. StoreTypeOK'
  BY <1>1, OtherStatementsTyped, SessionRowTyped
  DEF RegistrationsStartStep, StartArrives, StartProceeds, StartFails,
      RejectHandle, OpenSession, PersistRegistrationSession, PersistFails,
      RespondStart, StoreTypeOK, storeVars, Autocommit
<1>3. StartReady'
  <2>1. CASE RejectHandle(r) \/ PersistRegistrationSession(r) \/ RespondStart(r)
    BY <2>1
    DEF RejectHandle, PersistRegistrationSession, RespondStart, AnswerStart
  <2>2. ASSUME NEW f \in Faults, PersistFails(r, f)
        PROVE  StartReady'
    BY <2>2, ErrorTyped DEF PersistFails, AnswerStart
  <2>3. ASSUME NEW h \in Handles, OpenSession(r, h)
        PROVE  StartReady'
    <3>1. NewRegistrationSession(h, now) \in RegistrationSession
      BY <1>1, ChallengeTTLAssumption
      DEF StoreTypeOK, NewRegistrationSession, RegistrationSession
    <3> QED
      BY <2>3, <3>1 DEF OpenSession
  <2> QED
    BY <2>1, <2>2, <2>3
    DEF RegistrationsStartStep, StartArrives, StartProceeds, StartFails
<1>4. FinishTypeOK' /\ \A p \in RegFinishes : FinishReady(p)'
  BY DEF RegistrationsStartStep, FinishTypeOK, FinishReady, Registered, finishVars
<1>5. LoginReady' /\ LogoutReady'
  BY <1>2, ReadyBeside
  DEF RegistrationsStartStep, LogoutReady, LogoutTypeOK, logoutVars
<1> QED
  BY <1>3, <1>4, <1>5

(* What a step of somebody else, or a restart, does to a registration.     *)
FinishUnmoved(p) ==
    /\ \/ finishPc'[p] = finishPc[p]
       \/ finishPc[p] \in FinishRunning /\ finishPc'[p] = "killed"
    /\ finishReply'[p] = finishReply[p]
    /\ command'[p] = command[p]
    /\ loaded'[p] = loaded[p]
    /\ checkedAt'[p] = checkedAt[p]
    /\ issued'[p] = issued[p]

(* A request of the finish slice leaves the others alone.                  *)
LEMMA FinishAlone ==
    ASSUME FinishTypeOK, NEW p \in RegFinishes, RegistrationsFinishStep(p),
           NEW o \in RegFinishes, o # p
    PROVE  FinishUnmoved(o) /\ finishPc'[o] = finishPc[o]
<1> USE DEF FinishTypeOK, FinishUnmoved, Answer, GoTo
<1>1. CASE FinishArrives(p)
  BY <1>1 DEF FinishArrives, RejectAttestation, AcceptCommand
<1>2. CASE FinishProceeds(p)
  BY <1>2
  DEF FinishProceeds, LoadRegistrationSession, SessionNotFound,
      VerifyAttestation, SessionExpired, AttestationInvalid, IssueTokenPair,
      InsertUser, InsertUserConflicts, InsertCredential,
      InsertCredentialConflicts, InsertRefreshToken, DeleteSession,
      CommitRegistration, RespondFinish
<1>3. CASE FinishFails(p)
  BY <1>3 DEF FinishFails, LoadFails, WriteFails
<1> QED
  BY <1>1, <1>2, <1>3 DEF RegistrationsFinishStep, AttestationArrives

(* A request that does not move keeps what it has in hand.                 *)
LEMMA FinishUnmovedReady ==
    ASSUME NEW p \in RegFinishes, FinishReady(p), FinishUnmoved(p)
    PROVE  FinishReady(p)'
BY DEF FinishReady, FinishUnmoved, FinishRunning, InTransaction, Registered

(* Each step of the finish slice keeps what its requests have in hand.     *)
LEMMA FinishReadyStep ==
    ASSUME PasskeyReady, NEW p \in RegFinishes, RegistrationsFinishStep(p)
    PROVE  PasskeyReady'
<1> USE DEF PasskeyReady, RegistrationReady
<1>1. StoreTypeOK /\ FinishTypeOK /\ FinishReady(p)
  BY DEF LoginReady, TypeOK
<1>2. StoreTypeOK' /\ FinishTypeOK' /\ FinishReady(p)'
  <2> USE <1>1, NoneIsNoReply
      DEF FinishTypeOK, FinishReady, FinishPcs, FinishReplies, FinishRunning,
          InTransaction, Registered, StoreTypeOK, Answer, GoTo
  <2>1. CASE \/ RejectAttestation(p) \/ SessionNotFound(p)
             \/ VerifyAttestation(p) \/ SessionExpired(p)
             \/ AttestationInvalid(p) \/ RespondFinish(p)
    BY <2>1
    DEF RejectAttestation, SessionNotFound, VerifyAttestation, SessionExpired,
        AttestationInvalid, RespondFinish, storeVars
  <2>2. ASSUME NEW c \in RegistrationFinishCommand, AcceptCommand(p, c)
        PROVE  StoreTypeOK' /\ FinishTypeOK' /\ FinishReady(p)'
    BY <2>2 DEF AcceptCommand, storeVars
  <2>3. CASE LoadRegistrationSession(p)
    BY <2>3 DEF LoadRegistrationSession, storeVars, Database
  <2>4. CASE IssueTokenPair(p)
    BY <2>4, TokenPairTyped DEF IssueTokenPair, storeVars
  <2>5. CASE InsertUser(p) \/ InsertUserConflicts(p)
    BY <2>5, OtherStatementsTyped, RegistrationRowsTyped, ConstraintTyped
    DEF InsertUser, InsertUserConflicts, FirstWrite, storeVars
  <2>6. CASE InsertCredential(p) \/ InsertCredentialConflicts(p)
    BY <2>6, OtherStatementsTyped, RegistrationRowsTyped, ConstraintTyped
    DEF InsertCredential, InsertCredentialConflicts, NextWrite, Rollback
  <2>7. CASE InsertRefreshToken(p) \/ DeleteSession(p)
    BY <2>7, StatementsTyped, OtherStatementsTyped, RegistrationRowsTyped
    DEF InsertRefreshToken, DeleteSession, NextWrite
  <2>8. CASE CommitRegistration(p)
    BY <2>8 DEF CommitRegistration, Commit
  <2>9. ASSUME NEW f \in Faults, LoadFails(p, f) \/ WriteFails(p, f)
        PROVE  StoreTypeOK' /\ FinishTypeOK' /\ FinishReady(p)'
    BY <2>9, ErrorTyped DEF LoadFails, WriteFails, Rollback, storeVars
  <2> HIDE DEF FinishTypeOK, FinishReady, StoreTypeOK
  <2> QED
    BY <2>1, <2>2, <2>3, <2>4, <2>5, <2>6, <2>7, <2>8, <2>9
    DEF RegistrationsFinishStep, AttestationArrives, FinishArrives,
        FinishProceeds, FinishFails
<1>3. \A o \in RegFinishes : FinishReady(o)'
  BY <1>1, <1>2, FinishAlone, FinishUnmovedReady
<1>4. StartReady'
  BY DEF RegistrationsFinishStep, StartReady, StartTypeOK, startVars
<1>5. LoginReady' /\ LogoutReady'
  BY <1>2, ReadyBeside
  DEF RegistrationsFinishStep, LogoutReady, LogoutTypeOK, logoutVars
<1> QED
  BY <1>2, <1>3, <1>4, <1>5

(* The access tokens that clients have are tokens.                         *)
LEMMA BearerTyped ==
    ASSUME PasskeyReady, NEW g \in Answered
    PROVE  AccessTokenIn(PairIn(g), g, IssuedTo(g)) \in AccessToken
<1>1. CASE g \in Registered
  <2>1. g \in RegFinishes /\ issued[g] \in TokenPair
    BY <1>1 DEF Registered, PasskeyReady, RegistrationReady, FinishReady
  <2> QED
    BY <2>1 DEF PairIn, IssuedTo, AccessTokenIn, AccessToken, TokenPair
<1>2. CASE g \in SignedIn
  <2>1. /\ g \in LoginFinishes /\ g \notin RegFinishes
        /\ loginIssued[g] \in TokenPair /\ target[g] \in CredentialRow
    BY <1>2, StoreAssumption DEF SignedIn, LoggedIn, PasskeyReady, LoginReady
  <2> QED
    BY <2>1
    DEF PairIn, IssuedTo, AccessTokenIn, AccessToken, TokenPair, CredentialRow
<1> QED
  BY <1>1, <1>2 DEF Answered

(* Each step of the logout slice keeps what its requests have in hand.     *)
LEMMA LogoutReadyStep ==
    ASSUME PasskeyReady, NEW l \in Logouts, SessionsLogoutStep(l)
    PROVE  PasskeyReady'
<1> USE DEF PasskeyReady
<1>1. StoreTypeOK /\ LogoutTypeOK
  BY DEF LoginReady, LogoutReady, TypeOK
<1>2. StoreTypeOK' /\ LogoutReady'
  <2> USE <1>1
      DEF LogoutReady, LogoutTypeOK, LogoutPcs, LogoutRunning, LogoutReplies,
          StoreTypeOK, AnswerLogout, LogoutGoes
  <2>1. CASE RejectBearer(l) \/ RespondLogout(l)
    BY <2>1 DEF RejectBearer, RespondLogout, storeVars
  <2>2. ASSUME NEW token \in AccessToken,
               AuthenticateLogout(l, token) \/ AccessTokenInvalid(l, token)
        PROVE  StoreTypeOK' /\ LogoutReady'
    <3>1. [token |-> token, key |-> boots, now |-> now] \in VerifyAccessTokenInput
      BY DEF VerifyAccessTokenInput
    <3> QED
      BY <2>2, <3>1
      DEF AuthenticateLogout, AccessTokenInvalid, VerifyWith, storeVars
  <2>3. CASE StampRevocation(l)
    <3>1. [user_id |-> verifyInput[l].token.sub, now |-> now]
             \in RevokeUserSessionsInput
      BY <2>3
      DEF StampRevocation, VerifyAccessTokenInput, AccessToken,
          RevokeUserSessionsInput
    <3> QED
      BY <2>3, <3>1 DEF StampRevocation, storeVars
  <2>4. CASE RevokeUserSessions(l)
    <3>1. Unix(revocation[l].now) \in Nat
      BY <2>4, UnixTyped DEF RevokeUserSessions, RevokeUserSessionsInput
    <3> QED
      BY <2>4, <3>1, OtherStatementsTyped DEF RevokeUserSessions, Autocommit
  <2>5. ASSUME NEW f \in Faults, RevokeFails(l, f)
        PROVE  StoreTypeOK' /\ LogoutReady'
    BY <2>5, ErrorTyped DEF RevokeFails, storeVars
  <2> HIDE DEF LogoutReady, StoreTypeOK
  <2> QED
    BY <2>1, <2>2, <2>3, <2>4, <2>5, BearerTyped
    DEF SessionsLogoutStep, BearerArrives, LogoutProceeds, LogoutFails
<1>3. RegistrationReady'
  BY DEF SessionsLogoutStep, RegistrationReady, StartReady, StartTypeOK,
         FinishTypeOK, FinishReady, Registered, startVars, finishVars
<1>4. LoginReady'
  BY <1>2, ReadyBeside DEF SessionsLogoutStep
<1> QED
  BY <1>2, <1>3, <1>4

(* A restart ends whatever runs.                                           *)
LEMMA RestartUnmoved ==
    ASSUME PasskeyReady, ProcessRestarts
    PROVE  /\ \A p \in RegFinishes : FinishUnmoved(p)
           /\ \A q \in LoginFinishes : AssertUnmoved(q)
           /\ FinishTypeOK'
BY DEF PasskeyReady, RegistrationReady, LoginReady, TypeOK, ProcessRestarts,
       FinishKilled, AssertKilled, FinishTypeOK, AssertTypeOK, FinishUnmoved,
       AssertUnmoved, FinishPcs, FinishRunning, InTransaction

(* PasskeyReady is inductive.                                              *)
LEMMA PasskeyReadyStep ==
    ASSUME PasskeyReady, [PasskeyNext]_passkeyVars
    PROVE  PasskeyReady'
<1>1. CASE [Next]_vars /\ UNCHANGED <<startVars, finishVars, logoutVars>>
  <2>1. LoginReady'
    BY <1>1, ReadyStep DEF PasskeyReady
  <2>2. RegistrationReady' /\ LogoutReady'
    BY <1>1
    DEF PasskeyReady, RegistrationReady, StartReady, StartTypeOK, FinishTypeOK,
        FinishReady, Registered, LogoutReady, LogoutTypeOK, startVars,
        finishVars, logoutVars
  <2> QED
    BY <2>1, <2>2 DEF PasskeyReady
<1>2. CASE ProcessRestarts /\ Restart
  <2>1. LoginReady'
    BY <1>2, ReadyStep DEF PasskeyReady, Next
  <2>2. StartReady' /\ LogoutReady'
    BY <1>2
    DEF PasskeyReady, RegistrationReady, ProcessRestarts, StartKilled,
        LogoutKilled, StartReady, StartTypeOK, StartPcs, LogoutReady,
        LogoutTypeOK, LogoutPcs, LogoutRunning
  <2>3. FinishTypeOK' /\ \A p \in RegFinishes : FinishReady(p)'
    BY <1>2, RestartUnmoved, FinishUnmovedReady
    DEF PasskeyReady, RegistrationReady
  <2> QED
    BY <2>1, <2>2, <2>3 DEF PasskeyReady, RegistrationReady
<1> QED
  BY <1>1, <1>2, SliceSteps, StartReadyStep, FinishReadyStep, LogoutReadyStep

----------------------------------------------------------------------------
(* What registration sees of an image of the database, if c are the        *)
(* commands: Registering is Seen for those that there are.                 *)

Seen(d, c) ==
    [d EXCEPT
       !.credentials = {[k EXCEPT !.sign_count = c[k.user_id].sign_count] : k \in @},
       !.refresh_tokens = {[t EXCEPT !.revoked_at = None] :
                             t \in {s \in @ : s.token_hash \in RegFinishes}},
       !.login_sessions = {}]

(* Registering is Seen, for the image that registration may look at.       *)
LEMMA RegisteringIsSeen ==
    /\ Registering(db) = Seen(db, command)
    /\ Registering(db)' = Seen(db', command')
    /\ Registering(ImageFor(RegFinishes))
          = IF writer \in RegFinishes THEN Seen(view, command)
                                      ELSE Seen(db, command)
    /\ Registering(ImageFor(RegFinishes))'
          = IF writer' \in RegFinishes THEN Seen(view', command')
                                       ELSE Seen(db', command')
BY DEF Registering, Seen, ImageFor

(* It depends on the commands of those who have a credential only.         *)
LEMMA SeenByOwners ==
    ASSUME NEW d \in Database, NEW c, NEW e,
           \A k \in d.credentials : c[k.user_id] = e[k.user_id]
    PROVE  Seen(d, c) = Seen(d, e)
<1>1. {[k EXCEPT !.sign_count = c[k.user_id].sign_count] : k \in d.credentials}
         = {[k EXCEPT !.sign_count = e[k.user_id].sign_count] : k \in d.credentials}
  OBVIOUS
<1> QED
  BY <1>1 DEF Seen, Database

(* No statement of a login or a logout shows.                              *)
LEMMA OthersAreUnseen ==
    ASSUME NEW d \in Database, NEW c
    PROVE  /\ \A row : Seen(InsertRow(d, "login_sessions", row), c) = Seen(d, c)
           /\ \A id : Seen(DeleteByID(d, "login_sessions", id), c) = Seen(d, c)
           /\ \A row \in RefreshTokenRow : row.token_hash \notin RegFinishes =>
                 Seen(InsertRow(d, "refresh_tokens", row), c) = Seen(d, c)
           /\ \A id, n : Seen(SetSignCount(d, id, n), c) = Seen(d, c)
           /\ \A u, s : Seen(RevokeTokens(d, u, s), c) = Seen(d, c)
<1>1. /\ \A row : Seen(InsertRow(d, "login_sessions", row), c) = Seen(d, c)
      /\ \A id : Seen(DeleteByID(d, "login_sessions", id), c) = Seen(d, c)
  BY DEF Seen, InsertRow, DeleteByID, Database
<1>2. ASSUME NEW row \in RefreshTokenRow, row.token_hash \notin RegFinishes
      PROVE  Seen(InsertRow(d, "refresh_tokens", row), c) = Seen(d, c)
  <2>1. {s \in d.refresh_tokens \cup {row} : s.token_hash \in RegFinishes}
           = {s \in d.refresh_tokens : s.token_hash \in RegFinishes}
    BY <1>2
  <2> QED
    BY <2>1 DEF Seen, InsertRow, Database
<1>3. ASSUME NEW id, NEW n
      PROVE  Seen(SetSignCount(d, id, n), c) = Seen(d, c)
  <2> DEFINE r(k) == IF k.credential_id = id THEN [k EXCEPT !.sign_count = n] ELSE k
             see(k) == [k EXCEPT !.sign_count = c[k.user_id].sign_count]
  <2>1. \A k \in CredentialRow : see(r(k)) = see(k)
    BY DEF CredentialRow
  <2>2. {see(k) : k \in {r(k) : k \in d.credentials}} = {see(k) : k \in d.credentials}
    <3> HIDE DEF r, see
    <3> QED
      BY <2>1 DEF Database
  <2> QED
    BY <2>2 DEF Seen, SetSignCount, Database
<1>4. ASSUME NEW u, NEW s
      PROVE  Seen(RevokeTokens(d, u, s), c) = Seen(d, c)
  <2> DEFINE r(t) == IF t.user_id = u /\ t.revoked_at = None
                     THEN [t EXCEPT !.revoked_at = s] ELSE t
             see(t) == [t EXCEPT !.revoked_at = None]
             regs(S) == {t \in S : t.token_hash \in RegFinishes}
  <2>1. \A t \in RefreshTokenRow :
           see(r(t)) = see(t) /\ r(t).token_hash = t.token_hash
    BY DEF RefreshTokenRow
  <2>2. {see(t) : t \in regs({r(t) : t \in d.refresh_tokens})}
           = {see(t) : t \in regs(d.refresh_tokens)}
    <3> HIDE DEF r, see
    <3> QED
      BY <2>1 DEF Database
  <2> QED
    BY <2>2 DEF Seen, RevokeTokens, Database
<1> QED
  BY <1>1, <1>2, <1>3, <1>4

(* The statements of registration are what registration takes them for.    *)
LEMMA OwnAreSeen ==
    ASSUME NEW d \in Database, NEW c
    PROVE  /\ Seen(d, c).users = d.users
           /\ Seen(d, c).registration_sessions = d.registration_sessions
           /\ \A id : (\E k \in Seen(d, c).credentials : k.credential_id = id)
                         <=> CredentialExists(d, id)
           /\ \A row : RegistrationHalf!InsertRow(
                          Seen(d, c), "registration_sessions", row)
                          = Seen(InsertRow(d, "registration_sessions", row), c)
           /\ \A row : RegistrationHalf!InsertRow(Seen(d, c), "users", row)
                          = Seen(InsertRow(d, "users", row), c)
           /\ \A row \in CredentialRow :
                 row.sign_count = c[row.user_id].sign_count =>
                    RegistrationHalf!InsertRow(Seen(d, c), "credentials", row)
                       = Seen(InsertRow(d, "credentials", row), c)
           /\ \A row \in RefreshTokenRow :
                 row.token_hash \in RegFinishes /\ row.revoked_at = None =>
                    RegistrationHalf!InsertRow(Seen(d, c), "refresh_tokens", row)
                       = Seen(InsertRow(d, "refresh_tokens", row), c)
           /\ \A id : RegistrationHalf!DeleteByID(
                         Seen(d, c), "registration_sessions", id)
                         = Seen(DeleteByID(d, "registration_sessions", id), c)
<1> DEFINE count(k) == [k EXCEPT !.sign_count = c[k.user_id].sign_count]
           see(t) == [t EXCEPT !.revoked_at = None]
           regs(S) == {t \in S : t.token_hash \in RegFinishes}
<1>1. /\ Seen(d, c).users = d.users
      /\ Seen(d, c).registration_sessions = d.registration_sessions
      /\ Seen(d, c).credentials = {count(k) : k \in d.credentials}
  BY DEF Seen, Database
<1>2. ASSUME NEW id
      PROVE  (\E k \in Seen(d, c).credentials : k.credential_id = id)
                <=> CredentialExists(d, id)
  <2>1. \A k \in CredentialRow : count(k).credential_id = k.credential_id
    BY DEF CredentialRow
  <2> HIDE DEF count
  <2> QED
    BY <1>1, <2>1 DEF CredentialExists, Database
<1>3. /\ \A row : RegistrationHalf!InsertRow(
                     Seen(d, c), "registration_sessions", row)
                     = Seen(InsertRow(d, "registration_sessions", row), c)
      /\ \A row : RegistrationHalf!InsertRow(Seen(d, c), "users", row)
                     = Seen(InsertRow(d, "users", row), c)
      /\ \A id : RegistrationHalf!DeleteByID(
                    Seen(d, c), "registration_sessions", id)
                    = Seen(DeleteByID(d, "registration_sessions", id), c)
  BY DEF Seen, InsertRow, DeleteByID, RegistrationHalf!InsertRow,
         RegistrationHalf!DeleteByID, Database
<1>4. ASSUME NEW row \in CredentialRow,
             row.sign_count = c[row.user_id].sign_count
      PROVE  RegistrationHalf!InsertRow(Seen(d, c), "credentials", row)
                = Seen(InsertRow(d, "credentials", row), c)
  <2>1. count(row) = row
    BY <1>4 DEF CredentialRow
  <2>2. {count(k) : k \in d.credentials \cup {row}}
           = {count(k) : k \in d.credentials} \cup {row}
    <3> HIDE DEF count
    <3> QED
      BY <2>1
  <2> QED
    BY <2>2 DEF Seen, InsertRow, RegistrationHalf!InsertRow, Database
<1>5. ASSUME NEW row \in RefreshTokenRow, row.token_hash \in RegFinishes,
             row.revoked_at = None
      PROVE  RegistrationHalf!InsertRow(Seen(d, c), "refresh_tokens", row)
                = Seen(InsertRow(d, "refresh_tokens", row), c)
  <2>1. see(row) = row
    BY <1>5 DEF RefreshTokenRow
  <2>2. regs(d.refresh_tokens \cup {row}) = regs(d.refresh_tokens) \cup {row}
    BY <1>5
  <2>3. {see(t) : t \in regs(d.refresh_tokens) \cup {row}}
           = {see(t) : t \in regs(d.refresh_tokens)} \cup {row}
    <3> HIDE DEF see, regs
    <3> QED
      BY <2>1
  <2> QED
    BY <2>2, <2>3 DEF Seen, InsertRow, RegistrationHalf!InsertRow, Database
<1> QED
  BY <1>1, <1>2, <1>3, <1>4, <1>5

----------------------------------------------------------------------------
(* Where the halves meet.                                                  *)

(* The write lock is held by the request that is between two statements of *)
(* its transaction.                                                        *)
LockIsHeld ==
    /\ \A p \in RegFinishes : finishPc[p] \in InTransaction <=> writer = p
    /\ \A q \in LoginFinishes : assertPc[q] \in LoginTransaction <=> writer = q
    /\ writer = None => view = db

(* A credential's user has sent his attestation.                           *)
CredentialsAreAttested ==
    \A k \in db.credentials \cup view.credentials : finishPc[k.user_id] # "idle"

(* What the transaction of a login has done, registration does not see.    *)
LoginIsUnseen ==
    writer \in LoginFinishes => Seen(view, command) = Seen(db, command)

HalvesMeet == LockIsHeld /\ CredentialsAreAttested /\ LoginIsUnseen

(* The images are databases, and credentials belong to registrations.      *)
LEMMA UsersOfCredentials ==
    ASSUME PasskeyReady
    PROVE  /\ db \in Database /\ view \in Database
           /\ \A k \in db.credentials \cup view.credentials :
                 k \in CredentialRow /\ k.user_id \in RegFinishes
BY DEF PasskeyReady, LoginReady, TypeOK, StoreTypeOK, Database, CredentialRow

(* What registration sees does not change with the commands that arrive.   *)
LEMMA CommandsStay ==
    ASSUME PasskeyReady, CredentialsAreAttested,
           \A p \in RegFinishes :
              finishPc[p] # "idle" => command'[p] = command[p]
    PROVE  /\ Seen(db, command') = Seen(db, command)
           /\ Seen(view, command') = Seen(view, command)
<1>1. \A k \in db.credentials \cup view.credentials :
         command'[k.user_id] = command[k.user_id]
  BY UsersOfCredentials DEF CredentialsAreAttested
<1>2. PICK c, e : c = command /\ e = command'
  OBVIOUS
<1>3. Seen(db, e) = Seen(db, c) /\ Seen(view, e) = Seen(view, c)
  BY <1>1, <1>2, UsersOfCredentials, SeenByOwners
<1> QED
  BY <1>2, <1>3

(* A step that leaves the images alone, and in which nobody begins or ends *)
(* a transaction.                                                          *)
LEMMA MeetFrame ==
    ASSUME PasskeyReady, HalvesMeet, UNCHANGED <<db, view, writer>>,
           \A p \in RegFinishes :
              /\ finishPc'[p] \in InTransaction <=> finishPc[p] \in InTransaction
              /\ finishPc[p] # "idle"
                    => finishPc'[p] # "idle" /\ command'[p] = command[p],
           \A q \in LoginFinishes :
              assertPc'[q] \in LoginTransaction <=> assertPc[q] \in LoginTransaction
    PROVE  HalvesMeet'
<1> USE DEF HalvesMeet
<1>1. LockIsHeld'
  BY DEF LockIsHeld
<1>2. CredentialsAreAttested'
  BY UsersOfCredentials DEF CredentialsAreAttested
<1>3. /\ Seen(db, command') = Seen(db, command)
      /\ Seen(view, command') = Seen(view, command)
  BY CommandsStay
<1> QED
  BY <1>1, <1>2, <1>3 DEF LoginIsUnseen

(* A statement of its own outside the transactions.                        *)
LEMMA MeetAutocommit ==
    ASSUME HalvesMeet, NEW d, Autocommit(d), d.credentials = db.credentials,
           UNCHANGED <<finishVars, assertVars>>
    PROVE  HalvesMeet'
<1>1. writer = None /\ writer' = None /\ db' = d /\ view' = d
  BY DEF Autocommit
<1>2. None \notin LoginFinishes
  BY StoreAssumption
<1> QED
  BY <1>1, <1>2
  DEF HalvesMeet, LockIsHeld, CredentialsAreAttested, LoginIsUnseen,
      finishVars, assertVars

(* A transaction begins: no other is open.                                 *)
LEMMA NobodyWrites ==
    ASSUME LockIsHeld, writer = None
    PROVE  /\ \A p \in RegFinishes : finishPc[p] \notin InTransaction
           /\ \A q \in LoginFinishes : assertPc[q] \notin LoginTransaction
           /\ view = db
BY StoreAssumption DEF LockIsHeld

(* The steps of each slice keep the two halves apart ...                   *)
LEMMA StartMeets ==
    ASSUME PasskeyReady, HalvesMeet, NEW r \in RegStarts,
           RegistrationsStartStep(r)
    PROVE  HalvesMeet'
<1>1. UNCHANGED <<finishVars, assertVars>>
  BY DEF RegistrationsStartStep
<1>2. CASE PersistRegistrationSession(r)
  <2>1. PICK d : d = InsertRow(db, "registration_sessions", SessionRow(r))
    OBVIOUS
  <2>2. d.credentials = db.credentials
    BY <2>1, UsersOfCredentials DEF InsertRow, Database
  <2> QED
    BY <1>1, <1>2, <2>1, <2>2, MeetAutocommit DEF PersistRegistrationSession
<1>3. CASE UNCHANGED storeVars
  BY <1>1, <1>3, MeetFrame DEF storeVars, finishVars, assertVars
<1> QED
  BY <1>2, <1>3
  DEF RegistrationsStartStep, StartArrives, StartProceeds, StartFails,
      RejectHandle, OpenSession, PersistFails, RespondStart

LEMMA LoginStartMeets ==
    ASSUME PasskeyReady, HalvesMeet, NEW r \in LoginStarts, SessionsStartStep(r)
    PROVE  HalvesMeet'
<1>1. UNCHANGED <<finishVars, assertVars>>
  BY DEF SessionsStartStep
<1>2. CASE PersistLoginSession(r)
  <2>1. PICK d : d = InsertRow(db, "login_sessions", LoginSessionRowOf(r))
    OBVIOUS
  <2>2. d.credentials = db.credentials
    BY <2>1, UsersOfCredentials DEF InsertRow, Database
  <2> QED
    BY <1>1, <1>2, <2>1, <2>2, MeetAutocommit DEF PersistLoginSession
<1>3. CASE UNCHANGED storeVars
  BY <1>1, <1>3, MeetFrame DEF storeVars, finishVars, assertVars
<1> QED
  BY <1>2, <1>3
  DEF SessionsStartStep, LoginArrives, LoginProceeds, LoginFails,
      RejectLoginHandle, LoadUser, UserNotFound, LoadCredentials,
      OpenLoginSession, LoadUserCredentialsFails, PersistLoginFails, RespondLogin

LEMMA LogoutMeets ==
    ASSUME PasskeyReady, HalvesMeet, NEW l \in Logouts, SessionsLogoutStep(l)
    PROVE  HalvesMeet'
<1>1. UNCHANGED <<finishVars, assertVars>>
  BY DEF SessionsLogoutStep
<1>2. CASE RevokeUserSessions(l)
  <2>1. PICK d : d = RevokeTokens(db, revocation[l].user_id,
                                  Unix(revocation[l].now))
    OBVIOUS
  <2>2. d.credentials = db.credentials
    BY <2>1, UsersOfCredentials DEF RevokeTokens, Database
  <2> QED
    BY <1>1, <1>2, <2>1, <2>2, MeetAutocommit DEF RevokeUserSessions
<1>3. CASE UNCHANGED storeVars
  BY <1>1, <1>3, MeetFrame DEF storeVars, finishVars, assertVars
<1> QED
  BY <1>2, <1>3
  DEF SessionsLogoutStep, BearerArrives, LogoutProceeds, LogoutFails,
      RejectBearer, AuthenticateLogout, AccessTokenInvalid, StampRevocation,
      RevokeFails, RespondLogout

LEMMA FinishMeets ==
    ASSUME PasskeyReady, HalvesMeet, NEW p \in RegFinishes,
           RegistrationsFinishStep(p)
    PROVE  HalvesMeet'
<1> USE DEF HalvesMeet, InTransaction
<1>1. /\ finishPc \in [RegFinishes -> FinishPcs] /\ FinishTypeOK
      /\ UNCHANGED assertPc
      /\ p \notin LoginFinishes /\ None \notin RegFinishes
  BY StoreAssumption
  DEF PasskeyReady, RegistrationReady, FinishTypeOK, RegistrationsFinishStep,
      assertVars
<1>2. \A o \in RegFinishes \ {p} :
         finishPc'[o] = finishPc[o] /\ command'[o] = command[o]
  BY <1>1, FinishAlone DEF FinishUnmoved
<1>3. \A k \in db.credentials \cup view.credentials :
         k \in CredentialRow /\ k.user_id \in RegFinishes
  BY UsersOfCredentials
<1>4. CASE /\ UNCHANGED storeVars
           /\ finishPc'[p] \in InTransaction <=> finishPc[p] \in InTransaction
           /\ finishPc[p] # "idle"
                 => finishPc'[p] # "idle" /\ command'[p] = command[p]
  BY <1>1, <1>2, <1>4, MeetFrame DEF storeVars
<1>5. CASE InsertUser(p)
  <2>1. /\ writer = None /\ writer' = p /\ db' = db
        /\ view' = InsertRow(db, "users", UserOf(p))
        /\ finishPc'[p] = "insertCredential"
    BY <1>1, <1>5 DEF InsertUser, FirstWrite, GoTo
  <2>2. view'.credentials = db.credentials
    BY <2>1, UsersOfCredentials DEF InsertRow, Database
  <2>3. LockIsHeld'
    BY <1>1, <1>2, <2>1, NobodyWrites DEF LockIsHeld
  <2>4. CredentialsAreAttested'
    BY <1>2, <1>3, <2>1, <2>2 DEF CredentialsAreAttested
  <2> QED
    BY <1>1, <2>1, <2>3, <2>4 DEF LoginIsUnseen
<1>6. ASSUME NEW d, NextWrite(p, d),
             finishPc[p] \in InTransaction, finishPc'[p] \in InTransaction,
             \A k \in d.credentials : k \in view.credentials \/ k.user_id = p
      PROVE  HalvesMeet'
  <2>1. writer = p /\ writer' = p /\ db' = db /\ view' = d
    BY <1>6 DEF NextWrite
  <2>2. LockIsHeld'
    BY <1>1, <1>2, <1>6, <2>1 DEF LockIsHeld
  <2>3. CredentialsAreAttested'
    BY <1>2, <1>3, <1>6, <2>1 DEF CredentialsAreAttested
  <2> QED
    BY <1>1, <2>1, <2>2, <2>3 DEF LoginIsUnseen
<1>7. CASE InsertCredential(p)
  <2>1. PICK d : d = InsertRow(view, "credentials", CredentialOf(p))
    OBVIOUS
  <2>2. d.credentials = view.credentials \cup {CredentialOf(p)}
    BY <2>1, UsersOfCredentials DEF InsertRow, Database
  <2>3. CredentialOf(p).user_id = p
    BY DEF CredentialOf
  <2>4. finishPc[p] = "insertCredential" /\ finishPc'[p] = "insertRefreshToken"
    BY <1>1, <1>7 DEF InsertCredential, GoTo
  <2> QED
    BY <1>6, <1>7, <2>1, <2>2, <2>3, <2>4 DEF InsertCredential
<1>8. CASE InsertRefreshToken(p)
  <2>1. PICK d : d = InsertRow(view, "refresh_tokens", RefreshTokenOf(p))
    OBVIOUS
  <2>2. d.credentials = view.credentials
    BY <2>1, UsersOfCredentials DEF InsertRow, Database
  <2>3. finishPc[p] = "insertRefreshToken" /\ finishPc'[p] = "deleteSession"
    BY <1>1, <1>8 DEF InsertRefreshToken, GoTo
  <2> QED
    BY <1>6, <1>8, <2>1, <2>2, <2>3 DEF InsertRefreshToken
<1>9. CASE DeleteSession(p)
  <2>1. PICK d : d = DeleteByID(view, "registration_sessions", loaded[p].id)
    OBVIOUS
  <2>2. d.credentials = view.credentials
    BY <2>1, UsersOfCredentials DEF DeleteByID, Database
  <2>3. finishPc[p] = "deleteSession" /\ finishPc'[p] = "commit"
    BY <1>1, <1>9 DEF DeleteSession, GoTo
  <2> QED
    BY <1>6, <1>9, <2>1, <2>2, <2>3 DEF DeleteSession
<1>10. CASE CommitRegistration(p)
  <2>1. /\ writer = p /\ writer' = None /\ db' = view /\ view' = view
        /\ finishPc'[p] = "respond"
    BY <1>1, <1>10 DEF CommitRegistration, Commit, Answer, GoTo
  <2>2. LockIsHeld'
    BY <1>1, <1>2, <2>1, StoreAssumption DEF LockIsHeld
  <2>3. CredentialsAreAttested'
    BY <1>2, <1>3, <2>1 DEF CredentialsAreAttested
  <2> QED
    BY <2>1, <2>2, <2>3, StoreAssumption DEF LoginIsUnseen
<1>11. ASSUME Rollback(p), finishPc[p] \in InTransaction \cup {"insertUser"},
              finishPc'[p] = "respond", UNCHANGED command
       PROVE  HalvesMeet'
  <2>1. CASE writer = p
    <3>1. writer' = None /\ view' = db /\ db' = db
      BY <1>11, <2>1 DEF Rollback
    <3>2. LockIsHeld'
      BY <1>1, <1>2, <1>11, <2>1, <3>1, StoreAssumption DEF LockIsHeld
    <3>3. CredentialsAreAttested'
      BY <1>2, <1>3, <1>11, <3>1 DEF CredentialsAreAttested
    <3> QED
      BY <3>1, <3>2, <3>3, StoreAssumption DEF LoginIsUnseen
  <2>2. CASE writer # p
    <3>1. UNCHANGED <<db, view, writer>> /\ finishPc[p] \notin InTransaction
      BY <1>11, <2>2 DEF Rollback, LockIsHeld
    <3> QED
      BY <1>1, <1>2, <1>11, <3>1, MeetFrame
  <2> QED
    BY <2>1, <2>2
<1>12. CASE FinishArrives(p)
  <2>1. /\ UNCHANGED storeVars /\ finishPc[p] = "idle"
        /\ finishPc'[p] \in {"respond", "load"}
    BY <1>1, <1>12
    DEF FinishArrives, RejectAttestation, AcceptCommand, Answer, GoTo
  <2> QED
    BY <1>4, <2>1
<1>13. CASE \/ LoadRegistrationSession(p) \/ SessionNotFound(p)
            \/ VerifyAttestation(p) \/ SessionExpired(p)
            \/ AttestationInvalid(p) \/ IssueTokenPair(p)
            \/ InsertUserConflicts(p) \/ RespondFinish(p)
            \/ \E f \in Faults : LoadFails(p, f)
  BY <1>1, <1>4, <1>13
  DEF LoadRegistrationSession, SessionNotFound, VerifyAttestation,
      SessionExpired, AttestationInvalid, IssueTokenPair, InsertUserConflicts,
      RespondFinish, LoadFails, Answer, GoTo
<1>14. CASE InsertCredentialConflicts(p) \/ \E f \in Faults : WriteFails(p, f)
  BY <1>1, <1>11, <1>14
  DEF InsertCredentialConflicts, WriteFails, Answer, GoTo
<1> HIDE DEF HalvesMeet, InTransaction
<1> QED
  BY <1>5, <1>7, <1>8, <1>9, <1>10, <1>12, <1>13, <1>14
  DEF RegistrationsFinishStep, AttestationArrives, FinishProceeds, FinishFails

LEMMA LoginFinishMeets ==
    ASSUME PasskeyReady, HalvesMeet, NEW q \in LoginFinishes,
           SessionsFinishStep(q)
    PROVE  HalvesMeet'
<1> USE DEF HalvesMeet, LoginTransaction, AnswerAssertion, AssertGoes
<1>1. /\ AssertTypeOK /\ AssertStep(q)
      /\ UNCHANGED <<finishPc, command>>
      /\ q \notin RegFinishes /\ None \notin LoginFinishes
  BY StoreAssumption
  DEF PasskeyReady, LoginReady, TypeOK, SessionsFinishStep, AssertStep,
      finishVars
<1>2. \A o \in LoginFinishes \ {q} : assertPc'[o] = assertPc[o]
  BY <1>1, AssertAlone
<1>3. assertPc \in [LoginFinishes -> AssertPcs]
  BY <1>1 DEF AssertTypeOK
<1>4. CASE /\ UNCHANGED storeVars
           /\ assertPc'[q] \in LoginTransaction <=> assertPc[q] \in LoginTransaction
  BY <1>1, <1>2, <1>4, MeetFrame DEF storeVars
<1>5. PICK c : c = command
  OBVIOUS
<1>6. CASE UpdateSignCount(q)
  <2>1. PICK id, n : id = target[q].credential_id
                       /\ n = assertion[q].signed.sign_count
    OBVIOUS
  <2>2. /\ writer = None /\ writer' = q /\ db' = db
        /\ view' = SetSignCount(db, id, n)
        /\ assertPc'[q] = "insertToken"
    BY <1>3, <1>6, <2>1 DEF UpdateSignCount, FirstWrite
  <2>3. \A k \in view'.credentials :
           \E o \in db.credentials : k.user_id = o.user_id
    <3>1. view'.credentials =
             {IF k.credential_id = id THEN [k EXCEPT !.sign_count = n]
              ELSE k : k \in db.credentials}
      BY <2>2, UsersOfCredentials DEF SetSignCount, Database
    <3>2. \A k \in CredentialRow : [k EXCEPT !.sign_count = n].user_id = k.user_id
      BY DEF CredentialRow
    <3> QED
      BY <3>1, <3>2, UsersOfCredentials
  <2>4. LockIsHeld'
    BY <1>1, <1>2, <2>2, NobodyWrites DEF LockIsHeld
  <2>5. CredentialsAreAttested'
    BY <1>1, <2>2, <2>3 DEF CredentialsAreAttested
  <2>6. Seen(SetSignCount(db, id, n), c) = Seen(db, c)
    BY UsersOfCredentials, OthersAreUnseen
  <2>7. LoginIsUnseen'
    BY <1>1, <1>5, <2>2, <2>6 DEF LoginIsUnseen
  <2> QED
    BY <2>4, <2>5, <2>7
<1>7. ASSUME NEW d, NextWrite(q, d), d.credentials = view.credentials,
             Seen(d, c) = Seen(view, c),
             assertPc[q] \in LoginTransaction, assertPc'[q] \in LoginTransaction
      PROVE  HalvesMeet'
  <2>1. writer = q /\ writer' = q /\ db' = db /\ view' = d
    BY <1>7 DEF NextWrite
  <2>2. LockIsHeld'
    BY <1>1, <1>2, <1>7, <2>1 DEF LockIsHeld
  <2>3. CredentialsAreAttested'
    BY <1>1, <1>7, <2>1 DEF CredentialsAreAttested
  <2>4. LoginIsUnseen'
    BY <1>1, <1>5, <1>7, <2>1 DEF LoginIsUnseen
  <2> QED
    BY <2>2, <2>3, <2>4
<1>8. CASE InsertLoginToken(q)
  <2>1. PICK row \in RefreshTokenRow : row = LoginTokenOf(q)
    BY <1>8, LoginTokenTyped DEF InsertLoginToken, PasskeyReady
  <2>2. PICK d : d = InsertRow(view, "refresh_tokens", row)
    OBVIOUS
  <2>3. row.token_hash \notin RegFinishes
    BY <1>1, <2>1 DEF LoginTokenOf
  <2>4. d.credentials = view.credentials
    BY <2>2, UsersOfCredentials DEF InsertRow, Database
  <2>5. Seen(d, c) = Seen(view, c)
    BY <2>2, <2>3, UsersOfCredentials, OthersAreUnseen
  <2>6. assertPc[q] = "insertToken" /\ assertPc'[q] = "deleteSession"
    BY <1>3, <1>8 DEF InsertLoginToken
  <2> QED
    BY <1>7, <1>8, <2>1, <2>2, <2>4, <2>5, <2>6 DEF InsertLoginToken
<1>9. CASE DeleteLoginSession(q)
  <2>1. PICK d : d = DeleteByID(view, "login_sessions", loginLoaded[q].id)
    OBVIOUS
  <2>2. d.credentials = view.credentials
    BY <2>1, UsersOfCredentials DEF DeleteByID, Database
  <2>3. PICK id : id = loginLoaded[q].id
    OBVIOUS
  <2>4. Seen(d, c) = Seen(view, c)
    BY <2>1, <2>3, UsersOfCredentials, OthersAreUnseen
  <2>5. assertPc[q] = "deleteSession" /\ assertPc'[q] = "commit"
    BY <1>3, <1>9 DEF DeleteLoginSession
  <2> QED
    BY <1>7, <1>9, <2>1, <2>2, <2>4, <2>5 DEF DeleteLoginSession
<1>10. CASE CommitLogin(q)
  <2>1. /\ writer = q /\ writer' = None /\ db' = view /\ view' = view
        /\ assertPc'[q] = "respond"
    BY <1>3, <1>10 DEF CommitLogin, Commit
  <2>2. LockIsHeld'
    BY <1>1, <1>2, <2>1, StoreAssumption DEF LockIsHeld
  <2>3. CredentialsAreAttested'
    BY <1>1, <2>1 DEF CredentialsAreAttested
  <2> QED
    BY <1>1, <2>1, <2>2, <2>3 DEF LoginIsUnseen
<1>11. ASSUME NEW f \in Faults, FinishLoginFails(q, f)
       PROVE  HalvesMeet'
  <2>1. assertPc'[q] = "respond"
    BY <1>3, <1>11 DEF FinishLoginFails
  <2>2. CASE writer = q
    <3>1. writer' = None /\ view' = db /\ db' = db
      BY <1>11, <2>2 DEF FinishLoginFails, Rollback
    <3>2. LockIsHeld'
      BY <1>1, <1>2, <2>1, <2>2, <3>1, StoreAssumption DEF LockIsHeld
    <3>3. CredentialsAreAttested'
      BY <1>1, <3>1 DEF CredentialsAreAttested
    <3> QED
      BY <1>1, <3>1, <3>2, <3>3 DEF LoginIsUnseen
  <2>3. CASE writer # q
    <3>1. UNCHANGED <<db, view, writer>> /\ assertPc[q] \notin LoginTransaction
      BY <1>11, <2>3 DEF FinishLoginFails, Rollback, LockIsHeld
    <3> QED
      BY <1>1, <1>2, <2>1, <3>1, MeetFrame
  <2> QED
    BY <2>2, <2>3
<1>12. CASE \/ LoadLoginSession(q) \/ LoginSessionNotFound(q)
            \/ NewFreshLoginSession(q) \/ LoginSessionExpired(q)
            \/ LoadCredential(q) \/ CredentialNotFound(q) \/ LoadOwner(q)
            \/ VerifyAssertion(q) \/ AssertionInvalid(q) \/ RespondAssertion(q)
            \/ \E f \in Faults : LoadAssertionFails(q, f)
  BY <1>3, <1>4, <1>12
  DEF LoadLoginSession, LoginSessionNotFound, NewFreshLoginSession,
      LoginSessionExpired, LoadCredential, CredentialNotFound, LoadOwner,
      VerifyAssertion, AssertionInvalid, RespondAssertion, LoadAssertionFails
<1>13. CASE AssertArrives(q)
  BY <1>3, <1>4, <1>13 DEF AssertArrives, RejectAssertion, AcceptAssertion
<1> HIDE DEF HalvesMeet, LoginTransaction
<1> QED
  BY <1>6, <1>8, <1>9, <1>10, <1>11, <1>12, <1>13
  DEF SessionsFinishStep, AssertProceeds, AssertFails

(* ... and so does a restart, which drops the open transaction.            *)
LEMMA RestartMeets ==
    ASSUME PasskeyReady, HalvesMeet, ProcessRestarts
    PROVE  HalvesMeet'
<1>1. /\ \A p \in RegFinishes : finishPc'[p] \notin InTransaction
      /\ \A q \in LoginFinishes : assertPc'[q] \notin LoginTransaction
  BY DEF ProcessRestarts, FinishKilled, AssertKilled, FinishRunning,
         AssertRunning, InTransaction, LoginTransaction
<1>2. writer' = None /\ view' = db /\ db' = db
  BY DEF ProcessRestarts, Reboot
<1>3. LockIsHeld'
  BY <1>1, <1>2, StoreAssumption DEF LockIsHeld
<1>4. CredentialsAreAttested'
  BY <1>2, UsersOfCredentials
  DEF HalvesMeet, CredentialsAreAttested, ProcessRestarts, FinishKilled
<1> QED
  BY <1>2, <1>3, <1>4, StoreAssumption DEF HalvesMeet, LoginIsUnseen

(* HalvesMeet is inductive.                                                *)
LEMMA MeetStep ==
    ASSUME PasskeyReady, HalvesMeet, [PasskeyNext]_passkeyVars
    PROVE  HalvesMeet'
<1>1. CASE AuthenticatorStep \/ TimePasses \/ UNCHANGED passkeyVars
  BY <1>1, MeetFrame
  DEF AuthenticatorStep, TimePasses, Tick, passkeyVars, storeVars, finishVars,
      assertVars
<1> QED
  BY <1>1, StartMeets, FinishMeets, LoginStartMeets, LoginFinishMeets,
     LogoutMeets, RestartMeets
  DEF PasskeyNext, EveryoneAtRest

----------------------------------------------------------------------------
(* Registration, as the whole service has it.                              *)

(* What a step does to the store, as registration sees it: a transaction   *)
(* of a login is none.                                                     *)
LEMMA RegistrationStore ==
    ASSUME UNCHANGED command, NEW d, NEW e, e = Seen(d, command)
    PROVE  /\ UNCHANGED storeVars => UNCHANGED RegistrationHalf!storeVars
           /\ Autocommit(d) => RegistrationHalf!Autocommit(e)
           /\ Tick => RegistrationHalf!Tick
           /\ Reboot => RegistrationHalf!Reboot
           /\ \A p \in RegFinishes :
                 /\ FirstWrite(p, d) => RegistrationHalf!FirstWrite(p, e)
                 /\ NextWrite(p, d) => RegistrationHalf!NextWrite(p, e)
                 /\ Commit(p) => RegistrationHalf!Commit(p)
                 /\ Rollback(p) => RegistrationHalf!Rollback(p)
<1> USE RegisteringIsSeen, StoreAssumption DEF WriterFor
<1>1. UNCHANGED storeVars => UNCHANGED RegistrationHalf!storeVars
  BY DEF storeVars, RegistrationHalf!storeVars
<1>2. Autocommit(d) => RegistrationHalf!Autocommit(e)
  BY DEF Autocommit, RegistrationHalf!Autocommit
<1>3. Tick => RegistrationHalf!Tick
  BY DEF Tick, RegistrationHalf!Tick
<1>4. Reboot => RegistrationHalf!Reboot
  BY DEF Reboot, RegistrationHalf!Reboot
<1>5. ASSUME NEW p \in RegFinishes
      PROVE  /\ FirstWrite(p, d) => RegistrationHalf!FirstWrite(p, e)
             /\ NextWrite(p, d) => RegistrationHalf!NextWrite(p, e)
             /\ Commit(p) => RegistrationHalf!Commit(p)
             /\ Rollback(p) => RegistrationHalf!Rollback(p)
  <2>1. FirstWrite(p, d) => RegistrationHalf!FirstWrite(p, e)
    BY DEF FirstWrite, RegistrationHalf!FirstWrite
  <2>2. NextWrite(p, d) => RegistrationHalf!NextWrite(p, e)
    BY DEF NextWrite, RegistrationHalf!NextWrite
  <2>3. Commit(p) => RegistrationHalf!Commit(p)
    BY DEF Commit, RegistrationHalf!Commit
  <2>4. Rollback(p) => RegistrationHalf!Rollback(p)
    BY DEF Rollback, RegistrationHalf!Rollback
  <2> QED
    BY <2>1, <2>2, <2>3, <2>4
<1> QED
  BY <1>1, <1>2, <1>3, <1>4, <1>5

(* A step of a start slice is the step of that name of Registration ...    *)
LEMMA StartRegisters ==
    ASSUME PasskeyReady, NEW r \in RegStarts, RegistrationsStartStep(r)
    PROVE  RegistrationHalf!StartStep(r)
<1> USE DEF AnswerStart, RegistrationHalf!AnswerStart
<1>1. UNCHANGED <<command, finishVars>>
  BY DEF RegistrationsStartStep, finishVars
<1>2. UNCHANGED storeVars => UNCHANGED RegistrationHalf!storeVars
  BY <1>1, RegistrationStore
<1>3. RejectHandle(r) => RegistrationHalf!RejectHandle(r)
  BY <1>2 DEF RejectHandle, RegistrationHalf!RejectHandle
<1>4. ASSUME NEW h \in Handles, OpenSession(r, h)
      PROVE  RegistrationHalf!OpenSession(r, h)
  BY <1>2, <1>4
  DEF OpenSession, RegistrationHalf!OpenSession, NewRegistrationSession,
      RegistrationHalf!NewRegistrationSession
<1>5. ASSUME PersistRegistrationSession(r)
      PROVE  RegistrationHalf!PersistRegistrationSession(r)
  <2>1. PICK row, c : row = SessionRow(r) /\ c = command
    OBVIOUS
  <2>2. RegistrationHalf!SessionRow(r) = row
    BY <2>1 DEF SessionRow, RegistrationHalf!SessionRow, Unix,
                RegistrationHalf!Unix
  <2>3. PICK d : d = InsertRow(db, "registration_sessions", row)
    OBVIOUS
  <2>4. PICK e : e = Seen(d, c)
    OBVIOUS
  <2>5. RegistrationHalf!InsertRow(Registering(db), "registration_sessions", row)
           = e
    BY <2>1, <2>3, <2>4, OwnAreSeen, UsersOfCredentials, RegisteringIsSeen
  <2>6. Autocommit(d)
    BY <1>5, <2>1, <2>3 DEF PersistRegistrationSession
  <2>7. RegistrationHalf!Autocommit(e)
    BY <1>1, <2>1, <2>4, <2>6, RegistrationStore
  <2> QED
    BY <1>5, <2>2, <2>5, <2>7
    DEF PersistRegistrationSession, RegistrationHalf!PersistRegistrationSession
<1>6. ASSUME NEW f \in Faults, PersistFails(r, f)
      PROVE  RegistrationHalf!PersistFails(r, f)
  BY <1>2, <1>6
  DEF PersistFails, RegistrationHalf!PersistFails, WriteError,
      RegistrationHalf!WriteError
<1>7. RespondStart(r) => RegistrationHalf!RespondStart(r)
  BY <1>2 DEF RespondStart, RegistrationHalf!RespondStart
<1> QED
  BY <1>1, <1>3, <1>4, <1>5, <1>6, <1>7
  DEF RegistrationsStartStep, StartArrives, StartProceeds, StartFails,
      RegistrationHalf!StartStep, RegistrationHalf!StartArrives,
      RegistrationHalf!StartProceeds, RegistrationHalf!StartFails,
      finishVars, RegistrationHalf!finishVars

(* ... and so is one of a finish slice.                                    *)
LEMMA FinishRegisters ==
    ASSUME PasskeyReady, HalvesMeet, NEW p \in RegFinishes,
           RegistrationsFinishStep(p)
    PROVE  RegistrationHalf!FinishStep(p)
<1> USE DEF Answer, RegistrationHalf!Answer, GoTo, RegistrationHalf!GoTo
<1>1. /\ db \in Database /\ view \in Database
      /\ FinishReady(p)
      /\ Registering(db) = Seen(db, command)
      /\ writer = p => Registering(ImageFor(RegFinishes)) = Seen(view, command)
      /\ finishPc[p] \in InTransaction => writer = p
  BY UsersOfCredentials, RegisteringIsSeen
  DEF PasskeyReady, RegistrationReady, HalvesMeet, LockIsHeld
<1>2. PICK c : c = command
  OBVIOUS
<1>3. /\ Registering(db).users = db.users
      /\ Registering(db).registration_sessions = db.registration_sessions
  BY <1>1, <1>2, OwnAreSeen
<1>4. ASSUME UNCHANGED storeVars, UNCHANGED command
      PROVE  UNCHANGED RegistrationHalf!storeVars
  BY <1>4, RegistrationStore
<1>5. RejectAttestation(p) => RegistrationHalf!RejectAttestation(p)
  BY <1>4 DEF RejectAttestation, RegistrationHalf!RejectAttestation
<1>6. ASSUME NEW cmd \in RegistrationFinishCommand, AcceptCommand(p, cmd)
      PROVE  RegistrationHalf!AcceptCommand(p, cmd)
  <2>1. \A o \in RegFinishes : finishPc[o] # "idle" => command'[o] = command[o]
    BY <1>6
    DEF AcceptCommand, PasskeyReady, RegistrationReady, FinishTypeOK
  <2>2. UNCHANGED RegistrationHalf!storeVars
    BY <1>6, <2>1, CommandsStay, RegisteringIsSeen
    DEF HalvesMeet, AcceptCommand, storeVars, RegistrationHalf!storeVars,
        WriterFor
  <2> QED
    BY <1>6, <2>2
    DEF AcceptCommand, RegistrationHalf!AcceptCommand, CanSend,
        RegistrationHalf!CanSend, Offered, RegistrationHalf!Offered
<1>7. LoadRegistrationSession(p) => RegistrationHalf!LoadRegistrationSession(p)
  BY <1>3, <1>4
  DEF LoadRegistrationSession, RegistrationHalf!LoadRegistrationSession
<1>8. SessionNotFound(p) => RegistrationHalf!SessionNotFound(p)
  BY <1>3, <1>4 DEF SessionNotFound, RegistrationHalf!SessionNotFound
<1>9. /\ VerifyAttestation(p) => RegistrationHalf!VerifyAttestation(p)
      /\ SessionExpired(p) => RegistrationHalf!SessionExpired(p)
      /\ AttestationInvalid(p) => RegistrationHalf!AttestationInvalid(p)
  BY <1>4
  DEF VerifyAttestation, RegistrationHalf!VerifyAttestation, SessionExpired,
      RegistrationHalf!SessionExpired, AttestationInvalid,
      RegistrationHalf!AttestationInvalid, FreshSession,
      RegistrationHalf!FreshSession, Fresh, RegistrationHalf!Fresh, FromUnix,
      RegistrationHalf!FromUnix, Verified, RegistrationHalf!Verified
<1>10. IssueTokenPair(p) => RegistrationHalf!IssueTokenPair(p)
  BY <1>4
  DEF IssueTokenPair, RegistrationHalf!IssueTokenPair, GenerateTokenPair,
      RegistrationHalf!GenerateTokenPair, Unix, RegistrationHalf!Unix
<1>11. ASSUME InsertUser(p)
       PROVE  RegistrationHalf!InsertUser(p)
  <2>1. PICK row : row = UserOf(p) /\ row = RegistrationHalf!UserOf(p)
    BY DEF UserOf, RegistrationHalf!UserOf
  <2>2. PICK d, e : d = InsertRow(db, "users", row) /\ e = Seen(d, c)
    OBVIOUS
  <2>3. RegistrationHalf!InsertRow(Registering(db), "users", row) = e
    BY <1>1, <1>2, <2>2, OwnAreSeen
  <2>4. RegistrationHalf!FirstWrite(p, e)
    BY <1>2, <1>11, <2>1, <2>2, RegistrationStore DEF InsertUser
  <2> QED
    BY <1>3, <1>11, <2>1, <2>3, <2>4
    DEF InsertUser, RegistrationHalf!InsertUser, HandleTaken,
        RegistrationHalf!HandleTaken
<1>12. InsertUserConflicts(p) => RegistrationHalf!InsertUserConflicts(p)
  BY <1>3, <1>4
  DEF InsertUserConflicts, RegistrationHalf!InsertUserConflicts, HandleTaken,
      RegistrationHalf!HandleTaken, ConstraintError,
      RegistrationHalf!ConstraintError, WriterFor
<1>13. ASSUME InsertCredential(p) \/ InsertCredentialConflicts(p)
       PROVE  /\ Registering(ImageFor(RegFinishes)) = Seen(view, c)
              /\ RegistrationHalf!CredentialExists(
                    Registering(ImageFor(RegFinishes)), command[p].credential_id)
                 <=> CredentialExists(view, command[p].credential_id)
  <2>1. PICK id : id = command[p].credential_id
    OBVIOUS
  <2>2. Registering(ImageFor(RegFinishes)) = Seen(view, c)
    BY <1>1, <1>2, <1>13
    DEF InsertCredential, InsertCredentialConflicts, InTransaction
  <2>3. (\E k \in Seen(view, c).credentials : k.credential_id = id)
           <=> CredentialExists(view, id)
    BY <1>1, OwnAreSeen
  <2> QED
    BY <2>1, <2>2, <2>3 DEF RegistrationHalf!CredentialExists
<1>14. ASSUME InsertCredential(p)
       PROVE  RegistrationHalf!InsertCredential(p)
  <2>1. PICK row \in CredentialRow :
           row = CredentialOf(p) /\ row = RegistrationHalf!CredentialOf(p)
    BY <1>1, <1>14, RegistrationRowsTyped
    DEF InsertCredential, InTransaction, CredentialOf,
        RegistrationHalf!CredentialOf
  <2>2. row.sign_count = c[row.user_id].sign_count
    BY <1>2, <2>1 DEF CredentialOf
  <2>3. PICK d, e : d = InsertRow(view, "credentials", row) /\ e = Seen(d, c)
    OBVIOUS
  <2>4. RegistrationHalf!InsertRow(
           Registering(ImageFor(RegFinishes)), "credentials", row) = e
    BY <1>1, <1>13, <1>14, <2>2, <2>3, OwnAreSeen
  <2>5. RegistrationHalf!NextWrite(p, e)
    BY <1>2, <1>14, <2>1, <2>3, RegistrationStore DEF InsertCredential
  <2> QED
    BY <1>13, <1>14, <2>1, <2>4, <2>5
    DEF InsertCredential, RegistrationHalf!InsertCredential
<1>15. ASSUME InsertCredentialConflicts(p)
       PROVE  RegistrationHalf!InsertCredentialConflicts(p)
  BY <1>13, <1>15, RegistrationStore
  DEF InsertCredentialConflicts, RegistrationHalf!InsertCredentialConflicts,
      ConstraintError, RegistrationHalf!ConstraintError
<1>16. ASSUME InsertRefreshToken(p)
       PROVE  RegistrationHalf!InsertRefreshToken(p)
  <2>1. PICK row \in RefreshTokenRow :
           row = RefreshTokenOf(p) /\ row = RegistrationHalf!RefreshTokenOf(p)
    BY <1>1, <1>16, RegistrationRowsTyped
    DEF InsertRefreshToken, InTransaction, RefreshTokenOf,
        RegistrationHalf!RefreshTokenOf
  <2>2. row.token_hash \in RegFinishes /\ row.revoked_at = None
    BY <2>1 DEF RefreshTokenOf
  <2>3. PICK d, e : d = InsertRow(view, "refresh_tokens", row) /\ e = Seen(d, c)
    OBVIOUS
  <2>4. RegistrationHalf!InsertRow(
           Registering(ImageFor(RegFinishes)), "refresh_tokens", row) = e
    BY <1>1, <1>2, <1>16, <2>2, <2>3, OwnAreSeen
    DEF InsertRefreshToken, InTransaction
  <2>5. RegistrationHalf!NextWrite(p, e)
    BY <1>2, <1>16, <2>1, <2>3, RegistrationStore DEF InsertRefreshToken
  <2> QED
    BY <1>16, <2>1, <2>4, <2>5
    DEF InsertRefreshToken, RegistrationHalf!InsertRefreshToken
<1>17. ASSUME DeleteSession(p)
       PROVE  RegistrationHalf!DeleteSession(p)
  <2>1. PICK id : id = loaded[p].id
    OBVIOUS
  <2>2. PICK d, e : /\ d = DeleteByID(view, "registration_sessions", id)
                    /\ e = Seen(d, c)
    OBVIOUS
  <2>3. RegistrationHalf!DeleteByID(
           Registering(ImageFor(RegFinishes)), "registration_sessions", id) = e
    BY <1>1, <1>2, <1>17, <2>2, OwnAreSeen DEF DeleteSession, InTransaction
  <2>4. RegistrationHalf!NextWrite(p, e)
    BY <1>2, <1>17, <2>1, <2>2, RegistrationStore DEF DeleteSession
  <2> QED
    BY <1>17, <2>1, <2>3, <2>4
    DEF DeleteSession, RegistrationHalf!DeleteSession
<1>18. CommitRegistration(p) => RegistrationHalf!CommitRegistration(p)
  BY RegistrationStore
  DEF CommitRegistration, RegistrationHalf!CommitRegistration
<1>19. ASSUME NEW f \in Faults, WriteFails(p, f)
       PROVE  RegistrationHalf!WriteFails(p, f)
  BY <1>19, RegistrationStore
  DEF WriteFails, RegistrationHalf!WriteFails, WriteError,
      RegistrationHalf!WriteError, InTransaction, RegistrationHalf!InTransaction
<1>20. ASSUME NEW f \in Faults, LoadFails(p, f)
       PROVE  RegistrationHalf!LoadFails(p, f)
  BY <1>4, <1>20
  DEF LoadFails, RegistrationHalf!LoadFails, ReadError,
      RegistrationHalf!ReadError
<1>21. RespondFinish(p) => RegistrationHalf!RespondFinish(p)
  BY <1>4 DEF RespondFinish, RegistrationHalf!RespondFinish
<1>22. FinishArrives(p) => RegistrationHalf!FinishArrives(p)
  BY <1>5, <1>6
  DEF FinishArrives, RegistrationHalf!FinishArrives,
      RegistrationFinishCommand, RegistrationHalf!RegistrationFinishCommand
<1>23. FinishProceeds(p) => RegistrationHalf!FinishProceeds(p)
  BY <1>7, <1>8, <1>9, <1>10, <1>11, <1>12, <1>14, <1>15, <1>16, <1>17, <1>18,
     <1>21
  DEF FinishProceeds, RegistrationHalf!FinishProceeds
<1>24. FinishFails(p) => RegistrationHalf!FinishFails(p)
  BY <1>19, <1>20 DEF FinishFails, RegistrationHalf!FinishFails
<1> QED
  BY <1>22, <1>23, <1>24
  DEF RegistrationsFinishStep, AttestationArrives, RegistrationHalf!FinishStep,
      startVars, RegistrationHalf!startVars

(* A transaction of a login, or a statement that registration cannot see,  *)
(* is nothing to it.                                                       *)
LEMMA NothingRegisters ==
    ASSUME UNCHANGED <<startVars, finishVars>>,
           \/ UNCHANGED storeVars
           \/ /\ UNCHANGED <<now, boots>>
              /\ writer \notin RegFinishes /\ writer' \notin RegFinishes
              /\ Seen(db', command) = Seen(db, command)
    PROVE  UNCHANGED RegistrationHalf!vars
<1>1. UNCHANGED command
  BY DEF finishVars
<1>2. UNCHANGED RegistrationHalf!storeVars
  <2>1. CASE UNCHANGED storeVars
    BY <1>1, <2>1, RegistrationStore
  <2>2. CASE /\ UNCHANGED <<now, boots>>
             /\ writer \notin RegFinishes /\ writer' \notin RegFinishes
             /\ Seen(db', command) = Seen(db, command)
    BY <1>1, <2>2, RegisteringIsSeen
    DEF RegistrationHalf!storeVars, WriterFor
  <2> QED
    BY <2>1, <2>2
<1> QED
  BY <1>2
  DEF RegistrationHalf!vars, startVars, RegistrationHalf!startVars, finishVars,
      RegistrationHalf!finishVars

(* Opening a login session is nothing to registration ...                  *)
LEMMA LoginStartRegistersNothing ==
    ASSUME PasskeyReady, NEW r \in LoginStarts, SessionsStartStep(r)
    PROVE  UNCHANGED RegistrationHalf!vars
<1>1. UNCHANGED <<startVars, finishVars>>
  BY DEF SessionsStartStep
<1>2. CASE PersistLoginSession(r)
  <2>1. PICK row, c : row = LoginSessionRowOf(r) /\ c = command
    OBVIOUS
  <2>2. Autocommit(InsertRow(db, "login_sessions", row))
    BY <1>2, <2>1 DEF PersistLoginSession
  <2>3. Seen(InsertRow(db, "login_sessions", row), c) = Seen(db, c)
    BY UsersOfCredentials, OthersAreUnseen
  <2> QED
    BY <1>1, <2>1, <2>2, <2>3, NothingRegisters, StoreAssumption DEF Autocommit
<1>3. CASE UNCHANGED storeVars
  BY <1>1, <1>3, NothingRegisters
<1> QED
  BY <1>2, <1>3
  DEF SessionsStartStep, LoginArrives, LoginProceeds, LoginFails,
      RejectLoginHandle, LoadUser, UserNotFound, LoadCredentials,
      OpenLoginSession, LoadUserCredentialsFails, PersistLoginFails, RespondLogin

(* ... nor is revoking tokens ...                                          *)
LEMMA LogoutRegistersNothing ==
    ASSUME PasskeyReady, NEW l \in Logouts, SessionsLogoutStep(l)
    PROVE  UNCHANGED RegistrationHalf!vars
<1>1. UNCHANGED <<startVars, finishVars>>
  BY DEF SessionsLogoutStep
<1>2. CASE RevokeUserSessions(l)
  <2>1. PICK u, s, c : /\ u = revocation[l].user_id
                       /\ s = Unix(revocation[l].now)
                       /\ c = command
    OBVIOUS
  <2>2. Autocommit(RevokeTokens(db, u, s))
    BY <1>2, <2>1 DEF RevokeUserSessions
  <2>3. Seen(RevokeTokens(db, u, s), c) = Seen(db, c)
    BY UsersOfCredentials, OthersAreUnseen
  <2> QED
    BY <1>1, <2>1, <2>2, <2>3, NothingRegisters, StoreAssumption DEF Autocommit
<1>3. CASE UNCHANGED storeVars
  BY <1>1, <1>3, NothingRegisters
<1> QED
  BY <1>2, <1>3
  DEF SessionsLogoutStep, BearerArrives, LogoutProceeds, LogoutFails,
      RejectBearer, AuthenticateLogout, AccessTokenInvalid, StampRevocation,
      RevokeFails, RespondLogout

(* ... nor finishing a login, whose COMMIT publishes what is unseen.       *)
LEMMA LoginFinishRegistersNothing ==
    ASSUME HalvesMeet, NEW q \in LoginFinishes, SessionsFinishStep(q)
    PROVE  UNCHANGED RegistrationHalf!vars
<1>1. /\ UNCHANGED <<startVars, finishVars>>
      /\ q \notin RegFinishes /\ None \notin RegFinishes
  BY StoreAssumption DEF SessionsFinishStep
<1>2. ASSUME NEW d, FirstWrite(q, d) \/ NextWrite(q, d)
      PROVE  UNCHANGED RegistrationHalf!vars
  BY <1>1, <1>2, NothingRegisters DEF FirstWrite, NextWrite
<1>3. CASE CommitLogin(q)
  BY <1>1, <1>3, NothingRegisters
  DEF CommitLogin, Commit, HalvesMeet, LoginIsUnseen
<1>4. CASE Rollback(q)
  BY <1>1, <1>4, NothingRegisters DEF Rollback, storeVars
<1>5. CASE UNCHANGED storeVars
  BY <1>1, <1>5, NothingRegisters
<1> QED
  BY <1>2, <1>3, <1>4, <1>5
  DEF SessionsFinishStep, AssertArrives, AssertProceeds, AssertFails,
      RejectAssertion, AcceptAssertion, LoadLoginSession, LoginSessionNotFound,
      NewFreshLoginSession, LoginSessionExpired, LoadCredential,
      CredentialNotFound, LoadOwner, VerifyAssertion, AssertionInvalid,
      UpdateSignCount, InsertLoginToken, DeleteLoginSession, RespondAssertion,
      LoadAssertionFails, FinishLoginFails

(* The steps that are nobody's.                                            *)
LEMMA OthersRegister ==
    /\ AuthenticatorStep => UNCHANGED RegistrationHalf!vars
    /\ TimePasses => RegistrationHalf!ClockStep
    /\ ProcessRestarts => RegistrationHalf!Restart
    /\ UNCHANGED passkeyVars => UNCHANGED RegistrationHalf!vars
<1> USE DEF startVars, RegistrationHalf!startVars, finishVars,
            RegistrationHalf!finishVars
<1>1. UNCHANGED passkeyVars \/ AuthenticatorStep => UNCHANGED RegistrationHalf!vars
  BY NothingRegisters DEF passkeyVars, AuthenticatorStep
<1>2. TimePasses => RegistrationHalf!ClockStep
  BY RegistrationStore DEF TimePasses, RegistrationHalf!ClockStep
<1>3. ProcessRestarts => RegistrationHalf!Restart
  BY RegistrationStore
  DEF ProcessRestarts, RegistrationHalf!Restart, StartKilled,
      RegistrationHalf!StartKilled, FinishKilled, RegistrationHalf!FinishKilled,
      FinishRunning, RegistrationHalf!FinishRunning, InTransaction,
      RegistrationHalf!InTransaction
<1> QED
  BY <1>1, <1>2, <1>3

----------------------------------------------------------------------------

(* What the halves take for granted of each other.                         *)
PasskeyInvariant == PasskeyReady /\ HalvesMeet

(* Init => PasskeyInvariant.                                               *)
LEMMA PasskeyInvariantInit == PasskeyInit => PasskeyInvariant
<1> SUFFICES ASSUME PasskeyInit
             PROVE  PasskeyInvariant
  OBVIOUS
<1> USE DEF PasskeyInit
<1>1. LoginReady
  BY InvariantInit, InvariantIsReady DEF Init
<1>2. RegistrationReady
  <2>1. StartReady
    BY DEF StartInit, StartReady, StartTypeOK, StartPcs, StartReplies
  <2>2. FinishTypeOK
    BY DEF FinishInit, FinishTypeOK, FinishPcs, FinishReplies
  <2>3. \A p \in RegFinishes : FinishReady(p)
    BY NoneIsNoReply
    DEF FinishInit, FinishReady, FinishRunning, InTransaction, Registered
  <2> QED
    BY <2>1, <2>2, <2>3 DEF RegistrationReady
<1>3. LogoutReady
  BY DEF LogoutInit, LogoutReady, LogoutTypeOK, LogoutPcs, LogoutReplies
<1>4. HalvesMeet
  BY StoreAssumption
  DEF StoreInit, EmptyDatabase, FinishInit, AssertInit, HalvesMeet, LockIsHeld,
      CredentialsAreAttested, LoginIsUnseen, InTransaction, LoginTransaction
<1> QED
  BY <1>1, <1>2, <1>3, <1>4 DEF PasskeyInvariant, PasskeyReady

(* The inductive invariant: what the handlers have in hand, who holds the  *)
(* write lock, and what either half sees of the other's transaction.       *)
THEOREM PasskeyInvariantHolds == PasskeySpec => []PasskeyInvariant
<1>1. PasskeyInvariant /\ [PasskeyNext]_passkeyVars => PasskeyInvariant'
  BY PasskeyReadyStep, MeetStep DEF PasskeyInvariant
<1> QED
  BY PasskeyInvariantInit, <1>1, PTL DEF PasskeySpec

(* Every variable keeps its type, whichever slices overlap.                *)
THEOREM PasskeyTypes == PasskeySpec => []PasskeyTypeOK
<1>1. PasskeyInvariant => PasskeyTypeOK
  BY DEF PasskeyInvariant, PasskeyReady, LoginReady, TypeOK, RegistrationReady,
         StartReady, LogoutReady, PasskeyTypeOK
<1> QED
  BY <1>1, PasskeyInvariantHolds, PTL

(* Logins, logouts and their transactions do not disturb registration: the *)
(* whole service implements Registration, and with it the promise of       *)
(* Accounts.                                                               *)
THEOREM PasskeyImplementsRegistration == PasskeySpec => ImplementsRegistration
<1>1. PasskeyInit => RegistrationHalf!Init
  <2> SUFFICES ASSUME PasskeyInit
               PROVE  RegistrationHalf!Init
    OBVIOUS
  <2>1. PICK c : c = command
    OBVIOUS
  <2>2. /\ {s \in {} : s.token_hash \in RegFinishes} = {}
        /\ {[t EXCEPT !.revoked_at = None] : t \in {}} = {}
        /\ {[k EXCEPT !.sign_count = c[k.user_id].sign_count] : k \in {}} = {}
    OBVIOUS
  <2>3. PICK d : d = EmptyDatabase
    OBVIOUS
  <2>4. /\ d.credentials = {} /\ d.refresh_tokens = {}
        /\ d.login_sessions = {}
        /\ d = RegistrationHalf!EmptyDatabase
    BY <2>3 DEF EmptyDatabase, RegistrationHalf!EmptyDatabase
  <2>5. Seen(d, c) = [d EXCEPT !.credentials = {}, !.refresh_tokens = {},
                               !.login_sessions = {}]
    BY <2>2, <2>4 DEF Seen
  <2>6. Seen(EmptyDatabase, c) = RegistrationHalf!EmptyDatabase
    BY <2>3, <2>4, <2>5 DEF EmptyDatabase
  <2> QED
    BY <2>1, <2>6, RegisteringIsSeen, StoreAssumption
    DEF PasskeyInit, RegistrationHalf!Init, StoreInit,
        RegistrationHalf!StoreInit, StartInit, RegistrationHalf!StartInit,
        FinishInit, RegistrationHalf!FinishInit, WriterFor
<1>2. PasskeyInvariant /\ [PasskeyNext]_passkeyVars
         => [RegistrationHalf!Next]_(RegistrationHalf!vars)
  <2> SUFFICES ASSUME PasskeyReady, HalvesMeet, [PasskeyNext]_passkeyVars
               PROVE  [RegistrationHalf!Next]_(RegistrationHalf!vars)
    BY DEF PasskeyInvariant
  <2>1. ASSUME NEW r \in RegStarts, RegistrationsStartStep(r)
        PROVE  RegistrationHalf!Next
    BY <2>1, StartRegisters DEF RegistrationHalf!Next
  <2>2. ASSUME NEW p \in RegFinishes, RegistrationsFinishStep(p)
        PROVE  RegistrationHalf!Next
    BY <2>2, FinishRegisters DEF RegistrationHalf!Next
  <2>3. TimePasses \/ ProcessRestarts => RegistrationHalf!Next
    BY OthersRegister DEF RegistrationHalf!Next
  <2>4. (\/ \E r \in LoginStarts : SessionsStartStep(r)
         \/ \E q \in LoginFinishes : SessionsFinishStep(q)
         \/ \E l \in Logouts : SessionsLogoutStep(l)
         \/ AuthenticatorStep
         \/ UNCHANGED passkeyVars)
           => UNCHANGED RegistrationHalf!vars
    BY LoginStartRegistersNothing, LoginFinishRegistersNothing,
       LogoutRegistersNothing, OthersRegister
  <2> QED
    BY <2>1, <2>2, <2>3, <2>4 DEF PasskeyNext, EveryoneAtRest
<1> QED
  BY <1>1, <1>2, PasskeyInvariantHolds, PTL
  DEF PasskeySpec, ImplementsRegistration, RegistrationHalf!Spec

----------------------------------------------------------------------------
(* What a registration that succeeds brings with it.  Modules Login and    *)
(* Sessions take it for one step: the handle and the credential are free,  *)
(* the counter is one that the authenticator had, the token pair was       *)
(* minted by this process, and COMMIT adds the three rows.                 *)

ImageOf(p) ==
    finishPc[p] \in InTransaction =>
      /\ view.users = db.users \cup {UserOf(p)}
      /\ view.credentials =
            IF finishPc[p] = "insertCredential" THEN db.credentials
            ELSE db.credentials \cup {CredentialOf(p)}
      /\ view.refresh_tokens =
            IF finishPc[p] \in {"insertCredential", "insertRefreshToken"}
            THEN db.refresh_tokens
            ELSE db.refresh_tokens \cup {RefreshTokenOf(p)}
      /\ view.login_sessions = db.login_sessions
      /\ ~HandleTaken(db, loaded[p].handle)
      /\ finishPc[p] # "insertCredential"
            => ~CredentialExists(db, command[p].credential_id)

CountedAndIssued(p) ==
    /\ finishPc[p] \in FinishRunning \ {"respond"}
          => command[p].sign_count <= counter[command[p].credential_id]
    /\ finishPc[p] \in {"insertUser"} \cup InTransaction
          => \E t \in 0 .. MaxTime :
                t <= now /\ issued[p] = GenerateTokenPair(t, boots)

EnrolmentsHold ==
    /\ now <= MaxTime
    /\ \A u \in db.users : u.id \in Registered
    /\ \A p \in RegFinishes : ImageOf(p) /\ CountedAndIssued(p)

(* A transaction nobody touches keeps its image.                           *)
LEMMA ImageFrame ==
    ASSUME NEW p \in RegFinishes, ImageOf(p), FinishUnmoved(p),
           finishPc'[p] \in InTransaction => UNCHANGED <<db, view>>
    PROVE  ImageOf(p)'
BY DEF ImageOf, FinishUnmoved, InTransaction, UserOf, CredentialOf,
       RefreshTokenOf, HandleTaken, CredentialExists

(* A request of either finish slice works on the store in these ways.      *)
LEMMA FinishStores ==
    ASSUME NEW p \in RegFinishes, RegistrationsFinishStep(p)
    PROVE  \/ UNCHANGED storeVars
           \/ \E d : FirstWrite(p, d) \/ NextWrite(p, d)
           \/ CommitRegistration(p)
           \/ Rollback(p)
BY DEF RegistrationsFinishStep, AttestationArrives, FinishArrives,
       FinishProceeds, FinishFails, RejectAttestation, AcceptCommand,
       LoadRegistrationSession, SessionNotFound, VerifyAttestation,
       SessionExpired, AttestationInvalid, IssueTokenPair, InsertUser,
       InsertUserConflicts, InsertCredential, InsertCredentialConflicts,
       InsertRefreshToken, DeleteSession, RespondFinish, LoadFails, WriteFails

(* The same for the finishing of a login.                                  *)
LEMMA LoginStores ==
    ASSUME NEW q \in LoginFinishes, SessionsFinishStep(q)
    PROVE  \/ UNCHANGED storeVars
           \/ \E d : FirstWrite(q, d) \/ NextWrite(q, d)
           \/ Commit(q)
           \/ Rollback(q)
BY DEF SessionsFinishStep, AssertArrives, AssertProceeds, AssertFails,
       RejectAssertion, AcceptAssertion, LoadLoginSession, LoginSessionNotFound,
       NewFreshLoginSession, LoginSessionExpired, LoadCredential,
       CredentialNotFound, LoadOwner, VerifyAssertion, AssertionInvalid,
       UpdateSignCount, InsertLoginToken, DeleteLoginSession, CommitLogin,
       RespondAssertion, LoadAssertionFails, FinishLoginFails

(* Time goes on and counters grow.                                         *)
LEMMA TimeAndCounters ==
    ASSUME PasskeyReady, now <= MaxTime, [PasskeyNext]_passkeyVars
    PROVE  /\ now <= now' /\ now' <= MaxTime
           /\ boots' = boots \/ ProcessRestarts
           /\ \A k \in CredIDs : counter[k] <= counter'[k]
<1>1. /\ now \in Nat /\ counter \in [CredIDs -> Nat]
      /\ MaxTime \in Nat
  BY StoreAssumption
  DEF PasskeyReady, LoginReady, TypeOK, StoreTypeOK, AuthenticatorTypeOK
<1>2. ASSUME NEW r \in LoginStarts, NEW k \in CredIDs, Sign(r, k)
      PROVE  \A o \in CredIDs : counter[o] <= counter'[o]
  BY <1>1, <1>2 DEF Sign
<1>3. CASE UNCHANGED <<now, boots, counter>>
  BY <1>1, <1>3
<1>4. CASE AuthenticatorStep
  <2>1. UNCHANGED <<now, boots>>
    BY <1>4 DEF AuthenticatorStep, storeVars
  <2>2. \A k \in CredIDs : counter[k] <= counter'[k]
    BY <1>2, <1>4 DEF AuthenticatorStep
  <2> QED
    BY <1>1, <2>1, <2>2
<1>5. CASE TimePasses \/ ProcessRestarts
  <2>1. UNCHANGED counter
    BY <1>5 DEF TimePasses, ProcessRestarts, authenticatorVars
  <2>2. CASE TimePasses
    BY <1>1, <2>1, <2>2 DEF TimePasses, Tick
  <2>3. CASE ProcessRestarts
    BY <1>1, <2>1, <2>3 DEF ProcessRestarts, Reboot
  <2> QED
    BY <1>5, <2>2, <2>3
<1>6. ASSUME NEW r \in RegStarts, RegistrationsStartStep(r)
      PROVE  UNCHANGED <<now, boots, counter>>
  BY <1>6
  DEF RegistrationsStartStep, StartArrives, StartProceeds, StartFails,
      RejectHandle, OpenSession, PersistRegistrationSession, PersistFails,
      RespondStart, Autocommit, storeVars, authenticatorVars
<1>7. ASSUME NEW p \in RegFinishes, RegistrationsFinishStep(p)
      PROVE  UNCHANGED <<now, boots, counter>>
  BY <1>7, FinishStores
  DEF CommitRegistration, FirstWrite, NextWrite, Commit, Rollback, storeVars,
      RegistrationsFinishStep, authenticatorVars
<1>8. ASSUME NEW r \in LoginStarts, SessionsStartStep(r)
      PROVE  UNCHANGED <<now, boots, counter>>
  BY <1>8
  DEF SessionsStartStep, LoginArrives, LoginProceeds, LoginFails,
      RejectLoginHandle, LoadUser, UserNotFound, LoadCredentials,
      OpenLoginSession, PersistLoginSession, LoadUserCredentialsFails,
      PersistLoginFails, RespondLogin, Autocommit, storeVars, authenticatorVars
<1>9. ASSUME NEW q \in LoginFinishes, SessionsFinishStep(q)
      PROVE  UNCHANGED <<now, boots, counter>>
  BY <1>9, LoginStores
  DEF FirstWrite, NextWrite, Commit, Rollback, storeVars,
      SessionsFinishStep, authenticatorVars
<1>10. ASSUME NEW l \in Logouts, SessionsLogoutStep(l)
       PROVE  UNCHANGED <<now, boots, counter>>
  BY <1>10
  DEF SessionsLogoutStep, BearerArrives, LogoutProceeds, LogoutFails,
      RejectBearer, AuthenticateLogout, AccessTokenInvalid, StampRevocation,
      RevokeUserSessions, RevokeFails, RespondLogout, Autocommit, storeVars,
      authenticatorVars
<1>11. UNCHANGED passkeyVars => UNCHANGED <<now, boots, counter>>
  BY DEF passkeyVars, storeVars, authenticatorVars
<1> QED
  BY <1>3, <1>4, <1>5, <1>6, <1>7, <1>8, <1>9, <1>10, <1>11
  DEF PasskeyNext, EveryoneAtRest

(* Nobody moves the images while a registration's transaction is open.     *)
LEMMA WhileWriting ==
    ASSUME PasskeyReady, HalvesMeet, [PasskeyNext]_passkeyVars,
           NEW p \in RegFinishes, finishPc[p] \in InTransaction,
           ~RegistrationsFinishStep(p), ~ProcessRestarts
    PROVE  UNCHANGED <<db, view>>
<1>1. writer = p /\ p \notin LoginFinishes /\ p # None
  BY StoreAssumption DEF HalvesMeet, LockIsHeld
<1>2. ASSUME NEW r \in RegStarts, RegistrationsStartStep(r)
      PROVE  UNCHANGED <<db, view>>
  BY <1>1, <1>2
  DEF RegistrationsStartStep, StartArrives, StartProceeds, StartFails,
      RejectHandle, OpenSession, PersistRegistrationSession, PersistFails,
      RespondStart, Autocommit, storeVars
<1>3. ASSUME NEW o \in RegFinishes, RegistrationsFinishStep(o)
      PROVE  UNCHANGED <<db, view>>
  BY <1>1, <1>3, FinishStores
  DEF CommitRegistration, FirstWrite, NextWrite, Commit, Rollback, storeVars
<1>4. ASSUME NEW r \in LoginStarts, SessionsStartStep(r)
      PROVE  UNCHANGED <<db, view>>
  BY <1>1, <1>4
  DEF SessionsStartStep, LoginArrives, LoginProceeds, LoginFails,
      RejectLoginHandle, LoadUser, UserNotFound, LoadCredentials,
      OpenLoginSession, PersistLoginSession, LoadUserCredentialsFails,
      PersistLoginFails, RespondLogin, Autocommit, storeVars
<1>5. ASSUME NEW q \in LoginFinishes, SessionsFinishStep(q)
      PROVE  UNCHANGED <<db, view>>
  BY <1>1, <1>5, LoginStores
  DEF FirstWrite, NextWrite, Commit, Rollback, storeVars
<1>6. ASSUME NEW l \in Logouts, SessionsLogoutStep(l)
      PROVE  UNCHANGED <<db, view>>
  BY <1>1, <1>6
  DEF SessionsLogoutStep, BearerArrives, LogoutProceeds, LogoutFails,
      RejectBearer, AuthenticateLogout, AccessTokenInvalid, StampRevocation,
      RevokeUserSessions, RevokeFails, RespondLogout, Autocommit, storeVars
<1> QED
  BY <1>2, <1>3, <1>4, <1>5, <1>6
  DEF PasskeyNext, AuthenticatorStep, TimePasses, Tick, EveryoneAtRest,
      passkeyVars, storeVars

(* A registration is answered OK by its COMMIT, and its token pair stands. *)
LEMMA RegisteredStep ==
    ASSUME PasskeyReady, NEW p \in RegFinishes, RegistrationsFinishStep(p)
    PROVE  \/ /\ CommitRegistration(p) /\ UNCHANGED issued
              /\ p \notin Registered /\ Registered' = Registered \cup {p}
           \/ /\ ~CommitRegistration(p) /\ db' = db
              /\ Registered' = Registered
              /\ \A o \in Registered : issued'[o] = issued[o]
<1>1. FinishTypeOK /\ FinishReady(p)
  BY DEF PasskeyReady, RegistrationReady
<1>2. \A o \in RegFinishes \ {p} :
         finishReply'[o] = finishReply[o] /\ issued'[o] = issued[o]
  BY <1>1, FinishAlone DEF FinishUnmoved
<1> USE <1>1, NoneIsNoReply
    DEF FinishTypeOK, FinishReady, Answer, GoTo, FinishRunning, InTransaction
<1>3. CASE CommitRegistration(p)
  BY <1>2, <1>3 DEF CommitRegistration, Registered
<1>4. ASSUME ~CommitRegistration(p), finishReply[p] # "OK",
             finishReply'[p] # "OK"
      PROVE  /\ Registered' = Registered
             /\ \A o \in Registered : issued'[o] = issued[o]
  BY <1>2, <1>4 DEF Registered
<1>5. CASE RespondFinish(p)
  BY <1>5 DEF RespondFinish, CommitRegistration, Registered, storeVars
<1>6. CASE \/ RejectAttestation(p) \/ SessionNotFound(p) \/ SessionExpired(p)
           \/ AttestationInvalid(p) \/ VerifyAttestation(p)
           \/ LoadRegistrationSession(p) \/ IssueTokenPair(p)
  <2>1. /\ ~CommitRegistration(p) /\ db' = db
        /\ finishReply[p] # "OK" /\ finishReply'[p] # "OK"
    BY <1>6
    DEF RejectAttestation, SessionNotFound, SessionExpired, AttestationInvalid,
        VerifyAttestation, LoadRegistrationSession, IssueTokenPair,
        CommitRegistration, storeVars
  <2> QED
    BY <1>4, <2>1
<1>7. CASE \/ InsertUser(p) \/ InsertUserConflicts(p) \/ InsertCredential(p)
           \/ InsertCredentialConflicts(p) \/ InsertRefreshToken(p)
           \/ DeleteSession(p)
  <2>1. /\ ~CommitRegistration(p) /\ db' = db
        /\ finishReply[p] # "OK" /\ finishReply'[p] # "OK"
    BY <1>7, ConstraintTyped
    DEF InsertUser, InsertUserConflicts, InsertCredential,
        InsertCredentialConflicts, InsertRefreshToken, DeleteSession, FirstWrite,
        NextWrite, Rollback, CommitRegistration, storeVars
  <2> QED
    BY <1>4, <2>1
<1>8. ASSUME NEW f \in Faults, LoadFails(p, f) \/ WriteFails(p, f)
      PROVE  /\ ~CommitRegistration(p) /\ db' = db
             /\ finishReply[p] # "OK" /\ finishReply'[p] # "OK"
  <2>1. /\ finishPc[p] \in {"load", "insertUser"} \cup InTransaction
        /\ finishReply'[p] \in {"db_locked", "db_disk_full", "INTERNAL_ERROR"}
        /\ db' = db
    BY <1>8, ErrorTyped DEF LoadFails, WriteFails, Rollback, storeVars
  <2> QED
    BY <2>1 DEF CommitRegistration
<1>9. ASSUME NEW c, AcceptCommand(p, c)
      PROVE  /\ ~CommitRegistration(p) /\ db' = db
             /\ finishReply[p] # "OK" /\ finishReply'[p] # "OK"
  BY <1>9 DEF AcceptCommand, CommitRegistration, storeVars
<1> HIDE DEF FinishTypeOK, FinishReady, Answer, GoTo, FinishRunning, InTransaction
<1> QED
  BY <1>3, <1>4, <1>5, <1>6, <1>7, <1>8, <1>9
  DEF RegistrationsFinishStep, AttestationArrives, FinishArrives,
      FinishProceeds, FinishFails

(* A request of the finish slice builds its image statement by statement.  *)
LEMMA ImageStep ==
    ASSUME PasskeyReady, HalvesMeet, NEW p \in RegFinishes, ImageOf(p),
           RegistrationsFinishStep(p)
    PROVE  ImageOf(p)'
<1>1. /\ db \in Database /\ view \in Database
      /\ finishPc \in [RegFinishes -> FinishPcs]
  BY UsersOfCredentials DEF PasskeyReady, RegistrationReady, FinishTypeOK
<1> USE <1>1 DEF ImageOf, GoTo, UserOf, CredentialOf, RefreshTokenOf
<1>2. CASE InsertUser(p)
  <2>1. PICK row : row = UserOf(p)
    OBVIOUS
  <2>2. /\ db' = db /\ view' = InsertRow(db, "users", row)
        /\ finishPc'[p] = "insertCredential"
        /\ ~HandleTaken(db, loaded[p].handle)
        /\ UserOf(p)' = row /\ loaded' = loaded
    BY <1>2, <2>1 DEF InsertUser, FirstWrite
  <2> QED
    BY <2>2 DEF InsertRow, Database, HandleTaken
<1>3. CASE InsertCredential(p)
  <2>1. PICK row : row = CredentialOf(p)
    OBVIOUS
  <2>2. /\ db' = db /\ view' = InsertRow(view, "credentials", row)
        /\ finishPc[p] = "insertCredential"
        /\ finishPc'[p] = "insertRefreshToken"
        /\ ~CredentialExists(view, command[p].credential_id)
        /\ CredentialOf(p)' = row /\ UserOf(p)' = UserOf(p)
        /\ UNCHANGED <<loaded, command>>
    BY <1>3, <2>1 DEF InsertCredential, NextWrite
  <2> QED
    BY <2>2 DEF InsertRow, Database, HandleTaken, CredentialExists, InTransaction
<1>4. CASE InsertRefreshToken(p)
  <2>1. PICK row : row = RefreshTokenOf(p)
    OBVIOUS
  <2>2. /\ db' = db /\ view' = InsertRow(view, "refresh_tokens", row)
        /\ finishPc[p] = "insertRefreshToken" /\ finishPc'[p] = "deleteSession"
        /\ CredentialOf(p)' = CredentialOf(p) /\ UserOf(p)' = UserOf(p)
        /\ RefreshTokenOf(p)' = row
        /\ UNCHANGED <<loaded, command>>
    BY <1>4, <2>1 DEF InsertRefreshToken, NextWrite
  <2> QED
    BY <2>2 DEF InsertRow, Database, HandleTaken, CredentialExists, InTransaction
<1>5. CASE DeleteSession(p)
  <2>1. PICK id : id = loaded[p].id
    OBVIOUS
  <2>2. /\ db' = db /\ view' = DeleteByID(view, "registration_sessions", id)
        /\ finishPc[p] = "deleteSession" /\ finishPc'[p] = "commit"
        /\ CredentialOf(p)' = CredentialOf(p) /\ UserOf(p)' = UserOf(p)
        /\ RefreshTokenOf(p)' = RefreshTokenOf(p)
        /\ UNCHANGED <<loaded, command>>
    BY <1>5, <2>1 DEF DeleteSession, NextWrite
  <2> QED
    BY <2>2 DEF DeleteByID, Database, HandleTaken, CredentialExists, InTransaction
<1>6. CASE finishPc'[p] \notin InTransaction
  BY <1>6
<1>7. CASE FinishArrives(p)
  BY <1>6, <1>7
  DEF FinishArrives, RejectAttestation, AcceptCommand, Answer, InTransaction
<1>8. CASE \/ LoadRegistrationSession(p) \/ SessionNotFound(p)
           \/ VerifyAttestation(p) \/ SessionExpired(p)
           \/ AttestationInvalid(p) \/ IssueTokenPair(p)
           \/ InsertUserConflicts(p) \/ InsertCredentialConflicts(p)
           \/ CommitRegistration(p) \/ RespondFinish(p) \/ FinishFails(p)
  <2>1. finishPc'[p] \in {"check", "issue", "insertUser", "respond", "done", "lost"}
    BY <1>8
    DEF LoadRegistrationSession, SessionNotFound, VerifyAttestation,
        SessionExpired, AttestationInvalid, IssueTokenPair, InsertUserConflicts,
        InsertCredentialConflicts, CommitRegistration, RespondFinish,
        FinishFails, LoadFails, WriteFails, Answer
  <2> QED
    BY <1>6, <2>1 DEF InTransaction
<1> QED
  BY <1>2, <1>3, <1>4, <1>5, <1>7, <1>8
  DEF RegistrationsFinishStep, AttestationArrives, FinishProceeds

(* A registration signs with a count its authenticator reached, and mints  *)
(* its token pair in this process.                                         *)
LEMMA CountedStep ==
    ASSUME PasskeyReady, now <= MaxTime, NEW p \in RegFinishes,
           CountedAndIssued(p), RegistrationsFinishStep(p)
    PROVE  CountedAndIssued(p)'
<1>1. /\ UNCHANGED <<now, boots, counter>>
      /\ now \in Nat /\ MaxTime \in Nat /\ FinishTypeOK
  BY FinishStores, StoreAssumption
  DEF CommitRegistration, FirstWrite, NextWrite, Commit, Rollback, storeVars,
      RegistrationsFinishStep, authenticatorVars, PasskeyReady, LoginReady,
      TypeOK, StoreTypeOK, RegistrationReady
<1> USE <1>1 DEF FinishTypeOK, CountedAndIssued, Answer, GoTo, FinishRunning,
                 InTransaction
<1>2. ASSUME finishPc'[p] \notin FinishRunning \ {"respond"}
      PROVE  CountedAndIssued(p)'
  BY <1>2
<1>3. ASSUME UNCHANGED <<command, issued>>,
             finishPc[p] \in FinishRunning \ {"respond"},
             finishPc'[p] \in {"check", "issue"}
                \/ finishPc[p] \in {"insertUser"} \cup InTransaction
      PROVE  CountedAndIssued(p)'
  BY <1>3
<1>4. CASE AttestationArrives(p)
  <2>1. ASSUME NEW c, AcceptCommand(p, c)
        PROVE  CountedAndIssued(p)'
    BY <1>4, <2>1 DEF AttestationArrives, AcceptCommand
  <2>2. CASE RejectAttestation(p)
    BY <2>2 DEF RejectAttestation
  <2> QED
    BY <1>4, <2>1, <2>2 DEF AttestationArrives, FinishArrives
<1>5. CASE IssueTokenPair(p)
  <2>1. issued'[p] = GenerateTokenPair(now, boots) /\ UNCHANGED command
        /\ finishPc[p] = "issue"
    BY <1>5 DEF IssueTokenPair
  <2>2. \E t \in 0 .. MaxTime :
           t <= now /\ issued'[p] = GenerateTokenPair(t, boots')
    BY <2>1
  <2> QED
    BY <2>1, <2>2
<1>6. CASE LoadRegistrationSession(p) \/ VerifyAttestation(p)
  BY <1>3, <1>6 DEF LoadRegistrationSession, VerifyAttestation
<1>7. CASE \/ InsertUser(p) \/ InsertCredential(p) \/ InsertRefreshToken(p)
           \/ DeleteSession(p)
  BY <1>3, <1>7
  DEF InsertUser, InsertCredential, InsertRefreshToken, DeleteSession
<1>8. CASE \/ SessionNotFound(p) \/ SessionExpired(p) \/ AttestationInvalid(p)
           \/ InsertUserConflicts(p) \/ InsertCredentialConflicts(p)
           \/ CommitRegistration(p) \/ RespondFinish(p) \/ FinishFails(p)
  BY <1>2, <1>8
  DEF SessionNotFound, SessionExpired, AttestationInvalid, InsertUserConflicts,
      InsertCredentialConflicts, CommitRegistration, RespondFinish, FinishFails,
      LoadFails, WriteFails
<1> QED
  BY <1>4, <1>5, <1>6, <1>7, <1>8 DEF RegistrationsFinishStep, FinishProceeds

(* What it has stays so while it does not move.                            *)
LEMMA CountedFrame ==
    ASSUME NEW p \in RegFinishes, FinishReady(p), CountedAndIssued(p),
           FinishUnmoved(p), now \in Nat, now' \in Nat, now <= now',
           finishPc'[p] # "killed" => boots' = boots,
           counter \in [CredIDs -> Nat], counter' \in [CredIDs -> Nat],
           \A k \in CredIDs : counter[k] <= counter'[k]
    PROVE  CountedAndIssued(p)'
<1> USE DEF FinishUnmoved, FinishRunning, InTransaction
<1>1. ASSUME finishPc'[p] \in FinishRunning \ {"respond"}
      PROVE  command'[p].sign_count <= counter'[command'[p].credential_id]
  <2>1. /\ command[p] \in RegistrationFinishCommand /\ command'[p] = command[p]
        /\ command[p].sign_count <= counter[command[p].credential_id]
    BY <1>1 DEF FinishReady, CountedAndIssued
  <2>2. command[p].sign_count \in Nat /\ command[p].credential_id \in CredIDs
    BY <2>1, StoreAssumption DEF RegistrationFinishCommand
  <2> QED
    BY <2>1, <2>2
<1>2. ASSUME finishPc'[p] \in {"insertUser"} \cup InTransaction
      PROVE  \E t \in 0 .. MaxTime :
                t <= now' /\ issued'[p] = GenerateTokenPair(t, boots')
  <2>1. PICK t \in 0 .. MaxTime :
           t <= now /\ issued[p] = GenerateTokenPair(t, boots)
    BY <1>2 DEF CountedAndIssued
  <2>2. t <= now' /\ issued'[p] = GenerateTokenPair(t, boots')
    BY <1>2, <2>1, StoreAssumption
  <2> QED
    BY <2>2
<1> QED
  BY <1>1, <1>2 DEF CountedAndIssued

(* Users come from registrations only.                                     *)
LEMMA UsersStay ==
    ASSUME PasskeyReady, PasskeyReady', HalvesMeet, [PasskeyNext]_passkeyVars,
           \A p \in RegFinishes : ~RegistrationsFinishStep(p)
    PROVE  db'.users = db.users
<1>1. /\ db \in Database /\ db' \in Database
  BY DEF PasskeyReady, LoginReady, TypeOK, StoreTypeOK
<1>2. ASSUME UNCHANGED RegistrationHalf!vars
      PROVE  db'.users = db.users
  <2>1. PICK c, e : c = command /\ e = command'
    OBVIOUS
  <2>2. Seen(db, c) = Seen(db', e)
    BY <1>2, <2>1, RegisteringIsSeen
    DEF RegistrationHalf!vars, RegistrationHalf!storeVars
  <2> QED
    BY <1>1, <2>2, OwnAreSeen
<1>3. ASSUME NEW r \in RegStarts, RegistrationsStartStep(r)
      PROVE  db'.users = db.users
  BY <1>1, <1>3
  DEF RegistrationsStartStep, StartArrives, StartProceeds, StartFails,
      RejectHandle, OpenSession, PersistRegistrationSession, PersistFails,
      RespondStart, Autocommit, InsertRow, Database, storeVars
<1> QED
  BY <1>2, <1>3, LoginStartRegistersNothing, LoginFinishRegistersNothing,
     LogoutRegistersNothing, OthersRegister
  DEF PasskeyNext, TimePasses, Tick, ProcessRestarts, Reboot, EveryoneAtRest

(* EnrolmentsHold is kept by every step.                                   *)
LEMMA EnrolmentsStep ==
    ASSUME PasskeyReady, PasskeyReady', HalvesMeet, EnrolmentsHold,
           [PasskeyNext]_passkeyVars
    PROVE  EnrolmentsHold'
<1>1. /\ now <= now' /\ now' <= MaxTime
      /\ boots' = boots \/ ProcessRestarts
      /\ \A k \in CredIDs : counter[k] <= counter'[k]
  BY TimeAndCounters DEF EnrolmentsHold
<1>2. /\ now \in Nat /\ now' \in Nat /\ FinishTypeOK
      /\ counter \in [CredIDs -> Nat] /\ counter' \in [CredIDs -> Nat]
      /\ \A p \in RegFinishes : FinishReady(p)
  BY DEF PasskeyReady, LoginReady, TypeOK, StoreTypeOK, AuthenticatorTypeOK,
         RegistrationReady
<1>3. /\ \A u \in db.users : u.id \in Registered
      /\ \A p \in RegFinishes : ImageOf(p) /\ CountedAndIssued(p)
  BY DEF EnrolmentsHold
<1>4. ASSUME NEW p \in RegFinishes, FinishUnmoved(p), ~RegistrationsFinishStep(p)
      PROVE  ImageOf(p)' /\ CountedAndIssued(p)'
  <2>1. ProcessRestarts => finishPc'[p] \notin FinishRunning
    BY <1>2
    DEF ProcessRestarts, FinishKilled, FinishTypeOK, FinishRunning, InTransaction
  <2>2. finishPc'[p] \in InTransaction => UNCHANGED <<db, view>>
    BY <1>4, <2>1, WhileWriting DEF FinishUnmoved, FinishRunning, InTransaction
  <2>3. ImageOf(p)'
    BY <1>3, <1>4, <2>2, ImageFrame
  <2>4. CASE ~ProcessRestarts
    BY <1>1, <1>2, <1>3, <1>4, <2>3, <2>4, CountedFrame
  <2>5. CASE ProcessRestarts
    BY <2>1, <2>3, <2>5 DEF CountedAndIssued, FinishRunning, InTransaction
  <2> QED
    BY <2>4, <2>5
<1>5. ASSUME NEW p \in RegFinishes, RegistrationsFinishStep(p)
      PROVE  EnrolmentsHold'
  <2>1. ImageOf(p)' /\ CountedAndIssued(p)'
    BY <1>3, <1>5, ImageStep, CountedStep DEF EnrolmentsHold
  <2>2. \A o \in RegFinishes \ {p} : ImageOf(o)' /\ CountedAndIssued(o)'
    <3> TAKE o \in RegFinishes \ {p}
    <3>1. FinishUnmoved(o) /\ finishPc'[o] = finishPc[o]
      BY <1>2, <1>5, FinishAlone
    <3>2. finishPc[o] \in InTransaction => UNCHANGED <<db, view>>
      <4> SUFFICES ASSUME finishPc[o] \in InTransaction
                   PROVE  UNCHANGED <<db, view>>
        OBVIOUS
      <4>1. writer = o /\ o # None
        BY StoreAssumption DEF HalvesMeet, LockIsHeld
      <4> QED
        BY <1>5, <4>1, FinishStores
        DEF CommitRegistration, FirstWrite, NextWrite, Commit, Rollback, storeVars
    <3>3. UNCHANGED boots
      BY <1>5, FinishStores
      DEF CommitRegistration, FirstWrite, NextWrite, Commit, Rollback, storeVars
    <3>4. ImageOf(o)'
      BY <1>3, <3>1, <3>2, ImageFrame
    <3>5. CountedAndIssued(o)'
      BY <1>1, <1>2, <1>3, <3>1, <3>3, CountedFrame
    <3> QED
      BY <3>4, <3>5
  <2>3. \A u \in db'.users : u.id \in Registered'
    <3>1. CASE CommitRegistration(p)
      <4>1. db'.users = db.users \cup {UserOf(p)}
        BY <1>3, <3>1
        DEF CommitRegistration, Commit, ImageOf, InTransaction
      <4>2. UserOf(p).id = p
        BY DEF UserOf
      <4> QED
        BY <1>3, <1>5, <3>1, <4>1, <4>2, RegisteredStep
    <3>2. CASE ~CommitRegistration(p)
      BY <1>3, <1>5, <3>2, RegisteredStep
    <3> QED
      BY <3>1, <3>2
  <2> QED
    BY <1>1, <2>1, <2>2, <2>3 DEF EnrolmentsHold
<1>6. ASSUME \A p \in RegFinishes : ~RegistrationsFinishStep(p)
      PROVE  EnrolmentsHold'
  <2>1. \A p \in RegFinishes : FinishUnmoved(p)
    <3>1. CASE UNCHANGED finishVars
      BY <3>1 DEF finishVars, FinishUnmoved
    <3> QED
      BY <1>6, <3>1, RestartUnmoved
      DEF PasskeyNext, RegistrationsStartStep, SessionsStartStep,
          SessionsFinishStep, SessionsLogoutStep, AuthenticatorStep, TimePasses,
          EveryoneAtRest, passkeyVars
  <2>2. Registered' = Registered
    BY <2>1 DEF FinishUnmoved, Registered
  <2>3. db'.users = db.users
    BY <1>6, UsersStay
  <2> QED
    BY <1>1, <1>3, <1>4, <1>6, <2>1, <2>2, <2>3 DEF EnrolmentsHold
<1> QED
  BY <1>5, <1>6

----------------------------------------------------------------------------
(* Logins and logouts, as the whole service has them.                      *)

(* SigningIn hides the sessions of registrations and nothing else.         *)
LEMMA SigningInIs ==
    ASSUME NEW d \in Database
    PROVE  /\ SigningIn(d).users = d.users
           /\ SigningIn(d).credentials = d.credentials
           /\ SigningIn(d).refresh_tokens = d.refresh_tokens
           /\ SigningIn(d).login_sessions = d.login_sessions
           /\ SigningIn(d).registration_sessions = {}
BY DEF SigningIn, Database

(* Their statements are what Sessions takes them for, and those on the     *)
(* sessions of registrations do not show.                                  *)
LEMMA StatementsSignIn ==
    ASSUME NEW d \in Database
    PROVE  /\ \A row : SessionsHalf!InsertRow(SigningIn(d), "login_sessions", row)
                          = SigningIn(InsertRow(d, "login_sessions", row))
           /\ \A row : SessionsHalf!InsertRow(SigningIn(d), "refresh_tokens", row)
                          = SigningIn(InsertRow(d, "refresh_tokens", row))
           /\ \A id : SessionsHalf!DeleteByID(SigningIn(d), "login_sessions", id)
                         = SigningIn(DeleteByID(d, "login_sessions", id))
           /\ \A c, n : SessionsHalf!SetSignCount(SigningIn(d), c, n)
                           = SigningIn(SetSignCount(d, c, n))
           /\ \A u, s : SessionsHalf!RevokeTokens(SigningIn(d), u, s)
                           = SigningIn(RevokeTokens(d, u, s))
           /\ \A row : SigningIn(InsertRow(d, "registration_sessions", row))
                          = SigningIn(d)
BY DEF SessionsHalf!InsertRow, InsertRow, SessionsHalf!DeleteByID, DeleteByID,
       SessionsHalf!SetSignCount, SetSignCount, SessionsHalf!RevokeTokens,
       RevokeTokens, SigningIn, Database

(* The image that a login may look at, before and after a step.            *)
LEMMA SigningInImages ==
    /\ SigningIn(db)' = SigningIn(db')
    /\ SigningIn(ImageFor(LoginFinishes))
          = IF writer \in LoginFinishes THEN SigningIn(view) ELSE SigningIn(db)
    /\ SigningIn(ImageFor(LoginFinishes))'
          = IF writer' \in LoginFinishes THEN SigningIn(view') ELSE SigningIn(db')
BY DEF SigningIn, ImageFor

(* What a step does to the store, as logins see it: a transaction of a     *)
(* registration is none.                                                   *)
LEMMA StoreRests ==
    /\ UNCHANGED storeVars => UNCHANGED SessionsHalf!storeVars
    /\ Tick => SessionsHalf!Tick
    /\ Reboot => SessionsHalf!Reboot
BY SigningInImages, StoreAssumption
DEF WriterFor, storeVars, SessionsHalf!storeVars, Tick, SessionsHalf!Tick,
    Reboot, SessionsHalf!Reboot

(* A statement outside of transactions is one for Sessions.                *)
LEMMA AutocommitSignsIn ==
    ASSUME NEW d, Autocommit(d)
    PROVE  SessionsHalf!Autocommit(SigningIn(d))
BY SigningInImages, StoreAssumption
DEF WriterFor, Autocommit, SessionsHalf!Autocommit

(* The statements of a login's transaction are those of one for Sessions.  *)
LEMMA SessionsStore ==
    ASSUME NEW d, NEW q \in LoginFinishes
    PROVE  /\ FirstWrite(q, d) => SessionsHalf!FirstWrite(q, SigningIn(d))
           /\ NextWrite(q, d) =>
                 /\ SigningIn(ImageFor(LoginFinishes)) = SigningIn(view)
                 /\ SessionsHalf!NextWrite(q, SigningIn(d))
           /\ Commit(q) => SessionsHalf!Commit(q)
           /\ Rollback(q) => SessionsHalf!Rollback(q)
<1> USE SigningInImages, StoreAssumption DEF WriterFor
<1>1. FirstWrite(q, d) => SessionsHalf!FirstWrite(q, SigningIn(d))
  BY DEF FirstWrite, SessionsHalf!FirstWrite
<1>2. NextWrite(q, d) =>
         /\ SigningIn(ImageFor(LoginFinishes)) = SigningIn(view)
         /\ SessionsHalf!NextWrite(q, SigningIn(d))
  BY DEF NextWrite, SessionsHalf!NextWrite
<1>3. Commit(q) => SessionsHalf!Commit(q)
  BY DEF Commit, SessionsHalf!Commit
<1>4. Rollback(q) => SessionsHalf!Rollback(q)
  BY DEF Rollback, SessionsHalf!Rollback
<1> QED
  BY <1>1, <1>2, <1>3, <1>4

(* A step of the login slices is the step of that name of Sessions ...     *)
LEMMA LoginSignsIn ==
    ASSUME PasskeyReady, NEW r \in LoginStarts, LoginStep(r)
    PROVE  SessionsHalf!LoginStep(r)
<1> USE DEF AnswerLogin, SessionsHalf!AnswerLogin, LoginGoes, SessionsHalf!LoginGoes
<1>1. /\ db \in Database
      /\ SigningIn(db).users = db.users
      /\ SigningIn(db).credentials = db.credentials
  BY SigningInIs DEF PasskeyReady, LoginReady, TypeOK, StoreTypeOK
<1>2. UNCHANGED storeVars => UNCHANGED SessionsHalf!storeVars
  BY StoreRests
<1>3. RejectLoginHandle(r) => SessionsHalf!RejectLoginHandle(r)
  BY <1>2 DEF RejectLoginHandle, SessionsHalf!RejectLoginHandle
<1>4. ASSUME NEW h \in Handles, LoadUser(r, h)
      PROVE  SessionsHalf!LoadUser(r, h)
  BY <1>1, <1>2, <1>4 DEF LoadUser, SessionsHalf!LoadUser
<1>5. ASSUME NEW h \in Handles, UserNotFound(r, h)
      PROVE  SessionsHalf!UserNotFound(r, h)
  BY <1>1, <1>2, <1>5
  DEF UserNotFound, SessionsHalf!UserNotFound, HandleTaken, SessionsHalf!HandleTaken
<1>6. ASSUME LoadCredentials(r)
      PROVE  SessionsHalf!LoadCredentials(r)
  <2>1. SessionsHalf!CredentialsOf(user[r]) = CredentialsOf(user[r])
    BY <1>1 DEF CredentialsOf, SessionsHalf!CredentialsOf
  <2> QED
    BY <1>2, <1>6, <2>1 DEF LoadCredentials, SessionsHalf!LoadCredentials
<1>7. ASSUME OpenLoginSession(r)
      PROVE  SessionsHalf!OpenLoginSession(r)
  BY <1>2, <1>7
  DEF OpenLoginSession, SessionsHalf!OpenLoginSession, NewLoginSession,
      SessionsHalf!NewLoginSession
<1>8. ASSUME PersistLoginSession(r)
      PROVE  SessionsHalf!PersistLoginSession(r)
  <2>1. PICK row : row = LoginSessionRowOf(r)
    OBVIOUS
  <2>2. SessionsHalf!LoginSessionRowOf(r) = row
    BY <2>1 DEF LoginSessionRowOf, SessionsHalf!LoginSessionRowOf, Unix,
                SessionsHalf!Unix
  <2>3. PICK d : d = InsertRow(db, "login_sessions", row)
    OBVIOUS
  <2>4. SessionsHalf!InsertRow(SigningIn(db), "login_sessions", row)
           = SigningIn(d)
    BY <1>1, <2>3, StatementsSignIn
  <2>5. SessionsHalf!Autocommit(SigningIn(d))
    BY <1>8, <2>1, <2>3, AutocommitSignsIn DEF PersistLoginSession
  <2> QED
    BY <1>8, <2>2, <2>4, <2>5
    DEF PersistLoginSession, SessionsHalf!PersistLoginSession
<1>9. ASSUME RespondLogin(r)
      PROVE  SessionsHalf!RespondLogin(r)
  BY <1>2, <1>9 DEF RespondLogin, SessionsHalf!RespondLogin
<1>10. ASSUME NEW f \in Faults, LoadUserCredentialsFails(r, f)
       PROVE  SessionsHalf!LoadUserCredentialsFails(r, f)
  BY <1>2, <1>10
  DEF LoadUserCredentialsFails, SessionsHalf!LoadUserCredentialsFails, ReadError,
      SessionsHalf!ReadError
<1>11. ASSUME NEW f \in Faults, PersistLoginFails(r, f)
       PROVE  SessionsHalf!PersistLoginFails(r, f)
  BY <1>2, <1>11
  DEF PersistLoginFails, SessionsHalf!PersistLoginFails, WriteError,
      SessionsHalf!WriteError
<1>12. UNCHANGED <<SessionsHalf!assertVars, SessionsHalf!authenticatorVars>>
  BY DEF LoginStep, assertVars, SessionsHalf!assertVars, authenticatorVars,
         SessionsHalf!authenticatorVars
<1>13. \/ SessionsHalf!LoginArrives(r)
       \/ SessionsHalf!LoginProceeds(r)
       \/ SessionsHalf!LoginFails(r)
  <2> USE DEF SessionsHalf!LoginArrives, SessionsHalf!LoginProceeds,
              SessionsHalf!LoginFails
  <2>1. CASE LoginArrives(r)
    BY <1>3, <1>4, <1>5, <2>1 DEF LoginArrives
  <2>2. CASE LoginProceeds(r)
    BY <1>6, <1>7, <1>8, <1>9, <2>2 DEF LoginProceeds
  <2>3. CASE LoginFails(r)
    BY <1>10, <1>11, <2>3 DEF LoginFails
  <2> QED
    BY <2>1, <2>2, <2>3 DEF LoginStep
<1> QED
  BY <1>12, <1>13 DEF SessionsHalf!LoginStep

(* ... here of its second request ...                                      *)
LEMMA AssertSignsIn ==
    ASSUME PasskeyReady, NEW q \in LoginFinishes, AssertStep(q)
    PROVE  SessionsHalf!AssertStep(q)
<1> USE DEF AnswerAssertion, SessionsHalf!AnswerAssertion, AssertGoes,
            SessionsHalf!AssertGoes
<1>1. /\ LoginReady /\ db \in Database /\ view \in Database
      /\ SigningIn(db).users = db.users
      /\ SigningIn(db).credentials = db.credentials
      /\ SigningIn(db).login_sessions = db.login_sessions
  BY SigningInIs
  DEF PasskeyReady, LoginReady, TypeOK, StoreTypeOK
<1>2. UNCHANGED storeVars => UNCHANGED SessionsHalf!storeVars
  BY StoreRests
<1>3. RejectAssertion(q) => SessionsHalf!RejectAssertion(q)
  BY <1>2 DEF RejectAssertion, SessionsHalf!RejectAssertion
<1>4. ASSUME NEW c, AcceptAssertion(q, c)
      PROVE  SessionsHalf!AcceptAssertion(q, c)
  BY <1>2, <1>4
  DEF AcceptAssertion, SessionsHalf!AcceptAssertion, Challenged,
      SessionsHalf!Challenged
<1>5. LoadLoginSession(q) => SessionsHalf!LoadLoginSession(q)
  BY <1>1, <1>2 DEF LoadLoginSession, SessionsHalf!LoadLoginSession
<1>6. LoginSessionNotFound(q) => SessionsHalf!LoginSessionNotFound(q)
  BY <1>1, <1>2 DEF LoginSessionNotFound, SessionsHalf!LoginSessionNotFound
<1>7. NewFreshLoginSession(q) => SessionsHalf!NewFreshLoginSession(q)
  BY <1>2
  DEF NewFreshLoginSession, SessionsHalf!NewFreshLoginSession, Fresh,
      SessionsHalf!Fresh, FromUnix, SessionsHalf!FromUnix
<1>8. LoginSessionExpired(q) => SessionsHalf!LoginSessionExpired(q)
  BY <1>2
  DEF LoginSessionExpired, SessionsHalf!LoginSessionExpired, Fresh,
      SessionsHalf!Fresh, FromUnix, SessionsHalf!FromUnix
<1>9. LoadCredential(q) => SessionsHalf!LoadCredential(q)
  BY <1>1, <1>2
  DEF LoadCredential, SessionsHalf!LoadCredential, OwnCredential,
      SessionsHalf!OwnCredential
<1>10. CredentialNotFound(q) => SessionsHalf!CredentialNotFound(q)
  BY <1>1, <1>2
  DEF CredentialNotFound, SessionsHalf!CredentialNotFound, OwnCredential,
      SessionsHalf!OwnCredential
<1>11. LoadOwner(q) => SessionsHalf!LoadOwner(q)
  BY <1>1, <1>2 DEF LoadOwner, SessionsHalf!LoadOwner
<1>12. VerifyAssertion(q) => SessionsHalf!VerifyAssertion(q)
  BY <1>2
  DEF VerifyAssertion, SessionsHalf!VerifyAssertion, AssertionVerified,
      SessionsHalf!AssertionVerified, GenerateTokenPair,
      SessionsHalf!GenerateTokenPair, Unix, SessionsHalf!Unix
<1>13. AssertionInvalid(q) => SessionsHalf!AssertionInvalid(q)
  BY <1>2
  DEF AssertionInvalid, SessionsHalf!AssertionInvalid, AssertionVerified,
      SessionsHalf!AssertionVerified
<1>14. ASSUME UpdateSignCount(q)
       PROVE  SessionsHalf!UpdateSignCount(q)
  <2>1. PICK c, n : c = target[q].credential_id
                      /\ n = assertion[q].signed.sign_count
    OBVIOUS
  <2>2. PICK d : d = SetSignCount(db, c, n)
    OBVIOUS
  <2>3. SessionsHalf!SetSignCount(SigningIn(db), c, n) = SigningIn(d)
    BY <1>1, <2>2, StatementsSignIn
  <2>4. SessionsHalf!FirstWrite(q, SigningIn(d))
    BY <1>14, <2>1, <2>2, SessionsStore DEF UpdateSignCount
  <2> QED
    BY <1>14, <2>1, <2>3, <2>4 DEF UpdateSignCount, SessionsHalf!UpdateSignCount
<1>15. ASSUME InsertLoginToken(q)
       PROVE  SessionsHalf!InsertLoginToken(q)
  <2>1. PICK row : row = LoginTokenOf(q) /\ row = SessionsHalf!LoginTokenOf(q)
    BY DEF LoginTokenOf, SessionsHalf!LoginTokenOf
  <2>2. PICK d : d = InsertRow(view, "refresh_tokens", row)
    OBVIOUS
  <2>3. SessionsHalf!InsertRow(SigningIn(view), "refresh_tokens", row)
           = SigningIn(d)
    BY <1>1, <2>2, StatementsSignIn
  <2>4. /\ SigningIn(ImageFor(LoginFinishes)) = SigningIn(view)
        /\ SessionsHalf!NextWrite(q, SigningIn(d))
    BY <1>15, <2>1, <2>2, SessionsStore DEF InsertLoginToken
  <2> QED
    BY <1>15, <2>1, <2>3, <2>4
    DEF InsertLoginToken, SessionsHalf!InsertLoginToken
<1>16. ASSUME DeleteLoginSession(q)
       PROVE  SessionsHalf!DeleteLoginSession(q)
  <2>1. PICK id : id = loginLoaded[q].id
    OBVIOUS
  <2>2. PICK d : d = DeleteByID(view, "login_sessions", id)
    OBVIOUS
  <2>3. SessionsHalf!DeleteByID(SigningIn(view), "login_sessions", id)
           = SigningIn(d)
    BY <1>1, <2>2, StatementsSignIn
  <2>4. /\ SigningIn(ImageFor(LoginFinishes)) = SigningIn(view)
        /\ SessionsHalf!NextWrite(q, SigningIn(d))
    BY <1>16, <2>1, <2>2, SessionsStore DEF DeleteLoginSession
  <2> QED
    BY <1>16, <2>1, <2>3, <2>4
    DEF DeleteLoginSession, SessionsHalf!DeleteLoginSession
<1>17. CommitLogin(q) => SessionsHalf!CommitLogin(q)
  BY SessionsStore DEF CommitLogin, SessionsHalf!CommitLogin
<1>18. RespondAssertion(q) => SessionsHalf!RespondAssertion(q)
  BY <1>2 DEF RespondAssertion, SessionsHalf!RespondAssertion
<1>19. ASSUME NEW f \in Faults, LoadAssertionFails(q, f)
       PROVE  SessionsHalf!LoadAssertionFails(q, f)
  BY <1>2, <1>19
  DEF LoadAssertionFails, SessionsHalf!LoadAssertionFails, ReadError,
      SessionsHalf!ReadError
<1>20. ASSUME NEW f \in Faults, FinishLoginFails(q, f)
       PROVE  SessionsHalf!FinishLoginFails(q, f)
  BY <1>20, SessionsStore
  DEF FinishLoginFails, SessionsHalf!FinishLoginFails, WriteError,
      SessionsHalf!WriteError, LoginTransaction, SessionsHalf!LoginTransaction
<1>21. UNCHANGED <<SessionsHalf!loginVars, SessionsHalf!authenticatorVars>>
  BY DEF AssertStep, loginVars, SessionsHalf!loginVars, authenticatorVars,
         SessionsHalf!authenticatorVars
<1>22. AssertArrives(q) => SessionsHalf!AssertArrives(q)
  BY <1>3, <1>4 DEF AssertArrives, SessionsHalf!AssertArrives
<1>23. AssertProceeds(q) => SessionsHalf!AssertProceeds(q)
  BY <1>5, <1>6, <1>7, <1>8, <1>9, <1>10, <1>11, <1>12, <1>13, <1>14, <1>15,
     <1>16, <1>17, <1>18
  DEF AssertProceeds, SessionsHalf!AssertProceeds
<1>24. AssertFails(q) => SessionsHalf!AssertFails(q)
  BY <1>19, <1>20 DEF AssertFails, SessionsHalf!AssertFails
<1> QED
  BY <1>21, <1>22, <1>23, <1>24 DEF AssertStep, SessionsHalf!AssertStep

(* ... and so is one of a logout.                                          *)
LEMMA LogoutSignsOut ==
    ASSUME PasskeyReady, NEW l \in Logouts, SessionsLogoutStep(l)
    PROVE  SessionsHalf!LogoutStep(l)
<1> USE DEF AnswerLogout, SessionsHalf!AnswerLogout, LogoutGoes,
            SessionsHalf!LogoutGoes, VerifyWith, SessionsHalf!VerifyWith
<1>1. db \in Database
  BY UsersOfCredentials
<1>2. UNCHANGED storeVars => UNCHANGED SessionsHalf!storeVars
  BY StoreRests
<1>3. /\ UNCHANGED <<finishVars, EnrolledPairs>>
      /\ UNCHANGED <<SessionsHalf!loginVars, SessionsHalf!assertVars,
                     SessionsHalf!authenticatorVars>>
  BY DEF SessionsLogoutStep, finishVars, EnrolledPairs, Registered, loginVars,
         SessionsHalf!loginVars, assertVars, SessionsHalf!assertVars,
         authenticatorVars, SessionsHalf!authenticatorVars
<1>4. RejectBearer(l) => SessionsHalf!RejectBearer(l)
  BY <1>2 DEF RejectBearer, SessionsHalf!RejectBearer
<1>5. ASSUME NEW g \in Answered
      PROVE  /\ g \in SessionsHalf!Holding
             /\ SessionsHalf!AccessTokenOf(g)
                   = AccessTokenIn(PairIn(g), g, IssuedTo(g))
  <2>1. CASE g \in Registered
    <3>1. g \in RegFinishes /\ issued[g] # None
      BY <2>1, TokensAssumption
      DEF Registered, PasskeyReady, RegistrationReady, FinishReady
    <3>2. EnrolledPairs[g] = issued[g]
      BY <2>1, <3>1 DEF EnrolledPairs
    <3> QED
      BY <3>1, <3>2
      DEF SessionsHalf!Holding, SessionsHalf!AccessTokenOf, SessionsHalf!PairOf,
          SessionsHalf!OwnerOf, PairIn, IssuedTo, AccessTokenIn,
          SessionsHalf!AccessTokenIn
  <2>2. CASE g \in SignedIn /\ assertPc[g] = "done"
    <3>1. g \in LoginFinishes /\ g \notin RegFinishes /\ assertReply[g] = "OK"
      BY <2>2, StoreAssumption DEF SignedIn
    <3> QED
      BY <2>2, <3>1
      DEF SessionsHalf!Holding, SessionsHalf!AccessTokenOf, SessionsHalf!PairOf,
          SessionsHalf!OwnerOf, PairIn, IssuedTo, AccessTokenIn,
          SessionsHalf!AccessTokenIn
  <2> QED
    BY <2>1, <2>2 DEF Answered
<1>6. ASSUME NEW token
      PROVE  /\ AuthenticateLogout(l, token)
                   => SessionsHalf!AuthenticateLogout(l, token)
             /\ AccessTokenInvalid(l, token)
                   => SessionsHalf!AccessTokenInvalid(l, token)
  BY <1>2
  DEF AuthenticateLogout, SessionsHalf!AuthenticateLogout, AccessTokenInvalid,
      SessionsHalf!AccessTokenInvalid, VerifyAccessToken,
      SessionsHalf!VerifyAccessToken, Fresh, SessionsHalf!Fresh, FromUnix,
      SessionsHalf!FromUnix
<1>7. StampRevocation(l) => SessionsHalf!StampRevocation(l)
  BY <1>2 DEF StampRevocation, SessionsHalf!StampRevocation
<1>8. ASSUME RevokeUserSessions(l)
      PROVE  SessionsHalf!RevokeUserSessions(l)
  <2>1. PICK u, s : /\ u = revocation[l].user_id
                    /\ s = Unix(revocation[l].now)
    OBVIOUS
  <2>2. PICK d : d = RevokeTokens(db, u, s)
    OBVIOUS
  <2>3. SessionsHalf!RevokeTokens(SigningIn(db), u, s) = SigningIn(d)
    BY <1>1, <2>2, StatementsSignIn
  <2>4. SessionsHalf!Autocommit(SigningIn(d))
    BY <1>8, <2>1, <2>2, AutocommitSignsIn DEF RevokeUserSessions
  <2>5. s = SessionsHalf!Unix(revocation[l].now)
    BY <2>1 DEF Unix, SessionsHalf!Unix
  <2> QED
    BY <1>8, <2>1, <2>3, <2>4, <2>5
    DEF RevokeUserSessions, SessionsHalf!RevokeUserSessions
<1>9. ASSUME NEW f \in Faults, RevokeFails(l, f)
      PROVE  SessionsHalf!RevokeFails(l, f)
  BY <1>2, <1>9
  DEF RevokeFails, SessionsHalf!RevokeFails, WriteError, SessionsHalf!WriteError
<1>10. RespondLogout(l) => SessionsHalf!RespondLogout(l)
  BY <1>2 DEF RespondLogout, SessionsHalf!RespondLogout
<1>11. BearerArrives(l) => SessionsHalf!LogoutArrives(l)
  <2>1. ASSUME NEW g \in Answered, NEW token,
               token = AccessTokenIn(PairIn(g), g, IssuedTo(g)),
               AuthenticateLogout(l, token) \/ AccessTokenInvalid(l, token)
        PROVE  SessionsHalf!LogoutArrives(l)
    BY <1>5, <1>6, <2>1 DEF SessionsHalf!LogoutArrives
  <2>2. RejectBearer(l) => SessionsHalf!LogoutArrives(l)
    BY <1>4 DEF SessionsHalf!LogoutArrives
  <2> QED
    BY <2>1, <2>2 DEF BearerArrives
<1>12. LogoutProceeds(l) => SessionsHalf!LogoutProceeds(l)
  BY <1>7, <1>8, <1>10 DEF LogoutProceeds, SessionsHalf!LogoutProceeds
<1>13. LogoutFails(l) => SessionsHalf!LogoutFails(l)
  BY <1>9 DEF LogoutFails, SessionsHalf!LogoutFails
<1> QED
  BY <1>3, <1>11, <1>12, <1>13 DEF SessionsLogoutStep, SessionsHalf!LogoutStep

(* COMMIT of a registration is the step that Sessions takes it for.        *)
LEMMA CommitEnrolls ==
    ASSUME PasskeyReady, HalvesMeet, EnrolmentsHold, NEW p \in RegFinishes,
           RegistrationsFinishStep(p), CommitRegistration(p)
    PROVE  SessionsHalf!Enroll
<1>1. /\ db \in Database /\ view \in Database
      /\ finishPc[p] = "commit" /\ FinishReady(p)
      /\ ImageOf(p) /\ CountedAndIssued(p)
      /\ now \in Nat /\ MaxTime \in Nat
  BY UsersOfCredentials, StoreAssumption
  DEF CommitRegistration, PasskeyReady, RegistrationReady, LoginReady, TypeOK,
      StoreTypeOK, EnrolmentsHold
<1>2. /\ command[p] \in RegistrationFinishCommand
      /\ loaded[p] \in RegSessionRow
      /\ command[p].sign_count <= counter[command[p].credential_id]
  BY <1>1 DEF FinishReady, FinishRunning, InTransaction, CountedAndIssued
<1>3. PICK t \in 0 .. MaxTime : t <= now /\ issued[p] = GenerateTokenPair(t, boots)
  BY <1>1 DEF CountedAndIssued, InTransaction
<1>4. PICK h \in Handles, k \in CredIDs, n \in SignCounts :
         /\ h = loaded[p].handle
         /\ k = command[p].credential_id
         /\ n = command[p].sign_count
  BY <1>2 DEF RegSessionRow, RegistrationFinishCommand
<1>5. PICK e : e = GenerateTokenPair(t, boots).refresh_exp
  OBVIOUS
<1>6. /\ SessionsHalf!GenerateTokenPair(t, boots).refresh_exp = e
      /\ SessionsHalf!GenerateTokenPair(t, boots) = issued[p]
  BY <1>3, <1>5
  DEF GenerateTokenPair, SessionsHalf!GenerateTokenPair, Unix, SessionsHalf!Unix
<1> DEFINE user_ == [id |-> p, handle |-> h]
           key == [credential_id |-> k, user_id |-> p, sign_count |-> n]
           first == [token_hash |-> p, user_id |-> p, expires_at |-> e,
                     revoked_at |-> None]
<1>7. UserOf(p) = user_ /\ CredentialOf(p) = key /\ RefreshTokenOf(p) = first
  BY <1>3, <1>4, <1>5 DEF UserOf, CredentialOf, RefreshTokenOf
<1>8. /\ view.users = db.users \cup {user_}
      /\ view.credentials = db.credentials \cup {key}
      /\ view.refresh_tokens = db.refresh_tokens \cup {first}
      /\ view.login_sessions = db.login_sessions
      /\ ~HandleTaken(db, h) /\ ~CredentialExists(db, k)
  BY <1>1, <1>4, <1>7 DEF ImageOf, InTransaction
<1>9. \A row \in db.users : row.id # p
  <2>1. p \notin Registered
    BY <1>1, NoneIsNoReply DEF FinishReady, FinishRunning, InTransaction, Registered
  <2> QED
    BY <2>1 DEF EnrolmentsHold
<1> DEFINE with(d) == [d EXCEPT !.users = @ \cup {user_},
                                !.credentials = @ \cup {key},
                                !.refresh_tokens = @ \cup {first}]
<1>10. SigningIn(view) = with(SigningIn(db))
  <2> HIDE DEF user_, key, first
  <2> QED
    BY <1>1, <1>8 DEF SigningIn, Database
<1>11. SessionsHalf!Autocommit(with(SigningIn(db)))
  <2> HIDE DEF with
  <2>1. /\ writer = p /\ db' = view /\ writer' = None
        /\ UNCHANGED <<now, boots, view>>
    BY DEF CommitRegistration, Commit
  <2> QED
    BY <1>10, <2>1, SigningInImages, StoreAssumption
    DEF SessionsHalf!Autocommit, WriterFor
<1>12. SessionsHalf!Register(p, h, k, n, t)
  BY <1>1, <1>2, <1>3, <1>4, <1>6, <1>8, <1>9, <1>11, SigningInIs
  DEF SessionsHalf!Register, SessionsHalf!HandleTaken, HandleTaken,
      SessionsHalf!CredentialExists, CredentialExists
<1>13. EnrolledPairs' = [EnrolledPairs EXCEPT ![p] = issued[p]]
  <2>1. Registered' = Registered \cup {p} /\ issued' = issued
    BY RegisteredStep
  <2>2. EnrolledPairs' = [o \in RegFinishes |-> IF o \in Registered'
                                                THEN issued'[o] ELSE None]
    BY DEF EnrolledPairs
  <2> QED
    BY <2>1, <2>2 DEF EnrolledPairs
<1>14. UNCHANGED <<SessionsHalf!loginVars, SessionsHalf!assertVars,
                   SessionsHalf!authenticatorVars, SessionsHalf!logoutVars>>
  BY DEF RegistrationsFinishStep, loginVars, SessionsHalf!loginVars, assertVars,
         SessionsHalf!assertVars, authenticatorVars,
         SessionsHalf!authenticatorVars, logoutVars, SessionsHalf!logoutVars
<1> QED
  BY <1>6, <1>12, <1>13, <1>14 DEF SessionsHalf!Enroll

(* Everything else that a registration does is nothing to Sessions.        *)
LEMMA NothingSignsIn ==
    ASSUME UNCHANGED <<loginVars, assertVars, authenticatorVars, logoutVars,
                       EnrolledPairs>>,
           \/ UNCHANGED storeVars
           \/ /\ UNCHANGED <<now, boots>>
              /\ writer \notin LoginFinishes /\ writer' \notin LoginFinishes
              /\ SigningIn(db') = SigningIn(db)
    PROVE  UNCHANGED SessionsHalf!sessionsVars
<1>1. UNCHANGED SessionsHalf!storeVars
  BY StoreRests, SigningInImages DEF SessionsHalf!storeVars, WriterFor
<1> QED
  BY <1>1
  DEF SessionsHalf!sessionsVars, SessionsHalf!vars, loginVars,
      SessionsHalf!loginVars, assertVars, SessionsHalf!assertVars,
      authenticatorVars, SessionsHalf!authenticatorVars, logoutVars,
      SessionsHalf!logoutVars

(* A start of a registration is nothing to Sessions ...                    *)
LEMMA StartSignsInNothing ==
    ASSUME PasskeyReady, NEW r \in RegStarts, RegistrationsStartStep(r)
    PROVE  UNCHANGED SessionsHalf!sessionsVars
<1>1. UNCHANGED <<loginVars, assertVars, authenticatorVars, logoutVars,
                  EnrolledPairs>>
  BY DEF RegistrationsStartStep, finishVars, EnrolledPairs, Registered
<1>2. CASE PersistRegistrationSession(r)
  <2>1. PICK row : row = SessionRow(r)
    OBVIOUS
  <2>2. Autocommit(InsertRow(db, "registration_sessions", row))
    BY <1>2, <2>1 DEF PersistRegistrationSession
  <2>3. SigningIn(InsertRow(db, "registration_sessions", row)) = SigningIn(db)
    BY UsersOfCredentials, StatementsSignIn
  <2> QED
    BY <1>1, <2>2, <2>3, NothingSignsIn, StoreAssumption DEF Autocommit
<1>3. CASE UNCHANGED storeVars
  BY <1>1, <1>3, NothingSignsIn
<1> QED
  BY <1>2, <1>3
  DEF RegistrationsStartStep, StartArrives, StartProceeds, StartFails,
      RejectHandle, OpenSession, PersistFails, RespondStart

(* ... nor is a step of its finish, COMMIT excepted.                       *)
LEMMA FinishSignsInNothing ==
    ASSUME PasskeyReady, NEW p \in RegFinishes, RegistrationsFinishStep(p),
           ~CommitRegistration(p)
    PROVE  UNCHANGED SessionsHalf!sessionsVars
<1>1. p \notin LoginFinishes /\ None \notin LoginFinishes
  BY StoreAssumption
<1>2. UNCHANGED EnrolledPairs
  <2>1. Registered' = Registered /\ \A o \in Registered : issued'[o] = issued[o]
    BY RegisteredStep
  <2>2. EnrolledPairs' = [o \in RegFinishes |-> IF o \in Registered'
                                                THEN issued'[o] ELSE None]
    BY DEF EnrolledPairs
  <2> QED
    BY <2>1, <2>2 DEF EnrolledPairs
<1>3. UNCHANGED <<loginVars, assertVars, authenticatorVars, logoutVars>>
  BY DEF RegistrationsFinishStep
<1>4. \/ UNCHANGED storeVars
      \/ /\ UNCHANGED <<now, boots, db>>
         /\ writer \notin LoginFinishes /\ writer' \notin LoginFinishes
  BY <1>1, FinishStores DEF FirstWrite, NextWrite, Rollback, storeVars
<1> QED
  BY <1>2, <1>3, <1>4, NothingSignsIn

(* The steps that are of no slice.                                         *)
LEMMA OthersSignIn ==
    ASSUME PasskeyReady
    PROVE  /\ AuthenticatorStep => SessionsHalf!SessionsNext
           /\ TimePasses => SessionsHalf!SessionsNext
           /\ ProcessRestarts => SessionsHalf!SessionsNext
           /\ UNCHANGED passkeyVars => UNCHANGED SessionsHalf!sessionsVars
<1> USE DEF loginVars, SessionsHalf!loginVars, assertVars,
            SessionsHalf!assertVars, authenticatorVars,
            SessionsHalf!authenticatorVars, logoutVars, SessionsHalf!logoutVars
<1>1. UNCHANGED finishVars \/ ProcessRestarts => UNCHANGED EnrolledPairs
  BY DEF finishVars, ProcessRestarts, FinishKilled, EnrolledPairs, Registered
<1>2. ASSUME AuthenticatorStep
      PROVE  SessionsHalf!SignStep /\ UNCHANGED <<SessionsHalf!logoutVars, EnrolledPairs>>
  BY <1>1, <1>2, StoreRests
  DEF AuthenticatorStep, SessionsHalf!SignStep, Sign, SessionsHalf!Sign,
      Challenged, SessionsHalf!Challenged
<1>3. ASSUME TimePasses
      PROVE  SessionsHalf!ClockStep /\ UNCHANGED <<SessionsHalf!logoutVars, EnrolledPairs>>
  BY <1>1, <1>3, StoreRests DEF TimePasses, SessionsHalf!ClockStep
<1>4. ASSUME ProcessRestarts
      PROVE  SessionsHalf!SessionsRestart
  BY <1>1, <1>4, StoreRests
  DEF ProcessRestarts, SessionsHalf!SessionsRestart, SessionsHalf!Restart,
      LoginKilled, SessionsHalf!LoginKilled, AssertKilled,
      SessionsHalf!AssertKilled, LogoutKilled, SessionsHalf!LogoutKilled,
      LoginRunning, SessionsHalf!LoginRunning, AssertRunning,
      SessionsHalf!AssertRunning, LoginTransaction,
      SessionsHalf!LoginTransaction, LogoutRunning, SessionsHalf!LogoutRunning
<1>5. UNCHANGED passkeyVars => UNCHANGED SessionsHalf!sessionsVars
  BY <1>1, NothingSignsIn DEF passkeyVars
<1> QED
  BY <1>2, <1>3, <1>4, <1>5 DEF SessionsHalf!SessionsNext

----------------------------------------------------------------------------

(* What a registration brings when it commits: a handle and a credential   *)
(* that are free, a counter within its bound, a token pair that this       *)
(* process minted, and its rows on top of the committed image, no others.  *)
THEOREM EnrolmentsAreComplete == PasskeySpec => []EnrolmentsHold
<1>1. PasskeyInit => EnrolmentsHold
  <2> SUFFICES ASSUME PasskeyInit
               PROVE  EnrolmentsHold
    OBVIOUS
  <2>1. now <= MaxTime /\ db.users = {}
    BY StoreAssumption DEF PasskeyInit, StoreInit, EmptyDatabase
  <2>2. \A p \in RegFinishes : ImageOf(p) /\ CountedAndIssued(p)
    BY DEF PasskeyInit, FinishInit, ImageOf, CountedAndIssued, FinishRunning,
           InTransaction
  <2> QED
    BY <2>1, <2>2 DEF EnrolmentsHold
<1>2. PasskeyInvariant /\ PasskeyInvariant' /\ EnrolmentsHold
         /\ [PasskeyNext]_passkeyVars => EnrolmentsHold'
  BY EnrolmentsStep DEF PasskeyInvariant
<1> QED
  BY <1>1, <1>2, PasskeyInvariantHolds, PTL DEF PasskeySpec

(* Registrations, as they overlap logins and logouts, are the one step     *)
(* that Sessions takes them for: the whole service implements Sessions,    *)
(* and with it Login and the promise of Grants.                            *)
THEOREM PasskeyImplementsSessions == PasskeySpec => ImplementsSessions
<1>1. PasskeyInit => SessionsHalf!SessionsInit
  <2> SUFFICES ASSUME PasskeyInit
               PROVE  SessionsHalf!SessionsInit
    OBVIOUS
  <2>1. SigningIn(EmptyDatabase) = SessionsHalf!EmptyDatabase
    BY DEF SigningIn, EmptyDatabase, SessionsHalf!EmptyDatabase
  <2>2. db = EmptyDatabase /\ writer = None /\ now = 0 /\ boots = 0
    BY DEF PasskeyInit, StoreInit
  <2>3. SessionsHalf!StoreInit
    BY <2>1, <2>2, StoreAssumption
    DEF SessionsHalf!StoreInit, WriterFor, ImageFor
  <2>4. EnrolledPairs = [u \in RegFinishes |-> None]
    BY NoneIsNoReply DEF PasskeyInit, FinishInit, EnrolledPairs, Registered
  <2> QED
    BY <2>3, <2>4
    DEF PasskeyInit, SessionsHalf!SessionsInit, SessionsHalf!Init, LoginInit,
        SessionsHalf!LoginInit, AssertInit, SessionsHalf!AssertInit,
        AuthenticatorInit, SessionsHalf!AuthenticatorInit, LogoutInit,
        SessionsHalf!LogoutInit
<1>2. PasskeyInvariant /\ EnrolmentsHold /\ [PasskeyNext]_passkeyVars
         => [SessionsHalf!SessionsNext]_(SessionsHalf!sessionsVars)
  <2> SUFFICES ASSUME PasskeyReady, HalvesMeet, EnrolmentsHold,
                      [PasskeyNext]_passkeyVars
               PROVE  [SessionsHalf!SessionsNext]_(SessionsHalf!sessionsVars)
    BY DEF PasskeyInvariant
  <2>1. ASSUME UNCHANGED <<logoutVars, finishVars>>
        PROVE  UNCHANGED <<SessionsHalf!logoutVars, EnrolledPairs>>
    BY <2>1 DEF logoutVars, SessionsHalf!logoutVars, finishVars, EnrolledPairs,
                Registered
  <2>2. ASSUME NEW r \in LoginStarts, SessionsStartStep(r)
        PROVE  SessionsHalf!SessionsNext
    <3>1. LoginStep(r)
      BY <2>2 DEF SessionsStartStep, LoginStep
    <3>2. SessionsHalf!LoginStep(r)
      BY <3>1, LoginSignsIn
    <3> QED
      BY <2>1, <2>2, <3>2 DEF SessionsStartStep, SessionsHalf!SessionsNext
  <2>3. ASSUME NEW q \in LoginFinishes, SessionsFinishStep(q)
        PROVE  SessionsHalf!SessionsNext
    <3>1. AssertStep(q)
      BY <2>3 DEF SessionsFinishStep, AssertStep
    <3>2. SessionsHalf!AssertStep(q)
      BY <3>1, AssertSignsIn
    <3> QED
      BY <2>1, <2>3, <3>2 DEF SessionsFinishStep, SessionsHalf!SessionsNext
  <2>4. ASSUME NEW l \in Logouts, SessionsLogoutStep(l)
        PROVE  SessionsHalf!SessionsNext
    BY <2>4, LogoutSignsOut DEF SessionsHalf!SessionsNext
  <2>5. ASSUME NEW p \in RegFinishes, RegistrationsFinishStep(p)
        PROVE  SessionsHalf!SessionsNext \/ UNCHANGED SessionsHalf!sessionsVars
    BY <2>5, CommitEnrolls, FinishSignsInNothing DEF SessionsHalf!SessionsNext
  <2>6. ASSUME NEW r \in RegStarts, RegistrationsStartStep(r)
        PROVE  UNCHANGED SessionsHalf!sessionsVars
    BY <2>6, StartSignsInNothing
  <2> QED
    BY <2>2, <2>3, <2>4, <2>5, <2>6, OthersSignIn DEF PasskeyNext, EveryoneAtRest
<1> QED
  BY <1>1, <1>2, PasskeyInvariantHolds, EnrolmentsAreComplete, PTL
  DEF PasskeySpec, ImplementsSessions, SessionsHalf!SessionsSpec
=============================================================================
