--------------------------- MODULE EndToEndProofs ---------------------------
(***************************************************************************)
(* What the whole service promises its clients from end to end, for every  *)
(* value of the constants: the account behind a login is the one that was  *)
(* registered, nobody is found half registered, the refresh tokens in the  *)
(* database are those of the answers, and the service as a whole keeps the *)
(* promises of Accounts and Grants.                                        *)
(*                                                                         *)
(* The invariant follows a handle and a credential on their way: from the  *)
(* request that opens a registration session to its row, to the request    *)
(* that finishes it, to the account, to the request that opens a login     *)
(* session, to its row and to the request that finishes that.              *)
(***************************************************************************)
EXTENDS PasskeyProofs

(* Whose credentials an image of the database has, and what the refresh    *)
(* tokens in it say, revoked or not.                                       *)
Owners(d) == {<<k.credential_id, k.user_id>> : k \in d.credentials}
Issues(d) == {<<t.token_hash, t.user_id, t.expires_at>> : t \in d.refresh_tokens}

IssueOf(g) == <<g, IssuedTo(g), PairIn(g).refresh_exp>>

(* The committed tables: the accounts and tokens of those who were         *)
(* answered OK, and sessions as they were opened.                          *)
AccountsStand ==
    /\ db.users = {UserOf(p) : p \in Registered}
    /\ Owners(db) = {<<command[p].credential_id, p>> : p \in Registered}
    /\ Issues(db) = {IssueOf(g) : g \in Registered \cup SignedIn}

SessionsStand ==
    /\ \A row \in db.registration_sessions :
          startReply[row.id] = "OK" /\ row = SessionRow(row.id)
    /\ \A row \in db.login_sessions :
          loginReply[row.id] = "OK" /\ row = LoginSessionRowOf(row.id)
    /\ view.registration_sessions \subseteq db.registration_sessions
    /\ view.login_sessions \subseteq db.login_sessions

(* What the open transaction of a login will publish.                      *)
LoginImageOf(q) ==
    assertPc[q] \in LoginTransaction =>
      /\ view.users = db.users
      /\ Owners(view) = Owners(db)
      /\ Issues(view) = IF assertPc[q] = "insertToken" THEN Issues(db)
                        ELSE Issues(db) \cup {IssueOf(q)}

(* What a request of each slice has learned is so, and stays so.           *)
StartFollows(r) ==
    startPc[r] \in {"idle", "persist"} => startReply[r] = None

FinishFollows(p) ==
    (\/ finishPc[p] \in {"check", "issue", "insertUser"} \cup InTransaction
     \/ p \in Registered)
    => /\ command[p].id \in RegStarts /\ startReply[command[p].id] = "OK"
       /\ loaded[p] = SessionRow(command[p].id)

LoginFollows(r) ==
    /\ loginPc[r] \in {"idle", "credentials", "open", "persist"}
          => loginReply[r] = None
    /\ loginPc[r] = "idle" => user[r] = None
    /\ (\/ loginPc[r] \in {"credentials", "open", "persist"}
        \/ loginReply[r] = "OK" \/ user[r] # None)
          => user[r] \in db.users /\ loginReply[r] # "NOT_FOUND"
    /\ loginPc[r] = "persist" \/ loginReply[r] = "OK"
          => session[r].user_id = user[r].id

AssertFollows(q) ==
    /\ (\/ assertPc[q] \in {"check", "credential", "owner", "verify",
                            "updateCount"} \cup LoginTransaction
        \/ q \in SignedIn)
          => /\ assertion[q].id \in LoginStarts
             /\ loginReply[assertion[q].id] = "OK"
             /\ loginLoaded[q] = LoginSessionRowOf(assertion[q].id)
    /\ assertPc[q] \in {"idle", "load", "check", "credential"}
          => target[q] = None
    /\ (\/ assertPc[q] \in {"owner", "verify", "updateCount"}
                              \cup LoginTransaction
        \/ q \in SignedIn \/ target[q] # None)
          => /\ <<target[q].credential_id, target[q].user_id>> \in Owners(db)
             /\ OwnCredential(q, target[q])
             /\ assertReply[q] # "NOT_FOUND"
    /\ assertPc[q] \in {"updateCount"} \cup LoginTransaction \/ q \in SignedIn
          => AssertionVerified(assertion[q], loginLoaded[q])

EndToEnd ==
    /\ AccountsStand
    /\ SessionsStand
    /\ \A q \in LoginFinishes : LoginImageOf(q)
    /\ \A r \in RegStarts : StartFollows(r)
    /\ \A p \in RegFinishes : FinishFollows(p)
    /\ \A r \in LoginStarts : LoginFollows(r)
    /\ \A q \in LoginFinishes : AssertFollows(q)

----------------------------------------------------------------------------
(* A step moves one request of one slice.                                  *)

StartUnmoved(r) ==
    /\ startPc'[r] = startPc[r] \/ startPc'[r] = "killed"
    /\ startReply'[r] = startReply[r]
    /\ opened'[r] = opened[r]

(* A request of the start slice leaves the others alone.                   *)
LEMMA StartAlone ==
    ASSUME StartTypeOK, NEW r \in RegStarts, RegistrationsStartStep(r),
           NEW o \in RegStarts, o # r
    PROVE  StartUnmoved(o)
BY DEF StartTypeOK, StartUnmoved, RegistrationsStartStep, StartArrives,
       StartProceeds, StartFails, RejectHandle, OpenSession,
       PersistRegistrationSession, PersistFails, RespondStart, AnswerStart

(* Each request moves by a step of its own or not at all.                  *)
LEMMA Frames ==
    ASSUME PasskeyReady, [PasskeyNext]_passkeyVars
    PROVE  /\ \A r \in RegStarts : StartUnmoved(r) \/ RegistrationsStartStep(r)
           /\ \A p \in RegFinishes :
                 FinishUnmoved(p) \/ RegistrationsFinishStep(p)
           /\ \A r \in LoginStarts : LoginUnmoved(r) \/ SessionsStartStep(r)
           /\ \A q \in LoginFinishes : AssertUnmoved(q) \/ SessionsFinishStep(q)
<1>1. /\ StartTypeOK /\ FinishTypeOK /\ LoginTypeOK /\ AssertTypeOK
  BY DEF PasskeyReady, RegistrationReady, StartReady, LoginReady, TypeOK
<1>2. UNCHANGED startVars => \A r \in RegStarts : StartUnmoved(r)
  BY DEF startVars, StartUnmoved
<1>3. UNCHANGED finishVars => \A p \in RegFinishes : FinishUnmoved(p)
  BY DEF finishVars, FinishUnmoved
<1>4. UNCHANGED loginVars => \A r \in LoginStarts : LoginUnmoved(r)
  BY DEF loginVars, LoginUnmoved
<1>5. UNCHANGED assertVars => \A q \in LoginFinishes : AssertUnmoved(q)
  BY DEF assertVars, AssertUnmoved
<1>6. ASSUME NEW r \in RegStarts, RegistrationsStartStep(r)
      PROVE  \A o \in RegStarts : StartUnmoved(o) \/ RegistrationsStartStep(o)
  BY <1>1, <1>6, StartAlone
<1>7. ASSUME NEW p \in RegFinishes, RegistrationsFinishStep(p)
      PROVE  \A o \in RegFinishes : FinishUnmoved(o) \/ RegistrationsFinishStep(o)
  BY <1>1, <1>7, FinishAlone
<1>8. ASSUME [Next]_vars, UNCHANGED <<startVars, finishVars, logoutVars>>
      PROVE  /\ \A r \in LoginStarts : LoginUnmoved(r) \/ SessionsStartStep(r)
             /\ \A q \in LoginFinishes : AssertUnmoved(q) \/ SessionsFinishStep(q)
  BY <1>1, <1>8, LoginFrame, AssertFrame
  DEF LoginStep, AssertStep, SessionsStartStep, SessionsFinishStep
<1>9. CASE ProcessRestarts
  <2>1. /\ \A r \in RegStarts : StartUnmoved(r)
        /\ \A r \in LoginStarts : LoginUnmoved(r)
    BY <1>1, <1>9
    DEF ProcessRestarts, StartKilled, LoginKilled, StartTypeOK, LoginTypeOK,
        StartUnmoved, LoginUnmoved
  <2> QED
    BY <1>9, <2>1, RestartUnmoved
<1> QED
  BY <1>2, <1>3, <1>4, <1>5, <1>6, <1>7, <1>8, <1>9, SliceSteps
  DEF RegistrationsStartStep, RegistrationsFinishStep, SessionsLogoutStep

(* An answer OK stands, and what it is about stands with it; it is given   *)
(* by the statement that publishes.                                        *)
LEMMA OfferedStays ==
    ASSUME PasskeyReady, EndToEnd, [PasskeyNext]_passkeyVars, NEW r \in RegStarts
    PROVE  /\ startReply[r] = "OK" =>
                 startReply'[r] = "OK" /\ opened'[r] = opened[r]
           /\ startReply'[r] = "OK" =>
                 \/ startReply[r] = "OK"
                 \/ PersistRegistrationSession(r)
<1>1. StartTypeOK /\ StartFollows(r)
  BY DEF PasskeyReady, RegistrationReady, StartReady, EndToEnd
<1>2. CASE StartUnmoved(r)
  BY <1>2 DEF StartUnmoved
<1>3. CASE RegistrationsStartStep(r)
  BY <1>1, <1>3, NoneIsNoReply, ErrorTyped
  DEF RegistrationsStartStep, StartArrives, StartProceeds, StartFails,
      RejectHandle, OpenSession, PersistRegistrationSession, PersistFails,
      RespondStart, AnswerStart, StartTypeOK, StartFollows
<1> QED
  BY <1>2, <1>3, Frames

(* Who has been registered stays so, with the command, the handle and the  *)
(* tokens of the answer.                                                   *)
LEMMA RegisteredStays ==
    ASSUME PasskeyReady, [PasskeyNext]_passkeyVars, NEW p \in RegFinishes
    PROVE  /\ p \in Registered => /\ p \in Registered'
                                  /\ command'[p] = command[p]
                                  /\ loaded'[p] = loaded[p]
                                  /\ issued'[p] = issued[p]
           /\ p \in Registered' => \/ p \in Registered
                                   \/ /\ CommitRegistration(p)
                                      /\ RegistrationsFinishStep(p)
<1>1. CASE FinishUnmoved(p)
  BY <1>1 DEF FinishUnmoved, Registered
<1>2. CASE RegistrationsFinishStep(p)
  <2>1. p \in Registered' => p \in Registered \/ CommitRegistration(p)
    BY <1>2, RegisteredStep
  <2>2. ASSUME p \in Registered
        PROVE  /\ p \in Registered'
               /\ UNCHANGED <<command, loaded, issued>>
    <3>1. finishPc[p] \notin {"idle"} \cup (FinishRunning \ {"respond"})
      BY <2>2, NoneIsNoReply
      DEF PasskeyReady, RegistrationReady, FinishReady, Registered
    <3>2. RespondFinish(p)
      BY <1>2, <3>1
      DEF RegistrationsFinishStep, AttestationArrives, FinishArrives,
          FinishProceeds, FinishFails, RejectAttestation, AcceptCommand,
          LoadRegistrationSession, SessionNotFound, VerifyAttestation,
          SessionExpired, AttestationInvalid, IssueTokenPair, InsertUser,
          InsertUserConflicts, InsertCredential, InsertCredentialConflicts,
          InsertRefreshToken, DeleteSession, CommitRegistration, LoadFails,
          WriteFails, FinishRunning, InTransaction
    <3> QED
      BY <2>2, <3>2 DEF RespondFinish, Registered
  <2> QED
    BY <1>2, <2>1, <2>2
<1> QED
  BY <1>1, <1>2, Frames

(* A session opened and answered for stays as it was opened.               *)
LEMMA OpenedStaysSo ==
    ASSUME PasskeyReady, EndToEnd, [PasskeyNext]_passkeyVars, NEW r \in LoginStarts
    PROVE  /\ loginReply[r] = "OK" => /\ loginReply'[r] = "OK"
                                      /\ user'[r] = user[r]
                                      /\ session'[r] = session[r]
           /\ loginReply'[r] = "OK" =>
                 \/ loginReply[r] = "OK"
                 \/ PersistLoginSession(r)
<1>1. LoginTypeOK /\ LoginFollows(r)
  BY DEF PasskeyReady, LoginReady, TypeOK, EndToEnd
<1>2. CASE LoginUnmoved(r)
  BY <1>2 DEF LoginUnmoved
<1>3. CASE SessionsStartStep(r)
  BY <1>1, <1>3, NoneIsNoReply, ErrorTyped
  DEF SessionsStartStep, LoginArrives, LoginProceeds, LoginFails,
      RejectLoginHandle, LoadUser, UserNotFound, LoadCredentials,
      OpenLoginSession, PersistLoginSession, LoadUserCredentialsFails,
      PersistLoginFails, RespondLogin, AnswerLogin, LoginGoes, LoginTypeOK,
      LoginFollows
<1> QED
  BY <1>2, <1>3, Frames

(* Who has been answered with tokens keeps them, and whose they are.       *)
LEMMA SignedInStays ==
    ASSUME PasskeyReady, [PasskeyNext]_passkeyVars, NEW q \in LoginFinishes
    PROVE  /\ q \in SignedIn => /\ q \in SignedIn'
                                /\ assertion'[q] = assertion[q]
                                /\ loginLoaded'[q] = loginLoaded[q]
                                /\ target'[q] = target[q]
                                /\ loginIssued'[q] = loginIssued[q]
           /\ q \in SignedIn' => \/ q \in SignedIn
                                 \/ /\ CommitLogin(q)
                                    /\ SessionsFinishStep(q)
<1>1. SignedIn = LoggedIn /\ SignedIn' = LoggedIn'
  BY DEF SignedIn, LoggedIn
<1>2. CASE AssertUnmoved(q)
  BY <1>2 DEF AssertUnmoved, SignedIn
<1>3. CASE SessionsFinishStep(q)
  <2>1. [Next]_vars
    BY <1>3 DEF SessionsFinishStep, Next, AssertStep
  <2> QED
    BY <1>1, <1>3, <2>1, LoggedInStays DEF PasskeyReady
<1> QED
  BY <1>2, <1>3, Frames

----------------------------------------------------------------------------
(* The tables.                                                             *)

(* What the statements of the service do to owners and issues.             *)
LEMMA StatementsOwn ==
    ASSUME NEW d \in Database
    PROVE  /\ \A table \in {"registration_sessions", "login_sessions"} :
                 /\ \A row : /\ InsertRow(d, table, row).users = d.users
                             /\ Owners(InsertRow(d, table, row)) = Owners(d)
                             /\ Issues(InsertRow(d, table, row)) = Issues(d)
                 /\ \A id : /\ DeleteByID(d, table, id).users = d.users
                            /\ Owners(DeleteByID(d, table, id)) = Owners(d)
                            /\ Issues(DeleteByID(d, table, id)) = Issues(d)
           /\ \A row : LET e == InsertRow(d, "refresh_tokens", row)
                       IN  /\ e.users = d.users /\ Owners(e) = Owners(d)
                           /\ Issues(e) = Issues(d) \cup
                                {<<row.token_hash, row.user_id, row.expires_at>>}
<1>1. ASSUME NEW table \in {"registration_sessions", "login_sessions"}
      PROVE  /\ \A row : /\ InsertRow(d, table, row).users = d.users
                         /\ InsertRow(d, table, row).credentials = d.credentials
                         /\ InsertRow(d, table, row).refresh_tokens
                               = d.refresh_tokens
             /\ \A id : /\ DeleteByID(d, table, id).users = d.users
                        /\ DeleteByID(d, table, id).credentials = d.credentials
                        /\ DeleteByID(d, table, id).refresh_tokens
                              = d.refresh_tokens
  BY DEF InsertRow, DeleteByID, Database
<1>2. ASSUME NEW row
      PROVE  LET e == InsertRow(d, "refresh_tokens", row)
             IN  /\ e.users = d.users /\ e.credentials = d.credentials
                 /\ e.refresh_tokens = d.refresh_tokens \cup {row}
  BY DEF InsertRow, Database
<1> QED
  BY <1>1, <1>2 DEF Owners, Issues

(* A row more in a table is an owner or an issue more.                     *)
LEMMA RowsJoin ==
    ASSUME NEW d, NEW e
    PROVE  /\ \A k : e.credentials = d.credentials \cup {k} =>
                 Owners(e) = Owners(d) \cup {<<k.credential_id, k.user_id>>}
           /\ \A t : e.refresh_tokens = d.refresh_tokens \cup {t} =>
                 Issues(e) = Issues(d) \cup
                    {<<t.token_hash, t.user_id, t.expires_at>>}
BY DEF Owners, Issues

(* The UPDATEs leave who owns and what was issued.                         *)
LEMMA UpdatesOwn ==
    ASSUME NEW d \in Database
    PROVE  /\ \A c : \A n \in SignCounts :
                 Owners(SetSignCount(d, c, n)) = Owners(d)
           /\ \A u, s : /\ RevokeTokens(d, u, s).users = d.users
                        /\ Owners(RevokeTokens(d, u, s)) = Owners(d)
                        /\ Issues(RevokeTokens(d, u, s)) = Issues(d)
<1>1. ASSUME NEW c, NEW n \in SignCounts
      PROVE  Owners(SetSignCount(d, c, n)) = Owners(d)
  <2> DEFINE set(k) == IF k.credential_id = c THEN [k EXCEPT !.sign_count = n]
                       ELSE k
  <2>1. SetSignCount(d, c, n).credentials = {set(k) : k \in d.credentials}
    BY SetSignCountTyped
  <2>2. \A k \in d.credentials :
           /\ set(k).credential_id = k.credential_id
           /\ set(k).user_id = k.user_id
    BY DEF Database, CredentialRow
  <2> HIDE DEF set
  <2> QED
    BY <2>1, <2>2 DEF Owners
<1>2. ASSUME NEW u, NEW s
      PROVE  /\ RevokeTokens(d, u, s).users = d.users
             /\ Owners(RevokeTokens(d, u, s)) = Owners(d)
             /\ Issues(RevokeTokens(d, u, s)) = Issues(d)
  <2> DEFINE set(t) == IF t.user_id = u /\ t.revoked_at = None
                       THEN [t EXCEPT !.revoked_at = s] ELSE t
  <2>1. /\ RevokeTokens(d, u, s).users = d.users
        /\ RevokeTokens(d, u, s).credentials = d.credentials
        /\ RevokeTokens(d, u, s).refresh_tokens = {set(t) : t \in d.refresh_tokens}
    BY DEF RevokeTokens, Database
  <2>2. \A t \in d.refresh_tokens :
           /\ set(t).token_hash = t.token_hash
           /\ set(t).user_id = t.user_id
           /\ set(t).expires_at = t.expires_at
    BY DEF Database, RefreshTokenRow
  <2> HIDE DEF set
  <2> QED
    BY <2>1, <2>2 DEF Owners, Issues
<1> QED
  BY <1>1, <1>2

(* The database changes when a session is stored, when a registration or a *)
(* login commits and when a logout revokes.                                *)
LEMMA Publications ==
    ASSUME [PasskeyNext]_passkeyVars
    PROVE  \/ db' = db
           \/ \E p \in RegFinishes :
                 RegistrationsFinishStep(p) /\ CommitRegistration(p)
           \/ \E q \in LoginFinishes : SessionsFinishStep(q) /\ CommitLogin(q)
           \/ \E r \in RegStarts : PersistRegistrationSession(r)
           \/ \E r \in LoginStarts : PersistLoginSession(r)
           \/ \E l \in Logouts : RevokeUserSessions(l)
<1>1. ASSUME NEW r \in RegStarts, RegistrationsStartStep(r)
      PROVE  db' = db \/ PersistRegistrationSession(r)
  BY <1>1
  DEF RegistrationsStartStep, StartArrives, StartProceeds, StartFails,
      RejectHandle, OpenSession, PersistFails, RespondStart, storeVars
<1>2. ASSUME NEW p \in RegFinishes, RegistrationsFinishStep(p)
      PROVE  db' = db \/ CommitRegistration(p)
  BY <1>2, FinishStores DEF FirstWrite, NextWrite, Rollback, storeVars
<1>3. ASSUME NEW r \in LoginStarts, SessionsStartStep(r)
      PROVE  db' = db \/ PersistLoginSession(r)
  BY <1>3, LoginDb DEF SessionsStartStep, LoginStep
<1>4. ASSUME NEW q \in LoginFinishes, SessionsFinishStep(q)
      PROVE  db' = db \/ CommitLogin(q)
  BY <1>4, AssertDb DEF SessionsFinishStep, AssertStep
<1>5. ASSUME NEW l \in Logouts, SessionsLogoutStep(l)
      PROVE  db' = db \/ RevokeUserSessions(l)
  BY <1>5
  DEF SessionsLogoutStep, BearerArrives, LogoutProceeds, LogoutFails,
      RejectBearer, AuthenticateLogout, AccessTokenInvalid, StampRevocation,
      RevokeFails, RespondLogout, storeVars
<1> QED
  BY <1>1, <1>2, <1>3, <1>4, <1>5
  DEF PasskeyNext, AuthenticatorStep, TimePasses, Tick, ProcessRestarts, Reboot,
      EveryoneAtRest, passkeyVars, storeVars

(* Nothing takes an account or an answer back.                             *)
LEMMA AccountsStay ==
    ASSUME PasskeyReady, [PasskeyNext]_passkeyVars
    PROVE  /\ \A p \in Registered :
                 /\ p \in Registered' /\ UserOf(p)' = UserOf(p)
                 /\ command'[p] = command[p] /\ IssueOf(p)' = IssueOf(p)
           /\ \A q \in SignedIn : q \in SignedIn' /\ IssueOf(q)' = IssueOf(q)
<1>1. /\ \A p \in Registered : p \in RegFinishes
      /\ \A q \in SignedIn : q \in LoginFinishes /\ q \notin RegFinishes
  BY StoreAssumption DEF Registered, SignedIn
<1> QED
  BY <1>1, RegisteredStays, SignedInStays DEF UserOf, IssueOf, IssuedTo, PairIn

(* The accounts and tokens are those of the answers after each step.       *)
LEMMA AccountsStep ==
    ASSUME PasskeyReady, HalvesMeet, EnrolmentsHold, EndToEnd,
           [PasskeyNext]_passkeyVars
    PROVE  AccountsStand'
<1>1. /\ db.users = {UserOf(p) : p \in Registered}
      /\ Owners(db) = {<<command[p].credential_id, p>> : p \in Registered}
      /\ Issues(db) = {IssueOf(g) : g \in Registered \cup SignedIn}
      /\ db \in Database
  BY UsersOfCredentials DEF EndToEnd, AccountsStand
<1>2. Registered \subseteq Registered' /\ SignedIn \subseteq SignedIn'
  BY AccountsStay
<1>3. ASSUME NEW p \in RegFinishes, RegistrationsFinishStep(p),
             CommitRegistration(p)
      PROVE  AccountsStand'
  <2>1. /\ db'.users = db.users \cup {UserOf(p)}
        /\ db'.credentials = db.credentials \cup {CredentialOf(p)}
        /\ db'.refresh_tokens = db.refresh_tokens \cup {RefreshTokenOf(p)}
    BY <1>3
    DEF CommitRegistration, Commit, EnrolmentsHold, ImageOf, InTransaction
  <2>2. /\ Owners(db') = Owners(db) \cup {<<command[p].credential_id, p>>}
        /\ Issues(db') = Issues(db) \cup {IssueOf(p)}
    <3>1. /\ CredentialOf(p).credential_id = command[p].credential_id
          /\ CredentialOf(p).user_id = p
          /\ <<RefreshTokenOf(p).token_hash, RefreshTokenOf(p).user_id,
               RefreshTokenOf(p).expires_at>> = IssueOf(p)
      BY DEF CredentialOf, RefreshTokenOf, IssueOf, IssuedTo, PairIn
    <3>2. PICK d, e, k, t : /\ d = db /\ e = db'
                            /\ k = CredentialOf(p) /\ t = RefreshTokenOf(p)
      OBVIOUS
    <3>3. /\ e.credentials = d.credentials \cup {k}
          /\ e.refresh_tokens = d.refresh_tokens \cup {t}
      BY <2>1, <3>2
    <3>4. /\ Owners(e) = Owners(d) \cup {<<k.credential_id, k.user_id>>}
          /\ Issues(e) = Issues(d) \cup
                            {<<t.token_hash, t.user_id, t.expires_at>>}
      BY <3>3, RowsJoin
    <3> QED
      BY <3>1, <3>2, <3>4
  <2>3. /\ Registered' = Registered \cup {p} /\ SignedIn' = SignedIn
        /\ UserOf(p)' = UserOf(p) /\ command'[p] = command[p]
        /\ IssueOf(p)' = IssueOf(p)
    BY <1>3, RegisteredStep
    DEF RegistrationsFinishStep, CommitRegistration, assertVars, SignedIn,
        UserOf, IssueOf, IssuedTo, PairIn
  <2>4. db'.users = {UserOf(o)' : o \in Registered'}
    BY <1>1, <2>1, <2>3, AccountsStay
  <2>5. Owners(db') = {<<command'[o].credential_id, o>> : o \in Registered'}
    BY <1>1, <2>2, <2>3, AccountsStay
  <2>6. Issues(db') = {IssueOf(g)' : g \in Registered' \cup SignedIn'}
    BY <1>1, <2>2, <2>3, AccountsStay
  <2> QED
    BY <2>4, <2>5, <2>6 DEF AccountsStand, Owners, Issues
<1>4. ASSUME NEW q \in LoginFinishes, SessionsFinishStep(q), CommitLogin(q)
      PROVE  AccountsStand'
  <2>1. /\ db'.users = db.users /\ Owners(db') = Owners(db)
        /\ Issues(db') = Issues(db) \cup {IssueOf(q)}
    BY <1>4 DEF CommitLogin, Commit, EndToEnd, LoginImageOf, LoginTransaction
  <2>2. /\ Registered' = Registered
        /\ q \notin RegFinishes /\ writer = q
        /\ UNCHANGED <<target, loginIssued>>
    BY <1>4, StoreAssumption
    DEF SessionsFinishStep, CommitLogin, Commit, finishVars, Registered
  <2>3. assertReply'[q] = "OK"
    BY <1>4 DEF CommitLogin, AnswerAssertion, PasskeyReady, LoginReady, TypeOK,
                AssertTypeOK
  <2>4. SignedIn' = SignedIn \cup {q} /\ IssueOf(q)' = IssueOf(q)
    <3>1. \A o \in SignedIn' : o \in SignedIn \/ o = q
      BY <2>2, SignedInStays DEF CommitLogin, Commit, SignedIn
    <3> QED
      BY <1>2, <2>2, <2>3, <3>1 DEF SignedIn, IssueOf, IssuedTo, PairIn
  <2>5. Issues(db') = {IssueOf(g)' : g \in Registered' \cup SignedIn'}
    BY <1>1, <2>1, <2>2, <2>4, AccountsStay
  <2>6. /\ db'.users = {UserOf(o)' : o \in Registered'}
        /\ Owners(db') = {<<command'[o].credential_id, o>> : o \in Registered'}
    BY <1>1, <2>1, <2>2, AccountsStay
  <2> QED
    BY <2>5, <2>6 DEF AccountsStand, Owners, Issues
<1>5. ASSUME \A p \in RegFinishes :
                ~(RegistrationsFinishStep(p) /\ CommitRegistration(p)),
             \A q \in LoginFinishes : ~(SessionsFinishStep(q) /\ CommitLogin(q))
      PROVE  AccountsStand'
  <2>1. Registered' = Registered /\ SignedIn' = SignedIn
    BY <1>2, <1>5, RegisteredStays, SignedInStays DEF Registered, SignedIn
  <2>2. /\ db'.users = db.users /\ Owners(db') = Owners(db)
        /\ Issues(db') = Issues(db)
    <3>1. ASSUME NEW r \in RegStarts, PersistRegistrationSession(r)
          PROVE  db' = InsertRow(db, "registration_sessions", SessionRow(r))
      BY <3>1 DEF PersistRegistrationSession, Autocommit
    <3>2. ASSUME NEW r \in LoginStarts, PersistLoginSession(r)
          PROVE  db' = InsertRow(db, "login_sessions", LoginSessionRowOf(r))
      BY <3>2 DEF PersistLoginSession, Autocommit
    <3>3. ASSUME NEW l \in Logouts, RevokeUserSessions(l)
          PROVE  \E u, s : db' = RevokeTokens(db, u, s)
      BY <3>3 DEF RevokeUserSessions, Autocommit
    <3> QED
      BY <1>1, <1>5, <3>1, <3>2, <3>3, Publications, StatementsOwn, UpdatesOwn
  <2>3. Issues(db') = {IssueOf(g)' : g \in Registered' \cup SignedIn'}
    BY <1>1, <2>1, <2>2, AccountsStay
  <2>4. /\ db'.users = {UserOf(o)' : o \in Registered'}
        /\ Owners(db') = {<<command'[o].credential_id, o>> : o \in Registered'}
    BY <1>1, <2>1, <2>2, AccountsStay
  <2> QED
    BY <2>3, <2>4 DEF AccountsStand, Owners, Issues
<1> QED
  BY <1>3, <1>4, <1>5

----------------------------------------------------------------------------
(* The sessions.                                                           *)

(* Every session in image d is in e.                                       *)
Drops(d, e) == /\ d.registration_sessions \subseteq e.registration_sessions
               /\ d.login_sessions \subseteq e.login_sessions

(* The statements of a transaction add no session.                         *)
LEMMA StatementsDrop ==
    ASSUME NEW d \in Database
    PROVE  /\ \A table \in {"users", "credentials", "refresh_tokens"} :
                 \A row : Drops(InsertRow(d, table, row), d)
           /\ \A table \in {"registration_sessions", "login_sessions"} :
                 \A id : Drops(DeleteByID(d, table, id), d)
           /\ \A c, n : Drops(SetSignCount(d, c, n), d)
           /\ \A u, s : Drops(RevokeTokens(d, u, s), d)
BY DEF Drops, InsertRow, DeleteByID, SetSignCount, RevokeTokens, Database

(* A step publishes the open transaction, or stores or revokes outside of  *)
(* one, or leaves the committed image; the other image goes with it.       *)
LEMMA ViewsDrop ==
    ASSUME PasskeyReady, Drops(view, db), [PasskeyNext]_passkeyVars
    PROVE  Drops(view', db')
<1>1. db \in Database /\ view \in Database
  BY UsersOfCredentials
<1>2. Drops(db, db)
  BY DEF Drops
<1>3. ASSUME \/ UNCHANGED <<db, view>>
             \/ view' = db'
             \/ db' = db /\ view' = db
             \/ db' = db /\ Drops(view', db)
             \/ db' = db /\ Drops(view', view)
      PROVE  Drops(view', db')
  BY <1>2, <1>3 DEF Drops
<1>4. ASSUME NEW p \in RegFinishes, RegistrationsFinishStep(p)
      PROVE  Drops(view', db')
  <2>1. \/ UNCHANGED storeVars
        \/ InsertUser(p) \/ InsertCredential(p) \/ InsertRefreshToken(p)
        \/ DeleteSession(p) \/ CommitRegistration(p) \/ Rollback(p)
    BY <1>4
    DEF RegistrationsFinishStep, AttestationArrives, FinishArrives,
        FinishProceeds, FinishFails, RejectAttestation, AcceptCommand,
        LoadRegistrationSession, SessionNotFound, VerifyAttestation,
        SessionExpired, AttestationInvalid, IssueTokenPair, InsertUserConflicts,
        InsertCredentialConflicts, RespondFinish, LoadFails, WriteFails
  <2>2. CASE InsertUser(p)
    BY <1>1, <1>3, <2>2, StatementsDrop DEF InsertUser, FirstWrite
  <2>3. CASE InsertCredential(p) \/ InsertRefreshToken(p) \/ DeleteSession(p)
    BY <1>1, <1>3, <2>3, StatementsDrop
    DEF InsertCredential, InsertRefreshToken, DeleteSession, NextWrite
  <2> QED
    BY <1>3, <2>1, <2>2, <2>3 DEF CommitRegistration, Commit, Rollback, storeVars
<1>5. ASSUME NEW q \in LoginFinishes, SessionsFinishStep(q)
      PROVE  Drops(view', db')
  <2>1. \/ UNCHANGED storeVars
        \/ UpdateSignCount(q) \/ InsertLoginToken(q) \/ DeleteLoginSession(q)
        \/ CommitLogin(q) \/ Rollback(q)
    BY <1>5
    DEF SessionsFinishStep, AssertArrives, AssertProceeds, AssertFails,
        RejectAssertion, AcceptAssertion, LoadLoginSession, LoginSessionNotFound,
        NewFreshLoginSession, LoginSessionExpired, LoadCredential,
        CredentialNotFound, LoadOwner, VerifyAssertion, AssertionInvalid,
        RespondAssertion, LoadAssertionFails, FinishLoginFails
  <2>2. CASE UpdateSignCount(q)
    BY <1>1, <1>3, <2>2, StatementsDrop DEF UpdateSignCount, FirstWrite
  <2>3. CASE InsertLoginToken(q) \/ DeleteLoginSession(q)
    BY <1>1, <1>3, <2>3, StatementsDrop
    DEF InsertLoginToken, DeleteLoginSession, NextWrite
  <2> QED
    BY <1>3, <2>1, <2>2, <2>3 DEF CommitLogin, Commit, Rollback, storeVars
<1>6. ASSUME NEW r \in RegStarts, RegistrationsStartStep(r)
      PROVE  Drops(view', db')
  BY <1>3, <1>6
  DEF RegistrationsStartStep, StartArrives, StartProceeds, StartFails,
      RejectHandle, OpenSession, PersistRegistrationSession, PersistFails,
      RespondStart, Autocommit, storeVars
<1>7. ASSUME NEW r \in LoginStarts, SessionsStartStep(r)
      PROVE  Drops(view', db')
  BY <1>3, <1>7
  DEF SessionsStartStep, LoginArrives, LoginProceeds, LoginFails,
      RejectLoginHandle, LoadUser, UserNotFound, LoadCredentials,
      OpenLoginSession, PersistLoginSession, LoadUserCredentialsFails,
      PersistLoginFails, RespondLogin, Autocommit, storeVars
<1>8. ASSUME NEW l \in Logouts, SessionsLogoutStep(l)
      PROVE  Drops(view', db')
  BY <1>3, <1>8
  DEF SessionsLogoutStep, BearerArrives, LogoutProceeds, LogoutFails,
      RejectBearer, AuthenticateLogout, AccessTokenInvalid, StampRevocation,
      RevokeUserSessions, RevokeFails, RespondLogout, Autocommit, storeVars
<1> QED
  BY <1>3, <1>4, <1>5, <1>6, <1>7, <1>8
  DEF PasskeyNext, AuthenticatorStep, TimePasses, Tick, ProcessRestarts, Reboot,
      EveryoneAtRest, passkeyVars, storeVars

(* Every session stored is one that was opened, as it was opened.          *)
LEMMA SessionsStep ==
    ASSUME PasskeyReady, EndToEnd, [PasskeyNext]_passkeyVars
    PROVE  SessionsStand'
<1>1. /\ SessionsStand /\ Drops(view, db)
      /\ db \in Database /\ view \in Database
      /\ StartTypeOK /\ LoginTypeOK
  BY UsersOfCredentials
  DEF EndToEnd, SessionsStand, Drops, PasskeyReady, RegistrationReady,
      StartReady, LoginReady, TypeOK
<1>2. Drops(view', db')
  BY <1>1, ViewsDrop
<1>3. ASSUME NEW row \in db.registration_sessions
      PROVE  startReply'[row.id] = "OK" /\ row = SessionRow(row.id)'
  <2>1. row.id \in RegStarts /\ startReply[row.id] = "OK" /\ row = SessionRow(row.id)
    BY <1>1 DEF SessionsStand, Database, RegSessionRow
  <2>2. startReply'[row.id] = "OK" /\ opened'[row.id] = opened[row.id]
    BY <2>1, OfferedStays
  <2> QED
    BY <2>1, <2>2 DEF SessionRow
<1>4. ASSUME NEW row \in db.login_sessions
      PROVE  loginReply'[row.id] = "OK" /\ row = LoginSessionRowOf(row.id)'
  <2>1. /\ row.id \in LoginStarts /\ loginReply[row.id] = "OK"
        /\ row = LoginSessionRowOf(row.id)
    BY <1>1 DEF SessionsStand, Database, LoginSessionRow
  <2>2. loginReply'[row.id] = "OK" /\ session'[row.id] = session[row.id]
    BY <2>1, OpenedStaysSo
  <2> QED
    BY <2>1, <2>2 DEF LoginSessionRowOf
<1>5. CASE Drops(db', db)
  BY <1>2, <1>3, <1>4, <1>5 DEF SessionsStand, Drops
<1>6. ASSUME NEW r \in RegStarts, PersistRegistrationSession(r)
      PROVE  SessionsStand'
  <2>1. PICK row : row = SessionRow(r)
    OBVIOUS
  <2>2. /\ db'.registration_sessions = db.registration_sessions \cup {row}
        /\ db'.login_sessions = db.login_sessions
    BY <1>1, <1>6, <2>1 DEF PersistRegistrationSession, Autocommit, InsertRow,
                            Database
  <2>3. /\ row.id = r /\ row = SessionRow(r)'
        /\ startReply'[r] = "OK"
    BY <1>1, <1>6, <2>1
    DEF PersistRegistrationSession, AnswerStart, StartTypeOK, SessionRow
  <2> QED
    BY <1>2, <1>3, <1>4, <2>2, <2>3 DEF SessionsStand, Drops
<1>7. ASSUME NEW r \in LoginStarts, PersistLoginSession(r)
      PROVE  SessionsStand'
  <2>1. PICK row : row = LoginSessionRowOf(r)
    OBVIOUS
  <2>2. /\ db'.login_sessions = db.login_sessions \cup {row}
        /\ db'.registration_sessions = db.registration_sessions
    BY <1>1, <1>7, <2>1 DEF PersistLoginSession, Autocommit, InsertRow, Database
  <2>3. /\ row.id = r /\ row = LoginSessionRowOf(r)'
        /\ loginReply'[r] = "OK"
    BY <1>1, <1>7, <2>1
    DEF PersistLoginSession, AnswerLogin, LoginGoes, LoginTypeOK,
        LoginSessionRowOf
  <2> QED
    BY <1>2, <1>3, <1>4, <2>2, <2>3 DEF SessionsStand, Drops
<1>8. ASSUME \/ \E p \in RegFinishes : CommitRegistration(p)
             \/ \E q \in LoginFinishes : CommitLogin(q)
             \/ \E l \in Logouts : RevokeUserSessions(l)
      PROVE  Drops(db', db)
  BY <1>1, <1>8, StatementsDrop
  DEF CommitRegistration, CommitLogin, Commit, RevokeUserSessions, Autocommit
<1>9. Drops(db, db)
  BY DEF Drops
<1> QED
  BY <1>5, <1>6, <1>7, <1>8, <1>9, Publications

----------------------------------------------------------------------------
(* The open transaction of a login.                                        *)

(* Nobody moves the images while a login's transaction is open.            *)
LEMMA WhileSigningIn ==
    ASSUME PasskeyReady, HalvesMeet, [PasskeyNext]_passkeyVars,
           NEW q \in LoginFinishes, assertPc[q] \in LoginTransaction,
           ~SessionsFinishStep(q), ~ProcessRestarts
    PROVE  UNCHANGED <<db, view>>
<1>1. writer = q /\ q \notin RegFinishes /\ q # None
  BY StoreAssumption DEF HalvesMeet, LockIsHeld
<1>2. ASSUME NEW r \in RegStarts, RegistrationsStartStep(r)
      PROVE  UNCHANGED <<db, view>>
  BY <1>1, <1>2
  DEF RegistrationsStartStep, StartArrives, StartProceeds, StartFails,
      RejectHandle, OpenSession, PersistRegistrationSession, PersistFails,
      RespondStart, Autocommit, storeVars
<1>3. ASSUME NEW p \in RegFinishes, RegistrationsFinishStep(p)
      PROVE  UNCHANGED <<db, view>>
  BY <1>1, <1>3, FinishStores
  DEF CommitRegistration, FirstWrite, NextWrite, Commit, Rollback, storeVars
<1>4. ASSUME NEW r \in LoginStarts, SessionsStartStep(r)
      PROVE  UNCHANGED <<db, view>>
  BY <1>1, <1>4
  DEF SessionsStartStep, LoginArrives, LoginProceeds, LoginFails,
      RejectLoginHandle, LoadUser, UserNotFound, LoadCredentials,
      OpenLoginSession, PersistLoginSession, LoadUserCredentialsFails,
      PersistLoginFails, RespondLogin, Autocommit, storeVars
<1>5. ASSUME NEW o \in LoginFinishes, SessionsFinishStep(o)
      PROVE  UNCHANGED <<db, view>>
  BY <1>1, <1>5, LoginStores
  DEF FirstWrite, NextWrite, Commit, Rollback, storeVars
<1>6. ASSUME NEW l \in Logouts, SessionsLogoutStep(l)
      PROVE  UNCHANGED <<db, view>>
  BY <1>1, <1>6
  DEF SessionsLogoutStep, BearerArrives, LogoutProceeds, LogoutFails,
      RejectBearer, AuthenticateLogout, AccessTokenInvalid, StampRevocation,
      RevokeUserSessions, RevokeFails, RespondLogout, Autocommit, storeVars
<1> QED
  BY <1>2, <1>3, <1>4, <1>5, <1>6
  DEF PasskeyNext, AuthenticatorStep, TimePasses, Tick, EveryoneAtRest,
      passkeyVars, storeVars

(* A login builds its image statement by statement.                        *)
LEMMA LoginImageStep ==
    ASSUME PasskeyReady, HalvesMeet, EndToEnd, [PasskeyNext]_passkeyVars,
           NEW q \in LoginFinishes
    PROVE  LoginImageOf(q)'
<1>1. /\ LoginImageOf(q) /\ AssertTypeOK
      /\ db \in Database /\ view \in Database
      /\ q \notin RegFinishes
  BY UsersOfCredentials, StoreAssumption
  DEF EndToEnd, PasskeyReady, LoginReady, TypeOK
<1>2. ASSUME AssertUnmoved(q), ~SessionsFinishStep(q)
      PROVE  LoginImageOf(q)'
  <2>1. ProcessRestarts => assertPc'[q] \notin LoginTransaction
    BY <1>1 DEF ProcessRestarts, AssertKilled, AssertTypeOK, AssertRunning,
                LoginTransaction
  <2>2. assertPc'[q] \in LoginTransaction =>
           /\ UNCHANGED <<db, view>>
           /\ assertPc'[q] = assertPc[q]
    BY <1>2, <2>1, WhileSigningIn
    DEF AssertUnmoved, AssertRunning, LoginTransaction
  <2>3. IssueOf(q)' = IssueOf(q)
    BY <1>1, <1>2 DEF AssertUnmoved, IssueOf, IssuedTo, PairIn
  <2> QED
    BY <1>1, <2>2, <2>3 DEF LoginImageOf, Owners, Issues
<1>3. ASSUME SessionsFinishStep(q)
      PROVE  LoginImageOf(q)'
  <2>1. CASE UpdateSignCount(q)
    <3>1. PICK c, n : /\ c = target[q].credential_id
                      /\ n = assertion[q].signed.sign_count
      OBVIOUS
    <3>2. /\ db' = db /\ view' = SetSignCount(db, c, n)
          /\ assertPc'[q] = "insertToken"
      BY <1>1, <2>1, <3>1
      DEF UpdateSignCount, FirstWrite, AssertGoes, AssertTypeOK
    <3>3. n \in SignCounts
      BY <2>1, <3>1
      DEF UpdateSignCount, PasskeyReady, LoginReady, AssertRunning,
          SessionFinishCommand, Assertion
    <3>4. /\ view'.users = db.users
          /\ view'.refresh_tokens = db.refresh_tokens
          /\ Owners(view') = Owners(db)
      BY <1>1, <3>2, <3>3, SetSignCountTyped, UpdatesOwn
    <3> QED
      BY <3>2, <3>4 DEF LoginImageOf, Owners, Issues
  <2>2. CASE InsertLoginToken(q)
    <3>1. PICK row : row = LoginTokenOf(q)
      OBVIOUS
    <3>2. /\ db' = db /\ view' = InsertRow(view, "refresh_tokens", row)
          /\ assertPc[q] = "insertToken" /\ assertPc'[q] = "deleteSession"
          /\ UNCHANGED <<target, loginIssued>>
      BY <1>1, <2>2, <3>1
      DEF InsertLoginToken, NextWrite, AssertGoes, AssertTypeOK
    <3>3. /\ IssueOf(q)' = IssueOf(q)
          /\ <<row.token_hash, row.user_id, row.expires_at>> = IssueOf(q)
      BY <1>1, <3>1, <3>2 DEF IssueOf, IssuedTo, PairIn, LoginTokenOf
    <3>4. /\ view'.users = view.users /\ Owners(view') = Owners(view)
          /\ Issues(view') = Issues(view) \cup
                {<<row.token_hash, row.user_id, row.expires_at>>}
      BY <1>1, <3>2, StatementsOwn
    <3>5. Issues(view') = Issues(view) \cup {IssueOf(q)}
      BY <3>3, <3>4
    <3> QED
      BY <1>1, <3>2, <3>3, <3>4, <3>5 DEF LoginImageOf, LoginTransaction, Owners, Issues
  <2>3. CASE DeleteLoginSession(q)
    <3>1. PICK id : id = loginLoaded[q].id
      OBVIOUS
    <3>2. /\ db' = db /\ view' = DeleteByID(view, "login_sessions", id)
          /\ assertPc[q] = "deleteSession" /\ assertPc'[q] = "commit"
          /\ UNCHANGED <<target, loginIssued>>
      BY <1>1, <2>3, <3>1
      DEF DeleteLoginSession, NextWrite, AssertGoes, AssertTypeOK
    <3>3. IssueOf(q)' = IssueOf(q)
      BY <1>1, <3>2 DEF IssueOf, IssuedTo, PairIn
    <3>4. /\ view'.users = view.users /\ Owners(view') = Owners(view)
          /\ Issues(view') = Issues(view)
      BY <1>1, <3>2, StatementsOwn
    <3> QED
      BY <1>1, <3>2, <3>3, <3>4 DEF LoginImageOf, LoginTransaction, Owners, Issues
  <2>4. CASE ~UpdateSignCount(q) /\ ~InsertLoginToken(q) /\ ~DeleteLoginSession(q)
    <3>1. assertPc'[q] \notin LoginTransaction
      BY <1>1, <1>3, <2>4
      DEF SessionsFinishStep, AssertArrives, AssertProceeds, AssertFails,
          RejectAssertion, AcceptAssertion, LoadLoginSession,
          LoginSessionNotFound, NewFreshLoginSession, LoginSessionExpired,
          LoadCredential, CredentialNotFound, LoadOwner, VerifyAssertion,
          AssertionInvalid, CommitLogin, RespondAssertion, LoadAssertionFails,
          FinishLoginFails, AnswerAssertion, AssertGoes, AssertTypeOK,
          LoginTransaction
    <3> QED
      BY <3>1 DEF LoginImageOf
  <2> QED
    BY <2>1, <2>2, <2>3, <2>4
<1> QED
  BY <1>2, <1>3, Frames

----------------------------------------------------------------------------
(* What the requests know.                                                 *)

(* A start that has not stored its session has not answered.               *)
LEMMA StartFollowsStep ==
    ASSUME PasskeyReady, EndToEnd, [PasskeyNext]_passkeyVars, NEW r \in RegStarts
    PROVE  StartFollows(r)'
<1>1. StartTypeOK /\ StartFollows(r)
  BY DEF PasskeyReady, RegistrationReady, StartReady, EndToEnd
<1>2. CASE StartUnmoved(r)
  BY <1>1, <1>2 DEF StartUnmoved, StartFollows
<1>3. CASE RegistrationsStartStep(r)
  BY <1>1, <1>3
  DEF RegistrationsStartStep, StartArrives, StartProceeds, StartFails,
      RejectHandle, OpenSession, PersistRegistrationSession, PersistFails,
      RespondStart, AnswerStart, StartTypeOK, StartFollows
<1> QED
  BY <1>2, <1>3, Frames

(* A registration uses the session that its command names, as it was       *)
(* opened.                                                                 *)
LEMMA FinishFollowsStep ==
    ASSUME PasskeyReady, EndToEnd, [PasskeyNext]_passkeyVars,
           NEW p \in RegFinishes
    PROVE  FinishFollows(p)'
<1>1. /\ FinishTypeOK /\ FinishReady(p) /\ FinishFollows(p)
      /\ db \in Database /\ SessionsStand
  BY UsersOfCredentials
  DEF PasskeyReady, RegistrationReady, EndToEnd
<1> DEFINE Loaded == \/ finishPc[p] \in {"check", "issue", "insertUser"}
                                           \cup InTransaction
                     \/ p \in Registered
<1>2. ASSUME Loaded, command'[p] = command[p], loaded'[p] = loaded[p]
      PROVE  FinishFollows(p)'
  <2>1. /\ command[p].id \in RegStarts /\ startReply[command[p].id] = "OK"
        /\ loaded[p] = SessionRow(command[p].id)
    BY <1>1, <1>2 DEF FinishFollows
  <2>2. PICK r \in RegStarts : r = command[p].id
    BY <2>1
  <2>3. startReply'[r] = "OK" /\ SessionRow(r)' = SessionRow(r)
    BY <2>1, <2>2, OfferedStays DEF SessionRow
  <2>4. command'[p].id = r /\ loaded'[p] = SessionRow(r)'
    BY <1>2, <2>1, <2>2, <2>3
  <2> QED
    BY <2>3, <2>4 DEF FinishFollows, SessionRow
<1>3. CASE FinishUnmoved(p)
  BY <1>2, <1>3 DEF FinishUnmoved, FinishFollows, Registered, InTransaction
<1>4. CASE RegistrationsFinishStep(p)
  <2>1. CASE LoadRegistrationSession(p)
    <3>1. PICK row \in db.registration_sessions :
             row.id = command[p].id /\ loaded' = [loaded EXCEPT ![p] = row]
      BY <2>1 DEF LoadRegistrationSession
    <3>2. /\ row.id \in RegStarts /\ startReply[row.id] = "OK"
          /\ row = SessionRow(row.id)
      BY <1>1 DEF SessionsStand, Database, RegSessionRow
    <3>3. /\ command' = command /\ loaded'[p] = row
          /\ startReply' = startReply /\ opened' = opened
      BY <1>1, <1>4, <2>1, <3>1
      DEF LoadRegistrationSession, RegistrationsFinishStep, startVars,
          FinishTypeOK
    <3> QED
      BY <3>1, <3>2, <3>3 DEF FinishFollows, SessionRow
  <2>2. ASSUME Loaded', ~LoadRegistrationSession(p)
        PROVE  Loaded /\ command'[p] = command[p] /\ loaded'[p] = loaded[p]
    <3>1. CASE p \in Registered
      BY <3>1, RegisteredStays
    <3>2. CASE p \notin Registered /\ p \in Registered'
      BY <3>2, RegisteredStays DEF CommitRegistration, InTransaction
    <3>3. CASE p \notin Registered /\ p \notin Registered'
      BY <1>1, <1>4, <2>2, <3>3
      DEF RegistrationsFinishStep, AttestationArrives, FinishArrives,
          FinishProceeds, FinishFails, RejectAttestation, AcceptCommand,
          SessionNotFound, VerifyAttestation, SessionExpired,
          AttestationInvalid, IssueTokenPair, InsertUser, InsertUserConflicts,
          InsertCredential, InsertCredentialConflicts, InsertRefreshToken,
          DeleteSession, CommitRegistration, RespondFinish, LoadFails,
          WriteFails, Answer, GoTo, FinishTypeOK, InTransaction
    <3> QED
      BY <3>1, <3>2, <3>3
  <2> QED
    BY <1>2, <2>1, <2>2 DEF FinishFollows
<1> QED
  BY <1>3, <1>4, Frames

(* A login session is opened for the user that was found, and a user who   *)
(* is found has a credential.                                              *)
LEMMA LoginFollowsStep ==
    ASSUME PasskeyReady, EndToEnd, AccountsStand', [PasskeyNext]_passkeyVars,
           NEW r \in LoginStarts
    PROVE  LoginFollows(r)'
<1>1. LoginTypeOK /\ LoginFollows(r) /\ AccountsStand
  BY DEF PasskeyReady, LoginReady, TypeOK, EndToEnd
<1>2. db.users \subseteq db'.users
  BY <1>1, AccountsStay DEF AccountsStand
<1>3. CASE LoginUnmoved(r)
  BY <1>1, <1>2, <1>3 DEF LoginUnmoved, LoginFollows, LoginRunning
<1>4. CASE SessionsStartStep(r)
  <2> USE <1>1, <1>2 DEF LoginFollows, LoginTypeOK, AnswerLogin, LoginGoes
  <2>1. CASE \/ RejectLoginHandle(r) \/ RespondLogin(r)
             \/ \E h \in Handles : UserNotFound(r, h)
    BY <2>1 DEF RejectLoginHandle, RespondLogin, UserNotFound
  <2>2. ASSUME NEW h \in Handles, LoadUser(r, h)
        PROVE  LoginFollows(r)'
    BY <2>2, NoneIsNoReply DEF LoadUser, storeVars
  <2>3. CASE LoadCredentials(r)
    <3>1. user[r] \in db.users
      BY <2>3 DEF LoadCredentials
    <3>2. PICK p \in Registered : user[r] = UserOf(p)
      BY <3>1 DEF AccountsStand
    <3>3. <<command[p].credential_id, p>> \in Owners(db)
      BY DEF AccountsStand
    <3>4. PICK k \in db.credentials : k.user_id = p
      BY <3>3 DEF Owners
    <3>5. CredentialsOf(user[r]) # {}
      BY <3>2, <3>4 DEF CredentialsOf, UserOf
    <3> QED
      BY <2>3, <3>1, <3>5, NoneIsNoReply DEF LoadCredentials
  <2>4. CASE OpenLoginSession(r)
    BY <2>4 DEF OpenLoginSession, NewLoginSession
  <2>5. CASE PersistLoginSession(r)
    BY <2>5 DEF PersistLoginSession
  <2>6. ASSUME NEW f \in Faults,
               LoadUserCredentialsFails(r, f) \/ PersistLoginFails(r, f)
        PROVE  LoginFollows(r)'
    BY <2>6, ErrorTyped DEF LoadUserCredentialsFails, PersistLoginFails
  <2> HIDE DEF LoginFollows, LoginTypeOK
  <2> QED
    BY <1>4, <2>1, <2>2, <2>3, <2>4, <2>5, <2>6
    DEF SessionsStartStep, LoginArrives, LoginProceeds, LoginFails
<1> QED
  BY <1>3, <1>4, Frames

(* An assertion is checked against the session that its command names, and *)
(* its credential, once found, has an owner.                               *)
LEMMA AssertFollowsStep ==
    ASSUME PasskeyReady, EndToEnd, AccountsStand', [PasskeyNext]_passkeyVars,
           NEW q \in LoginFinishes
    PROVE  AssertFollows(q)'
<1>1. /\ AssertTypeOK /\ AssertFollows(q) /\ AccountsStand /\ SessionsStand
      /\ assertPc[q] \in {"idle"} \cup (AssertRunning \ {"respond"})
            => assertReply[q] = None
      /\ db \in Database
  BY UsersOfCredentials DEF PasskeyReady, LoginReady, TypeOK, EndToEnd
<1>2. Owners(db) \subseteq Owners(db)'
  <2>1. \A p \in Registered : p \in Registered' /\ command'[p] = command[p]
    BY AccountsStay
  <2> QED
    BY <1>1, <2>1 DEF AccountsStand
<1>3. CASE AssertUnmoved(q)
  <2>1. ASSUME assertion[q].id \in LoginStarts,
               loginReply[assertion[q].id] = "OK",
               loginLoaded[q] = LoginSessionRowOf(assertion[q].id)
        PROVE  /\ loginReply'[assertion'[q].id] = "OK"
               /\ loginLoaded'[q] = LoginSessionRowOf(assertion[q].id)'
    <3>1. PICK r \in LoginStarts : r = assertion[q].id
      BY <2>1
    <3>2. loginReply'[r] = "OK" /\ session'[r] = session[r]
      BY <2>1, <3>1, OpenedStaysSo
    <3>3. assertion'[q].id = r /\ loginLoaded'[q] = loginLoaded[q]
      BY <1>3, <3>1 DEF AssertUnmoved
    <3> QED
      BY <2>1, <3>1, <3>2, <3>3 DEF LoginSessionRowOf
  <2>2. OwnCredential(q, target[q])' <=> OwnCredential(q, target[q])
    BY <1>3 DEF AssertUnmoved, OwnCredential
  <2> QED
    BY <1>1, <1>2, <1>3, <2>1, <2>2
    DEF AssertUnmoved, AssertFollows, AssertRunning, LoginTransaction, SignedIn
<1>4. CASE SessionsFinishStep(q)
  <2>1. /\ UNCHANGED <<loginReply, session>>
        /\ \A r : LoginSessionRowOf(r)' = LoginSessionRowOf(r)
    BY <1>4 DEF SessionsFinishStep, loginVars, LoginSessionRowOf
  <2> USE <1>1, <1>2, <2>1
      DEF AssertFollows, AssertTypeOK, AssertRunning, LoginTransaction, SignedIn,
          AnswerAssertion, AssertGoes, OwnCredential
  <2>2. CASE RejectAssertion(q) \/ RespondAssertion(q)
    BY <2>2, NoneIsNoReply DEF RejectAssertion, RespondAssertion, storeVars
  <2>3. ASSUME NEW c, AcceptAssertion(q, c)
        PROVE  AssertFollows(q)'
    BY <2>3, NoneIsNoReply DEF AcceptAssertion, storeVars
  <2>4. CASE LoadLoginSession(q)
    <3>1. PICK row \in db.login_sessions :
             /\ row.id = assertion[q].id
             /\ loginLoaded' = [loginLoaded EXCEPT ![q] = row]
      BY <2>4 DEF LoadLoginSession
    <3>2. /\ row.id \in LoginStarts /\ loginReply[row.id] = "OK"
          /\ row = LoginSessionRowOf(row.id)
      BY DEF SessionsStand, Database, LoginSessionRow
    <3> QED
      BY <2>4, <3>1, <3>2, NoneIsNoReply DEF LoadLoginSession, storeVars
  <2>5. CASE \/ LoginSessionNotFound(q) \/ NewFreshLoginSession(q)
             \/ LoginSessionExpired(q) \/ CredentialNotFound(q)
    BY <2>5, NoneIsNoReply
    DEF LoginSessionNotFound, NewFreshLoginSession, LoginSessionExpired,
        CredentialNotFound, storeVars
  <2>6. CASE LoadCredential(q)
    <3>1. PICK k \in db.credentials :
             OwnCredential(q, k) /\ target' = [target EXCEPT ![q] = k]
      BY <2>6 DEF LoadCredential
    <3>2. <<k.credential_id, k.user_id>> \in Owners(db)
      BY DEF Owners
    <3> QED
      BY <2>6, <3>1, <3>2, NoneIsNoReply DEF LoadCredential, storeVars
  <2>7. CASE LoadOwner(q)
    <3>1. <<target[q].credential_id, target[q].user_id>> \in Owners(db)
      BY <2>7 DEF LoadOwner
    <3>2. target[q].user_id \in Registered
      BY <3>1 DEF AccountsStand
    <3>3. \E u \in db.users : u.id = target[q].user_id
      <4>1. PICK p \in Registered : p = target[q].user_id
        BY <3>2
      <4>2. UserOf(p).id = p
        BY DEF UserOf
      <4>3. UserOf(p) \in db.users
        BY <4>1 DEF AccountsStand
      <4> QED
        BY <4>1, <4>2, <4>3
    <3> QED
      BY <2>7, <3>3, NoneIsNoReply DEF LoadOwner, storeVars
  <2>8. CASE VerifyAssertion(q) \/ AssertionInvalid(q)
    BY <2>8, NoneIsNoReply
    DEF VerifyAssertion, AssertionInvalid, AssertionVerified, storeVars
  <2>9. CASE \/ UpdateSignCount(q) \/ InsertLoginToken(q)
             \/ DeleteLoginSession(q) \/ CommitLogin(q)
    BY <2>9, NoneIsNoReply
    DEF UpdateSignCount, InsertLoginToken, DeleteLoginSession, CommitLogin,
        AssertionVerified
  <2>10. ASSUME NEW f \in Faults, LoadAssertionFails(q, f) \/ FinishLoginFails(q, f)
         PROVE  AssertFollows(q)'
    BY <2>10, ErrorTyped, NoneIsNoReply
    DEF LoadAssertionFails, FinishLoginFails, AssertionVerified
  <2> HIDE DEF AssertFollows
  <2> QED
    BY <1>4, <2>2, <2>3, <2>4, <2>5, <2>6, <2>7, <2>8, <2>9, <2>10
    DEF SessionsFinishStep, AssertArrives, AssertProceeds, AssertFails
<1> QED
  BY <1>3, <1>4, Frames

----------------------------------------------------------------------------

(* From end to end, what each request has learned is so, the tables are    *)
(* those of the answers and the sessions stored are those opened.          *)
THEOREM EndToEndHolds == PasskeySpec => []EndToEnd
<1>1. PasskeyInit => EndToEnd
  <2> SUFFICES ASSUME PasskeyInit
               PROVE  EndToEnd
    OBVIOUS
  <2>1. db = EmptyDatabase /\ view = EmptyDatabase
    BY DEF PasskeyInit, StoreInit
  <2>2. Registered = {} /\ SignedIn = {}
    BY NoneIsNoReply
    DEF PasskeyInit, FinishInit, AssertInit, Registered, SignedIn
  <2>3. AccountsStand /\ SessionsStand
    BY <2>1, <2>2
    DEF EmptyDatabase, AccountsStand, SessionsStand, Owners, Issues
  <2>4. /\ \A q \in LoginFinishes : LoginImageOf(q)
        /\ \A r \in RegStarts : StartFollows(r)
        /\ \A p \in RegFinishes : FinishFollows(p)
        /\ \A r \in LoginStarts : LoginFollows(r)
        /\ \A q \in LoginFinishes : AssertFollows(q)
    BY <2>2, NoneIsNoReply
    DEF PasskeyInit, StartInit, FinishInit, LoginInit, AssertInit, LoginImageOf,
        StartFollows, FinishFollows, LoginFollows, AssertFollows,
        LoginTransaction, InTransaction
  <2> QED
    BY <2>3, <2>4 DEF EndToEnd
<1>2. PasskeyInvariant /\ EnrolmentsHold /\ EndToEnd
         /\ [PasskeyNext]_passkeyVars => EndToEnd'
  <2> SUFFICES ASSUME PasskeyReady, HalvesMeet, EnrolmentsHold, EndToEnd,
                      [PasskeyNext]_passkeyVars
               PROVE  EndToEnd'
    BY DEF PasskeyInvariant
  <2>1. AccountsStand'
    BY AccountsStep
  <2>2. SessionsStand'
    BY SessionsStep
  <2>3. \A q \in LoginFinishes : LoginImageOf(q)' /\ AssertFollows(q)'
    BY <2>1, LoginImageStep, AssertFollowsStep
  <2>4. \A r \in LoginStarts : LoginFollows(r)'
    BY <2>1, LoginFollowsStep
  <2>5. /\ \A r \in RegStarts : StartFollows(r)'
        /\ \A p \in RegFinishes : FinishFollows(p)'
    BY StartFollowsStep, FinishFollowsStep
  <2> QED
    BY <2>1, <2>2, <2>3, <2>4, <2>5 DEF EndToEnd
<1> QED
  BY <1>1, <1>2, PasskeyInvariantHolds, EnrolmentsAreComplete, PTL DEF PasskeySpec

(* The refresh tokens in the database are those of the answers, each with  *)
(* its owner and its expiry.                                               *)
THEOREM TokensAreAnswers == PasskeySpec => []TokensMatchAnswers
<1>1. EndToEnd => TokensMatchAnswers
  <2> SUFFICES ASSUME EndToEnd
               PROVE  TokensMatchAnswers
    OBVIOUS
  <2>1. Issues(db) = {IssueOf(g) : g \in Registered \cup SignedIn}
    BY DEF EndToEnd, AccountsStand
  <2>2. ASSUME NEW t \in db.refresh_tokens
        PROVE  /\ t.token_hash \in Registered \cup SignedIn
               /\ t.user_id = IssuedTo(t.token_hash)
               /\ t.expires_at = PairIn(t.token_hash).refresh_exp
    <3>1. <<t.token_hash, t.user_id, t.expires_at>> \in Issues(db)
      BY DEF Issues
    <3>2. PICK g \in Registered \cup SignedIn :
             <<t.token_hash, t.user_id, t.expires_at>> = IssueOf(g)
      BY <2>1, <3>1
    <3> QED
      BY <3>2 DEF IssueOf
  <2>3. ASSUME NEW g \in Registered \cup SignedIn
        PROVE  \E t \in db.refresh_tokens : t.token_hash = g
    <3>1. IssueOf(g) \in Issues(db)
      BY <2>1
    <3>2. PICK t \in db.refresh_tokens :
             IssueOf(g) = <<t.token_hash, t.user_id, t.expires_at>>
      BY <3>1 DEF Issues
    <3> QED
      BY <3>2 DEF IssueOf
  <2>4. {t.token_hash : t \in db.refresh_tokens} = Registered \cup SignedIn
    BY <2>2, <2>3
  <2> QED
    BY <2>2, <2>4 DEF TokensMatchAnswers
<1> QED
  BY <1>1, EndToEndHolds, PTL

(* A user that a login has found has a credential, and a credential that   *)
(* it has found has a user.                                                *)
THEOREM EverybodyIsWhole == PasskeySpec => []NobodyIsHalfRegistered
<1>1. EndToEnd => NobodyIsHalfRegistered
  BY DEF EndToEnd, LoginFollows, AssertFollows, NobodyIsHalfRegistered
<1> QED
  BY <1>1, EndToEndHolds, PTL

(* A login gives tokens for the account that was registered under the      *)
(* handle it was asked for, by the credential that was attested.           *)
THEOREM AccountsAreTheRegistered == PasskeySpec => []SameHandleSameCredential
<1>1. EndToEnd => SameHandleSameCredential
  <2> SUFFICES ASSUME EndToEnd, NEW q \in SignedIn
               PROVE  LET p == target[q].user_id
                          c == command[p]
                      IN  /\ p \in Registered
                          /\ opened[c.id].handle = user[assertion[q].id].handle
                          /\ c.credential_id = assertion[q].signed.credential_id
                          /\ assertion[q].signed.challenge = assertion[q].id
    BY DEF SameHandleSameCredential
  <2>1. PICK r \in LoginStarts : r = assertion[q].id
    BY DEF EndToEnd, AssertFollows, SignedIn
  <2>2. /\ loginReply[r] = "OK" /\ loginLoaded[q] = LoginSessionRowOf(r)
        /\ <<target[q].credential_id, target[q].user_id>> \in Owners(db)
        /\ target[q].credential_id = assertion[q].signed.credential_id
        /\ target[q].user_id = loginLoaded[q].user_id
        /\ assertion[q].signed.challenge = loginLoaded[q].id
    BY <2>1
    DEF EndToEnd, AssertFollows, SignedIn, OwnCredential, AssertionVerified
  <2>3. /\ loginLoaded[q].id = r
        /\ user[r] \in db.users /\ loginLoaded[q].user_id = user[r].id
    BY <2>2 DEF EndToEnd, LoginFollows, LoginSessionRowOf
  <2>4. PICK p \in Registered :
           /\ target[q].user_id = p
           /\ target[q].credential_id = command[p].credential_id
    BY <2>2 DEF EndToEnd, AccountsStand
  <2>5. user[r] = UserOf(p)
    BY <2>2, <2>3, <2>4 DEF EndToEnd, AccountsStand, UserOf
  <2>6. loaded[p] = SessionRow(command[p].id)
    BY DEF EndToEnd, FinishFollows, Registered
  <2>7. user[r].handle = opened[command[p].id].handle
    BY <2>5, <2>6 DEF UserOf, SessionRow
  <2> QED
    BY <2>1, <2>2, <2>3, <2>4, <2>7
<1> QED
  BY <1>1, EndToEndHolds, PTL

----------------------------------------------------------------------------
(* The promises.  The refinements of Accounts and Grants need to know what *)
(* a COMMIT publishes of the tables they look at, that a session that was  *)
(* offered is stored or was used, and whose token a logout goes on with.   *)

ImageDropsSession(p) ==
    finishPc[p] \in InTransaction =>
      view.registration_sessions =
        IF finishPc[p] = "commit"
        THEN {s \in db.registration_sessions : s.id # command[p].id}
        ELSE db.registration_sessions

ImageAddsToken(q) ==
    /\ assertPc[q] \in {"updateCount"} \cup LoginTransaction
          => loginIssued[q].key = boots
    /\ assertPc[q] \in LoginTransaction =>
          /\ view.registration_sessions = db.registration_sessions
          /\ view.refresh_tokens =
                IF assertPc[q] = "insertToken" THEN db.refresh_tokens
                ELSE db.refresh_tokens \cup {LoginTokenOf(q)}

OffersAreAccountedFor ==
    \A r \in Offers :
        \/ \E s \in db.registration_sessions : s.id = r
        \/ \E p \in Registered : command[p].id = r

(* A logout goes on with an access token that the running process signed.  *)
BearerFollows(l) ==
    logoutPc[l] \in {"stamp", "revoke"} =>
      LET token == verifyInput[l].token
      IN  /\ token.from \in Registered \cup SignedIn
          /\ token.sub = IssuedTo(token.from)
          /\ token.key = PairIn(token.from).key
          /\ token.key = boots
          /\ logoutPc[l] = "revoke" => revocation[l].user_id = token.sub

PromisesReady ==
    /\ \A p \in RegFinishes : ImageDropsSession(p)
    /\ \A q \in LoginFinishes : ImageAddsToken(q)
    /\ OffersAreAccountedFor
    /\ \A l \in Logouts : BearerFollows(l)

(* A transaction of a registration publishes all sessions but its own.     *)
LEMMA ImageDropsStep ==
    ASSUME PasskeyReady, HalvesMeet, EndToEnd, [PasskeyNext]_passkeyVars,
           NEW p \in RegFinishes, ImageDropsSession(p)
    PROVE  ImageDropsSession(p)'
<1>1. /\ FinishTypeOK /\ FinishFollows(p)
      /\ db \in Database /\ view \in Database
  BY UsersOfCredentials DEF PasskeyReady, RegistrationReady, EndToEnd
<1>2. ASSUME FinishUnmoved(p), ~RegistrationsFinishStep(p)
      PROVE  ImageDropsSession(p)'
  <2>1. ProcessRestarts => finishPc'[p] \notin InTransaction
    BY <1>1 DEF ProcessRestarts, FinishKilled, FinishTypeOK, FinishRunning,
                InTransaction
  <2>2. finishPc'[p] \in InTransaction =>
           /\ UNCHANGED <<db, view>>
           /\ finishPc'[p] = finishPc[p]
    BY <1>2, <2>1, WhileWriting DEF FinishUnmoved, InTransaction
  <2> QED
    BY <1>2, <2>2 DEF ImageDropsSession, FinishUnmoved
<1>3. ASSUME RegistrationsFinishStep(p)
      PROVE  ImageDropsSession(p)'
  <2>1. CASE InsertUser(p)
    <3>1. PICK row : row = UserOf(p)
      OBVIOUS
    <3>2. /\ db' = db /\ view' = InsertRow(db, "users", row)
          /\ finishPc'[p] = "insertCredential"
      BY <1>1, <2>1, <3>1 DEF InsertUser, FirstWrite, GoTo, FinishTypeOK
    <3>3. view'.registration_sessions = db.registration_sessions
      BY <1>1, <3>2 DEF InsertRow, Database
    <3> QED
      BY <3>2, <3>3 DEF ImageDropsSession
  <2>2. ASSUME InsertCredential(p) \/ InsertRefreshToken(p)
        PROVE  ImageDropsSession(p)'
    <3>1. PICK table, row :
             /\ table \in {"credentials", "refresh_tokens"}
             /\ view' = InsertRow(view, table, row)
      BY <2>2 DEF InsertCredential, InsertRefreshToken, NextWrite
    <3>2. /\ db' = db /\ finishPc[p] \in InTransaction \ {"commit"}
          /\ finishPc'[p] \in InTransaction \ {"commit"}
      BY <1>1, <2>2
      DEF InsertCredential, InsertRefreshToken, NextWrite, GoTo, FinishTypeOK,
          InTransaction
    <3>3. view'.registration_sessions = view.registration_sessions
      BY <1>1, <3>1 DEF InsertRow, Database
    <3> QED
      BY <3>2, <3>3 DEF ImageDropsSession
  <2>3. CASE DeleteSession(p)
    <3>1. /\ finishPc[p] = "deleteSession" /\ finishPc'[p] = "commit"
          /\ db' = db /\ command' = command
          /\ view' = DeleteByID(view, "registration_sessions", loaded[p].id)
      BY <1>1, <2>3 DEF DeleteSession, NextWrite, GoTo, FinishTypeOK
    <3>2. loaded[p].id = command[p].id
      BY <1>1, <3>1 DEF FinishFollows, SessionRow, InTransaction
    <3>3. PICK id : id = command[p].id
      OBVIOUS
    <3>4. view' = DeleteByID(view, "registration_sessions", id)
      BY <3>1, <3>2, <3>3
    <3>5. view'.registration_sessions =
             {s \in view.registration_sessions : s.id # id}
      BY <1>1, <3>4 DEF DeleteByID, Database
    <3>6. view.registration_sessions = db.registration_sessions
      BY <3>1 DEF ImageDropsSession, InTransaction
    <3> QED
      BY <3>1, <3>3, <3>5, <3>6 DEF ImageDropsSession
  <2>4. CASE /\ ~InsertUser(p) /\ ~InsertCredential(p) /\ ~InsertRefreshToken(p)
             /\ ~DeleteSession(p)
    <3>1. finishPc'[p] \notin InTransaction
      BY <1>1, <1>3, <2>4
      DEF RegistrationsFinishStep, AttestationArrives, FinishArrives,
          FinishProceeds, FinishFails, RejectAttestation, AcceptCommand,
          LoadRegistrationSession, SessionNotFound, VerifyAttestation,
          SessionExpired, AttestationInvalid, IssueTokenPair,
          InsertUserConflicts, InsertCredentialConflicts, CommitRegistration,
          RespondFinish, LoadFails, WriteFails, Answer, GoTo, FinishTypeOK,
          InTransaction
    <3> QED
      BY <3>1 DEF ImageDropsSession
  <2> QED
    BY <2>1, <2>2, <2>3, <2>4
<1> QED
  BY <1>2, <1>3, Frames

(* A transaction of a login publishes one refresh token more, signed by    *)
(* the process that still runs, and leaves the registration sessions.      *)
LEMMA ImageAddsStep ==
    ASSUME PasskeyReady, HalvesMeet, EndToEnd, [PasskeyNext]_passkeyVars,
           now <= MaxTime, NEW q \in LoginFinishes, ImageAddsToken(q)
    PROVE  ImageAddsToken(q)'
<1>1. /\ AssertTypeOK /\ db \in Database /\ view \in Database
      /\ boots' = boots \/ ProcessRestarts
  BY UsersOfCredentials, TimeAndCounters DEF PasskeyReady, LoginReady, TypeOK
<1>2. ASSUME AssertUnmoved(q), ~SessionsFinishStep(q)
      PROVE  ImageAddsToken(q)'
  <2>1. ProcessRestarts => assertPc'[q] \notin {"updateCount"} \cup LoginTransaction
    BY <1>1 DEF ProcessRestarts, AssertKilled, AssertTypeOK, AssertRunning,
                LoginTransaction
  <2>2. assertPc'[q] \in {"updateCount"} \cup LoginTransaction =>
           /\ assertPc'[q] = assertPc[q] /\ boots' = boots
           /\ loginIssued'[q] = loginIssued[q] /\ target'[q] = target[q]
    BY <1>1, <1>2, <2>1 DEF AssertUnmoved, AssertRunning, LoginTransaction
  <2>3. assertPc'[q] \in LoginTransaction => UNCHANGED <<db, view>>
    BY <1>2, <2>1, <2>2, WhileSigningIn
  <2> QED
    BY <2>2, <2>3 DEF ImageAddsToken, LoginTokenOf
<1>3. ASSUME SessionsFinishStep(q)
      PROVE  ImageAddsToken(q)'
  <2>1. CASE VerifyAssertion(q)
    BY <1>1, <2>1
    DEF VerifyAssertion, AssertGoes, AssertTypeOK, GenerateTokenPair, storeVars,
        ImageAddsToken, LoginTransaction
  <2>2. CASE UpdateSignCount(q)
    <3>1. PICK c, n : /\ c = target[q].credential_id
                      /\ n = assertion[q].signed.sign_count
      OBVIOUS
    <3>2. /\ UNCHANGED <<db, boots, loginIssued>>
          /\ view' = SetSignCount(db, c, n)
          /\ assertPc[q] = "updateCount" /\ assertPc'[q] = "insertToken"
      BY <1>1, <2>2, <3>1
      DEF UpdateSignCount, FirstWrite, AssertGoes, AssertTypeOK
    <3>3. /\ view'.registration_sessions = db.registration_sessions
          /\ view'.refresh_tokens = db.refresh_tokens
      BY <1>1, <3>2 DEF SetSignCount, Database
    <3> QED
      BY <3>2, <3>3 DEF ImageAddsToken
  <2>3. CASE InsertLoginToken(q)
    <3>1. PICK row : row = LoginTokenOf(q)
      OBVIOUS
    <3>2. /\ UNCHANGED <<db, boots, loginIssued, target>>
          /\ view' = InsertRow(view, "refresh_tokens", row)
          /\ assertPc[q] = "insertToken" /\ assertPc'[q] = "deleteSession"
      BY <1>1, <2>3, <3>1
      DEF InsertLoginToken, NextWrite, AssertGoes, AssertTypeOK
    <3>3. /\ view'.registration_sessions = view.registration_sessions
          /\ view'.refresh_tokens = view.refresh_tokens \cup {row}
      BY <1>1, <3>2 DEF InsertRow, Database
    <3>4. LoginTokenOf(q)' = row
      BY <3>1, <3>2 DEF LoginTokenOf
    <3> QED
      BY <3>2, <3>3, <3>4 DEF ImageAddsToken, LoginTransaction
  <2>4. CASE DeleteLoginSession(q)
    <3>1. PICK id : id = loginLoaded[q].id
      OBVIOUS
    <3>2. /\ UNCHANGED <<db, boots, loginIssued, target>>
          /\ view' = DeleteByID(view, "login_sessions", id)
          /\ assertPc[q] = "deleteSession" /\ assertPc'[q] = "commit"
      BY <1>1, <2>4, <3>1
      DEF DeleteLoginSession, NextWrite, AssertGoes, AssertTypeOK
    <3>3. /\ view'.registration_sessions = view.registration_sessions
          /\ view'.refresh_tokens = view.refresh_tokens
      BY <1>1, <3>2 DEF DeleteByID, Database
    <3>4. LoginTokenOf(q)' = LoginTokenOf(q)
      BY <3>2 DEF LoginTokenOf
    <3> QED
      BY <3>2, <3>3, <3>4 DEF ImageAddsToken, LoginTransaction
  <2>5. CASE /\ ~VerifyAssertion(q) /\ ~UpdateSignCount(q)
             /\ ~InsertLoginToken(q) /\ ~DeleteLoginSession(q)
    <3>1. assertPc'[q] \notin {"updateCount"} \cup LoginTransaction
      BY <1>1, <1>3, <2>5
      DEF SessionsFinishStep, AssertArrives, AssertProceeds, AssertFails,
          RejectAssertion, AcceptAssertion, LoadLoginSession,
          LoginSessionNotFound, NewFreshLoginSession, LoginSessionExpired,
          LoadCredential, CredentialNotFound, LoadOwner,
          AssertionInvalid, CommitLogin, RespondAssertion, LoadAssertionFails,
          FinishLoginFails, AnswerAssertion, AssertGoes, AssertTypeOK,
          LoginTransaction
    <3> QED
      BY <3>1 DEF ImageAddsToken
  <2> QED
    BY <2>1, <2>2, <2>3, <2>4, <2>5
<1> QED
  BY <1>2, <1>3, Frames

(* A step leaves the committed tables and the answers OK alone, or is one  *)
(* of the five kinds of statement that publish.                            *)
LEMMA Deeds ==
    ASSUME PasskeyReady, EndToEnd, [PasskeyNext]_passkeyVars
    PROVE  \/ /\ db' = db /\ Registered' = Registered /\ SignedIn' = SignedIn
              /\ Offers' = Offers
           \/ \E r \in RegStarts :
                 RegistrationsStartStep(r) /\ PersistRegistrationSession(r)
           \/ \E p \in RegFinishes :
                 RegistrationsFinishStep(p) /\ CommitRegistration(p)
           \/ \E r \in LoginStarts : SessionsStartStep(r) /\ PersistLoginSession(r)
           \/ \E q \in LoginFinishes : SessionsFinishStep(q) /\ CommitLogin(q)
           \/ \E l \in Logouts : SessionsLogoutStep(l) /\ RevokeUserSessions(l)
<1>1. UNCHANGED startVars => Offers' = Offers
  BY DEF startVars, Offers
<1>2. UNCHANGED finishVars => Registered' = Registered
  BY DEF finishVars, Registered
<1>3. UNCHANGED assertVars => SignedIn' = SignedIn
  BY DEF assertVars, SignedIn
<1>4. ASSUME NEW r \in RegStarts, RegistrationsStartStep(r),
             ~PersistRegistrationSession(r)
      PROVE  db' = db /\ Offers' = Offers
  <2>1. db' = db
    BY <1>4
    DEF RegistrationsStartStep, StartArrives, StartProceeds, StartFails,
        RejectHandle, OpenSession, PersistFails, RespondStart, storeVars
  <2>2. \A o \in RegStarts : startReply'[o] = "OK" <=> startReply[o] = "OK"
    <3>1. \A o \in RegStarts \ {r} : startReply'[o] = startReply[o]
      BY <1>4, StartAlone DEF PasskeyReady, RegistrationReady, StartReady,
                              StartUnmoved
    <3> QED
      BY <1>4, <3>1, OfferedStays
  <2> QED
    BY <2>1, <2>2 DEF Offers
<1>5. ASSUME NEW p \in RegFinishes, RegistrationsFinishStep(p),
             ~CommitRegistration(p)
      PROVE  db' = db /\ Registered' = Registered
  BY <1>5, RegisteredStep
<1>6. ASSUME NEW r \in LoginStarts, SessionsStartStep(r), ~PersistLoginSession(r)
      PROVE  db' = db
  BY <1>6, LoginDb DEF SessionsStartStep, LoginStep
<1>7. ASSUME NEW q \in LoginFinishes, SessionsFinishStep(q), ~CommitLogin(q)
      PROVE  db' = db /\ SignedIn' = SignedIn
  <2>1. db' = db
    BY <1>7, AssertDb DEF SessionsFinishStep, AssertStep
  <2>2. \A o \in LoginFinishes \ {q} : o \in SignedIn' <=> o \in SignedIn
    BY <1>7, AssertAlone
    DEF SessionsFinishStep, AssertStep, PasskeyReady, LoginReady, TypeOK,
        AssertUnmoved, SignedIn
  <2>3. q \in SignedIn' <=> q \in SignedIn
    BY <1>7, SignedInStays
  <2> QED
    BY <2>1, <2>2, <2>3 DEF SignedIn
<1>8. ASSUME NEW l \in Logouts, SessionsLogoutStep(l), ~RevokeUserSessions(l)
      PROVE  db' = db
  BY <1>8
  DEF SessionsLogoutStep, BearerArrives, LogoutProceeds, LogoutFails,
      RejectBearer, AuthenticateLogout, AccessTokenInvalid, StampRevocation,
      RevokeFails, RespondLogout, storeVars
<1>9. ASSUME AuthenticatorStep \/ TimePasses \/ ProcessRestarts
                \/ UNCHANGED passkeyVars
      PROVE  /\ db' = db /\ Registered' = Registered /\ SignedIn' = SignedIn
             /\ Offers' = Offers
  <2>1. ProcessRestarts => UNCHANGED <<startReply, finishReply, assertReply>>
    BY DEF ProcessRestarts, StartKilled, FinishKilled, AssertKilled
  <2>2. UNCHANGED <<startReply, finishReply, assertReply>>
    BY <1>9, <2>1 DEF AuthenticatorStep, TimePasses, passkeyVars, startVars,
                      finishVars, assertVars
  <2>3. db' = db
    BY <1>9 DEF AuthenticatorStep, TimePasses, Tick, ProcessRestarts, Reboot,
                passkeyVars, storeVars
  <2> QED
    BY <2>2, <2>3 DEF Offers, Registered, SignedIn
<1>10. /\ \A r : RegistrationsStartStep(r) => UNCHANGED <<finishVars, assertVars>>
       /\ \A p : RegistrationsFinishStep(p) => UNCHANGED <<startVars, assertVars>>
       /\ \A r : SessionsStartStep(r) =>
                    UNCHANGED <<startVars, finishVars, assertVars>>
       /\ \A q : SessionsFinishStep(q) => UNCHANGED <<startVars, finishVars>>
       /\ \A l : SessionsLogoutStep(l) =>
                    UNCHANGED <<startVars, finishVars, assertVars>>
  BY DEF RegistrationsStartStep, RegistrationsFinishStep, SessionsStartStep,
         SessionsFinishStep, SessionsLogoutStep
<1> QED
  BY <1>1, <1>2, <1>3, <1>4, <1>5, <1>6, <1>7, <1>8, <1>9, <1>10
  DEF PasskeyNext, EveryoneAtRest

(* The tables that the promises look at.                                   *)
SameAccounts == /\ db'.users = db.users /\ Owners(db') = Owners(db)
                /\ Registered' = Registered
SameTokens == /\ db'.refresh_tokens = db.refresh_tokens
              /\ Registered' = Registered /\ SignedIn' = SignedIn
SameOffers == /\ db'.registration_sessions = db.registration_sessions
              /\ Offers' = Offers

(* A registration session is offered.                                      *)
LEMMA OfferPublishes ==
    ASSUME PasskeyReady, EndToEnd, NEW r \in RegStarts,
           RegistrationsStartStep(r), PersistRegistrationSession(r)
    PROVE  /\ SameAccounts /\ SameTokens
           /\ db'.registration_sessions =
                 db.registration_sessions \cup {SessionRow(r)}
           /\ opened' = opened /\ opened[r].handle \in Handles
           /\ r \notin Offers /\ Offers' = Offers \cup {r}
<1>1. StartTypeOK /\ StartFollows(r) /\ db \in Database
      /\ opened[r] \in RegistrationSession
  BY UsersOfCredentials
  DEF PasskeyReady, RegistrationReady, StartReady, EndToEnd,
      PersistRegistrationSession
<1>2. PICK row : row = SessionRow(r)
  OBVIOUS
<1>3. /\ startPc[r] = "persist" /\ opened' = opened
      /\ startReply' = [startReply EXCEPT ![r] = "OK"]
      /\ db' = InsertRow(db, "registration_sessions", row)
  BY <1>2 DEF PersistRegistrationSession, Autocommit, AnswerStart
<1>4. /\ db'.registration_sessions = db.registration_sessions \cup {row}
      /\ db'.users = db.users /\ db'.credentials = db.credentials
      /\ db'.refresh_tokens = db.refresh_tokens
  BY <1>1, <1>3 DEF InsertRow, Database
<1>5. Registered' = Registered /\ SignedIn' = SignedIn
  BY DEF RegistrationsStartStep, finishVars, assertVars, Registered, SignedIn
<1>6. r \notin Offers /\ Offers' = Offers \cup {r}
  BY <1>1, <1>3, NoneIsNoReply DEF StartTypeOK, StartFollows, Offers
<1> QED
  BY <1>1, <1>2, <1>3, <1>4, <1>5, <1>6
  DEF SameAccounts, SameTokens, Owners, RegistrationSession

(* A registration ends in one person, credential, token and session less.  *)
LEMMA RegistrationPublishes ==
    ASSUME PasskeyReady, EnrolmentsHold, EndToEnd, NEW p \in RegFinishes,
           ImageDropsSession(p),
           RegistrationsFinishStep(p), CommitRegistration(p)
    PROVE  /\ db'.users = db.users \cup {UserOf(p)}
           /\ Owners(db') = Owners(db) \cup {<<command[p].credential_id, p>>}
           /\ db'.refresh_tokens = db.refresh_tokens \cup {RefreshTokenOf(p)}
           /\ db'.registration_sessions =
                 {s \in db.registration_sessions : s.id # command[p].id}
           /\ Registered' = Registered \cup {p} /\ p \notin Registered
           /\ Offers' = Offers /\ SignedIn' = SignedIn
           /\ UNCHANGED <<boots, command, loaded, issued, opened>>
           /\ ~HandleTaken(db, loaded[p].handle)
           /\ ~CredentialExists(db, command[p].credential_id)
           /\ issued[p].key = boots
<1>1. ImageOf(p) /\ CountedAndIssued(p) /\ finishPc[p] = "commit"
  BY DEF EnrolmentsHold, CommitRegistration
<1>2. /\ db'.users = db.users \cup {UserOf(p)}
      /\ db'.credentials = db.credentials \cup {CredentialOf(p)}
      /\ db'.refresh_tokens = db.refresh_tokens \cup {RefreshTokenOf(p)}
      /\ db'.registration_sessions =
                 {s \in db.registration_sessions : s.id # command[p].id}
      /\ ~HandleTaken(db, loaded[p].handle)
      /\ ~CredentialExists(db, command[p].credential_id)
  BY <1>1 DEF CommitRegistration, Commit, ImageOf, ImageDropsSession, InTransaction
<1>3. Owners(db') = Owners(db) \cup {<<command[p].credential_id, p>>}
  <2>1. PICK d, e, k : d = db /\ e = db' /\ k = CredentialOf(p)
    OBVIOUS
  <2>2. e.credentials = d.credentials \cup {k}
    BY <1>2, <2>1
  <2>3. Owners(e) = Owners(d) \cup {<<k.credential_id, k.user_id>>}
    BY <2>2 DEF Owners
  <2> QED
    BY <2>1, <2>3 DEF CredentialOf
<1>4. Registered' = Registered \cup {p} /\ p \notin Registered
  BY RegisteredStep
<1>5. Offers' = Offers /\ SignedIn' = SignedIn /\ opened' = opened
  BY DEF RegistrationsFinishStep, startVars, assertVars, Offers, SignedIn
<1>6. UNCHANGED <<boots, command, loaded, issued>>
  BY DEF CommitRegistration, Commit
<1>7. issued[p].key = boots
  <2>1. \E t \in 0..MaxTime : issued[p] = GenerateTokenPair(t, boots)
    BY <1>1 DEF CountedAndIssued, InTransaction
  <2> QED
    BY <2>1 DEF GenerateTokenPair
<1> QED
  BY <1>2, <1>3, <1>4, <1>5, <1>6, <1>7

(* A login ends in one token more.                                         *)
LEMMA LoginPublishes ==
    ASSUME PasskeyReady, EndToEnd, NEW q \in LoginFinishes, ImageAddsToken(q),
           SessionsFinishStep(q), CommitLogin(q)
    PROVE  /\ SameAccounts /\ SameOffers /\ opened' = opened
           /\ db'.refresh_tokens = db.refresh_tokens \cup {LoginTokenOf(q)}
           /\ SignedIn' = SignedIn \cup {q} /\ q \notin SignedIn
           /\ UNCHANGED <<boots, target, loginIssued>>
           /\ loginIssued[q].key = boots
<1>1. /\ assertPc[q] = "commit" /\ LoginImageOf(q) /\ AssertTypeOK
      /\ assertReply[q] = None
  BY DEF CommitLogin, EndToEnd, PasskeyReady, LoginReady, TypeOK, AssertRunning,
         LoginTransaction
<1>2. /\ db'.users = db.users /\ Owners(db') = Owners(db)
      /\ db'.registration_sessions = db.registration_sessions
      /\ db'.refresh_tokens = db.refresh_tokens \cup {LoginTokenOf(q)}
      /\ loginIssued[q].key = boots
      /\ UNCHANGED <<boots, target, loginIssued>>
  BY <1>1
  DEF CommitLogin, Commit, LoginImageOf, ImageAddsToken, LoginTransaction
<1>3. Registered' = Registered /\ Offers' = Offers /\ opened' = opened
  BY DEF SessionsFinishStep, startVars, finishVars, Registered, Offers
<1>4. SignedIn' = SignedIn \cup {q} /\ q \notin SignedIn
  BY <1>1, NoneIsNoReply DEF CommitLogin, AnswerAssertion, AssertTypeOK, SignedIn
<1> QED
  BY <1>2, <1>3, <1>4 DEF SameAccounts, SameOffers

(* A login session is not seen by the promises.                            *)
LEMMA LoginSessionPublishes ==
    ASSUME PasskeyReady, NEW r \in LoginStarts,
           SessionsStartStep(r), PersistLoginSession(r)
    PROVE  SameAccounts /\ SameTokens /\ SameOffers
<1>1. PICK row : row = LoginSessionRowOf(r)
  OBVIOUS
<1>2. db \in Database /\ db' = InsertRow(db, "login_sessions", row)
  BY <1>1, UsersOfCredentials DEF PersistLoginSession, Autocommit
<1>3. /\ db'.users = db.users /\ db'.credentials = db.credentials
      /\ db'.registration_sessions = db.registration_sessions
      /\ db'.refresh_tokens = db.refresh_tokens
  BY <1>2 DEF InsertRow, Database
<1>4. Registered' = Registered /\ Offers' = Offers /\ SignedIn' = SignedIn
  BY DEF SessionsStartStep, startVars, finishVars, assertVars, Registered,
         Offers, SignedIn
<1> QED
  BY <1>3, <1>4 DEF SameAccounts, SameTokens, SameOffers, Owners

(* A logout changes revoked_at.                                            *)
LEMMA LogoutPublishes ==
    ASSUME PasskeyReady, NEW l \in Logouts,
           SessionsLogoutStep(l), RevokeUserSessions(l)
    PROVE  /\ SameAccounts /\ SameOffers
           /\ db'.refresh_tokens =
                 {IF t.user_id = revocation[l].user_id /\ t.revoked_at = None
                  THEN [t EXCEPT !.revoked_at = Unix(revocation[l].now)]
                  ELSE t : t \in db.refresh_tokens}
           /\ SignedIn' = SignedIn
           /\ UNCHANGED <<boots, target, issued, loginIssued>>
           /\ Unix(revocation[l].now) \in Nat
<1>1. PICK u, s : u = revocation[l].user_id /\ s = Unix(revocation[l].now)
  OBVIOUS
<1>2. db \in Database /\ db' = RevokeTokens(db, u, s) /\ boots' = boots
  BY <1>1, UsersOfCredentials DEF RevokeUserSessions, Autocommit
<1>3. /\ db'.users = db.users /\ db'.credentials = db.credentials
      /\ db'.registration_sessions = db.registration_sessions
      /\ db'.refresh_tokens =
            {IF t.user_id = u /\ t.revoked_at = None
             THEN [t EXCEPT !.revoked_at = s] ELSE t : t \in db.refresh_tokens}
  BY <1>2 DEF RevokeTokens, Database
<1>4. /\ Registered' = Registered /\ Offers' = Offers /\ SignedIn' = SignedIn
      /\ UNCHANGED <<target, issued, loginIssued>>
  BY DEF SessionsLogoutStep, startVars, finishVars, assertVars, Registered,
         Offers, SignedIn
<1>5. Unix(revocation[l].now) \in Nat
  BY UnixTyped
  DEF RevokeUserSessions, PasskeyReady, LogoutReady, RevokeUserSessionsInput
<1> QED
  BY <1>1, <1>2, <1>3, <1>4, <1>5 DEF SameAccounts, SameOffers, Owners

(* Tokens in hand stay whose they are.                                     *)
LEMMA PairsStay ==
    ASSUME PasskeyReady, [PasskeyNext]_passkeyVars
    PROVE  \A g \in Registered \cup SignedIn :
              /\ g \in Registered' \cup SignedIn'
              /\ IssuedTo(g)' = IssuedTo(g) /\ PairIn(g)' = PairIn(g)
<1>1. /\ \A p \in Registered : p \in RegFinishes
      /\ \A q \in SignedIn : q \in LoginFinishes /\ q \notin RegFinishes
  BY StoreAssumption DEF Registered, SignedIn
<1> QED
  BY <1>1, RegisteredStays, SignedInStays DEF IssuedTo, PairIn

(* A logout moves by a step of its own, or not, or is killed.              *)
LEMMA LogoutMoves ==
    ASSUME PasskeyReady, [PasskeyNext]_passkeyVars, NEW l \in Logouts
    PROVE  \/ SessionsLogoutStep(l)
           \/ /\ UNCHANGED <<verifyInput[l], revocation[l]>>
              /\ logoutPc'[l] \in {"stamp", "revoke"} =>
                    logoutPc'[l] = logoutPc[l] /\ ~ProcessRestarts
<1>1. LogoutTypeOK
  BY DEF PasskeyReady, LogoutReady
<1>2. ASSUME NEW o \in Logouts, SessionsLogoutStep(o), o # l
      PROVE  /\ UNCHANGED <<verifyInput[l], revocation[l], logoutPc[l]>>
             /\ boots' = boots
  BY <1>1, <1>2
  DEF SessionsLogoutStep, BearerArrives, LogoutProceeds, LogoutFails,
      RejectBearer, AuthenticateLogout, AccessTokenInvalid, VerifyWith,
      StampRevocation, RevokeUserSessions, RevokeFails, RespondLogout,
      AnswerLogout, LogoutGoes, LogoutTypeOK, Autocommit, storeVars
<1>3. ProcessRestarts => /\ UNCHANGED <<verifyInput, revocation>>
                         /\ logoutPc'[l] \notin {"stamp", "revoke"}
  BY <1>1 DEF ProcessRestarts, LogoutKilled, LogoutTypeOK, LogoutRunning
<1>4. ~ProcessRestarts /\ (\A o \in Logouts : ~SessionsLogoutStep(o))
         => UNCHANGED logoutVars
  BY DEF PasskeyNext, RegistrationsStartStep, RegistrationsFinishStep,
         SessionsStartStep, SessionsFinishStep, AuthenticatorStep, TimePasses,
         EveryoneAtRest, passkeyVars
<1> QED
  BY <1>2, <1>3, <1>4 DEF logoutVars

(* A step leaves every logout with a token of the running process.         *)
LEMMA BearerFollowsStep ==
    ASSUME PasskeyReady, now <= MaxTime, [PasskeyNext]_passkeyVars,
           NEW l \in Logouts, BearerFollows(l)
    PROVE  BearerFollows(l)'
<1>1. LogoutTypeOK /\ (boots' = boots \/ ProcessRestarts)
  BY TimeAndCounters DEF PasskeyReady, LogoutReady
<1>2. CASE /\ UNCHANGED <<verifyInput[l], revocation[l]>>
           /\ logoutPc'[l] \in {"stamp", "revoke"} =>
                 logoutPc'[l] = logoutPc[l] /\ ~ProcessRestarts
  <2> SUFFICES ASSUME logoutPc'[l] \in {"stamp", "revoke"}
               PROVE  BearerFollows(l)'
    BY DEF BearerFollows
  <2>1. logoutPc'[l] = logoutPc[l] /\ boots' = boots
    BY <1>1, <1>2
  <2>2. PICK token : token = verifyInput[l].token
    OBVIOUS
  <2>3. /\ token.from \in Registered \cup SignedIn
        /\ token.sub = IssuedTo(token.from)
        /\ token.key = PairIn(token.from).key
        /\ token.key = boots
        /\ logoutPc[l] = "revoke" => revocation[l].user_id = token.sub
    BY <2>1, <2>2 DEF BearerFollows
  <2>4. PICK g \in Registered \cup SignedIn : g = token.from
    BY <2>3
  <2>5. /\ g \in Registered' \cup SignedIn'
        /\ IssuedTo(g)' = IssuedTo(g) /\ PairIn(g)' = PairIn(g)
    BY PairsStay
  <2>6. /\ token.from \in Registered' \cup SignedIn'
        /\ token.sub = IssuedTo(token.from)'
        /\ token.key = PairIn(token.from).key'
        /\ token.key = boots'
        /\ logoutPc'[l] = "revoke" => revocation'[l].user_id = token.sub
        /\ verifyInput'[l].token = token
    BY <1>2, <2>1, <2>2, <2>3, <2>4, <2>5 DEF IssuedTo, PairIn
  <2> QED
    BY <2>6 DEF BearerFollows, IssuedTo, PairIn
<1>3. CASE SessionsLogoutStep(l)
  <2>1. /\ UNCHANGED <<Registered, SignedIn, target, issued, loginIssued>>
    BY <1>3 DEF SessionsLogoutStep, finishVars, assertVars, Registered, SignedIn
  <2>2. ASSUME NEW g \in Answered,
               AuthenticateLogout(l, AccessTokenIn(PairIn(g), g, IssuedTo(g)))
        PROVE  BearerFollows(l)'
    <3>1. PICK token : token = AccessTokenIn(PairIn(g), g, IssuedTo(g))
      OBVIOUS
    <3>2. /\ token.from = g /\ token.sub = IssuedTo(g)
          /\ token.key = PairIn(g).key
          /\ g \in Registered \cup SignedIn
      BY <3>1 DEF AccessTokenIn, Answered
    <3>3. /\ verifyInput'[l].token = token /\ boots' = boots
          /\ token.key = boots /\ logoutPc'[l] = "stamp"
      BY <1>1, <2>2, <3>1
      DEF AuthenticateLogout, VerifyWith, VerifyAccessToken, LogoutGoes,
          LogoutTypeOK, storeVars
    <3> QED
      BY <2>1, <3>2, <3>3 DEF BearerFollows, IssuedTo, PairIn
  <2>3. CASE StampRevocation(l)
    <3>1. /\ logoutPc[l] = "stamp" /\ boots' = boots
          /\ verifyInput' = verifyInput
          /\ revocation'[l].user_id = verifyInput[l].token.sub
      BY <1>1, <2>3 DEF StampRevocation, LogoutTypeOK, storeVars
    <3> QED
      BY <2>1, <3>1 DEF BearerFollows, IssuedTo, PairIn
  <2>4. ASSUME ~StampRevocation(l),
               \A g \in Answered :
                 ~AuthenticateLogout(l, AccessTokenIn(PairIn(g), g, IssuedTo(g)))
        PROVE  logoutPc'[l] \notin {"stamp", "revoke"}
    BY <1>1, <1>3, <2>4
    DEF SessionsLogoutStep, BearerArrives, LogoutProceeds, LogoutFails,
        RejectBearer, AccessTokenInvalid, RevokeUserSessions, RevokeFails,
        RespondLogout, AnswerLogout, LogoutGoes, LogoutTypeOK
  <2> QED
    BY <2>2, <2>3, <2>4 DEF BearerFollows
<1> QED
  BY <1>2, <1>3, LogoutMoves

(* A session that was offered is stored until a registration uses it.      *)
LEMMA OffersStep ==
    ASSUME PasskeyReady, HalvesMeet, EnrolmentsHold, EndToEnd, PromisesReady,
           [PasskeyNext]_passkeyVars
    PROVE  OffersAreAccountedFor'
<1> DEFINE Stored(r) == \E s \in db.registration_sessions : s.id = r
           Completed(r) == \E p \in Registered : command[p].id = r
<1>1. \A r \in Offers : Stored(r) \/ Completed(r)
  BY DEF PromisesReady, OffersAreAccountedFor
<1>2. \A r : Completed(r) => Completed(r)'
  BY AccountsStay
<1>3. ASSUME db'.registration_sessions = db.registration_sessions,
             Offers' = Offers
      PROVE  OffersAreAccountedFor'
  BY <1>1, <1>2, <1>3 DEF OffersAreAccountedFor
<1>4. ASSUME NEW r \in RegStarts, RegistrationsStartStep(r),
             PersistRegistrationSession(r)
      PROVE  OffersAreAccountedFor'
  <2>1. PICK row : row = SessionRow(r)
    OBVIOUS
  <2>2. row.id = r
    BY <2>1 DEF SessionRow
  <2>3. /\ db'.registration_sessions = db.registration_sessions \cup {row}
        /\ Offers' = Offers \cup {r}
    BY <1>4, <2>1, OfferPublishes
  <2> QED
    BY <1>1, <1>2, <2>2, <2>3 DEF OffersAreAccountedFor
<1>5. ASSUME NEW p \in RegFinishes, RegistrationsFinishStep(p),
             CommitRegistration(p)
      PROVE  OffersAreAccountedFor'
  <2>1. PICK id : id = command[p].id
    OBVIOUS
  <2>2. /\ db'.registration_sessions = {s \in db.registration_sessions : s.id # id}
        /\ Offers' = Offers /\ command' = command
        /\ Registered' = Registered \cup {p}
    BY <1>5, <2>1, RegistrationPublishes DEF PromisesReady
  <2>3. Completed(id)'
    BY <2>1, <2>2
  <2> QED
    BY <1>1, <1>2, <2>2, <2>3 DEF OffersAreAccountedFor
<1>6. ASSUME NEW q \in LoginFinishes, SessionsFinishStep(q), CommitLogin(q)
      PROVE  OffersAreAccountedFor'
  BY <1>3, <1>6, LoginPublishes DEF PromisesReady, SameOffers
<1>7. ASSUME NEW r \in LoginStarts, SessionsStartStep(r), PersistLoginSession(r)
      PROVE  OffersAreAccountedFor'
  BY <1>3, <1>7, LoginSessionPublishes DEF SameOffers
<1>8. ASSUME NEW l \in Logouts, SessionsLogoutStep(l), RevokeUserSessions(l)
      PROVE  OffersAreAccountedFor'
  BY <1>3, <1>8, LogoutPublishes DEF SameOffers
<1> QED
  BY <1>3, <1>4, <1>5, <1>6, <1>7, <1>8, Deeds

(* Bearers hold tokens of the running process, offers are stored or used,  *)
(* and open transactions publish what the promises expect.                 *)
THEOREM PromisesAreReady == PasskeySpec => []PromisesReady
<1>1. PasskeyInit => PromisesReady
  <2> SUFFICES ASSUME PasskeyInit
               PROVE  PromisesReady
    OBVIOUS
  <2>1. Offers = {}
    BY NoneIsNoReply DEF PasskeyInit, StartInit, Offers
  <2> QED
    BY <2>1
    DEF PasskeyInit, FinishInit, AssertInit, LogoutInit, PromisesReady,
        ImageDropsSession, ImageAddsToken, OffersAreAccountedFor, BearerFollows,
        InTransaction, LoginTransaction
<1>2. PasskeyInvariant /\ EnrolmentsHold /\ EndToEnd /\ PromisesReady
         /\ [PasskeyNext]_passkeyVars => PromisesReady'
  <2> SUFFICES ASSUME PasskeyReady, HalvesMeet, EnrolmentsHold, EndToEnd,
                      PromisesReady, [PasskeyNext]_passkeyVars
               PROVE  PromisesReady'
    BY DEF PasskeyInvariant
  <2>1. /\ \A p \in RegFinishes : ImageDropsSession(p)
        /\ \A q \in LoginFinishes : ImageAddsToken(q)
        /\ \A l \in Logouts : BearerFollows(l)
        /\ now <= MaxTime
    BY DEF PromisesReady, EnrolmentsHold
  <2>2. \A p \in RegFinishes : ImageDropsSession(p)'
    BY <2>1, ImageDropsStep
  <2>3. \A q \in LoginFinishes : ImageAddsToken(q)'
    BY <2>1, ImageAddsStep
  <2>4. \A l \in Logouts : BearerFollows(l)'
    BY <2>1, BearerFollowsStep
  <2>5. OffersAreAccountedFor'
    BY OffersStep
  <2> QED
    BY <2>2, <2>3, <2>4, <2>5 DEF PromisesReady
<1> QED
  BY <1>1, <1>2, PasskeyInvariantHolds, EnrolmentsAreComplete, EndToEndHolds, PTL
  DEF PasskeySpec

----------------------------------------------------------------------------
(* The service implements Accounts.                                        *)

Wanted == [r \in RegStarts |-> IF r \in Offers THEN opened[r].handle ELSE None]
Spent == {r \in Offers : \A s \in db.registration_sessions : s.id # r}
Owner == [h \in Handles |-> PersonIn(NamedBy(h))]
Holder == [c \in CredIDs |-> PersonIn(HoldersOf(c))]

(* Who is alone is the one chosen.                                         *)
LEMMA PersonAlone ==
    /\ PersonIn({}) = None
    /\ \A p : PersonIn({p}) = p
    /\ \A people : people # {} => PersonIn(people) \in people
BY DEF PersonIn

(* Holders are owners.                                                     *)
LEMMA HoldersIn ==
    ASSUME NEW d, NEW c
    PROVE  {k.user_id : k \in {j \in d.credentials : j.credential_id = c}}
              = {w[2] : w \in {v \in Owners(d) : v[1] = c}}
<1> DEFINE holders == {k.user_id : k \in {j \in d.credentials : j.credential_id = c}}
           seconds == {w[2] : w \in {v \in Owners(d) : v[1] = c}}
<1>1. ASSUME NEW u \in holders
      PROVE  u \in seconds
  <2>1. PICK k \in d.credentials : k.credential_id = c /\ k.user_id = u
    OBVIOUS
  <2>2. PICK w : w = <<k.credential_id, k.user_id>>
    OBVIOUS
  <2>3. w \in Owners(d) /\ w[1] = c /\ w[2] = u
    BY <2>1, <2>2 DEF Owners
  <2> QED
    BY <2>3
<1>2. ASSUME NEW u \in seconds
      PROVE  u \in holders
  <2>1. PICK w \in Owners(d) : w[1] = c /\ w[2] = u
    OBVIOUS
  <2>2. PICK k \in d.credentials : w = <<k.credential_id, k.user_id>>
    BY DEF Owners
  <2> QED
    BY <2>1, <2>2
<1> QED
  BY <1>1, <1>2

(* So are those of the two states of a step.                               *)
LEMMA HoldersOwn ==
    /\ \A c : HoldersOf(c) = {w[2] : w \in {v \in Owners(db) : v[1] = c}}
    /\ \A c : HoldersOf(c)' = {w[2] : w \in {v \in Owners(db') : v[1] = c}}
<1>1. PICK d, e : d = db /\ e = db'
  OBVIOUS
<1>2. /\ \A c : {k.user_id : k \in {j \in d.credentials : j.credential_id = c}}
                   = {w[2] : w \in {v \in Owners(d) : v[1] = c}}
      /\ \A c : {k.user_id : k \in {j \in e.credentials : j.credential_id = c}}
                   = {w[2] : w \in {v \in Owners(e) : v[1] = c}}
  BY HoldersIn
<1> QED
  BY <1>1, <1>2 DEF HoldersOf

(* Who owns what depends on two tables.                                    *)
LEMMA SameOwners ==
    ASSUME SameAccounts
    PROVE  Owner' = Owner /\ Holder' = Holder
<1>1. \A h : NamedBy(h)' = NamedBy(h)
  BY DEF SameAccounts, NamedBy
<1>2. \A c : HoldersOf(c)' = HoldersOf(c)
  BY HoldersOwn DEF SameAccounts
<1>3. /\ \A h : PersonIn(NamedBy(h))' = PersonIn(NamedBy(h))
      /\ \A c : PersonIn(HoldersOf(c))' = PersonIn(HoldersOf(c))
  BY <1>1, <1>2
<1> QED
  BY <1>3 DEF Owner, Holder

(* What is offered stays so.                                               *)
LEMMA SameCeremonies ==
    ASSUME PasskeyReady, EndToEnd, [PasskeyNext]_passkeyVars, SameOffers
    PROVE  Wanted' = Wanted /\ Spent' = Spent
<1>1. \A r \in RegStarts : r \in Offers => opened'[r] = opened[r]
  BY OfferedStays DEF Offers
<1> QED
  BY <1>1 DEF SameOffers, Wanted, Spent

(* POST /v1/registrations is an Offer when its INSERT takes place.         *)
LEMMA OfferRefines ==
    ASSUME PasskeyReady, EndToEnd, NEW r \in RegStarts,
           RegistrationsStartStep(r), PersistRegistrationSession(r)
    PROVE  AccountsPromise!Next
<1>1. PICK row : row = SessionRow(r)
  OBVIOUS
<1>2. row.id = r
  BY <1>1 DEF SessionRow
<1>3. /\ SameAccounts
      /\ db'.registration_sessions = db.registration_sessions \cup {row}
      /\ opened' = opened /\ opened[r].handle \in Handles
      /\ r \notin Offers /\ Offers' = Offers \cup {r}
  BY <1>1, OfferPublishes
<1>4. /\ Wanted[r] = None
      /\ Wanted' = [Wanted EXCEPT ![r] = opened[r].handle]
  BY <1>3 DEF Wanted
<1>5. Spent' = Spent
  <2>1. r \notin Spent'
    BY <1>2, <1>3 DEF Spent
  <2>2. \A s \in Offers : s \in Spent' <=> s \in Spent
    BY <1>2, <1>3 DEF Spent
  <2> QED
    BY <1>3, <2>1, <2>2 DEF Spent
<1>6. Owner' = Owner /\ Holder' = Holder
  BY <1>3, SameOwners
<1>7. PICK h \in Handles : h = opened[r].handle
  BY <1>3
<1>8. Wanted' = [Wanted EXCEPT ![r] = h]
  BY <1>4, <1>7
<1>9. AccountsPromise!Offer(r, h)
  BY <1>4, <1>5, <1>6, <1>8
  DEF AccountsPromise!Offer, Wanted, Spent, Owner, Holder
<1> QED
  BY <1>9 DEF AccountsPromise!Next

(* POST /v1/registrations/{id}/attestation is a Complete when it commits.  *)
LEMMA CompleteRefines ==
    ASSUME PasskeyReady, EnrolmentsHold, EndToEnd, PromisesReady,
           NEW p \in RegFinishes,
           RegistrationsFinishStep(p), CommitRegistration(p)
    PROVE  AccountsPromise!Next
<1>1. /\ finishPc[p] = "commit"
      /\ finishPc[p] \in InTransaction
  BY DEF CommitRegistration, InTransaction
<1>2. PICK s, k, h : /\ s = command[p].id /\ k = command[p].credential_id
                     /\ h = loaded[p].handle
  OBVIOUS
<1>3. /\ command[p] \in RegistrationFinishCommand
      /\ loaded[p] \in RegSessionRow
      /\ s \in RegStarts /\ startReply[s] = "OK" /\ loaded[p] = SessionRow(s)
  BY <1>1, <1>2
  DEF PasskeyReady, RegistrationReady, FinishReady, EndToEnd, FinishFollows,
      FinishRunning, InTransaction
<1>4. s \in Offers /\ k \in CredIDs /\ h \in Handles
  BY <1>2, <1>3 DEF Offers, RegistrationFinishCommand, RegSessionRow
<1>5. PICK u : u = UserOf(p)
  OBVIOUS
<1>6. /\ u.id = p /\ u.handle = h
      /\ db'.users = db.users \cup {u}
      /\ Owners(db') = Owners(db) \cup {<<k, p>>}
      /\ db'.registration_sessions = {t \in db.registration_sessions : t.id # s}
      /\ p \notin Registered /\ Offers' = Offers /\ opened' = opened
      /\ ~HandleTaken(db, h) /\ ~CredentialExists(db, k)
  BY <1>2, <1>5, RegistrationPublishes DEF PromisesReady, UserOf
<1>7. Wanted[s] = h /\ h # None
  BY <1>2, <1>3, <1>4, StoreAssumption DEF Wanted, SessionRow
<1>8. s \notin Spent
  <2> SUFFICES ASSUME s \in Spent
               PROVE  FALSE
    OBVIOUS
  <2>1. PICK o \in Registered : command[o].id = s
    BY DEF PromisesReady, OffersAreAccountedFor, Spent
  <2>2. loaded[o] = SessionRow(s)
    BY <2>1 DEF EndToEnd, FinishFollows, Registered
  <2>3. UserOf(o) \in db.users
    BY DEF EndToEnd, AccountsStand
  <2> QED
    BY <1>2, <1>3, <1>6, <2>2, <2>3 DEF HandleTaken, UserOf
<1>9. NamedBy(h) = {} /\ HoldersOf(k) = {}
  BY <1>6 DEF HandleTaken, CredentialExists, NamedBy, HoldersOf
<1>10. Owner[h] = None /\ Holder[k] = None
  BY <1>4, <1>9, PersonAlone DEF Owner, Holder
<1>11. \A g \in Handles : Owner[g] # p
  <2> SUFFICES ASSUME NEW g \in Handles, PersonIn(NamedBy(g)) = p
               PROVE  FALSE
    BY DEF Owner
  <2>1. p # None
    BY StoreAssumption
  <2>2. NamedBy(g) # {}
    BY <2>1, PersonAlone
  <2>3. p \in NamedBy(g)
    BY <2>2, PersonAlone
  <2>4. PICK v \in db.users : v.id = p
    BY <2>3 DEF NamedBy
  <2>5. p \in Registered
    BY <2>4 DEF EnrolmentsHold
  <2> QED
    BY <1>6, <2>5
<1>12. Wanted' = Wanted /\ Spent' = Spent \cup {s}
  BY <1>4, <1>6 DEF Wanted, Spent
<1>13. Owner' = [Owner EXCEPT ![h] = p]
  <2>1. NamedBy(h)' = {p}
    <3>1. NamedBy(h)' = {v.id : v \in {w \in db'.users : w.handle = h}}
      BY DEF NamedBy
    <3>2. \A v \in db.users : v.handle # h
      BY <1>6 DEF HandleTaken
    <3>3. {w \in db'.users : w.handle = h} = {u}
      BY <1>6, <3>2
    <3> QED
      BY <1>6, <3>1, <3>3
  <2>2. \A g : g # h => NamedBy(g)' = NamedBy(g)
    BY <1>6 DEF NamedBy
  <2>3. /\ PersonIn(NamedBy(h))' = p
        /\ \A g : g # h => PersonIn(NamedBy(g))' = PersonIn(NamedBy(g))
    BY <2>1, <2>2, PersonAlone
  <2> QED
    BY <1>4, <2>3 DEF Owner
<1>14. Holder' = [Holder EXCEPT ![k] = p]
  <2>1. HoldersOf(k)' = {p}
    <3>1. {v \in Owners(db) : v[1] = k} = {}
      BY <1>9, HoldersOwn
    <3>2. {v \in Owners(db') : v[1] = k} = {<<k, p>>}
      BY <1>6, <3>1
    <3>3. HoldersOf(k)' = {w[2] : w \in {<<k, p>>}}
      BY <3>2, HoldersOwn
    <3> QED
      BY <3>3
  <2>2. \A c : c # k => HoldersOf(c)' = HoldersOf(c)
    <3>1. ASSUME NEW c, c # k
          PROVE  {v \in Owners(db') : v[1] = c} = {v \in Owners(db) : v[1] = c}
      BY <1>6, <3>1
    <3> QED
      BY <3>1, HoldersOwn
  <2>3. /\ PersonIn(HoldersOf(k))' = p
        /\ \A c : c # k => PersonIn(HoldersOf(c))' = PersonIn(HoldersOf(c))
    BY <2>1, <2>2, PersonAlone
  <2> QED
    BY <1>4, <2>3 DEF Holder
<1>15. AccountsPromise!Complete(s, p, k)
  BY <1>7, <1>8, <1>10, <1>11, <1>12, <1>13, <1>14
  DEF AccountsPromise!Complete, Wanted, Spent, Owner, Holder
<1> QED
  BY <1>3, <1>4, <1>15 DEF AccountsPromise!Next

(* Registrations that overlap anything keep the promise of Accounts.       *)
THEOREM ServiceKeepsAccounts == PasskeySpec => ImplementsAccounts
<1>1. PasskeyInit => AccountsPromise!Init
  <2> SUFFICES ASSUME PasskeyInit
               PROVE  AccountsPromise!Init
    OBVIOUS
  <2>1. Offers = {}
    BY NoneIsNoReply DEF PasskeyInit, StartInit, Offers
  <2>2. db.users = {} /\ db.credentials = {}
    BY DEF PasskeyInit, StoreInit, EmptyDatabase
  <2>3. /\ \A h : NamedBy(h) = {}
        /\ \A c : HoldersOf(c) = {}
    BY <2>2 DEF NamedBy, HoldersOf
  <2> QED
    BY <2>1, <2>3, PersonAlone DEF AccountsPromise!Init
<1>2. PasskeyReady /\ EnrolmentsHold /\ EndToEnd /\ PromisesReady
         /\ [PasskeyNext]_passkeyVars
      => [AccountsPromise!Next]_(AccountsPromise!accountVars)
  <2> SUFFICES ASSUME PasskeyReady, EnrolmentsHold, EndToEnd, PromisesReady,
                      [PasskeyNext]_passkeyVars
               PROVE  AccountsPromise!Next \/ UNCHANGED AccountsPromise!accountVars
    OBVIOUS
  <2>1. ASSUME SameAccounts, SameOffers
        PROVE  UNCHANGED AccountsPromise!accountVars
    BY <2>1, SameOwners, SameCeremonies
    DEF AccountsPromise!accountVars, Wanted, Spent, Owner, Holder
  <2>2. db' = db /\ Registered' = Registered /\ Offers' = Offers
           => SameAccounts /\ SameOffers
    BY DEF SameAccounts, SameOffers, Owners
  <2>3. ASSUME NEW q \in LoginFinishes, SessionsFinishStep(q), CommitLogin(q)
        PROVE  SameAccounts /\ SameOffers
    BY <2>3, LoginPublishes DEF PromisesReady
  <2> QED
    BY <2>1, <2>2, <2>3, Deeds, OfferRefines, CompleteRefines,
       LoginSessionPublishes, LogoutPublishes
<1> QED
  BY <1>1, <1>2, PasskeyInvariantHolds, EnrolmentsAreComplete, EndToEndHolds,
     PromisesAreReady, PTL
  DEF PasskeySpec, PasskeyInvariant, ImplementsAccounts, AccountsPromise!Spec

----------------------------------------------------------------------------
(* The service implements Grants.                                          *)

Given == {GrantOf(t) : t \in db.refresh_tokens}

(* A row of refresh_tokens is an answer's, and an answer has a row.        *)
LEMMA TokensAreOfAnswers ==
    ASSUME EndToEnd
    PROVE  /\ \A t \in db.refresh_tokens :
                 /\ t.token_hash \in Registered \cup SignedIn
                 /\ t.user_id = IssuedTo(t.token_hash)
                 /\ t.user_id \in Registered
           /\ \A g \in Registered \cup SignedIn : \E t \in db.refresh_tokens :
                 t.token_hash = g /\ t.user_id = IssuedTo(g)
<1>1. Issues(db) = {IssueOf(g) : g \in Registered \cup SignedIn}
  BY DEF EndToEnd, AccountsStand
<1>2. \A g \in Registered \cup SignedIn : IssuedTo(g) \in Registered
  <2>1. \A p \in Registered : IssuedTo(p) = p
    BY DEF IssuedTo, Registered
  <2>2. ASSUME NEW q \in SignedIn
        PROVE  IssuedTo(q) \in Registered
    <3>1. <<target[q].credential_id, target[q].user_id>> \in Owners(db)
      BY DEF EndToEnd, AssertFollows, SignedIn
    <3>2. target[q].user_id \in Registered
      BY <3>1 DEF EndToEnd, AccountsStand
    <3> QED
      BY <3>2, StoreAssumption DEF IssuedTo, SignedIn
  <2> QED
    BY <2>1, <2>2
<1>3. ASSUME NEW t \in db.refresh_tokens
      PROVE  /\ t.token_hash \in Registered \cup SignedIn
             /\ t.user_id = IssuedTo(t.token_hash)
  <2>1. <<t.token_hash, t.user_id, t.expires_at>> \in Issues(db)
    BY DEF Issues
  <2>2. PICK g \in Registered \cup SignedIn :
           <<t.token_hash, t.user_id, t.expires_at>> = IssueOf(g)
    BY <1>1, <2>1
  <2> QED
    BY <2>2 DEF IssueOf
<1>4. ASSUME NEW g \in Registered \cup SignedIn
      PROVE  \E t \in db.refresh_tokens :
                t.token_hash = g /\ t.user_id = IssuedTo(g)
  <2>1. IssueOf(g) \in Issues(db)
    BY <1>1
  <2>2. PICK t \in db.refresh_tokens :
           IssueOf(g) = <<t.token_hash, t.user_id, t.expires_at>>
    BY <2>1 DEF Issues
  <2> QED
    BY <2>2 DEF IssueOf
<1> QED
  BY <1>2, <1>3, <1>4

(* A token that stays keeps its pair.                                      *)
LEMMA RowsKeepPairs ==
    ASSUME PasskeyReady, EndToEnd, [PasskeyNext]_passkeyVars
    PROVE  \A t \in db.refresh_tokens :
              PairIn(t.token_hash)' = PairIn(t.token_hash)
BY PairsStay, TokensAreOfAnswers

(* A step that leaves the tokens leaves the grants.                        *)
LEMMA SameGiven ==
    ASSUME PasskeyReady, EndToEnd, [PasskeyNext]_passkeyVars,
           db'.refresh_tokens = db.refresh_tokens
    PROVE  Given' = Given
BY RowsKeepPairs DEF Given, GrantOf

(* A row more is a grant more.                                             *)
LEMMA RowIsGiven ==
    ASSUME PasskeyReady, EndToEnd, [PasskeyNext]_passkeyVars, boots' = boots,
           NEW t, t.revoked_at = None, PairIn(t.token_hash)'.key = boots,
           t.token_hash \notin Registered \cup SignedIn,
           db'.refresh_tokens = db.refresh_tokens \cup {t}
    PROVE  GrantsPromise!Give(t.user_id, t.token_hash)
<1> DEFINE new == [name  |-> t.token_hash, owner |-> t.user_id,
                   epoch |-> boots, live |-> TRUE]
           Of(s) == [name  |-> s.token_hash, owner |-> s.user_id,
                     epoch |-> PairIn(s.token_hash)'.key,
                     live  |-> s.revoked_at = None]
<1>1. \A s \in db.refresh_tokens : PairIn(s.token_hash)' = PairIn(s.token_hash)
  BY RowsKeepPairs
<1>2. Of(t) = new
  OBVIOUS
<1>3. Given' = {Of(s) : s \in db'.refresh_tokens}
  BY DEF Given, GrantOf
<1>4. Given = {Of(s) : s \in db.refresh_tokens}
  BY <1>1 DEF Given, GrantOf
<1>5. {Of(s) : s \in db'.refresh_tokens} =
         {Of(s) : s \in db.refresh_tokens} \cup {Of(t)}
  <2> HIDE DEF Of
  <2> QED
    OBVIOUS
<1>6. Given' = Given \cup {new}
  BY <1>2, <1>3, <1>4, <1>5
<1>7. \A g \in Given : g.name # t.token_hash
  BY TokensAreOfAnswers DEF Given, GrantOf
<1> QED
  BY <1>6, <1>7 DEF GrantsPromise!Give, Given, GrantOf

(* The COMMIT of a registration is a SignUp.                               *)
LEMMA SignUpRefines ==
    ASSUME PasskeyReady, EnrolmentsHold, EndToEnd, PromisesReady,
           [PasskeyNext]_passkeyVars, NEW p \in RegFinishes,
           RegistrationsFinishStep(p), CommitRegistration(p)
    PROVE  GrantsPromise!Next
<1>1. PICK t : t = RefreshTokenOf(p)
  OBVIOUS
<1>2. /\ t.token_hash = p /\ t.user_id = p /\ t.revoked_at = None
      /\ db'.refresh_tokens = db.refresh_tokens \cup {t}
      /\ boots' = boots /\ issued' = issued /\ issued[p].key = boots
      /\ p \notin Registered
  BY <1>1, RegistrationPublishes DEF PromisesReady, RefreshTokenOf
<1>3. p \notin SignedIn
  BY StoreAssumption DEF SignedIn
<1>4. PairIn(p)'.key = boots
  BY <1>2 DEF PairIn
<1>5. GrantsPromise!Give(p, p)
  BY <1>2, <1>3, <1>4, RowIsGiven
<1>6. \A g \in Given : g.owner # p
  BY <1>2, TokensAreOfAnswers DEF Given, GrantOf
<1>7. GrantsPromise!SignUp(p, p)
  BY <1>5, <1>6 DEF GrantsPromise!SignUp, GrantsPromise!GrantsOf, Given, GrantOf
<1> QED
  BY <1>7 DEF GrantsPromise!Next

(* The COMMIT of a login is a SignIn.                                      *)
LEMMA SignInRefines ==
    ASSUME PasskeyReady, EndToEnd, PromisesReady,
           [PasskeyNext]_passkeyVars, NEW q \in LoginFinishes,
           SessionsFinishStep(q), CommitLogin(q)
    PROVE  GrantsPromise!Next
<1>1. PICK t : t = LoginTokenOf(q)
  OBVIOUS
<1>2. assertPc[q] = "commit" /\ q \notin RegFinishes
  BY StoreAssumption DEF CommitLogin
<1>3. <<target[q].credential_id, target[q].user_id>> \in Owners(db)
  BY <1>2 DEF EndToEnd, AssertFollows, LoginTransaction
<1>4. PICK p \in Registered : p = target[q].user_id
  BY <1>3 DEF EndToEnd, AccountsStand
<1>5. /\ t.token_hash = q /\ t.user_id = p /\ t.revoked_at = None
      /\ db'.refresh_tokens = db.refresh_tokens \cup {t}
      /\ boots' = boots /\ loginIssued' = loginIssued
      /\ loginIssued[q].key = boots
      /\ q \notin Registered \cup SignedIn
  BY <1>1, <1>2, <1>4, LoginPublishes DEF PromisesReady, LoginTokenOf, Registered
<1>6. PairIn(q)'.key = boots
  BY <1>2, <1>5 DEF PairIn
<1>7. GrantsPromise!Give(p, q)
  BY <1>5, <1>6, RowIsGiven
<1>8. PICK s \in db.refresh_tokens : s.user_id = IssuedTo(p)
  BY TokensAreOfAnswers
<1>9. GrantOf(s) \in Given /\ GrantOf(s).owner = p /\ p \in RegFinishes
  BY <1>8 DEF Given, GrantOf, IssuedTo, Registered
<1>10. GrantsPromise!SignIn(p, q)
  BY <1>7, <1>9 DEF GrantsPromise!SignIn, GrantsPromise!GrantsOf, Given, GrantOf
<1> QED
  BY <1>9, <1>10 DEF GrantsPromise!Next

(* The UPDATE of a logout is a SignOut.                                    *)
LEMMA SignOutRefines ==
    ASSUME PasskeyReady, EndToEnd, PromisesReady,
           [PasskeyNext]_passkeyVars, NEW l \in Logouts,
           SessionsLogoutStep(l), RevokeUserSessions(l)
    PROVE  GrantsPromise!Next
<1>1. PICK p, s : p = revocation[l].user_id /\ s = Unix(revocation[l].now)
  OBVIOUS
<1>2. logoutPc[l] = "revoke"
  BY DEF RevokeUserSessions
<1>3. p \in RegFinishes
  BY <1>1, <1>2 DEF PasskeyReady, LogoutReady, RevokeUserSessionsInput
<1> DEFINE r(t) == IF t.user_id = p /\ t.revoked_at = None
                   THEN [t EXCEPT !.revoked_at = s] ELSE t
           Of(t) == [name  |-> t.token_hash, owner |-> t.user_id,
                     epoch |-> PairIn(t.token_hash)'.key,
                     live  |-> t.revoked_at = None]
           ended(g) == [g EXCEPT !.live = FALSE]
           mine == {g \in Given : g.owner = p}
<1>4. /\ db'.refresh_tokens = {r(t) : t \in db.refresh_tokens}
      /\ boots' = boots /\ s \in Nat /\ s # None
  BY <1>1, LogoutPublishes, StoreAssumption
<1>5. \A t \in db.refresh_tokens :
         /\ t \in RefreshTokenRow
         /\ PairIn(t.token_hash)' = PairIn(t.token_hash)
  BY RowsKeepPairs, UsersOfCredentials DEF Database
<1>6. ASSUME NEW t \in db.refresh_tokens
      PROVE  Of(r(t)) = IF t.user_id = p THEN ended(Of(t)) ELSE Of(t)
  <2>1. /\ r(t).token_hash = t.token_hash /\ r(t).user_id = t.user_id
        /\ t.user_id = p => r(t).revoked_at # None
        /\ t.user_id # p => r(t) = t
    BY <1>4, <1>5 DEF RefreshTokenRow
  <2> HIDE DEF r
  <2>2. CASE t.user_id = p
    <3>1. (r(t).revoked_at = None) = FALSE
      BY <2>1, <2>2
    <3>2. Of(r(t)) = [name  |-> t.token_hash, owner |-> t.user_id,
                      epoch |-> PairIn(t.token_hash)'.key, live |-> FALSE]
      BY <2>1, <3>1
    <3> QED
      BY <2>2, <3>2
  <2>3. CASE t.user_id # p
    BY <2>1, <2>3
  <2> QED
    BY <2>2, <2>3
<1>7. Given' = {Of(r(t)) : t \in db.refresh_tokens}
  <2>1. Given' = {Of(t) : t \in db'.refresh_tokens}
    BY DEF Given, GrantOf
  <2> HIDE DEF r, Of
  <2> QED
    BY <1>4, <2>1
<1>8. Given = {Of(t) : t \in db.refresh_tokens}
  BY <1>5 DEF Given, GrantOf
<1>9. \A t \in db.refresh_tokens : Of(t).owner = t.user_id
  OBVIOUS
<1>10. Given' = (Given \ mine) \cup {ended(g) : g \in mine}
  <2> HIDE DEF r, Of, ended
  <2> QED
    BY <1>6, <1>7, <1>8, <1>9
<1>11. \E g \in mine : g.epoch = boots
  <2>1. PICK h \in Registered \cup SignedIn :
           p = IssuedTo(h) /\ PairIn(h).key = boots
    BY <1>1, <1>2 DEF PromisesReady, BearerFollows
  <2>2. PICK t \in db.refresh_tokens : t.token_hash = h /\ t.user_id = p
    BY <2>1, TokensAreOfAnswers
  <2>3. GrantOf(t) \in Given /\ GrantOf(t).owner = p /\ GrantOf(t).epoch = boots
    BY <2>1, <2>2 DEF Given, GrantOf
  <2> QED
    BY <2>3
<1>12. mine = GrantsPromise!GrantsOf(p)
  BY DEF GrantsPromise!GrantsOf, Given, GrantOf
<1>13. GrantsPromise!SignOut(p)
  <2> HIDE DEF mine
  <2> QED
    BY <1>4, <1>10, <1>11, <1>12
    DEF GrantsPromise!SignOut, Given, GrantOf, ended
<1> QED
  BY <1>3, <1>13 DEF GrantsPromise!Next

(* The refresh tokens of the service are grants: one for each registration *)
(* and each login, ended together, for good, by a logout that shows an     *)
(* access token of the running process, and only by that.                  *)
THEOREM ServiceKeepsGrants == PasskeySpec => ImplementsGrants
<1>1. PasskeyInit => GrantsPromise!Init
  BY DEF PasskeyInit, StoreInit, EmptyDatabase, GrantsPromise!Init
<1>2. PasskeyReady /\ EnrolmentsHold /\ EndToEnd /\ PromisesReady
         /\ [PasskeyNext]_passkeyVars
      => [GrantsPromise!Next]_(GrantsPromise!grantVars)
  <2> SUFFICES ASSUME PasskeyReady, EnrolmentsHold, EndToEnd, PromisesReady,
                      [PasskeyNext]_passkeyVars
               PROVE  GrantsPromise!Next \/ UNCHANGED GrantsPromise!grantVars
    OBVIOUS
  <2>1. boots' = boots \/ (ProcessRestarts /\ boots' = boots + 1)
    BY TimeAndCounters DEF EnrolmentsHold, ProcessRestarts, Reboot
  <2>2. CASE ProcessRestarts /\ boots' = boots + 1
    <3>1. Given' = Given
      BY <2>2, SameGiven DEF ProcessRestarts, Reboot
    <3>2. GrantsPromise!NewEpoch
      BY <2>2, <3>1 DEF GrantsPromise!NewEpoch, Given, GrantOf
    <3> QED
      BY <3>2 DEF GrantsPromise!Next
  <2>3. CASE boots' = boots /\ db'.refresh_tokens = db.refresh_tokens
    <3>1. Given' = Given
      BY <2>3, SameGiven
    <3> QED
      BY <2>3, <3>1 DEF GrantsPromise!grantVars, Given, GrantOf
  <2>4. ASSUME NEW r \in RegStarts, RegistrationsStartStep(r),
               PersistRegistrationSession(r)
        PROVE  db'.refresh_tokens = db.refresh_tokens
    BY <2>4, OfferPublishes DEF SameTokens
  <2>5. ASSUME NEW r \in LoginStarts, SessionsStartStep(r), PersistLoginSession(r)
        PROVE  db'.refresh_tokens = db.refresh_tokens
    BY <2>5, LoginSessionPublishes DEF SameTokens
  <2> QED
    BY <2>1, <2>2, <2>3, <2>4, <2>5, Deeds, SignUpRefines, SignInRefines,
       SignOutRefines
<1> QED
  BY <1>1, <1>2, PasskeyInvariantHolds, EnrolmentsAreComplete, EndToEndHolds,
     PromisesAreReady, PTL
  DEF PasskeySpec, PasskeyInvariant, ImplementsGrants, GrantsPromise!Spec
=============================================================================
