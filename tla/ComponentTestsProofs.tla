------------------------ MODULE ComponentTestsProofs ------------------------
(***************************************************************************)
(* The component tests pass however many scenarios there are, whichever    *)
(* they are and in whatever order godog runs them, for every value of the  *)
(* constants; and a request that fails saves nothing.                      *)
(*                                                                         *)
(* What a step of a scenario relies on is what the steps before it have    *)
(* done, so the invariant speaks of the request that was sent last: how    *)
(* far it has come, what the tables hold meanwhile, and who holds the lock *)
(* of the database.  Every scenario finds the tables empty and no lock.    *)
(***************************************************************************)
EXTENDS ComponentTests, TLAPS

----------------------------------------------------------------------------
(* What the scenarios have in common.                                      *)

Name == plan[Round]

HandleOf(s) == IF s \in {"challenge", "loginStart", "logout"} THEN "alice"
               ELSE IF s \in {"attestation", "login"} THEN "bob"
               ELSE "carol"

(* What a scenario does before its step i.                                 *)
Before(s, i) == {Scenarios[s][j].do : j \in 1 .. (i - 1)}
Past == Before(Name, stepNo)

(* The last request of a scenario that has done what is in past.           *)
StageAfter(past) ==
    IF "logout" \in past THEN "logout"
    ELSE IF "assert" \in past THEN "assert"
    ELSE IF "login" \in past THEN "login"
    ELSE IF "attest" \in past THEN "attest"
    ELSE IF "register" \in past THEN "register"
    ELSE "nothing"

Stage == StageAfter(Past)

(* The answer that a scenario expects to its last request.                 *)
Expected(s, stage) == IF s = "diskFull" THEN "db_disk_full"
                      ELSE IF s = "locked" /\ stage = "assert" THEN "db_locked"
                      ELSE "OK"

(* What each step of a scenario finds done and what it finds not done yet. *)
Relies(s, i) ==
    LET do == Scenarios[s][i].do
        arg == Scenarios[s][i].arg
        past == Before(s, i)
        stage == StageAfter(past)
    IN  /\ do = "register" => stage = "nothing" /\ arg = HandleOf(s)
        /\ do = "attest" => /\ stage = "register" /\ "authenticator" \in past
                            /\ s = "diskFull" => "fillDisk" \in past
        /\ do = "login" => /\ stage = "attest" /\ "keepTokens" \in past
                           /\ arg = HandleOf(s)
        /\ do = "assert" => stage = "login" /\ (s = "locked" => "lock" \in past)
        /\ do = "logout" => stage = "attest" /\ "keepTokens" \in past
        /\ do = "keepTokens" => stage = "attest" /\ s # "diskFull"
        /\ do = "lock" => stage = "login" /\ "lock" \notin past
        /\ do = "fillDisk" => stage = "register"
        /\ do = "expect" => /\ stage # "nothing" /\ arg = Expected(s, stage)
                            /\ s = "diskFull" => stage = "attest"

(* What is known at every step of a scenario, and at its end.              *)
Consistent(s, i) ==
    LET past == Before(s, i)
        stage == StageAfter(past)
    IN  /\ stage \in {"login", "assert", "logout"} => "keepTokens" \in past
        /\ "keepTokens" \in past => stage \notin {"nothing", "register"} /\ s # "diskFull"
        /\ "fillDisk" \in past => s = "diskFull" /\ stage # "nothing"
        /\ "lock" \in past => s = "locked" /\ stage \in {"login", "assert"}
        /\ s = "locked" /\ stage = "assert" => "lock" \in past
        /\ s = "diskFull" /\ stage = "attest" => "fillDisk" \in past

----------------------------------------------------------------------------
(* The images of the database that a scenario goes through.                *)

OpenedImage(r) ==
    [EmptyDatabase EXCEPT !.registration_sessions = {SessionRow(r)}]

AccountImage(p) ==
    [registration_sessions |-> {}, users |-> {UserOf(p)},
     credentials |-> {CredentialOf(p)}, refresh_tokens |-> {RefreshTokenOf(p)},
     login_sessions |-> {}]

ChallengedImage(p, r) ==
    [registration_sessions |-> {}, users |-> {UserOf(p)},
     credentials |-> {CredentialOf(p)}, refresh_tokens |-> {RefreshTokenOf(p)},
     login_sessions |-> {LoginSessionRowOf(r)}]

SignedInImage(p, q) ==
    [registration_sessions |-> {}, users |-> {UserOf(p)},
     credentials |-> {CredentialOf(p)},
     refresh_tokens |-> {RefreshTokenOf(p), LoginTokenOf(q)},
     login_sessions |-> {}]

(* What the open transactions are about to publish.                        *)
FinishView(p) ==
    [registration_sessions |-> IF finishPc[p] = "commit" THEN {}
                               ELSE {SessionRow(command[p].id)},
     users |-> {UserOf(p)},
     credentials |-> IF finishPc[p] = "insertCredential" THEN {}
                     ELSE {CredentialOf(p)},
     refresh_tokens |-> IF finishPc[p] \in {"insertCredential", "insertRefreshToken"}
                        THEN {} ELSE {RefreshTokenOf(p)},
     login_sessions |-> {}]

LoginView(p, q) ==
    [registration_sessions |-> {}, users |-> {UserOf(p)},
     credentials |-> {CredentialOf(p)},
     refresh_tokens |-> IF assertPc[q] = "insertToken" THEN {RefreshTokenOf(p)}
                        ELSE {RefreshTokenOf(p), LoginTokenOf(q)},
     login_sessions |-> IF assertPc[q] = "commit" THEN {}
                        ELSE {LoginSessionRowOf(assertion[q].id)}]

----------------------------------------------------------------------------
(* The request that was sent last.                                         *)

Registering(r) ==
    /\ r \in RegStarts
    /\ opened[r] = NewRegistrationSession(HandleOf(Name), now)
    /\ startPc[r] \in {"persist", "respond", "done"}
    /\ startReply[r] = IF startPc[r] = "persist" THEN None ELSE "OK"
    /\ db = IF startPc[r] = "persist" THEN EmptyDatabase ELSE OpenedImage(r)
    /\ writer = None
    /\ junk => startPc[r] = "done"

(* The ceremony between the authenticator and the service.                 *)
Ceremony(p) ==
    /\ p \in RegFinishes
    /\ command[p].id \in RegStarts
    /\ opened[command[p].id] = NewRegistrationSession(HandleOf(Name), now)
    /\ world.credential \in CredIDs
    /\ command[p] = [id |-> command[p].id, challenge |-> command[p].id,
                     credential_id |-> world.credential, sign_count |-> 0]

Attesting(p) ==
    /\ Ceremony(p)
    /\ finishPc[p] \in {"load", "check", "issue", "insertUser", "respond", "done"}
                          \cup InTransaction
    /\ finishPc[p] # "load" => loaded[p] = SessionRow(command[p].id)
    /\ finishPc[p] \notin {"load", "check", "issue"} =>
          issued[p] = GenerateTokenPair(now, boots)
    /\ finishReply[p] = IF finishPc[p] \notin {"respond", "done"} THEN None
                        ELSE IF DiskIsFull THEN "db_disk_full" ELSE "OK"
    /\ db = IF finishReply[p] = "OK" THEN AccountImage(p)
            ELSE OpenedImage(command[p].id)
    /\ writer = IF finishPc[p] \in InTransaction THEN p ELSE None
    /\ finishPc[p] \in InTransaction => view = FinishView(p)

(* The account of the scenario, once its tokens are kept.                  *)
Account(p) ==
    /\ Ceremony(p)
    /\ finishPc[p] = "done"
    /\ finishReply[p] = "OK"
    /\ loaded[p] = SessionRow(command[p].id)
    /\ issued[p] = GenerateTokenPair(now, boots)

LoggingIn(p, r) ==
    /\ r \in LoginStarts
    /\ loginPc[r] \in {"credentials", "open", "persist", "respond", "done"}
    /\ user[r] = UserOf(p)
    /\ loginPc[r] \in {"persist", "respond", "done"} =>
          session[r] = NewLoginSession(p, now)
    /\ loginReply[r] = IF loginPc[r] \in {"respond", "done"} THEN "OK" ELSE None
    /\ db = IF loginReply[r] = "OK" THEN ChallengedImage(p, r) ELSE AccountImage(p)
    /\ writer = IF world.lockConn THEN Runner ELSE None
    /\ world.lockConn => loginPc[r] = "done"

Asserting(p, q) ==
    LET r == assertion[q].id IN
    /\ q \in LoginFinishes
    /\ r \in LoginStarts
    /\ session[r] = NewLoginSession(p, now)
    /\ assertion[q].signed = [challenge |-> r, credential_id |-> world.credential,
                              sign_count |-> 0]
    /\ assertPc[q] \in {"load", "check", "credential", "owner", "verify",
                        "updateCount", "respond", "done"} \cup LoginTransaction
    /\ assertPc[q] # "load" => loginLoaded[q] = LoginSessionRowOf(r)
    /\ assertPc[q] \notin {"load", "check", "credential"} =>
          target[q] = CredentialOf(p)
    /\ assertReply[q] = IF assertPc[q] \notin {"respond", "done"} THEN None
                        ELSE IF world.lockConn THEN "db_locked" ELSE "OK"
    /\ db = IF assertReply[q] = "OK" THEN SignedInImage(p, q)
            ELSE ChallengedImage(p, r)
    /\ writer = IF world.lockConn THEN Runner
                ELSE IF assertPc[q] \in LoginTransaction THEN q ELSE None
    /\ assertPc[q] \in LoginTransaction => ~world.lockConn /\ view = LoginView(p, q)

LoggingOut(l) ==
    /\ l \in Logouts
    /\ logoutPc[l] \in {"stamp", "revoke", "respond", "done"}
    /\ logoutReply[l] = IF logoutPc[l] \in {"respond", "done"} THEN "OK" ELSE None
    /\ writer = None
    /\ DOMAIN db = DOMAIN EmptyDatabase

----------------------------------------------------------------------------
(* The inductive invariant.                                                *)

OnEach(S, f) == f = [x \in S |-> f[x]]

(* No request runs but the one that the runner waits for, and one that has *)
(* not been sent has no answer.                                            *)
Rest(requests, pc, reply) ==
    \A q \in requests : /\ q = inFlight \/ pc[q] \in {"idle", "done"}
                        /\ pc[q] = "idle" => reply[q] = None

StartsRest ==
    /\ OnEach(RegStarts, startPc) /\ OnEach(RegStarts, startReply)
    /\ OnEach(RegStarts, opened)
    /\ Rest(RegStarts, startPc, startReply)

FinishesRest ==
    /\ OnEach(RegFinishes, finishPc) /\ OnEach(RegFinishes, finishReply)
    /\ OnEach(RegFinishes, command) /\ OnEach(RegFinishes, loaded)
    /\ OnEach(RegFinishes, issued)
    /\ Rest(RegFinishes, finishPc, finishReply)

LoginsRest ==
    /\ OnEach(LoginStarts, loginPc) /\ OnEach(LoginStarts, loginReply)
    /\ OnEach(LoginStarts, user) /\ OnEach(LoginStarts, session)
    /\ Rest(LoginStarts, loginPc, loginReply)

AssertionsRest ==
    /\ OnEach(LoginFinishes, assertPc) /\ OnEach(LoginFinishes, assertReply)
    /\ OnEach(LoginFinishes, assertion) /\ OnEach(LoginFinishes, loginLoaded)
    /\ OnEach(LoginFinishes, target) /\ OnEach(LoginFinishes, loginIssued)
    /\ Rest(LoginFinishes, assertPc, assertReply)

LogoutsRest ==
    /\ OnEach(Logouts, logoutPc) /\ OnEach(Logouts, logoutReply)
    /\ Rest(Logouts, logoutPc, logoutReply)

Worlds == [lastResponse : {None} \cup Responses,
           authenticator : BOOLEAN,
           credential : CredIDs \cup {None},
           accessToken : Requests \cup {None},
           lockConn : BOOLEAN]

RunnerTypeOK ==
    /\ now \in Nat
    /\ profile \in {"healthy", "disk-full"}
    /\ plan \in [1 .. Rounds -> DOMAIN Scenarios]
    /\ verdicts \in Seq({"passed", "failed"})
    /\ Len(verdicts) <= Rounds
    /\ stepNo # None => /\ Round <= Rounds
                        /\ stepNo \in 1 .. (Len(Current) + 1)
    /\ world \in Worlds
    /\ inFlight \in Requests \cup {None}
    /\ junk \in BOOLEAN

(* Between scenarios nothing runs and nobody holds the lock.               *)
NothingIsLeft == stepNo = None => inFlight = None /\ writer = None /\ ~world.lockConn

(* The World after the steps that have passed.                             *)
WorldIsSet ==
    stepNo # None =>
      /\ world.authenticator <=> "authenticator" \in Past
      /\ world.lockConn <=> "lock" \in Past
      /\ junk <=> "fillDisk" \in Past
      /\ "keepTokens" \in Past => Account(world.accessToken)
      /\ Name = "diskFull" /\ "expect" \in Past => profile = "disk-full"

Subject == IF inFlight # None THEN inFlight ELSE world.lastResponse.request

(* The last request, and its response once it is there.                    *)
LastRequest ==
    stepNo # None =>
      /\ Stage = "nothing" => /\ inFlight = None /\ world.lastResponse = None
                              /\ db = EmptyDatabase /\ writer = None
      /\ Stage = "register" => Registering(Subject)
      /\ Stage = "attest" =>
            Attesting(Subject) /\ ("keepTokens" \in Past => world.accessToken = Subject)
      /\ Stage = "login" => LoggingIn(world.accessToken, Subject)
      /\ Stage = "assert" => Asserting(world.accessToken, Subject)
      /\ Stage = "logout" => LoggingOut(Subject)

ResponseIsRead ==
    stepNo # None =>
      /\ inFlight = None /\ Stage # "nothing" =>
            /\ world.lastResponse # None
            /\ world.lastResponse.code = Reply(world.lastResponse.request)
            /\ At(world.lastResponse.request) = "done"
      /\ inFlight # None /\ world.lastResponse # None =>
            world.lastResponse.code = "OK"

(* A row is there for a request that was answered OK.                      *)
RowsAreAnswered ==
    /\ \A u \in db.users : u.id \in RegFinishes /\ finishReply[u.id] = "OK"
    /\ \A k \in db.credentials :
          k.user_id \in RegFinishes /\ finishReply[k.user_id] = "OK"
    /\ \A t \in db.refresh_tokens :
          /\ "token_hash" \in DOMAIN t
          /\ \/ t.token_hash \in RegFinishes /\ finishReply[t.token_hash] = "OK"
             \/ t.token_hash \in LoginFinishes /\ assertReply[t.token_hash] = "OK"

TestsInvariant ==
    /\ RunnerTypeOK
    /\ StartsRest /\ FinishesRest /\ LoginsRest /\ AssertionsRest /\ LogoutsRest
    /\ NothingIsLeft
    /\ WorldIsSet
    /\ LastRequest
    /\ ResponseIsRead
    /\ RowsAreAnswered
    /\ ScenariosPass

----------------------------------------------------------------------------
(* The scenarios, step by step.                                            *)

(* The steps before each of the first eleven.                              *)
LEMMA BeforeEach ==
    ASSUME NEW s
    PROVE  /\ Before(s, 1) = {}
           /\ Before(s, 2) = Before(s, 1) \cup {Scenarios[s][1].do}
           /\ Before(s, 3) = Before(s, 2) \cup {Scenarios[s][2].do}
           /\ Before(s, 4) = Before(s, 3) \cup {Scenarios[s][3].do}
           /\ Before(s, 5) = Before(s, 4) \cup {Scenarios[s][4].do}
           /\ Before(s, 6) = Before(s, 5) \cup {Scenarios[s][5].do}
           /\ Before(s, 7) = Before(s, 6) \cup {Scenarios[s][6].do}
           /\ Before(s, 8) = Before(s, 7) \cup {Scenarios[s][7].do}
           /\ Before(s, 9) = Before(s, 8) \cup {Scenarios[s][8].do}
           /\ Before(s, 10) = Before(s, 9) \cup {Scenarios[s][9].do}
           /\ Before(s, 11) = Before(s, 10) \cup {Scenarios[s][10].do}
<1>1. ASSUME NEW i \in Nat, i > 1
      PROVE  Before(s, i) = Before(s, i - 1) \cup {Scenarios[s][i - 1].do}
  <2>1. 1 .. (i - 1) = (1 .. (i - 1 - 1)) \cup {i - 1}
    BY <1>1
  <2> QED
    BY <2>1 DEF Before
<1>2. Before(s, 1) = {}
  BY DEF Before
<1>3. /\ 2 - 1 = 1 /\ 3 - 1 = 2 /\ 4 - 1 = 3 /\ 5 - 1 = 4 /\ 6 - 1 = 5
      /\ 7 - 1 = 6 /\ 8 - 1 = 7 /\ 9 - 1 = 8 /\ 10 - 1 = 9 /\ 11 - 1 = 10
  OBVIOUS
<1>4. /\ 2 \in Nat /\ 3 \in Nat /\ 4 \in Nat /\ 5 \in Nat /\ 6 \in Nat /\ 7 \in Nat
      /\ 8 \in Nat /\ 9 \in Nat /\ 10 \in Nat /\ 11 \in Nat
  OBVIOUS
<1> HIDE DEF Before
<1>5. Before(s, 2) = Before(s, 2 - 1) \cup {Scenarios[s][2 - 1].do}
  BY <1>1
<1>6. Before(s, 3) = Before(s, 3 - 1) \cup {Scenarios[s][3 - 1].do}
  BY <1>1
<1>7. Before(s, 4) = Before(s, 4 - 1) \cup {Scenarios[s][4 - 1].do}
  BY <1>1
<1>8. Before(s, 5) = Before(s, 5 - 1) \cup {Scenarios[s][5 - 1].do}
  BY <1>1
<1>9. Before(s, 6) = Before(s, 6 - 1) \cup {Scenarios[s][6 - 1].do}
  BY <1>1
<1>10. Before(s, 7) = Before(s, 7 - 1) \cup {Scenarios[s][7 - 1].do}
  BY <1>1
<1>11. Before(s, 8) = Before(s, 8 - 1) \cup {Scenarios[s][8 - 1].do}
  BY <1>1
<1>12. Before(s, 9) = Before(s, 9 - 1) \cup {Scenarios[s][9 - 1].do}
  BY <1>1
<1>13. Before(s, 10) = Before(s, 10 - 1) \cup {Scenarios[s][10 - 1].do}
  BY <1>1
<1>14. Before(s, 11) = Before(s, 11 - 1) \cup {Scenarios[s][11 - 1].do}
  BY <1>1
<1> QED
  BY <1>2, <1>3, <1>5, <1>6, <1>7, <1>8, <1>9, <1>10, <1>11, <1>12, <1>13, <1>14


(* Every scenario has, at each of its steps, what the step relies on.      *)
Scripted(s) ==
    /\ DOMAIN Scenarios[s] = 1 .. Len(Scenarios[s])
    /\ Len(Scenarios[s]) \in 1 .. 10
    /\ \A i \in 1 .. Len(Scenarios[s]) : Relies(s, i)
    /\ \A i \in 1 .. (Len(Scenarios[s]) + 1) : Consistent(s, i)
    /\ "expect" \in Before(s, Len(Scenarios[s]) + 1)

(* The scenario challenge.                                                 *)
LEMMA ChallengeIsScripted == Scripted("challenge")
<1> DEFINE s == "challenge"
<1>1. Len(Scenarios[s]) = 2 /\ DOMAIN Scenarios[s] = 1 .. Len(Scenarios[s])
  BY DEF Scenarios, RegistrationScenarios, UserIsLoggedIn
<1>2. /\ Scenarios[s][1].do = "register" /\ Scenarios[s][1].arg = "alice"
      /\ Scenarios[s][2].do = "expect" /\ Scenarios[s][2].arg = "OK"
  BY DEF Scenarios, RegistrationScenarios, UserIsLoggedIn, Post, Then, Step
<1>3. Before(s, 1) = {}
  BY BeforeEach
<1>4. Before(s, 2) = {"register"}
  BY <1>2, <1>3, BeforeEach
<1>5. Before(s, 3) = {"register", "expect"}
  BY <1>2, <1>4, BeforeEach
<1>6. /\ Relies(s, 1) /\ Relies(s, 2)
  BY <1>2, <1>3, <1>4 DEF Relies, StageAfter, Expected, HandleOf
<1>7. /\ Consistent(s, 1) /\ Consistent(s, 2) /\ Consistent(s, 3)
  BY <1>3, <1>4, <1>5 DEF Consistent, StageAfter
<1>8. "expect" \in Before(s, 3)
  BY <1>5
<1> QED
  BY <1>1, <1>6, <1>7, <1>8 DEF Scripted

(* The scenario attestation.                                               *)
LEMMA AttestationIsScripted == Scripted("attestation")
<1> DEFINE s == "attestation"
<1>1. Len(Scenarios[s]) = 4 /\ DOMAIN Scenarios[s] = 1 .. Len(Scenarios[s])
  BY DEF Scenarios, RegistrationScenarios, UserIsLoggedIn
<1>2. /\ Scenarios[s][1].do = "authenticator"
      /\ Scenarios[s][2].do = "register" /\ Scenarios[s][2].arg = "bob"
      /\ Scenarios[s][3].do = "attest"
      /\ Scenarios[s][4].do = "expect" /\ Scenarios[s][4].arg = "OK"
  BY DEF Scenarios, RegistrationScenarios, UserIsLoggedIn, Post, Then, Step
<1>3. Before(s, 1) = {}
  BY BeforeEach
<1>4. Before(s, 2) = {"authenticator"}
  BY <1>2, <1>3, BeforeEach
<1>5. Before(s, 3) = {"authenticator", "register"}
  BY <1>2, <1>4, BeforeEach
<1>6. Before(s, 4) = {"authenticator", "register", "attest"}
  BY <1>2, <1>5, BeforeEach
<1>7. Before(s, 5) = {"authenticator", "register", "attest", "expect"}
  BY <1>2, <1>6, BeforeEach
<1>8. /\ Relies(s, 1) /\ Relies(s, 2) /\ Relies(s, 3) /\ Relies(s, 4)
  BY <1>2, <1>3, <1>4, <1>5, <1>6 DEF Relies, StageAfter, Expected, HandleOf
<1>9. /\ Consistent(s, 1) /\ Consistent(s, 2) /\ Consistent(s, 3) /\ Consistent(s, 4)
      /\ Consistent(s, 5)
  BY <1>3, <1>4, <1>5, <1>6, <1>7 DEF Consistent, StageAfter
<1>10. "expect" \in Before(s, 5)
  BY <1>7
<1> QED
  BY <1>1, <1>8, <1>9, <1>10 DEF Scripted

(* The scenario diskFull.                                                  *)
LEMMA DiskFullIsScripted == Scripted("diskFull")
<1> DEFINE s == "diskFull"
<1>1. Len(Scenarios[s]) = 5 /\ DOMAIN Scenarios[s] = 1 .. Len(Scenarios[s])
  BY DEF Scenarios, RegistrationScenarios, UserIsLoggedIn
<1>2. /\ Scenarios[s][1].do = "authenticator"
      /\ Scenarios[s][2].do = "register" /\ Scenarios[s][2].arg = "carol"
      /\ Scenarios[s][3].do = "fillDisk"
      /\ Scenarios[s][4].do = "attest"
      /\ Scenarios[s][5].do = "expect" /\ Scenarios[s][5].arg = "db_disk_full"
  BY DEF Scenarios, RegistrationScenarios, UserIsLoggedIn, Post, Then, Step
<1>3. Before(s, 1) = {}
  BY BeforeEach
<1>4. Before(s, 2) = {"authenticator"}
  BY <1>2, <1>3, BeforeEach
<1>5. Before(s, 3) = {"authenticator", "register"}
  BY <1>2, <1>4, BeforeEach
<1>6. Before(s, 4) = {"authenticator", "register", "fillDisk"}
  BY <1>2, <1>5, BeforeEach
<1>7. Before(s, 5) = {"authenticator", "register", "fillDisk", "attest"}
  BY <1>2, <1>6, BeforeEach
<1>8. Before(s, 6) = {"authenticator", "register", "fillDisk", "attest",
                      "expect"}
  BY <1>2, <1>7, BeforeEach
<1>9. /\ Relies(s, 1) /\ Relies(s, 2) /\ Relies(s, 3) /\ Relies(s, 4)
      /\ Relies(s, 5)
  BY <1>2, <1>3, <1>4, <1>5, <1>6, <1>7
     DEF Relies, StageAfter, Expected, HandleOf
<1>10. /\ Consistent(s, 1) /\ Consistent(s, 2) /\ Consistent(s, 3) /\ Consistent(s, 4)
      /\ Consistent(s, 5) /\ Consistent(s, 6)
  BY <1>3, <1>4, <1>5, <1>6, <1>7, <1>8 DEF Consistent, StageAfter
<1>11. "expect" \in Before(s, 6)
  BY <1>8
<1> QED
  BY <1>1, <1>9, <1>10, <1>11 DEF Scripted

(* The scenario loginStart.                                                *)
LEMMA LoginStartIsScripted == Scripted("loginStart")
<1> DEFINE s == "loginStart"
<1>1. Len(Scenarios[s]) = 8 /\ DOMAIN Scenarios[s] = 1 .. Len(Scenarios[s])
  BY DEF Scenarios, LoginScenarios, UserIsLoggedIn
<1>2. /\ Scenarios[s][1].do = "register" /\ Scenarios[s][1].arg = "alice"
      /\ Scenarios[s][2].do = "expect" /\ Scenarios[s][2].arg = "OK"
      /\ Scenarios[s][3].do = "authenticator"
      /\ Scenarios[s][4].do = "attest"
      /\ Scenarios[s][5].do = "expect" /\ Scenarios[s][5].arg = "OK"
      /\ Scenarios[s][6].do = "keepTokens"
      /\ Scenarios[s][7].do = "login" /\ Scenarios[s][7].arg = "alice"
      /\ Scenarios[s][8].do = "expect" /\ Scenarios[s][8].arg = "OK"
  BY DEF Scenarios, LoginScenarios, UserIsLoggedIn, Post, Then, Step
<1>3. Before(s, 1) = {}
  BY BeforeEach
<1>4. Before(s, 2) = {"register"}
  BY <1>2, <1>3, BeforeEach
<1>5. Before(s, 3) = {"register", "expect"}
  BY <1>2, <1>4, BeforeEach
<1>6. Before(s, 4) = {"register", "expect", "authenticator"}
  BY <1>2, <1>5, BeforeEach
<1>7. Before(s, 5) = {"register", "expect", "authenticator", "attest"}
  BY <1>2, <1>6, BeforeEach
<1>8. Before(s, 6) = {"register", "expect", "authenticator", "attest"}
  BY <1>2, <1>7, BeforeEach
<1>9. Before(s, 7) = {"register", "expect", "authenticator", "attest",
                      "keepTokens"}
  BY <1>2, <1>8, BeforeEach
<1>10. Before(s, 8) = {"register", "expect", "authenticator", "attest",
                       "keepTokens", "login"}
  BY <1>2, <1>9, BeforeEach
<1>11. Before(s, 9) = {"register", "expect", "authenticator", "attest",
                       "keepTokens", "login"}
  BY <1>2, <1>10, BeforeEach
<1>12. /\ Relies(s, 1) /\ Relies(s, 2) /\ Relies(s, 3) /\ Relies(s, 4)
      /\ Relies(s, 5) /\ Relies(s, 6) /\ Relies(s, 7) /\ Relies(s, 8)
  BY <1>2, <1>3, <1>4, <1>5, <1>6, <1>7, <1>8, <1>9, <1>10
     DEF Relies, StageAfter, Expected, HandleOf
<1>13. /\ Consistent(s, 1) /\ Consistent(s, 2) /\ Consistent(s, 3) /\ Consistent(s, 4)
      /\ Consistent(s, 5) /\ Consistent(s, 6) /\ Consistent(s, 7) /\ Consistent(s, 8)
      /\ Consistent(s, 9)
  BY <1>3, <1>4, <1>5, <1>6, <1>7, <1>8, <1>9, <1>10, <1>11
     DEF Consistent, StageAfter
<1>14. "expect" \in Before(s, 9)
  BY <1>11
<1> QED
  BY <1>1, <1>12, <1>13, <1>14 DEF Scripted

(* The scenario login.                                                     *)
LEMMA LoginIsScripted == Scripted("login")
<1> DEFINE s == "login"
<1>1. Len(Scenarios[s]) = 9 /\ DOMAIN Scenarios[s] = 1 .. Len(Scenarios[s])
  BY DEF Scenarios, LoginScenarios, UserIsLoggedIn
<1>2. /\ Scenarios[s][1].do = "register" /\ Scenarios[s][1].arg = "bob"
      /\ Scenarios[s][2].do = "expect" /\ Scenarios[s][2].arg = "OK"
      /\ Scenarios[s][3].do = "authenticator"
      /\ Scenarios[s][4].do = "attest"
      /\ Scenarios[s][5].do = "expect" /\ Scenarios[s][5].arg = "OK"
      /\ Scenarios[s][6].do = "keepTokens"
      /\ Scenarios[s][7].do = "login" /\ Scenarios[s][7].arg = "bob"
      /\ Scenarios[s][8].do = "assert"
      /\ Scenarios[s][9].do = "expect" /\ Scenarios[s][9].arg = "OK"
  BY DEF Scenarios, LoginScenarios, UserIsLoggedIn, Post, Then, Step
<1>3. Before(s, 1) = {}
  BY BeforeEach
<1>4. Before(s, 2) = {"register"}
  BY <1>2, <1>3, BeforeEach
<1>5. Before(s, 3) = {"register", "expect"}
  BY <1>2, <1>4, BeforeEach
<1>6. Before(s, 4) = {"register", "expect", "authenticator"}
  BY <1>2, <1>5, BeforeEach
<1>7. Before(s, 5) = {"register", "expect", "authenticator", "attest"}
  BY <1>2, <1>6, BeforeEach
<1>8. Before(s, 6) = {"register", "expect", "authenticator", "attest"}
  BY <1>2, <1>7, BeforeEach
<1>9. Before(s, 7) = {"register", "expect", "authenticator", "attest",
                      "keepTokens"}
  BY <1>2, <1>8, BeforeEach
<1>10. Before(s, 8) = {"register", "expect", "authenticator", "attest",
                       "keepTokens", "login"}
  BY <1>2, <1>9, BeforeEach
<1>11. Before(s, 9) = {"register", "expect", "authenticator", "attest",
                       "keepTokens", "login", "assert"}
  BY <1>2, <1>10, BeforeEach
<1>12. Before(s, 10) = {"register", "expect", "authenticator", "attest",
                        "keepTokens", "login", "assert"}
  BY <1>2, <1>11, BeforeEach
<1>13. /\ Relies(s, 1) /\ Relies(s, 2) /\ Relies(s, 3) /\ Relies(s, 4)
      /\ Relies(s, 5) /\ Relies(s, 6) /\ Relies(s, 7) /\ Relies(s, 8)
      /\ Relies(s, 9)
  BY <1>2, <1>3, <1>4, <1>5, <1>6, <1>7, <1>8, <1>9, <1>10, <1>11
     DEF Relies, StageAfter, Expected, HandleOf
<1>14. /\ Consistent(s, 1) /\ Consistent(s, 2) /\ Consistent(s, 3) /\ Consistent(s, 4)
      /\ Consistent(s, 5) /\ Consistent(s, 6) /\ Consistent(s, 7) /\ Consistent(s, 8)
      /\ Consistent(s, 9) /\ Consistent(s, 10)
  BY <1>3, <1>4, <1>5, <1>6, <1>7, <1>8, <1>9, <1>10, <1>11, <1>12
     DEF Consistent, StageAfter
<1>15. "expect" \in Before(s, 10)
  BY <1>12
<1> QED
  BY <1>1, <1>13, <1>14, <1>15 DEF Scripted

(* The scenario locked.                                                    *)
LEMMA LockedIsScripted == Scripted("locked")
<1> DEFINE s == "locked"
<1>1. Len(Scenarios[s]) = 10 /\ DOMAIN Scenarios[s] = 1 .. Len(Scenarios[s])
  BY DEF Scenarios, LoginScenarios, UserIsLoggedIn
<1>2. /\ Scenarios[s][1].do = "register" /\ Scenarios[s][1].arg = "carol"
      /\ Scenarios[s][2].do = "expect" /\ Scenarios[s][2].arg = "OK"
      /\ Scenarios[s][3].do = "authenticator"
      /\ Scenarios[s][4].do = "attest"
      /\ Scenarios[s][5].do = "expect" /\ Scenarios[s][5].arg = "OK"
      /\ Scenarios[s][6].do = "keepTokens"
      /\ Scenarios[s][7].do = "login" /\ Scenarios[s][7].arg = "carol"
      /\ Scenarios[s][8].do = "lock"
      /\ Scenarios[s][9].do = "assert"
      /\ Scenarios[s][10].do = "expect" /\ Scenarios[s][10].arg = "db_locked"
  BY DEF Scenarios, LoginScenarios, UserIsLoggedIn, Post, Then, Step
<1>3. Before(s, 1) = {}
  BY BeforeEach
<1>4. Before(s, 2) = {"register"}
  BY <1>2, <1>3, BeforeEach
<1>5. Before(s, 3) = {"register", "expect"}
  BY <1>2, <1>4, BeforeEach
<1>6. Before(s, 4) = {"register", "expect", "authenticator"}
  BY <1>2, <1>5, BeforeEach
<1>7. Before(s, 5) = {"register", "expect", "authenticator", "attest"}
  BY <1>2, <1>6, BeforeEach
<1>8. Before(s, 6) = {"register", "expect", "authenticator", "attest"}
  BY <1>2, <1>7, BeforeEach
<1>9. Before(s, 7) = {"register", "expect", "authenticator", "attest",
                      "keepTokens"}
  BY <1>2, <1>8, BeforeEach
<1>10. Before(s, 8) = {"register", "expect", "authenticator", "attest",
                       "keepTokens", "login"}
  BY <1>2, <1>9, BeforeEach
<1>11. Before(s, 9) = {"register", "expect", "authenticator", "attest",
                       "keepTokens", "login", "lock"}
  BY <1>2, <1>10, BeforeEach
<1>12. Before(s, 10) = {"register", "expect", "authenticator", "attest",
                        "keepTokens", "login", "lock", "assert"}
  BY <1>2, <1>11, BeforeEach
<1>13. Before(s, 11) = {"register", "expect", "authenticator", "attest",
                        "keepTokens", "login", "lock", "assert"}
  BY <1>2, <1>12, BeforeEach
<1>14. /\ Relies(s, 1) /\ Relies(s, 2) /\ Relies(s, 3) /\ Relies(s, 4)
      /\ Relies(s, 5) /\ Relies(s, 6) /\ Relies(s, 7) /\ Relies(s, 8)
      /\ Relies(s, 9) /\ Relies(s, 10)
  BY <1>2, <1>3, <1>4, <1>5, <1>6, <1>7, <1>8, <1>9, <1>10, <1>11, <1>12
     DEF Relies, StageAfter, Expected, HandleOf
<1>15. /\ Consistent(s, 1) /\ Consistent(s, 2) /\ Consistent(s, 3) /\ Consistent(s, 4)
      /\ Consistent(s, 5) /\ Consistent(s, 6) /\ Consistent(s, 7) /\ Consistent(s, 8)
      /\ Consistent(s, 9) /\ Consistent(s, 10) /\ Consistent(s, 11)
  BY <1>3, <1>4, <1>5, <1>6, <1>7, <1>8, <1>9, <1>10, <1>11, <1>12, <1>13
     DEF Consistent, StageAfter
<1>16. "expect" \in Before(s, 11)
  BY <1>13
<1> QED
  BY <1>1, <1>14, <1>15, <1>16 DEF Scripted

(* The scenario logout.                                                    *)
LEMMA LogoutIsScripted == Scripted("logout")
<1> DEFINE s == "logout"
<1>1. Len(Scenarios[s]) = 8 /\ DOMAIN Scenarios[s] = 1 .. Len(Scenarios[s])
  BY DEF Scenarios, LogoutScenarios, UserIsLoggedIn
<1>2. /\ Scenarios[s][1].do = "register" /\ Scenarios[s][1].arg = "alice"
      /\ Scenarios[s][2].do = "expect" /\ Scenarios[s][2].arg = "OK"
      /\ Scenarios[s][3].do = "authenticator"
      /\ Scenarios[s][4].do = "attest"
      /\ Scenarios[s][5].do = "expect" /\ Scenarios[s][5].arg = "OK"
      /\ Scenarios[s][6].do = "keepTokens"
      /\ Scenarios[s][7].do = "logout"
      /\ Scenarios[s][8].do = "expect" /\ Scenarios[s][8].arg = "OK"
  BY DEF Scenarios, LogoutScenarios, UserIsLoggedIn, Post, Then, Step
<1>3. Before(s, 1) = {}
  BY BeforeEach
<1>4. Before(s, 2) = {"register"}
  BY <1>2, <1>3, BeforeEach
<1>5. Before(s, 3) = {"register", "expect"}
  BY <1>2, <1>4, BeforeEach
<1>6. Before(s, 4) = {"register", "expect", "authenticator"}
  BY <1>2, <1>5, BeforeEach
<1>7. Before(s, 5) = {"register", "expect", "authenticator", "attest"}
  BY <1>2, <1>6, BeforeEach
<1>8. Before(s, 6) = {"register", "expect", "authenticator", "attest"}
  BY <1>2, <1>7, BeforeEach
<1>9. Before(s, 7) = {"register", "expect", "authenticator", "attest",
                      "keepTokens"}
  BY <1>2, <1>8, BeforeEach
<1>10. Before(s, 8) = {"register", "expect", "authenticator", "attest",
                       "keepTokens", "logout"}
  BY <1>2, <1>9, BeforeEach
<1>11. Before(s, 9) = {"register", "expect", "authenticator", "attest",
                       "keepTokens", "logout"}
  BY <1>2, <1>10, BeforeEach
<1>12. /\ Relies(s, 1) /\ Relies(s, 2) /\ Relies(s, 3) /\ Relies(s, 4)
      /\ Relies(s, 5) /\ Relies(s, 6) /\ Relies(s, 7) /\ Relies(s, 8)
  BY <1>2, <1>3, <1>4, <1>5, <1>6, <1>7, <1>8, <1>9, <1>10
     DEF Relies, StageAfter, Expected, HandleOf
<1>13. /\ Consistent(s, 1) /\ Consistent(s, 2) /\ Consistent(s, 3) /\ Consistent(s, 4)
      /\ Consistent(s, 5) /\ Consistent(s, 6) /\ Consistent(s, 7) /\ Consistent(s, 8)
      /\ Consistent(s, 9)
  BY <1>3, <1>4, <1>5, <1>6, <1>7, <1>8, <1>9, <1>10, <1>11
     DEF Consistent, StageAfter
<1>14. "expect" \in Before(s, 9)
  BY <1>11
<1> QED
  BY <1>1, <1>12, <1>13, <1>14 DEF Scripted

(* So it is whichever godog has chosen.                                    *)
LEMMA ScenariosAreScripted == \A s \in DOMAIN Scenarios : Scripted(s)
<1>1. DOMAIN Scenarios = {"challenge", "attestation", "diskFull",
                          "loginStart", "login", "locked", "logout"}
  BY DEF Scenarios
<1> QED
  BY <1>1, ChallengeIsScripted, AttestationIsScripted, DiskFullIsScripted,
     LoginStartIsScripted, LoginIsScripted, LockedIsScripted,
     LogoutIsScripted

----------------------------------------------------------------------------
(* Requests, replies and instants.                                         *)

(* A request is of one kind and is not None.                               *)
LEMMA KindsAreDisjoint ==
    /\ None \notin Requests
    /\ \A q \in RegStarts :
          q \notin RegFinishes /\ q \notin LoginStarts /\ q \notin LoginFinishes
          /\ q \notin Logouts
    /\ \A q \in RegFinishes :
          q \notin RegStarts /\ q \notin LoginStarts /\ q \notin LoginFinishes
          /\ q \notin Logouts
    /\ \A q \in LoginStarts :
          q \notin RegStarts /\ q \notin RegFinishes /\ q \notin LoginFinishes
          /\ q \notin Logouts
    /\ \A q \in LoginFinishes :
          q \notin RegStarts /\ q \notin RegFinishes /\ q \notin LoginStarts
          /\ q \notin Logouts
    /\ \A q \in Logouts :
          q \notin RegStarts /\ q \notin RegFinishes /\ q \notin LoginStarts
          /\ q \notin LoginFinishes
BY StoreAssumption, RequestsAssumption DEF Requests

(* Where a request of each kind is and what it answers.                    *)
LEMMA EachKind ==
    /\ \A r \in RegStarts : /\ At(r) = startPc[r] /\ Reply(r) = startReply[r]
                            /\ At(r)' = startPc'[r] /\ Reply(r)' = startReply'[r]
    /\ \A p \in RegFinishes : /\ At(p) = finishPc[p] /\ Reply(p) = finishReply[p]
                              /\ At(p)' = finishPc'[p] /\ Reply(p)' = finishReply'[p]
    /\ \A r \in LoginStarts : /\ At(r) = loginPc[r] /\ Reply(r) = loginReply[r]
                              /\ At(r)' = loginPc'[r] /\ Reply(r)' = loginReply'[r]
    /\ \A q \in LoginFinishes : /\ At(q) = assertPc[q] /\ Reply(q) = assertReply[q]
                                /\ At(q)' = assertPc'[q] /\ Reply(q)' = assertReply'[q]
    /\ \A l \in Logouts : /\ At(l) = logoutPc[l] /\ Reply(l) = logoutReply[l]
                          /\ At(l)' = logoutPc'[l] /\ Reply(l)' = logoutReply'[l]
BY KindsAreDisjoint DEF At, Reply

(* What lasts a second is good when it is made, whatever the rounding.     *)
LEMMA FreshWhenMade ==
    ASSUME NEW t \in Nat, NEW ttl \in Nat, ttl >= TicksPerSecond
    PROVE  Fresh(t, FromUnix(Unix(t + ttl)))
<1> DEFINE n == TicksPerSecond
<1>1. n \in Nat /\ n > 0 /\ ttl >= n
  BY StoreAssumption
<1> HIDE DEF n
<1>2. (t + ttl) \div n \in Nat /\ ((t + ttl) \div n) * n > t + ttl - n
  BY <1>1
<1> QED
  BY <1>1, <1>2 DEF Fresh, FromUnix, Unix, n

(* A token issued now was not issued in the future.                        *)
LEMMA IssuedByNow == ASSUME NEW t \in Nat  PROVE  FromUnix(Unix(t)) <= t
<1> DEFINE n == TicksPerSecond
<1>1. n \in Nat /\ n > 0
  BY StoreAssumption
<1> HIDE DEF n
<1>2. (t \div n) * n <= t
  BY <1>1
<1> QED
  BY <1>2 DEF FromUnix, Unix, n

----------------------------------------------------------------------------
(* From step to step.                                                      *)

(* The scenario that runs is one of the seven.                             *)
LEMMA InScenario ==
    ASSUME RunnerTypeOK, stepNo # None
    PROVE  /\ Name \in DOMAIN Scenarios /\ Scripted(Name)
           /\ Current = Scenarios[Name]
           /\ Len(Current) \in Nat /\ stepNo \in Nat
           /\ stepNo \in 1 .. (Len(Current) + 1)
           /\ Consistent(Name, stepNo)
<1>1. Round \in 1 .. Rounds
  BY ComponentTestsAssumption DEF RunnerTypeOK, Round
<1>2. Name \in DOMAIN Scenarios
  BY <1>1 DEF RunnerTypeOK, Name
<1>3. Scripted(Name)
  BY <1>2, ScenariosAreScripted
<1>4. Current = Scenarios[Name]
  BY DEF Current, Name
<1>5. stepNo \in 1 .. (Len(Current) + 1)
  BY DEF RunnerTypeOK
<1>6. Len(Current) \in Nat
  BY <1>3, <1>4 DEF Scripted
<1>7. Consistent(Name, stepNo)
  <2>1. stepNo \in 1 .. (Len(Scenarios[Name]) + 1)
    BY <1>4, <1>5
  <2> QED
    BY <1>3, <2>1 DEF Scripted
<1> QED
  BY <1>2, <1>3, <1>4, <1>5, <1>6, <1>7

(* What a step of the runner may rely on.                                  *)
LEMMA Running ==
    ASSUME RunnerTypeOK, NEW do, Runs(do)
    PROVE  /\ stepNo # None /\ inFlight = None
           /\ stepNo \in 1 .. Len(Current)
           /\ Scenarios[Name][stepNo].do = do
           /\ Current[stepNo].arg = Scenarios[Name][stepNo].arg
           /\ Relies(Name, stepNo)
           /\ Consistent(Name, stepNo) /\ Consistent(Name, stepNo + 1)
           /\ Before(Name, stepNo + 1) = Past \cup {do}
<1>1. /\ stepNo # None /\ stepNo \in DOMAIN Current /\ Current[stepNo].do = do
      /\ inFlight = None
  BY DEF Runs
<1>2. /\ Scripted(Name) /\ Current = Scenarios[Name] /\ Len(Current) \in Nat
      /\ stepNo \in Nat /\ Consistent(Name, stepNo)
  BY <1>1, InScenario
<1>3. stepNo \in 1 .. Len(Current)
  BY <1>1, <1>2 DEF Scripted
<1>4. Relies(Name, stepNo)
  BY <1>2, <1>3 DEF Scripted
<1>5. Consistent(Name, stepNo + 1)
  <2>1. stepNo + 1 \in 1 .. (Len(Scenarios[Name]) + 1)
    BY <1>2, <1>3
  <2> QED
    BY <1>2, <2>1 DEF Scripted
<1>6. Before(Name, stepNo + 1) = Past \cup {do}
  <2>1. 1 .. (stepNo + 1 - 1) = (1 .. (stepNo - 1)) \cup {stepNo}
    BY <1>2, <1>3
  <2>2. Scenarios[Name][stepNo].do = do
    BY <1>1, <1>2
  <2> QED
    BY <2>1, <2>2 DEF Before, Past
<1> QED
  BY <1>1, <1>2, <1>3, <1>4, <1>5, <1>6

(* A step that passes is in the past of the next.                          *)
LEMMA Passing ==
    ASSUME RunnerTypeOK, ScenariosPass, NEW do, Runs(do), Passes
    PROVE  /\ stepNo' # None /\ stepNo' = stepNo + 1
           /\ Name' = Name /\ Round' = Round /\ Current' = Current
           /\ stepNo' \in 1 .. (Len(Current') + 1)
           /\ Past' = Past \cup {do}
           /\ Stage' = StageAfter(Past \cup {do})
           /\ ScenariosPass' /\ NothingIsLeft'
<1>1. /\ stepNo \in 1 .. Len(Current) /\ stepNo # None
      /\ Before(Name, stepNo + 1) = Past \cup {do}
  BY Running
<1>2. stepNo' = stepNo + 1 /\ profile' = profile /\ plan' = plan /\ verdicts' = verdicts
  BY DEF Passes
<1>3. Len(Current) \in Nat
  BY <1>1, InScenario
<1>4. stepNo' # None
  BY <1>1, <1>2, StoreAssumption
<1>5. Name' = Name /\ Round' = Round
  BY <1>2 DEF Name, Round
<1>6. Current' = Current
  BY <1>2, <1>5 DEF Current
<1>7. Past' = Past \cup {do}
  BY <1>1, <1>2, <1>5 DEF Past, Before
<1>8. Stage' = StageAfter(Past \cup {do})
  BY <1>7 DEF Stage, StageAfter
<1>9. ScenariosPass' /\ NothingIsLeft'
  BY <1>2, <1>4 DEF ScenariosPass, NothingIsLeft
<1> QED
  BY <1>1, <1>2, <1>3, <1>4, <1>5, <1>6, <1>7, <1>8, <1>9

(* A step of the service is a step of the same scenario.                   *)
LEMMA RunnerWaits ==
    ASSUME RunnerTypeOK, UNCHANGED <<now, runnerVars>>
    PROVE  /\ RunnerTypeOK' /\ (ScenariosPass => ScenariosPass')
           /\ stepNo' = stepNo /\ Name' = Name /\ Past' = Past /\ Stage' = Stage
           /\ Subject' = Subject /\ DiskIsFull' = DiskIsFull
           /\ inFlight' = inFlight /\ world' = world /\ junk' = junk
           /\ profile' = profile /\ plan' = plan /\ verdicts' = verdicts
BY DEF runnerVars, RunnerTypeOK, ScenariosPass, Round, Current, Name, Past,
   Before,
       Stage, StageAfter, Subject, DiskIsFull

----------------------------------------------------------------------------
(* What stays as it is.                                                    *)

(* A variable of a slice that changes for one request.                     *)
LEMMA Updated ==
    ASSUME NEW S, NEW f, OnEach(S, f), NEW q \in S, NEW v
    PROVE  /\ OnEach(S, [f EXCEPT ![q] = v])
           /\ [f EXCEPT ![q] = v][q] = v
           /\ \A x \in S : x # q => [f EXCEPT ![q] = v][x] = f[x]
BY DEF OnEach

(* A slice that does not move keeps its requests at rest.                  *)
LEMMA SlicesRest ==
    ASSUME inFlight' = inFlight \/ inFlight = None
    PROVE  /\ StartsRest /\ UNCHANGED startVars => StartsRest'
           /\ FinishesRest /\ UNCHANGED finishVars => FinishesRest'
           /\ LoginsRest /\ UNCHANGED loginVars => LoginsRest'
           /\ AssertionsRest /\ UNCHANGED assertVars => AssertionsRest'
           /\ LogoutsRest /\ UNCHANGED logoutVars => LogoutsRest'
<1>1. ASSUME NEW X, NEW pc, NEW reply, None \notin X, Rest(X, pc, reply)
      PROVE  \A q \in X : /\ q = inFlight' \/ pc[q] \in {"idle", "done"}
                          /\ pc[q] = "idle" => reply[q] = None
  BY <1>1 DEF Rest
<1>2. /\ None \notin RegStarts /\ None \notin RegFinishes /\ None \notin LoginStarts
      /\ None \notin LoginFinishes /\ None \notin Logouts
  BY KindsAreDisjoint DEF Requests
<1>3. StartsRest /\ UNCHANGED startVars => StartsRest'
  BY <1>1, <1>2 DEF StartsRest, startVars, OnEach, Rest
<1>4. FinishesRest /\ UNCHANGED finishVars => FinishesRest'
  BY <1>1, <1>2 DEF FinishesRest, finishVars, OnEach, Rest
<1>5. LoginsRest /\ UNCHANGED loginVars => LoginsRest'
  BY <1>1, <1>2 DEF LoginsRest, loginVars, OnEach, Rest
<1>6. AssertionsRest /\ UNCHANGED assertVars => AssertionsRest'
  BY <1>1, <1>2 DEF AssertionsRest, assertVars, OnEach, Rest
<1>7. LogoutsRest /\ UNCHANGED logoutVars => LogoutsRest'
  BY <1>1, <1>2 DEF LogoutsRest, logoutVars, OnEach, Rest
<1> QED
  BY <1>3, <1>4, <1>5, <1>6, <1>7

(* The account of a scenario, unless its registration goes on.             *)
LEMMA AccountKept ==
    ASSUME NEW p, Account(p), Name' = Name,
           world'.credential = world.credential,
           UNCHANGED <<now, boots, startVars, finishVars>>
    PROVE  /\ Account(p)'
           /\ AccountImage(p)' = AccountImage(p)
           /\ UserOf(p)' = UserOf(p) /\ CredentialOf(p)' = CredentialOf(p)
           /\ RefreshTokenOf(p)' = RefreshTokenOf(p)
BY DEF Account, Ceremony, SessionRow, AccountImage, UserOf, CredentialOf,
       RefreshTokenOf, startVars, finishVars

(* The images, while what they are made of stays.                          *)
LEMMA ImagesKept ==
    ASSUME NEW p, NEW q, UNCHANGED <<boots, sliceVars>>
    PROVE  /\ AccountImage(p)' = AccountImage(p) /\ UserOf(p)' = UserOf(p)
           /\ CredentialOf(p)' = CredentialOf(p)
           /\ RefreshTokenOf(p)' = RefreshTokenOf(p)
           /\ FinishView(p)' = FinishView(p)
           /\ SessionRow(q)' = SessionRow(q) /\ OpenedImage(q)' = OpenedImage(q)
           /\ LoginSessionRowOf(q)' = LoginSessionRowOf(q)
           /\ ChallengedImage(p, q)' = ChallengedImage(p, q)
           /\ SignedInImage(p, q)' = SignedInImage(p, q)
           /\ LoginView(p, q)' = LoginView(p, q)
<1> USE DEF sliceVars
<1>1. /\ AccountImage(p)' = AccountImage(p) /\ UserOf(p)' = UserOf(p)
      /\ CredentialOf(p)' = CredentialOf(p) /\ RefreshTokenOf(p)' = RefreshTokenOf(p)
      /\ FinishView(p)' = FinishView(p)
      /\ SessionRow(q)' = SessionRow(q) /\ OpenedImage(q)' = OpenedImage(q)
  BY DEF AccountImage, UserOf, CredentialOf, RefreshTokenOf, FinishView,
     SessionRow,
         OpenedImage, startVars, finishVars
<1> QED
  BY <1>1 DEF SignedInImage, LoginView, ChallengedImage, LoginSessionRowOf,
              LoginTokenOf, loginVars, assertVars

(* What is said of the last request, while it and the tables stay.         *)
LEMMA RegisteringKept ==
    ASSUME NEW r, Registering(r), Name' = Name, junk' = junk \/ startPc[r] = "done",
           UNCHANGED <<now, db, writer, startVars>>
    PROVE  Registering(r)'
BY DEF Registering, startVars, OpenedImage, SessionRow

(* What is known of a FinishRegistration holds while neither it nor the    *)
(* tables, the disk or the key pair in use move.                           *)
LEMMA AttestingKept ==
    ASSUME NEW p, Attesting(p), Name' = Name, junk' = junk, profile' = profile,
           world'.credential = world.credential,
           UNCHANGED <<now, boots, db, writer, view, sliceVars>>
    PROVE  Attesting(p)'
<1>1. /\ finishPc' = finishPc /\ finishReply' = finishReply /\ command' = command
      /\ loaded' = loaded /\ issued' = issued
  BY DEF sliceVars, finishVars
<1>2. Ceremony(p) /\ Ceremony(p)'
  BY <1>1 DEF Attesting, Ceremony, sliceVars, startVars
<1>3. DiskIsFull' = DiskIsFull
  BY DEF DiskIsFull
<1>4. /\ AccountImage(p)' = AccountImage(p) /\ FinishView(p)' = FinishView(p)
      /\ SessionRow(command[p].id)' = SessionRow(command[p].id)
      /\ OpenedImage(command[p].id)' = OpenedImage(command[p].id)
  BY <1>1, ImagesKept
<1> QED
  BY <1>1, <1>2, <1>3, <1>4, Zenon DEF Attesting

(* The same for a StartLogin, which uses no key pair.                      *)
LEMMA LoggingInKept ==
    ASSUME NEW p, NEW r, LoggingIn(p, r), world'.lockConn = world.lockConn,
           UNCHANGED <<now, boots, db, writer, sliceVars>>
    PROVE  LoggingIn(p, r)'
BY ImagesKept DEF LoggingIn, sliceVars, loginVars

(* The same for a FinishLogin, which uses a key pair but not the disk.     *)
LEMMA AssertingKept ==
    ASSUME NEW p, NEW q, Asserting(p, q), world'.lockConn = world.lockConn,
           world'.credential = world.credential,
           UNCHANGED <<now, boots, db, writer, view, sliceVars>>
    PROVE  Asserting(p, q)'
<1>1. /\ assertPc' = assertPc /\ assertReply' = assertReply
      /\ assertion' = assertion /\ loginLoaded' = loginLoaded /\ target' = target
      /\ session' = session
  BY DEF sliceVars, loginVars, assertVars
<1>2. /\ SignedInImage(p, q)' = SignedInImage(p, q) /\ LoginView(p, q)' = LoginView(p, q)
      /\ CredentialOf(p)' = CredentialOf(p)
      /\ ChallengedImage(p, assertion[q].id)' = ChallengedImage(p, assertion[q].id)
      /\ LoginSessionRowOf(assertion[q].id)' = LoginSessionRowOf(assertion[q].id)
  BY <1>1, ImagesKept
<1> QED
  BY <1>1, <1>2, Zenon DEF Asserting

(* The same for a logout: only the tables and the lock matter to it.       *)
LEMMA LoggingOutKept ==
    ASSUME NEW l, LoggingOut(l), UNCHANGED <<db, writer, logoutVars>>
    PROVE  LoggingOut(l)'
BY DEF LoggingOut, logoutVars

(* The rows, while they and the answers stay.                              *)
LEMMA RowsKept ==
    ASSUME RowsAreAnswered, UNCHANGED <<db, finishVars, assertVars>>
    PROVE  RowsAreAnswered'
BY DEF RowsAreAnswered, finishVars, assertVars

(* The answers, while the slices stay.                                     *)
LEMMA AnswersKept ==
    ASSUME NEW q, UNCHANGED sliceVars
    PROVE  At(q)' = At(q) /\ Reply(q)' = Reply(q)
BY DEF At, Reply, sliceVars, startVars, finishVars, loginVars, assertVars,
   logoutVars

----------------------------------------------------------------------------
(* Between two requests.                                                   *)

(* The last request is one of five or there was none.                      *)
LEMMA Stages ==
    Stage \in {"nothing", "register", "attest", "login", "assert", "logout"}
BY DEF Stage, StageAfter

(* What the runner has when it waits for nothing: the response of the last *)
(* request, which has come to its end.                                     *)
LEMMA Answered ==
    ASSUME TestsInvariant, stepNo # None, inFlight = None, Stage # "nothing"
    PROVE  LET r == world.lastResponse.request
               code == world.lastResponse.code
           IN  /\ world.lastResponse # None /\ Subject = r
               /\ Stage = "register" => /\ Registering(r) /\ startPc[r] = "done"
                                        /\ code = "OK" /\ startReply[r] = "OK"
               /\ Stage = "attest" => /\ Attesting(r) /\ finishPc[r] = "done"
                                      /\ code = finishReply[r]
               /\ Stage = "login" => /\ LoggingIn(world.accessToken, r)
                                     /\ loginPc[r] = "done" /\ loginReply[r] = "OK"
                                     /\ code = "OK"
               /\ Stage = "assert" => /\ Asserting(world.accessToken, r)
                                      /\ assertPc[r] = "done" /\ code = assertReply[r]
               /\ Stage = "logout" => /\ LoggingOut(r) /\ logoutPc[r] = "done"
                                      /\ code = "OK"
<1> DEFINE r == world.lastResponse.request
           code == world.lastResponse.code
<1>1. world.lastResponse # None /\ code = Reply(r) /\ At(r) = "done"
  BY DEF TestsInvariant, ResponseIsRead
<1>2. Subject = r
  BY DEF Subject
<1>3. /\ Stage = "register" => Registering(r)
      /\ Stage = "attest" => Attesting(r)
      /\ Stage = "login" => LoggingIn(world.accessToken, r)
      /\ Stage = "assert" => Asserting(world.accessToken, r)
      /\ Stage = "logout" => LoggingOut(r)
  BY <1>2 DEF TestsInvariant, LastRequest
<1> HIDE DEF r, code
<1>4. ASSUME Stage = "register"
      PROVE  startPc[r] = "done" /\ code = "OK" /\ startReply[r] = "OK"
  BY <1>1, <1>3, <1>4, EachKind DEF Registering
<1>5. ASSUME Stage = "attest"  PROVE  finishPc[r] = "done" /\ code = finishReply[r]
  BY <1>1, <1>3, <1>5, EachKind DEF Attesting, Ceremony
<1>6. ASSUME Stage = "login"
      PROVE  loginPc[r] = "done" /\ loginReply[r] = "OK" /\ code = "OK"
  BY <1>1, <1>3, <1>6, EachKind DEF LoggingIn
<1>7. ASSUME Stage = "assert"  PROVE  assertPc[r] = "done" /\ code = assertReply[r]
  BY <1>1, <1>3, <1>7, EachKind DEF Asserting
<1>8. ASSUME Stage = "logout"  PROVE  logoutPc[r] = "done" /\ code = "OK"
  BY <1>1, <1>3, <1>8, EachKind DEF LoggingOut
<1> QED
  BY <1>1, <1>2, <1>3, <1>4, <1>5, <1>6, <1>7, <1>8 DEF r, code

(* Nobody holds the lock then, unless the runner does.                     *)
LEMMA OnlyTheRunnerLocks ==
    ASSUME TestsInvariant, stepNo # None, inFlight = None
    PROVE  writer = IF world.lockConn THEN Runner ELSE None
<1>1. RunnerTypeOK /\ WorldIsSet /\ LastRequest
  BY DEF TestsInvariant
<1>2. Consistent(Name, stepNo)
  BY <1>1, InScenario
<1>3. Stage \in {"nothing", "register", "attest", "logout"} => ~world.lockConn
  BY <1>1, <1>2 DEF WorldIsSet, Consistent, Stage, Past
<1>4. CASE Stage = "nothing"
  BY <1>1, <1>3, <1>4 DEF LastRequest
<1>5. CASE Stage = "register"
  BY <1>3, <1>5, Answered DEF Registering
<1>6. CASE Stage = "attest"
  BY <1>3, <1>6, Answered DEF Attesting, InTransaction
<1>7. CASE Stage = "login"
  BY <1>7, Answered DEF LoggingIn
<1>8. CASE Stage = "assert"
  BY <1>8, Answered DEF Asserting, LoginTransaction
<1>9. CASE Stage = "logout"
  BY <1>3, <1>9, Answered DEF LoggingOut
<1> QED
  BY <1>4, <1>5, <1>6, <1>7, <1>8, <1>9, Stages

(* The parts of the invariant that a step of the runner which sends        *)
(* nothing cannot disturb.                                                 *)
LEMMA QuietStep ==
    ASSUME TestsInvariant, Passes, UNCHANGED <<now, boots, db, sliceVars, inFlight>>,
           NEW do \in {"authenticator", "keepTokens", "lock", "fillDisk", "expect"},
           Runs(do), world'.lastResponse = world.lastResponse
    PROVE  /\ Stage' = Stage /\ Subject' = Subject
           /\ StartsRest' /\ FinishesRest' /\ LoginsRest' /\ AssertionsRest'
           /\ LogoutsRest' /\ ResponseIsRead' /\ RowsAreAnswered'
<1>1. /\ RunnerTypeOK /\ ScenariosPass /\ ResponseIsRead /\ RowsAreAnswered
      /\ StartsRest /\ FinishesRest /\ LoginsRest /\ AssertionsRest /\ LogoutsRest
  BY DEF TestsInvariant
<1>2. Stage' = Stage /\ stepNo # None /\ inFlight = None
  <2>1. StageAfter(Past \cup {do}) = StageAfter(Past)
    BY DEF StageAfter
  <2> QED
    BY <1>1, <2>1, Passing, Running DEF Stage
<1>3. Subject' = Subject
  BY DEF Subject
<1>4. StartsRest' /\ FinishesRest' /\ LoginsRest' /\ AssertionsRest' /\ LogoutsRest'
  BY <1>1, SlicesRest DEF sliceVars
<1>5. RowsAreAnswered'
  BY <1>1, RowsKept DEF sliceVars
<1>6. ResponseIsRead'
  <2> DEFINE q == world.lastResponse.request
  <2>1. At(q)' = At(q) /\ Reply(q)' = Reply(q)
    BY AnswersKept DEF At, Reply
  <2> QED
    BY <1>1, <1>2, <2>1 DEF ResponseIsRead
<1> QED
  BY <1>2, <1>3, <1>4, <1>5, <1>6

----------------------------------------------------------------------------
(* The steps of the runner that send nothing.                              *)

(* The types, after a step that moves the World.                           *)
LEMMA RunnerTyped ==
    ASSUME TestsInvariant, NEW do, Runs(do), Passes, now' = now,
           inFlight' \in Requests \cup {None}, junk' \in BOOLEAN,
           world' \in Worlds
    PROVE  RunnerTypeOK'
<1>1. RunnerTypeOK /\ ScenariosPass
  BY DEF TestsInvariant
<1>2. stepNo # None /\ Round' = Round /\ stepNo' \in 1 .. (Len(Current') + 1)
  BY <1>1, Passing, Running
<1>3. profile' = profile /\ plan' = plan /\ verdicts' = verdicts
  BY DEF Passes
<1> QED
  BY <1>1, <1>2, <1>3 DEF RunnerTypeOK

(* NewVirtualAuthenticator.                                                *)
LEMMA VirtualAuthenticatorKeeps ==
    ASSUME TestsInvariant, VirtualAuthenticator
    PROVE  TestsInvariant'
<1> DEFINE do == "authenticator"
<1>1. /\ RunnerTypeOK /\ ScenariosPass /\ WorldIsSet /\ LastRequest
  BY DEF TestsInvariant
<1>2. /\ Runs(do) /\ Passes /\ world' = [world EXCEPT !.authenticator = TRUE]
      /\ UNCHANGED <<now, boots, db, view, writer, sliceVars>>
      /\ inFlight' = inFlight /\ junk' = junk
  BY DEF VirtualAuthenticator, storeVars
<1>3. /\ world'.authenticator = TRUE /\ world'.lastResponse = world.lastResponse
      /\ world'.credential = world.credential /\ world'.lockConn = world.lockConn
      /\ world'.accessToken = world.accessToken
      /\ world' \in Worlds
  BY <1>1, <1>2 DEF RunnerTypeOK, Worlds
<1>4. /\ stepNo # None /\ stepNo' # None /\ Name' = Name /\ Past' = Past \cup {do}
      /\ ScenariosPass' /\ NothingIsLeft' /\ profile' = profile
  BY <1>1, <1>2, Passing, Running DEF Passes
<1>5. /\ Stage' = Stage /\ Subject' = Subject
      /\ StartsRest' /\ FinishesRest' /\ LoginsRest' /\ AssertionsRest' /\ LogoutsRest'
      /\ ResponseIsRead' /\ RowsAreAnswered'
  BY <1>2, <1>3, QuietStep
<1>6. RunnerTypeOK'
  BY <1>1, <1>2, <1>3, RunnerTyped DEF RunnerTypeOK
<1>7. WorldIsSet'
  <2>1. Account(world.accessToken) => Account(world.accessToken)'
    BY <1>2, <1>3, <1>4, AccountKept DEF sliceVars
  <2> QED
    BY <1>1, <1>2, <1>3, <1>4, <2>1 DEF WorldIsSet
<1>8. LastRequest'
  BY <1>1, <1>2, <1>3, <1>4, <1>5, RegisteringKept, AttestingKept,
     LoggingInKept,
     AssertingKept, LoggingOutKept DEF LastRequest, sliceVars
<1> QED
  BY <1>4, <1>5, <1>6, <1>7, <1>8 DEF TestsInvariant

(* The step of auth_steps.go that keeps the tokens of the response.        *)
LEMMA KeepTokensKeeps ==
    ASSUME TestsInvariant, KeepTokens
    PROVE  TestsInvariant'
<1> DEFINE do == "keepTokens"
           p == world.lastResponse.request
<1>1. RunnerTypeOK /\ ScenariosPass /\ WorldIsSet /\ LastRequest
  BY DEF TestsInvariant
<1>2. /\ Runs(do) /\ Passes /\ world' = [world EXCEPT !.accessToken = p]
      /\ UNCHANGED <<now, boots, db, view, writer, sliceVars>>
      /\ inFlight' = inFlight /\ junk' = junk
  BY DEF KeepTokens, storeVars
<1>3. /\ stepNo # None /\ stepNo' # None /\ Name' = Name /\ Past' = Past \cup {do}
      /\ ScenariosPass' /\ NothingIsLeft' /\ profile' = profile
      /\ Relies(Name, stepNo) /\ Scenarios[Name][stepNo].do = do
      /\ Consistent(Name, stepNo) /\ inFlight = None
  BY <1>1, <1>2, Passing, Running, InScenario DEF Passes
<1>4. Stage = "attest" /\ Name # "diskFull"
  BY <1>3 DEF Relies, Stage, Past
<1>5. /\ Attesting(p) /\ finishPc[p] = "done" /\ Subject = p
      /\ world.lastResponse # None
  BY <1>3, <1>4, Answered
<1>6. p \in Requests
  BY <1>1, <1>5 DEF RunnerTypeOK, Worlds, Responses
<1>7. Account(p)
  <2>1. ~DiskIsFull
    BY <1>1, <1>3, <1>4 DEF WorldIsSet, Consistent, Past, DiskIsFull
  <2>2. Ceremony(p) /\ finishReply[p] = "OK"
    BY <1>5, <2>1 DEF Attesting
  <2> QED
    BY <1>5, <2>2 DEF Attesting, Account, InTransaction
<1>8. /\ world'.accessToken = p /\ world'.lastResponse = world.lastResponse
      /\ world'.credential = world.credential /\ world'.lockConn = world.lockConn
      /\ world'.authenticator = world.authenticator
      /\ world' \in Worlds
  BY <1>1, <1>2, <1>6 DEF RunnerTypeOK, Worlds
<1>9. /\ Stage' = Stage /\ Subject' = Subject
      /\ StartsRest' /\ FinishesRest' /\ LoginsRest' /\ AssertionsRest' /\ LogoutsRest'
      /\ ResponseIsRead' /\ RowsAreAnswered'
  BY <1>2, <1>8, QuietStep
<1>10. RunnerTypeOK'
  BY <1>1, <1>2, <1>8, RunnerTyped DEF RunnerTypeOK
<1>11. WorldIsSet'
  <2>1. Account(p)'
    BY <1>2, <1>3, <1>7, <1>8, AccountKept DEF sliceVars
  <2> QED
    BY <1>1, <1>2, <1>3, <1>8, <2>1 DEF WorldIsSet
<1>12. LastRequest'
  <2>1. Attesting(p)'
    BY <1>2, <1>3, <1>5, <1>8, AttestingKept
  <2> QED
    BY <1>4, <1>5, <1>8, <1>9, <2>1 DEF LastRequest
<1> QED
  BY <1>3, <1>9, <1>10, <1>11, <1>12 DEF TestsInvariant

(* World.fillDisk.                                                         *)
LEMMA FillDiskKeeps ==
    ASSUME TestsInvariant, FillDisk
    PROVE  TestsInvariant'
<1> DEFINE do == "fillDisk"
           r == world.lastResponse.request
<1>1. RunnerTypeOK /\ ScenariosPass /\ WorldIsSet /\ LastRequest
  BY DEF TestsInvariant
<1>2. /\ Runs(do) /\ Passes /\ junk' = TRUE /\ world' = world
      /\ UNCHANGED <<now, boots, db, view, writer, sliceVars>>
      /\ inFlight' = inFlight
  BY DEF FillDisk, storeVars
<1>3. /\ stepNo # None /\ stepNo' # None /\ Name' = Name /\ Past' = Past \cup {do}
      /\ ScenariosPass' /\ NothingIsLeft' /\ profile' = profile
      /\ Relies(Name, stepNo) /\ Scenarios[Name][stepNo].do = do /\ inFlight = None
  BY <1>1, <1>2, Passing, Running DEF Passes
<1>4. Stage = "register"
  BY <1>3 DEF Relies, Stage, Past
<1>5. Registering(r) /\ startPc[r] = "done" /\ Subject = r
  BY <1>3, <1>4, Answered
<1>6. /\ Stage' = Stage /\ Subject' = Subject
      /\ StartsRest' /\ FinishesRest' /\ LoginsRest' /\ AssertionsRest' /\ LogoutsRest'
      /\ ResponseIsRead' /\ RowsAreAnswered'
  BY <1>2, QuietStep
<1>7. RunnerTypeOK'
  BY <1>1, <1>2, RunnerTyped DEF RunnerTypeOK
<1>8. WorldIsSet'
  <2>1. Account(world.accessToken) => Account(world.accessToken)'
    BY <1>2, <1>3, AccountKept DEF sliceVars
  <2> QED
    BY <1>1, <1>2, <1>3, <2>1 DEF WorldIsSet
<1>9. LastRequest'
  <2>1. Registering(r)'
    BY <1>2, <1>3, <1>5, RegisteringKept DEF sliceVars
  <2> QED
    BY <1>2, <1>4, <1>5, <1>6, <2>1 DEF LastRequest
<1> QED
  BY <1>3, <1>6, <1>7, <1>8, <1>9 DEF TestsInvariant

(* World.lockDatabase: nobody is in its way.                               *)
LEMMA LockDatabaseKeeps ==
    ASSUME TestsInvariant, LockDatabase
    PROVE  TestsInvariant'
<1> DEFINE do == "lock"
           p == world.accessToken
           r == world.lastResponse.request
<1>1. RunnerTypeOK /\ ScenariosPass /\ WorldIsSet /\ LastRequest
  BY DEF TestsInvariant
<1>2. Runs(do)
  BY DEF LockDatabase
<1>3. /\ stepNo # None /\ inFlight = None
      /\ Relies(Name, stepNo) /\ Scenarios[Name][stepNo].do = do
      /\ Consistent(Name, stepNo + 1) /\ Before(Name, stepNo + 1) = Past \cup {do}
  BY <1>1, <1>2, Running
<1>4. Stage = "login" /\ "lock" \notin Past /\ ~world.lockConn
  BY <1>1, <1>3 DEF Relies, Stage, Past, WorldIsSet
<1>5. writer = None
  BY <1>3, <1>4, OnlyTheRunnerLocks
<1>6. /\ Passes /\ world' = [world EXCEPT !.lockConn = TRUE]
      /\ UNCHANGED <<now, boots, db, sliceVars>> /\ writer' = Runner
      /\ inFlight' = inFlight /\ junk' = junk
  BY <1>5 DEF LockDatabase, FirstWrite
<1>7. /\ stepNo' # None /\ Name' = Name /\ Past' = Past \cup {do}
      /\ ScenariosPass' /\ NothingIsLeft' /\ profile' = profile
  BY <1>1, <1>2, <1>6, Passing DEF Passes
<1>8. LoggingIn(p, r) /\ loginPc[r] = "done" /\ loginReply[r] = "OK" /\ Subject = r
  BY <1>3, <1>4, Answered
<1>9. /\ world'.lockConn = TRUE /\ world'.lastResponse = world.lastResponse
      /\ world'.credential = world.credential
      /\ world'.authenticator = world.authenticator
      /\ world'.accessToken = p /\ world' \in Worlds
  BY <1>1, <1>6 DEF RunnerTypeOK, Worlds
<1>10. /\ Stage' = Stage /\ Subject' = Subject
       /\ StartsRest' /\ FinishesRest' /\ LoginsRest' /\ AssertionsRest' /\ LogoutsRest'
       /\ ResponseIsRead' /\ RowsAreAnswered'
  BY <1>2, <1>6, <1>9, QuietStep
<1>11. RunnerTypeOK'
  BY <1>1, <1>2, <1>6, <1>9, RunnerTyped DEF RunnerTypeOK
<1>12. WorldIsSet'
  <2>1. Account(p) => Account(p)'
    BY <1>6, <1>7, <1>9, AccountKept DEF sliceVars
  <2> QED
    BY <1>1, <1>3, <1>6, <1>7, <1>9, <2>1 DEF WorldIsSet
<1>13. LastRequest'
  <2>1. /\ UserOf(p)' = UserOf(p) /\ AccountImage(p)' = AccountImage(p)
        /\ ChallengedImage(p, r)' = ChallengedImage(p, r)
    BY <1>6, <1>9, ImagesKept
  <2>2. LoggingIn(p, r)'
    BY <1>6, <1>8, <1>9, <2>1 DEF LoggingIn, sliceVars, loginVars
  <2> QED
    BY <1>4, <1>7, <1>8, <1>9, <1>10, <2>2 DEF LastRequest
<1> QED
  BY <1>7, <1>10, <1>11, <1>12, <1>13 DEF TestsInvariant

(* A scenario ends, and its verdict is what it should be.                  *)
LEMMA AfterScenarioKeeps ==
    ASSUME TestsInvariant, stepNo # None, inFlight = None,
           NEW verdict \in {"passed", "failed"}, AfterScenario(verdict),
           verdict = "failed" <=> Name = "diskFull" /\ profile = "healthy"
    PROVE  TestsInvariant'
<1>1. /\ RunnerTypeOK /\ ScenariosPass /\ RowsAreAnswered
      /\ StartsRest /\ FinishesRest /\ LoginsRest /\ AssertionsRest /\ LogoutsRest
  BY DEF TestsInvariant
<1>2. /\ verdicts' = Append(verdicts, verdict) /\ stepNo' = None
      /\ world' = [world EXCEPT !.lockConn = FALSE] /\ ReleaseLock
      /\ UNCHANGED <<sliceVars, profile, plan, inFlight, junk>>
  BY DEF AfterScenario
<1>3. writer' = None /\ UNCHANGED <<now, boots, db>>
  BY <1>2, OnlyTheRunnerLocks DEF ReleaseLock, Rollback, storeVars
<1>4. world'.lockConn = FALSE /\ world' \in Worlds
  BY <1>1, <1>2 DEF RunnerTypeOK, Worlds
<1>5. Len(verdicts') = Len(verdicts) + 1 /\ verdicts' \in Seq({"passed", "failed"})
  BY <1>1, <1>2 DEF RunnerTypeOK
<1>6. RunnerTypeOK'
  <2>1. Len(verdicts) + 1 <= Rounds
    BY <1>1 DEF RunnerTypeOK, Round
  <2> QED
    BY <1>1, <1>2, <1>3, <1>4, <1>5, <2>1 DEF RunnerTypeOK
<1>7. ScenariosPass'
  <2> SUFFICES ASSUME NEW i \in DOMAIN verdicts'
               PROVE  verdicts'[i] = "failed" <=> plan[i] = "diskFull" /\ profile = "healthy"
    BY <1>2 DEF ScenariosPass
  <2>1. CASE i \in DOMAIN verdicts
    BY <1>1, <1>2, <2>1 DEF ScenariosPass, RunnerTypeOK
  <2>2. CASE i = Len(verdicts) + 1
    BY <1>1, <1>2, <2>2 DEF Name, Round, RunnerTypeOK
  <2>3. i \in DOMAIN verdicts \/ i = Len(verdicts) + 1
    BY <1>1, <1>2 DEF RunnerTypeOK
  <2> QED
    BY <2>1, <2>2, <2>3
<1>8. StartsRest' /\ FinishesRest' /\ LoginsRest' /\ AssertionsRest' /\ LogoutsRest'
  BY <1>1, <1>2, SlicesRest DEF sliceVars
<1>9. RowsAreAnswered'
  BY <1>1, <1>2, <1>3, RowsKept DEF sliceVars
<1>10. NothingIsLeft' /\ WorldIsSet' /\ LastRequest' /\ ResponseIsRead'
  BY <1>2, <1>3, <1>4 DEF NothingIsLeft, WorldIsSet, LastRequest, ResponseIsRead
<1> QED
  BY <1>6, <1>7, <1>8, <1>9, <1>10 DEF TestsInvariant

(* Every scenario ends with an expectation, which its past then holds.     *)
LEMMA FinishKeeps ==
    ASSUME TestsInvariant, Finish
    PROVE  TestsInvariant'
<1>1. /\ stepNo # None /\ stepNo = Len(Current) + 1 /\ inFlight = None
      /\ AfterScenario("passed")
  BY DEF Finish
<1>2. RunnerTypeOK /\ WorldIsSet
  BY DEF TestsInvariant
<1>3. "expect" \in Past
  BY <1>1, <1>2, InScenario DEF Scripted, Past
<1>4. ~(Name = "diskFull" /\ profile = "healthy")
  BY <1>1, <1>2, <1>3 DEF WorldIsSet
<1> QED
  BY <1>1, <1>4, AfterScenarioKeeps

(* What a scenario expects is what the service has answered, except for    *)
(* the full disk where there is none.                                      *)
LEMMA ExpectedIsAnswered ==
    ASSUME TestsInvariant, Runs("expect")
    PROVE  /\ world.lastResponse # None
           /\ world.lastResponse.code = Current[stepNo].arg
                <=> ~(Name = "diskFull" /\ profile = "healthy")
<1> DEFINE code == world.lastResponse.code
           r == world.lastResponse.request
<1>1. RunnerTypeOK /\ WorldIsSet /\ LastRequest
  BY DEF TestsInvariant
<1>2. /\ stepNo # None /\ inFlight = None
      /\ Relies(Name, stepNo) /\ Scenarios[Name][stepNo].do = "expect"
      /\ Current[stepNo].arg = Scenarios[Name][stepNo].arg
      /\ Consistent(Name, stepNo)
  BY <1>1, Running
<1>3. /\ Stage # "nothing" /\ Current[stepNo].arg = Expected(Name, Stage)
      /\ Name = "diskFull" => Stage = "attest"
  BY <1>2 DEF Relies, Stage, Past
<1>4. world.lastResponse # None
  BY <1>2, <1>3, Answered
<1>5. CASE Stage \in {"register", "login", "logout"}
  <2>1. code = "OK"
    BY <1>2, <1>3, <1>5, Answered
  <2> QED
    BY <1>3, <1>4, <1>5, <2>1 DEF Expected
<1>6. CASE Stage = "attest"
  <2>1. Attesting(r) /\ finishPc[r] = "done" /\ code = finishReply[r]
    BY <1>2, <1>3, <1>6, Answered
  <2>2. code = IF DiskIsFull THEN "db_disk_full" ELSE "OK"
    BY <2>1 DEF Attesting
  <2>3. junk <=> Name = "diskFull"
    BY <1>1, <1>2, <1>6 DEF WorldIsSet, Consistent, Stage, Past
  <2> QED
    BY <1>1, <1>3, <1>4, <1>6, <2>2, <2>3 DEF Expected, DiskIsFull, RunnerTypeOK
<1>7. CASE Stage = "assert"
  <2>1. Asserting(world.accessToken, r) /\ assertPc[r] = "done" /\ code = assertReply[r]
    BY <1>2, <1>3, <1>7, Answered
  <2>2. code = IF world.lockConn THEN "db_locked" ELSE "OK"
    BY <2>1 DEF Asserting
  <2>3. world.lockConn <=> Name = "locked"
    BY <1>1, <1>2, <1>7 DEF WorldIsSet, Consistent, Stage, Past
  <2> QED
    BY <1>3, <1>4, <1>7, <2>2, <2>3 DEF Expected
<1> QED
  BY <1>3, <1>5, <1>6, <1>7, Stages

(* An expectation passes, because the answer is the expected one, and      *)
(* moves nothing else of what the invariant speaks about.                  *)
LEMMA ExpectKeeps ==
    ASSUME TestsInvariant, Expect
    PROVE  TestsInvariant'
<1> DEFINE do == "expect"
           unmet == Name = "diskFull" /\ profile = "healthy"
<1>1. RunnerTypeOK /\ ScenariosPass /\ WorldIsSet /\ LastRequest
  BY DEF TestsInvariant
<1>2. Runs(do)
  BY DEF Expect
<1>3. stepNo # None /\ inFlight = None
  BY <1>1, <1>2, Running
<1>4. CASE unmet
  <2>1. AfterScenario("failed")
    BY <1>2, <1>4, ExpectedIsAnswered DEF Expect, Fails
  <2> QED
    BY <1>3, <1>4, <2>1, AfterScenarioKeeps
<1>5. CASE ~unmet
  <2>1. /\ Passes /\ world' = world /\ inFlight' = inFlight /\ junk' = junk
        /\ UNCHANGED <<now, boots, db, view, writer, sliceVars>>
    BY <1>2, <1>5, ExpectedIsAnswered DEF Expect, storeVars
  <2>2. /\ stepNo' # None /\ Name' = Name /\ Past' = Past \cup {do}
        /\ ScenariosPass' /\ NothingIsLeft' /\ profile' = profile
    BY <1>1, <1>2, <2>1, Passing DEF Passes
  <2>3. /\ Stage' = Stage /\ Subject' = Subject
        /\ StartsRest' /\ FinishesRest' /\ LoginsRest' /\ AssertionsRest' /\ LogoutsRest'
        /\ ResponseIsRead' /\ RowsAreAnswered'
    BY <1>2, <2>1, QuietStep
  <2>4. RunnerTypeOK'
    BY <1>1, <1>2, <2>1, RunnerTyped DEF RunnerTypeOK
  <2>5. WorldIsSet'
    <3>1. Account(world.accessToken) => Account(world.accessToken)'
      BY <2>1, <2>2, AccountKept DEF sliceVars
    <3>2. Name = "diskFull" => profile = "disk-full"
      BY <1>1, <1>5 DEF RunnerTypeOK
    <3> QED
      BY <1>1, <1>3, <2>1, <2>2, <3>1, <3>2 DEF WorldIsSet
  <2>6. LastRequest'
    BY <1>1, <1>3, <2>1, <2>2, <2>3, RegisteringKept, AttestingKept,
       LoggingInKept,
       AssertingKept, LoggingOutKept DEF LastRequest, sliceVars
  <2> QED
    BY <2>2, <2>3, <2>4, <2>5, <2>6 DEF TestsInvariant
<1> QED
  BY <1>4, <1>5

(* A scenario begins: nobody holds a lock, and the tables are emptied.     *)
LEMMA BeforeScenarioKeeps ==
    ASSUME TestsInvariant, BeforeScenario
    PROVE  TestsInvariant'
<1>1. /\ RunnerTypeOK /\ ScenariosPass /\ NothingIsLeft
      /\ StartsRest /\ FinishesRest /\ LoginsRest /\ AssertionsRest /\ LogoutsRest
  BY DEF TestsInvariant
<1>2. /\ stepNo = None /\ Round <= Rounds /\ stepNo' = 1
      /\ world' = NewWorld /\ junk' = FALSE
      /\ writer = None => db' = EmptyDatabase
      /\ UNCHANGED <<now, boots, writer, sliceVars, profile, plan, verdicts, inFlight>>
  BY DEF BeforeScenario, CleanupDB
<1>3. inFlight = None /\ writer = None /\ db' = EmptyDatabase /\ inFlight' = None
      /\ stepNo' # None
  BY <1>1, <1>2, StoreAssumption DEF NothingIsLeft
<1>4. Name' = Name /\ Round' = Round /\ Current' = Current
  BY <1>2 DEF Name, Round, Current
<1>5. Name \in DOMAIN Scenarios /\ Len(Current) \in Nat
  <2>1. Round \in 1 .. Rounds
    BY <1>1, <1>2, ComponentTestsAssumption DEF RunnerTypeOK, Round
  <2>2. Name \in DOMAIN Scenarios
    BY <1>1, <2>1 DEF RunnerTypeOK, Name
  <2> QED
    BY <2>2, ScenariosAreScripted DEF Scripted, Current, Name
<1>6. /\ world'.lastResponse = None /\ world'.authenticator = FALSE
      /\ world'.lockConn = FALSE /\ world' \in Worlds
  BY <1>2 DEF NewWorld, Worlds
<1>7. RunnerTypeOK'
  <2>1. Round' <= Rounds /\ stepNo' \in 1 .. (Len(Current') + 1)
    BY <1>2, <1>4, <1>5
  <2> QED
    BY <1>1, <1>2, <1>3, <1>6, <2>1 DEF RunnerTypeOK
<1>8. Past' = {} /\ Stage' = "nothing"
  BY <1>2, BeforeEach DEF Past, Before, Stage, StageAfter
<1>9. StartsRest' /\ FinishesRest' /\ LoginsRest' /\ AssertionsRest' /\ LogoutsRest'
  BY <1>1, <1>2, SlicesRest DEF sliceVars
<1>10. NothingIsLeft' /\ ScenariosPass'
  BY <1>1, <1>2, <1>3 DEF NothingIsLeft, ScenariosPass
<1>11. WorldIsSet'
  BY <1>2, <1>6, <1>8 DEF WorldIsSet
<1>12. LastRequest' /\ ResponseIsRead'
  BY <1>2, <1>3, <1>6, <1>8 DEF LastRequest, ResponseIsRead
<1>13. RowsAreAnswered'
  BY <1>3 DEF RowsAreAnswered, EmptyDatabase
<1> QED
  BY <1>7, <1>9, <1>10, <1>11, <1>12, <1>13 DEF TestsInvariant

----------------------------------------------------------------------------
(* The steps of the runner that send a request.                            *)

(* The steps that send a request, each named for what it posts.            *)
Posts == {"register", "attest", "login", "assert", "logout"}

(* A request that has not been sent yet, and the one sent in its place.    *)
LEMMA SentIsIdle ==
    ASSUME NEW X, NEW pc, NEW q \in Unused(X, pc)
    PROVE  q \in X /\ pc[q] = "idle"
BY DEF Unused, OneOf

(* The parts of the invariant that sending a request leaves to no slice.   *)
LEMMA SendingStep ==
    ASSUME TestsInvariant, Passes, UNCHANGED <<now, boots, db, view, writer, junk>>,
           NEW do \in Posts, Runs(do), NEW q \in Requests, inFlight' = q,
           world'.lastResponse = world.lastResponse,
           world'.authenticator = world.authenticator,
           world'.lockConn = world.lockConn, world'.accessToken = world.accessToken,
           world' \in Worlds,
           do # "register" => world.lastResponse.code = "OK",
           "keepTokens" \in Past => Account(world.accessToken)'
    PROVE  /\ RunnerTypeOK' /\ NothingIsLeft' /\ ScenariosPass'
           /\ stepNo' # None /\ Name' = Name /\ profile' = profile
           /\ WorldIsSet' /\ ResponseIsRead'
           /\ Past' = Past \cup {do} /\ Stage' = do /\ Subject' = q
           /\ q # None
<1>1. RunnerTypeOK /\ ScenariosPass /\ WorldIsSet /\ LastRequest
  BY DEF TestsInvariant
<1>2. /\ stepNo # None /\ stepNo' # None /\ Name' = Name /\ Past' = Past \cup {do}
      /\ ScenariosPass' /\ NothingIsLeft' /\ profile' = profile
      /\ Relies(Name, stepNo) /\ Scenarios[Name][stepNo].do = do
      /\ Consistent(Name, stepNo)
  BY <1>1, Passing, Running DEF Passes
<1>3. q # None /\ RunnerTypeOK'
  <2>1. q # None /\ inFlight' \in Requests \cup {None}
    BY KindsAreDisjoint
  <2> QED
    BY <1>1, <2>1, RunnerTyped DEF RunnerTypeOK
<1>4. Subject' = q
  BY <1>3 DEF Subject
<1>5. Stage' = do
  BY <1>2 DEF Relies, Stage, StageAfter, Past, Posts
<1>6. ResponseIsRead'
  <2>1. do = "register" => world.lastResponse = None
    BY <1>1, <1>2 DEF Relies, Stage, Past, LastRequest
  <2> QED
    BY <1>3, <2>1 DEF ResponseIsRead
<1>7. WorldIsSet'
  BY <1>1, <1>2 DEF WorldIsSet, Posts
<1> QED
  BY <1>2, <1>3, <1>4, <1>5, <1>6, <1>7

(* POST /v1/registrations: nothing was sent before it in the scenario.     *)
LEMMA RegisterKeeps ==
    ASSUME TestsInvariant, Register
    PROVE  TestsInvariant'
<1> DEFINE do == "register"
<1>1. /\ RunnerTypeOK /\ ScenariosPass /\ WorldIsSet /\ LastRequest /\ RowsAreAnswered
      /\ StartsRest /\ FinishesRest /\ LoginsRest /\ AssertionsRest /\ LogoutsRest
  BY DEF TestsInvariant
<1>2. PICK r \in Unused(RegStarts, startPc) :
         OpenSession(r, Current[stepNo].arg) /\ Sends(r)
  BY DEF Register
<1>3. Runs(do) /\ UNCHANGED <<finishVars, loginVars, assertVars, logoutVars>>
  BY DEF Register
<1>4. r \in RegStarts /\ startPc[r] = "idle" /\ r \in Requests
  BY SentIsIdle DEF Requests
<1>5. /\ Passes /\ inFlight' = r /\ world' = world /\ junk' = junk
      /\ UNCHANGED <<now, boots, db, view, writer>>
  BY <1>2 DEF Sends, OpenSession, storeVars
<1>6. /\ stepNo # None /\ inFlight = None
      /\ Relies(Name, stepNo) /\ Scenarios[Name][stepNo].do = do
      /\ Current[stepNo].arg = Scenarios[Name][stepNo].arg
      /\ Consistent(Name, stepNo)
  BY <1>1, <1>3, Running
<1>7. /\ Stage = "nothing" /\ Current[stepNo].arg = HandleOf(Name)
      /\ "keepTokens" \notin Past /\ "fillDisk" \notin Past
  BY <1>6 DEF Relies, Consistent, Stage, Past
<1>8. /\ RunnerTypeOK' /\ NothingIsLeft' /\ ScenariosPass'
      /\ Name' = Name /\ WorldIsSet' /\ ResponseIsRead'
      /\ Stage' = do /\ Subject' = r
  BY <1>1, <1>3, <1>4, <1>5, <1>7, SendingStep DEF Posts, RunnerTypeOK
<1>9. /\ startPc' = [startPc EXCEPT ![r] = "persist"] /\ startReply' = startReply
      /\ opened' = [opened EXCEPT ![r] = NewRegistrationSession(HandleOf(Name), now)]
  BY <1>2, <1>7 DEF OpenSession
<1>10. StartsRest'
  <2>1. /\ OnEach(RegStarts, startPc)' /\ OnEach(RegStarts, opened)'
        /\ \A x \in RegStarts : x # r => startPc'[x] = startPc[x]
        /\ startPc'[r] = "persist"
    BY <1>1, <1>4, <1>9, Updated DEF StartsRest, OnEach
  <2>2. Rest(RegStarts, startPc, startReply)'
    BY <1>1, <1>5, <1>6, <1>9, <2>1, KindsAreDisjoint
       DEF StartsRest, Rest, Requests
  <2> QED
    BY <1>1, <1>9, <2>1, <2>2 DEF StartsRest, OnEach
<1>11. FinishesRest' /\ LoginsRest' /\ AssertionsRest' /\ LogoutsRest' /\ RowsAreAnswered'
  BY <1>1, <1>3, <1>5, <1>6, SlicesRest, RowsKept
<1>12. LastRequest'
  <2>1. startReply[r] = None /\ db = EmptyDatabase /\ writer = None /\ ~junk
    BY <1>1, <1>4, <1>6, <1>7 DEF StartsRest, Rest, LastRequest, WorldIsSet
  <2>2. startPc'[r] = "persist" /\ opened'[r] = NewRegistrationSession(HandleOf(Name), now)
    BY <1>1, <1>4, <1>9 DEF StartsRest, OnEach
  <2>3. Registering(r)'
    BY <1>4, <1>5, <1>8, <1>9, <2>1, <2>2 DEF Registering, EmptyDatabase
  <2> QED
    BY <1>8, <2>3 DEF LastRequest
<1> QED
  BY <1>8, <1>10, <1>11, <1>12 DEF TestsInvariant

(* POST /v1/registrations/{id}/attestation, for the options of the session *)
(* that the scenario has opened.                                           *)
LEMMA SendAttestationKeeps ==
    ASSUME TestsInvariant, SendAttestation
    PROVE  TestsInvariant'
<1> DEFINE do == "attest"
<1>0. PICK r : r = world.lastResponse.request
  OBVIOUS
<1>1. /\ RunnerTypeOK /\ ScenariosPass /\ WorldIsSet /\ LastRequest /\ RowsAreAnswered
      /\ StartsRest /\ FinishesRest /\ LoginsRest /\ AssertionsRest /\ LogoutsRest
  BY DEF TestsInvariant
<1>2. Runs(do)
  BY DEF SendAttestation
<1>3. /\ stepNo # None /\ inFlight = None
      /\ Relies(Name, stepNo) /\ Scenarios[Name][stepNo].do = do
      /\ Consistent(Name, stepNo)
  BY <1>1, <1>2, Running
<1>4. Stage = "register" /\ "authenticator" \in Past /\ "keepTokens" \notin Past
  BY <1>3 DEF Relies, Consistent, Stage, Past
<1>5. /\ Registering(r) /\ startPc[r] = "done" /\ startReply[r] = "OK"
      /\ world.lastResponse.code = "OK" /\ world.lastResponse # None
  BY <1>0, <1>3, <1>4, Answered
<1>6. HasOptions(RegStarts) /\ world.authenticator
  BY <1>0, <1>1, <1>3, <1>4, <1>5 DEF HasOptions, Registering, WorldIsSet
<1>7. Attest(r)
  BY <1>0, <1>6 DEF SendAttestation
<1>8. PICK p \in Unused(RegFinishes, finishPc), k \in NewCredential :
         /\ AcceptCommand(p, [id |-> r, challenge |-> r, credential_id |-> k,
                              sign_count |-> 0])
         /\ Passes
         /\ inFlight' = p
         /\ world' = [world EXCEPT !.credential = k]
         /\ UNCHANGED <<startVars, loginVars, assertVars, logoutVars, junk>>
  BY <1>7 DEF Attest
<1>9. p \in RegFinishes /\ finishPc[p] = "idle" /\ p \in Requests /\ k \in CredIDs
  BY SentIsIdle DEF Requests, NewCredential, OneOf
<1>10. /\ world'.credential = k /\ world'.lastResponse = world.lastResponse
       /\ world'.authenticator = world.authenticator
       /\ world'.lockConn = world.lockConn /\ world'.accessToken = world.accessToken
       /\ world' \in Worlds
  BY <1>1, <1>8, <1>9 DEF RunnerTypeOK, Worlds
<1>11. /\ command' = [command EXCEPT ![p] = [id |-> r, challenge |-> r,
                                            credential_id |-> k, sign_count |-> 0]]
       /\ finishPc' = [finishPc EXCEPT ![p] = "load"]
       /\ finishReply' = finishReply /\ loaded' = loaded /\ issued' = issued
       /\ UNCHANGED <<now, boots, db, view, writer>>
  BY <1>8 DEF AcceptCommand, GoTo, storeVars
<1>12. /\ RunnerTypeOK' /\ NothingIsLeft' /\ ScenariosPass'
       /\ Name' = Name /\ WorldIsSet' /\ ResponseIsRead'
       /\ Stage' = do /\ Subject' = p /\ Past' = Past \cup {do}
  BY <1>2, <1>4, <1>5, <1>8, <1>9, <1>10, <1>11, SendingStep DEF Posts
<1>13. FinishesRest'
  <2>1. /\ OnEach(RegFinishes, finishPc)' /\ OnEach(RegFinishes, command)'
        /\ \A x \in RegFinishes : x # p => finishPc'[x] = finishPc[x]
        /\ finishPc'[p] = "load"
    BY <1>1, <1>9, <1>11, Updated DEF FinishesRest, OnEach
  <2>2. Rest(RegFinishes, finishPc, finishReply)'
    BY <1>1, <1>3, <1>8, <1>11, <2>1, KindsAreDisjoint
       DEF FinishesRest, Rest, Requests
  <2> QED
    BY <1>1, <1>11, <2>1, <2>2 DEF FinishesRest, OnEach
<1>14. StartsRest' /\ LoginsRest' /\ AssertionsRest' /\ LogoutsRest'
  BY <1>1, <1>3, <1>8, SlicesRest
<1>15. RowsAreAnswered'
  BY <1>1, <1>8, <1>11 DEF RowsAreAnswered, assertVars
<1>16. LastRequest'
  <2>1. /\ finishReply[p] = None /\ finishPc'[p] = "load"
        /\ command'[p] = [id |-> r, challenge |-> r, credential_id |-> k, sign_count |-> 0]
    BY <1>1, <1>9, <1>11, Updated DEF FinishesRest, Rest
  <2>2. r \in RegStarts /\ opened[r] = NewRegistrationSession(HandleOf(Name), now)
        /\ db = OpenedImage(r) /\ writer = None
    BY <1>5 DEF Registering
  <2>3. OpenedImage(r)' = OpenedImage(r) /\ opened' = opened
    BY <1>8 DEF OpenedImage, SessionRow, startVars
  <2>4. Ceremony(p)'
    BY <1>9, <1>10, <1>11, <1>12, <2>1, <2>2, <2>3 DEF Ceremony
  <2>5. Attesting(p)'
    <3>1. command'[p].id = r
      BY <2>1
    <3> QED
      BY <1>11, <2>1, <2>2, <2>3, <2>4, <3>1, StoreAssumption
      DEF Attesting, InTransaction, Codes, OpenedImage, SessionRow
  <2> QED
    BY <1>4, <1>12, <2>5 DEF LastRequest
<1> QED
  BY <1>12, <1>13, <1>14, <1>15, <1>16 DEF TestsInvariant

(* What the tables hold for the account of a scenario and what the World   *)
(* has of it.                                                              *)
LEMMA AccountOfScenario ==
    ASSUME TestsInvariant, stepNo # None, inFlight = None, Stage = "attest",
           "keepTokens" \in Past
    PROVE  /\ Account(world.accessToken)
           /\ db = AccountImage(world.accessToken)
           /\ world.lastResponse.code = "OK"
           /\ writer = None /\ ~world.lockConn
<1> DEFINE p == world.accessToken
<1>1. RunnerTypeOK /\ WorldIsSet /\ LastRequest
  BY DEF TestsInvariant
<1>2. Account(p)
  BY <1>1 DEF WorldIsSet
<1>3. p = Subject /\ Subject = world.lastResponse.request
  BY <1>1 DEF LastRequest, Subject
<1>4. Attesting(p) /\ world.lastResponse.code = finishReply[p]
  BY <1>3, Answered
<1>5. ~world.lockConn
  BY <1>1, InScenario DEF WorldIsSet, Consistent, Stage, Past
<1> QED
  BY <1>2, <1>4, <1>5, OnlyTheRunnerLocks DEF Account, Attesting

(* POST /v1/sessions, for the handle that the scenario has registered.     *)
LEMMA LoginRequestKeeps ==
    ASSUME TestsInvariant, LoginRequest
    PROVE  TestsInvariant'
<1> DEFINE do == "login"
<1>0. PICK p : p = world.accessToken
  OBVIOUS
<1>1. /\ RunnerTypeOK /\ ScenariosPass /\ WorldIsSet /\ LastRequest /\ RowsAreAnswered
      /\ StartsRest /\ FinishesRest /\ LoginsRest /\ AssertionsRest /\ LogoutsRest
  BY DEF TestsInvariant
<1>2. PICK r \in Unused(LoginStarts, loginPc) :
         /\ \/ LoadUser(r, Current[stepNo].arg)
            \/ UserNotFound(r, Current[stepNo].arg)
         /\ Sends(r)
  BY DEF LoginRequest
<1>3. Runs(do) /\ UNCHANGED <<startVars, finishVars, assertVars, logoutVars>>
  BY DEF LoginRequest
<1>4. r \in LoginStarts /\ loginPc[r] = "idle" /\ r \in Requests
  BY SentIsIdle DEF Requests
<1>5. /\ stepNo # None /\ inFlight = None
      /\ Relies(Name, stepNo) /\ Scenarios[Name][stepNo].do = do
      /\ Current[stepNo].arg = Scenarios[Name][stepNo].arg
  BY <1>1, <1>3, Running
<1>6. /\ Stage = "attest" /\ Current[stepNo].arg = HandleOf(Name)
      /\ "keepTokens" \in Past
  BY <1>5 DEF Relies, Stage, Past
<1>7. /\ Account(p) /\ db = AccountImage(p) /\ world.lastResponse.code = "OK"
      /\ writer = None /\ ~world.lockConn
  BY <1>0, <1>5, <1>6, AccountOfScenario
<1>8. db.users = {UserOf(p)} /\ UserOf(p).handle = HandleOf(Name)
  BY <1>7
     DEF AccountImage, EmptyDatabase, Account, Ceremony, UserOf, SessionRow,
              NewRegistrationSession
<1>9. /\ user' = [user EXCEPT ![r] = UserOf(p)]
      /\ loginPc' = [loginPc EXCEPT ![r] = "credentials"]
      /\ loginReply' = loginReply /\ session' = session
      /\ UNCHANGED <<now, boots, db, view, writer>>
  <2>1. HandleTaken(db, HandleOf(Name))
    BY <1>8 DEF HandleTaken
  <2>2. LoadUser(r, HandleOf(Name))
    BY <1>2, <1>6, <2>1 DEF UserNotFound
  <2> QED
    BY <1>8, <2>2 DEF LoadUser, LoginGoes, storeVars
<1>10. Passes /\ inFlight' = r /\ world' = world /\ junk' = junk
  BY <1>2 DEF Sends
<1>11. /\ UserOf(p)' = UserOf(p) /\ AccountImage(p)' = AccountImage(p)
  BY <1>3 DEF UserOf, AccountImage, CredentialOf, RefreshTokenOf, finishVars
<1>12. Name' = Name
  BY <1>1, <1>3, <1>10, Passing
<1>13. /\ RunnerTypeOK' /\ NothingIsLeft' /\ ScenariosPass' /\ WorldIsSet'
       /\ ResponseIsRead' /\ Stage' = do /\ Subject' = r
  <2>1. Account(p)'
    BY <1>3, <1>7, <1>9, <1>10, <1>12, AccountKept
  <2> QED
    BY <1>0, <1>1, <1>3, <1>4, <1>7, <1>9, <1>10, <2>1, SendingStep
    DEF Posts, RunnerTypeOK
<1>14. LoginsRest'
  <2>1. /\ OnEach(LoginStarts, loginPc)' /\ OnEach(LoginStarts, user)'
        /\ \A x \in LoginStarts : x # r => loginPc'[x] = loginPc[x]
        /\ loginPc'[r] = "credentials"
    BY <1>1, <1>4, <1>9, Updated DEF LoginsRest, OnEach
  <2>2. Rest(LoginStarts, loginPc, loginReply)'
    BY <1>1, <1>5, <1>9, <1>10, <2>1, KindsAreDisjoint
       DEF LoginsRest, Rest, Requests
  <2> QED
    BY <1>1, <1>9, <2>1, <2>2 DEF LoginsRest, OnEach
<1>15. StartsRest' /\ FinishesRest' /\ AssertionsRest' /\ LogoutsRest' /\ RowsAreAnswered'
  BY <1>1, <1>3, <1>5, <1>9, SlicesRest, RowsKept
<1>16. LastRequest'
  <2>1. loginReply[r] = None /\ loginPc'[r] = "credentials" /\ user'[r] = UserOf(p)
    BY <1>1, <1>4, <1>9, Updated DEF LoginsRest, Rest
  <2>2. LoggingIn(p, r)'
    BY <1>4, <1>7, <1>9, <1>10, <1>11, <2>1, StoreAssumption
       DEF LoggingIn, Codes
  <2> QED
    BY <1>0, <1>10, <1>13, <2>2 DEF LastRequest
<1> QED
  BY <1>13, <1>14, <1>15, <1>16 DEF TestsInvariant

(* POST /v1/sessions/{id}/assertion, for the challenge of that session.    *)
LEMMA SendAssertionKeeps ==
    ASSUME TestsInvariant, SendAssertion
    PROVE  TestsInvariant'
<1> DEFINE do == "assert"
<1>0. PICK p, r : p = world.accessToken /\ r = world.lastResponse.request
  OBVIOUS
<1>1. /\ RunnerTypeOK /\ ScenariosPass /\ WorldIsSet /\ LastRequest /\ RowsAreAnswered
      /\ StartsRest /\ FinishesRest /\ LoginsRest /\ AssertionsRest /\ LogoutsRest
  BY DEF TestsInvariant
<1>2. Runs(do)
  BY DEF SendAssertion
<1>3. /\ stepNo # None /\ inFlight = None
      /\ Relies(Name, stepNo) /\ Scenarios[Name][stepNo].do = do
      /\ Consistent(Name, stepNo)
  BY <1>1, <1>2, Running
<1>4. Stage = "login" /\ "keepTokens" \in Past
  BY <1>3 DEF Relies, Consistent, Stage, Past
<1>5. /\ LoggingIn(p, r) /\ loginPc[r] = "done" /\ loginReply[r] = "OK"
      /\ world.lastResponse.code = "OK" /\ world.lastResponse # None
  BY <1>0, <1>3, <1>4, Answered
<1>6. Account(p) /\ world.credential \in CredIDs
  BY <1>0, <1>1, <1>3, <1>4 DEF WorldIsSet, Account, Ceremony
<1>7. HasOptions(LoginStarts) /\ world.credential # None
  BY <1>0, <1>5, <1>6, StoreAssumption DEF HasOptions, LoggingIn
<1>8. PICK q \in Unused(LoginFinishes, assertPc) :
         /\ AcceptAssertion(q, [id     |-> r,
                                signed |-> [challenge     |-> r,
                                            credential_id |-> world.credential,
                                            sign_count    |-> 0]])
         /\ Sends(q)
         /\ UNCHANGED <<startVars, finishVars, loginVars, logoutVars>>
  BY <1>0, <1>2, <1>7 DEF SendAssertion, Assert
<1>9. q \in LoginFinishes /\ assertPc[q] = "idle" /\ q \in Requests
  BY SentIsIdle DEF Requests
<1>10. /\ assertion' = [assertion EXCEPT
                          ![q] = [id |-> r, signed |-> [challenge |-> r,
                                                        credential_id |-> world.credential,
                                                        sign_count |-> 0]]]
       /\ assertPc' = [assertPc EXCEPT ![q] = "load"]
       /\ assertReply' = assertReply /\ loginLoaded' = loginLoaded
       /\ target' = target /\ loginIssued' = loginIssued
       /\ UNCHANGED <<now, boots, db, view, writer>>
  BY <1>8 DEF AcceptAssertion, AssertGoes, storeVars
<1>11. Passes /\ inFlight' = q /\ world' = world /\ junk' = junk
  BY <1>8 DEF Sends
<1>12. Name' = Name
  BY <1>1, <1>2, <1>11, Passing
<1>13. Account(p)'
  BY <1>6, <1>8, <1>10, <1>11, <1>12, AccountKept
<1>14. /\ RunnerTypeOK' /\ NothingIsLeft' /\ ScenariosPass' /\ WorldIsSet'
       /\ ResponseIsRead' /\ Stage' = do /\ Subject' = q
  BY <1>0, <1>1, <1>2, <1>5, <1>9, <1>10, <1>11, <1>13, SendingStep
  DEF Posts, RunnerTypeOK
<1>15. AssertionsRest'
  <2>1. /\ OnEach(LoginFinishes, assertPc)' /\ OnEach(LoginFinishes, assertion)'
        /\ \A x \in LoginFinishes : x # q => assertPc'[x] = assertPc[x]
        /\ assertPc'[q] = "load"
    BY <1>1, <1>9, <1>10, Updated DEF AssertionsRest, OnEach
  <2>2. Rest(LoginFinishes, assertPc, assertReply)'
    BY <1>1, <1>3, <1>10, <1>11, <2>1, KindsAreDisjoint
       DEF AssertionsRest, Rest, Requests
  <2> QED
    BY <1>1, <1>10, <2>1, <2>2 DEF AssertionsRest, OnEach
<1>16. StartsRest' /\ FinishesRest' /\ LoginsRest' /\ LogoutsRest'
  BY <1>1, <1>3, <1>8, SlicesRest
<1>17. RowsAreAnswered'
  BY <1>1, <1>8, <1>10 DEF RowsAreAnswered, finishVars
<1>18. LastRequest'
  <2>1. /\ assertReply[q] = None /\ assertPc'[q] = "load"
        /\ assertion'[q] = [id |-> r, signed |-> [challenge |-> r,
                                                  credential_id |-> world.credential,
                                                  sign_count |-> 0]]
    BY <1>1, <1>9, <1>10, Updated DEF AssertionsRest, Rest
  <2>2. /\ assertion'[q].id = r
        /\ assertion'[q].signed = [challenge |-> r, credential_id |-> world.credential,
                                   sign_count |-> 0]
    BY <2>1
  <2>3. /\ r \in LoginStarts /\ session[r] = NewLoginSession(p, now)
        /\ db = ChallengedImage(p, r)
        /\ writer = IF world.lockConn THEN Runner ELSE None
    BY <1>5 DEF LoggingIn
  <2>4. ChallengedImage(p, r)' = ChallengedImage(p, r) /\ session' = session
    BY <1>8, <1>10 DEF ChallengedImage, AccountImage, UserOf, CredentialOf,
                       RefreshTokenOf, LoginSessionRowOf, finishVars, loginVars
  <2>5. Asserting(p, q)'
    BY <1>9, <1>10, <1>11, <2>1, <2>2, <2>3, <2>4, StoreAssumption
    DEF Asserting, LoginTransaction, Codes
  <2> QED
    BY <1>0, <1>11, <1>14, <2>5 DEF LastRequest
<1> QED
  BY <1>14, <1>15, <1>16, <1>17, <1>18 DEF TestsInvariant

(* DELETE /v1/sessions/current, with an access token that is good.         *)
LEMMA LogoutKeeps ==
    ASSUME TestsInvariant, Logout
    PROVE  TestsInvariant'
<1> DEFINE do == "logout"
<1>0. PICK p, token : /\ p = world.accessToken
                      /\ token = AccessTokenIn(issued[p], p, p)
  OBVIOUS
<1>1. /\ RunnerTypeOK /\ ScenariosPass /\ WorldIsSet /\ LastRequest /\ RowsAreAnswered
      /\ StartsRest /\ FinishesRest /\ LoginsRest /\ AssertionsRest /\ LogoutsRest
  BY DEF TestsInvariant
<1>2. PICK l \in Unused(Logouts, logoutPc) :
         /\ IF p = None THEN RejectBearer(l)
            ELSE AuthenticateLogout(l, token) \/ AccessTokenInvalid(l, token)
         /\ Sends(l)
  BY <1>0 DEF Logout
<1>3. Runs(do) /\ UNCHANGED <<startVars, finishVars, loginVars, assertVars>>
  BY DEF Logout
<1>4. l \in Logouts /\ logoutPc[l] = "idle" /\ l \in Requests
  BY SentIsIdle DEF Requests
<1>5. /\ stepNo # None /\ inFlight = None
      /\ Relies(Name, stepNo) /\ Scenarios[Name][stepNo].do = do
  BY <1>1, <1>3, Running
<1>6. Stage = "attest" /\ "keepTokens" \in Past
  BY <1>5 DEF Relies, Stage, Past
<1>7. /\ Account(p) /\ world.lastResponse.code = "OK" /\ writer = None
      /\ db = AccountImage(p)
  BY <1>0, <1>5, <1>6, AccountOfScenario
<1>8. VerifyAccessToken(token, boots, now)
  <2>1. now \in Nat /\ AccessTTL \in Nat /\ AccessTTL >= TicksPerSecond
    BY <1>1, TokensAssumption, LifetimesAssumption DEF RunnerTypeOK
  <2>2. /\ token.key = boots /\ token.iat = Unix(now)
        /\ token.exp = Unix(now + AccessTTL)
    BY <1>0, <1>7 DEF Account, AccessTokenIn, GenerateTokenPair
  <2> QED
    BY <2>1, <2>2, FreshWhenMade, IssuedByNow DEF VerifyAccessToken
<1>9. p # None
  BY <1>7, KindsAreDisjoint DEF Account, Ceremony, Requests
<1>10. /\ logoutPc' = [logoutPc EXCEPT ![l] = "stamp"] /\ logoutReply' = logoutReply
       /\ UNCHANGED <<now, boots, db, view, writer>>
  BY <1>2, <1>8, <1>9
     DEF AuthenticateLogout, AccessTokenInvalid, LogoutGoes, storeVars
<1>11. Passes /\ inFlight' = l /\ world' = world /\ junk' = junk
  BY <1>2 DEF Sends
<1>12. Name' = Name
  BY <1>1, <1>3, <1>11, Passing
<1>13. Account(p)'
  BY <1>3, <1>7, <1>10, <1>11, <1>12, AccountKept
<1>14. /\ RunnerTypeOK' /\ NothingIsLeft' /\ ScenariosPass' /\ WorldIsSet'
       /\ ResponseIsRead' /\ Stage' = do /\ Subject' = l
  BY <1>0, <1>1, <1>3, <1>4, <1>7, <1>10, <1>11, <1>13, SendingStep
  DEF Posts, RunnerTypeOK
<1>15. LogoutsRest'
  <2>1. /\ OnEach(Logouts, logoutPc)'
        /\ \A x \in Logouts : x # l => logoutPc'[x] = logoutPc[x]
        /\ logoutPc'[l] = "stamp"
    BY <1>1, <1>4, <1>10, Updated DEF LogoutsRest, OnEach
  <2>2. Rest(Logouts, logoutPc, logoutReply)'
    BY <1>1, <1>5, <1>10, <1>11, <2>1, KindsAreDisjoint
       DEF LogoutsRest, Rest, Requests
  <2> QED
    BY <1>1, <1>10, <2>1, <2>2 DEF LogoutsRest, OnEach
<1>16. StartsRest' /\ FinishesRest' /\ LoginsRest' /\ AssertionsRest' /\ RowsAreAnswered'
  BY <1>1, <1>3, <1>5, <1>10, SlicesRest, RowsKept
<1>17. LastRequest'
  <2>1. logoutReply[l] = None /\ logoutPc'[l] = "stamp"
    BY <1>1, <1>4, <1>10, Updated DEF LogoutsRest, Rest
  <2>2. LoggingOut(l)'
    BY <1>4, <1>7, <1>10, <2>1 DEF LoggingOut, AccountImage, EmptyDatabase
  <2> QED
    BY <1>14, <2>2 DEF LastRequest
<1> QED
  BY <1>14, <1>15, <1>16, <1>17 DEF TestsInvariant

----------------------------------------------------------------------------
(* While the runner waits.                                                 *)

(* The request that it waits for is the last that the scenario sent.       *)
LEMMA Sent ==
    ASSUME TestsInvariant, inFlight # None
    PROVE  /\ stepNo # None /\ Subject = inFlight
           /\ Stage # "nothing" /\ Consistent(Name, stepNo)
           /\ Stage = "register" => Registering(inFlight)
           /\ Stage = "attest" => Attesting(inFlight)
           /\ Stage = "login" => LoggingIn(world.accessToken, inFlight)
           /\ Stage = "assert" => Asserting(world.accessToken, inFlight)
           /\ Stage = "logout" => LoggingOut(inFlight)
<1>1. RunnerTypeOK /\ NothingIsLeft /\ LastRequest
  BY DEF TestsInvariant
<1>2. stepNo # None /\ Subject = inFlight
  BY <1>1 DEF NothingIsLeft, Subject
<1>3. Consistent(Name, stepNo)
  BY <1>1, <1>2, InScenario
<1> QED
  BY <1>1, <1>2, <1>3 DEF LastRequest

(* An answer is one of the codes once it is there.                         *)
LEMMA AnswerIsCode ==
    ASSUME TestsInvariant, inFlight # None, At(inFlight) = "done"
    PROVE  Reply(inFlight) \in Codes
<1>1. CASE Stage = "register"
  BY <1>1, Sent, EachKind DEF Registering, Codes
<1>2. CASE Stage = "attest"
  BY <1>2, Sent, EachKind DEF Attesting, Ceremony, Codes
<1>3. CASE Stage = "login"
  BY <1>3, Sent, EachKind DEF LoggingIn, Codes
<1>4. CASE Stage = "assert"
  BY <1>4, Sent, EachKind DEF Asserting, Codes
<1>5. CASE Stage = "logout"
  BY <1>5, Sent, EachKind DEF LoggingOut, Codes
<1> QED
  BY <1>1, <1>2, <1>3, <1>4, <1>5, Sent, Stages

(* doRequest returns with the response.                                    *)
LEMMA ReceiveKeeps ==
    ASSUME TestsInvariant, NEW q \in Requests, Receive(q)
    PROVE  TestsInvariant'
<1>1. /\ RunnerTypeOK /\ ScenariosPass /\ WorldIsSet /\ LastRequest /\ RowsAreAnswered
      /\ StartsRest /\ FinishesRest /\ LoginsRest /\ AssertionsRest /\ LogoutsRest
  BY DEF TestsInvariant
<1>2. /\ inFlight = q /\ At(q) = "done" /\ inFlight' = None
      /\ world' = [world EXCEPT !.lastResponse = [request |-> q, code |-> Reply(q)]]
      /\ UNCHANGED <<now, boots, db, view, writer, sliceVars>>
      /\ UNCHANGED <<profile, plan, stepNo, verdicts, junk>>
  BY DEF Receive, storeVars
<1>3. q # None
  BY KindsAreDisjoint
<1>4. /\ stepNo # None /\ Subject = q /\ Stage # "nothing"
  BY <1>2, <1>3, Sent
<1>5. [request |-> q, code |-> Reply(q)] \in Responses
  BY <1>2, <1>3, AnswerIsCode DEF Responses
<1>6. /\ world'.lastResponse = [request |-> q, code |-> Reply(q)]
      /\ world'.lastResponse # None
      /\ world'.credential = world.credential /\ world'.lockConn = world.lockConn
      /\ world'.authenticator = world.authenticator
      /\ world'.accessToken = world.accessToken /\ world' \in Worlds
  BY <1>1, <1>2, <1>5, ResponsesAssumption DEF RunnerTypeOK, Worlds
<1>7. Name' = Name /\ Round' = Round /\ Current' = Current /\ Past' = Past /\ Stage' = Stage
  BY <1>2 DEF Name, Round, Current, Past, Before, Stage, StageAfter
<1>8. Subject' = q
  BY <1>2, <1>6 DEF Subject
<1>9. RunnerTypeOK'
  BY <1>1, <1>2, <1>6, <1>7 DEF RunnerTypeOK
<1>10. StartsRest' /\ FinishesRest' /\ LoginsRest' /\ AssertionsRest' /\ LogoutsRest'
  <2>1. /\ q \in RegStarts => startPc[q] = "done"
        /\ q \in RegFinishes => finishPc[q] = "done"
        /\ q \in LoginStarts => loginPc[q] = "done"
        /\ q \in LoginFinishes => assertPc[q] = "done"
        /\ q \in Logouts => logoutPc[q] = "done"
    BY <1>2, EachKind
  <2>2. StartsRest'
    BY <1>1, <1>2, <2>1 DEF StartsRest, OnEach, Rest, sliceVars, startVars
  <2>3. FinishesRest'
    BY <1>1, <1>2, <2>1 DEF FinishesRest, OnEach, Rest, sliceVars, finishVars
  <2>4. LoginsRest'
    BY <1>1, <1>2, <2>1 DEF LoginsRest, OnEach, Rest, sliceVars, loginVars
  <2>5. AssertionsRest'
    BY <1>1, <1>2, <2>1 DEF AssertionsRest, OnEach, Rest, sliceVars, assertVars
  <2>6. LogoutsRest'
    BY <1>1, <1>2, <2>1 DEF LogoutsRest, OnEach, Rest, sliceVars, logoutVars
  <2> QED
    BY <2>2, <2>3, <2>4, <2>5, <2>6
<1>11. RowsAreAnswered' /\ ScenariosPass' /\ NothingIsLeft'
  BY <1>1, <1>2, <1>4, RowsKept DEF ScenariosPass, NothingIsLeft, sliceVars
<1>12. WorldIsSet'
  <2>1. Account(world.accessToken) => Account(world.accessToken)'
    BY <1>2, <1>6, <1>7, AccountKept DEF sliceVars
  <2> QED
    BY <1>1, <1>2, <1>4, <1>6, <1>7, <2>1 DEF WorldIsSet
<1>13. LastRequest'
  BY <1>1, <1>2, <1>4, <1>6, <1>7, <1>8, RegisteringKept, AttestingKept,
     LoggingInKept,
     AssertingKept, LoggingOutKept DEF LastRequest, sliceVars
<1>14. ResponseIsRead'
  <2>1. At(q)' = "done" /\ Reply(q)' = Reply(q)
    BY <1>2, AnswersKept
  <2>2. world'.lastResponse.request = q /\ world'.lastResponse.code = Reply(q)
    BY <1>6
  <2> QED
    BY <1>2, <1>6, <2>1, <2>2 DEF ResponseIsRead
<1> QED
  BY <1>9, <1>10, <1>11, <1>12, <1>13, <1>14 DEF TestsInvariant

(* Nothing changes when nothing happens, and after the last scenario.      *)
LEMMA StutteringKeeps ==
    ASSUME TestsInvariant, UNCHANGED testsVars
    PROVE  TestsInvariant'
<1>1. /\ RunnerTypeOK /\ ScenariosPass /\ WorldIsSet /\ LastRequest /\ RowsAreAnswered
      /\ StartsRest /\ FinishesRest /\ LoginsRest /\ AssertionsRest /\ LogoutsRest
      /\ NothingIsLeft /\ ResponseIsRead
  BY DEF TestsInvariant
<1>2. /\ UNCHANGED <<now, boots, db, view, writer, sliceVars>>
      /\ UNCHANGED <<profile, plan, stepNo, verdicts, world, inFlight, junk>>
  BY DEF testsVars, storeVars, runnerVars
<1>3. Name' = Name /\ Round' = Round /\ Current' = Current /\ Past' = Past /\ Stage' = Stage
  BY <1>2 DEF Name, Round, Current, Past, Before, Stage, StageAfter
<1>4. Subject' = Subject
  BY <1>2 DEF Subject
<1>5. RunnerTypeOK'
  BY <1>1, <1>2, <1>3 DEF RunnerTypeOK
<1>6. StartsRest' /\ FinishesRest' /\ LoginsRest' /\ AssertionsRest' /\ LogoutsRest'
  BY <1>1, <1>2, SlicesRest DEF sliceVars
<1>7. RowsAreAnswered' /\ ScenariosPass' /\ NothingIsLeft'
  BY <1>1, <1>2, RowsKept DEF ScenariosPass, NothingIsLeft, sliceVars
<1>8. WorldIsSet'
  <2>1. Account(world.accessToken) => Account(world.accessToken)'
    BY <1>2, <1>3, AccountKept DEF sliceVars
  <2> QED
    BY <1>1, <1>2, <1>3, <2>1 DEF WorldIsSet
<1>9. LastRequest'
  BY <1>1, <1>2, <1>3, <1>4, RegisteringKept, AttestingKept, LoggingInKept,
     AssertingKept, LoggingOutKept DEF LastRequest, sliceVars
<1>10. ResponseIsRead'
  <2> DEFINE q == world.lastResponse.request
  <2>1. At(q)' = At(q) /\ Reply(q)' = Reply(q)
    BY <1>2, AnswersKept DEF At, Reply
  <2> QED
    BY <1>1, <1>2, <1>3, <2>1 DEF ResponseIsRead
<1> QED
  BY <1>5, <1>6, <1>7, <1>8, <1>9, <1>10 DEF TestsInvariant

----------------------------------------------------------------------------
(* The steps of the service.                                               *)

(* Only the last request of the scenario runs, and while the runner waits  *)
(* for the answer to an attestation it has kept no tokens yet.             *)
LEMMA OnlyTheLastRuns ==
    ASSUME TestsInvariant
    PROVE  /\ \A r \in RegStarts : startPc[r] \notin {"idle", "done"} =>
                 r = inFlight /\ Stage = "register" /\ Registering(r)
           /\ \A p \in RegFinishes : finishPc[p] \notin {"idle", "done"} =>
                 /\ p = inFlight /\ Stage = "attest" /\ Attesting(p)
                 /\ "keepTokens" \notin Past
           /\ \A r \in LoginStarts : loginPc[r] \notin {"idle", "done"} =>
                 r = inFlight /\ Stage = "login" /\ LoggingIn(world.accessToken, r)
           /\ \A q \in LoginFinishes : assertPc[q] \notin {"idle", "done"} =>
                 q = inFlight /\ Stage = "assert" /\ Asserting(world.accessToken, q)
           /\ \A l \in Logouts : logoutPc[l] \notin {"idle", "done"} =>
                 l = inFlight /\ Stage = "logout" /\ LoggingOut(l)
<1>1. /\ StartsRest /\ FinishesRest /\ LoginsRest /\ AssertionsRest /\ LogoutsRest
      /\ WorldIsSet /\ LastRequest
  BY DEF TestsInvariant
<1>2. None \notin Requests
  BY KindsAreDisjoint
<1>3. ASSUME NEW q \in Requests, q = inFlight
      PROVE  /\ q \in RegStarts => Stage = "register" /\ Registering(q)
             /\ q \in RegFinishes => Stage = "attest" /\ Attesting(q)
             /\ q \in LoginStarts => Stage = "login" /\ LoggingIn(world.accessToken, q)
             /\ q \in LoginFinishes => Stage = "assert" /\ Asserting(world.accessToken, q)
             /\ q \in Logouts => Stage = "logout" /\ LoggingOut(q)
  <2>1. inFlight # None
    BY <1>2, <1>3
  <2>2. CASE Stage = "register"
    BY <1>3, <2>1, <2>2, Sent, KindsAreDisjoint DEF Registering
  <2>3. CASE Stage = "attest"
    BY <1>3, <2>1, <2>3, Sent, KindsAreDisjoint DEF Attesting, Ceremony
  <2>4. CASE Stage = "login"
    BY <1>3, <2>1, <2>4, Sent, KindsAreDisjoint DEF LoggingIn
  <2>5. CASE Stage = "assert"
    BY <1>3, <2>1, <2>5, Sent, KindsAreDisjoint DEF Asserting
  <2>6. CASE Stage = "logout"
    BY <1>3, <2>1, <2>6, Sent, KindsAreDisjoint DEF LoggingOut
  <2> QED
    BY <2>1, <2>2, <2>3, <2>4, <2>5, <2>6, Sent, Stages
<1>4. ASSUME NEW r \in RegStarts, startPc[r] \notin {"idle", "done"}
      PROVE  r = inFlight /\ Stage = "register" /\ Registering(r)
  BY <1>1, <1>3, <1>4 DEF StartsRest, Rest, Requests
<1>5. ASSUME NEW p \in RegFinishes, finishPc[p] \notin {"idle", "done"}
      PROVE  /\ p = inFlight /\ Stage = "attest" /\ Attesting(p)
             /\ "keepTokens" \notin Past
  <2>1. p = inFlight /\ p \in Requests
    BY <1>1, <1>5 DEF FinishesRest, Rest, Requests
  <2>2. Stage = "attest" /\ Attesting(p)
    BY <1>3, <2>1
  <2>3. stepNo # None /\ Subject = p
    BY <1>2, <2>1, Sent
  <2> QED
    BY <1>1, <1>5, <2>1, <2>2, <2>3 DEF LastRequest, WorldIsSet, Account
<1>6. ASSUME NEW r \in LoginStarts, loginPc[r] \notin {"idle", "done"}
      PROVE  r = inFlight /\ Stage = "login" /\ LoggingIn(world.accessToken, r)
  BY <1>1, <1>3, <1>6 DEF LoginsRest, Rest, Requests
<1>7. ASSUME NEW q \in LoginFinishes, assertPc[q] \notin {"idle", "done"}
      PROVE  q = inFlight /\ Stage = "assert" /\ Asserting(world.accessToken, q)
  BY <1>1, <1>3, <1>7 DEF AssertionsRest, Rest, Requests
<1>8. ASSUME NEW l \in Logouts, logoutPc[l] \notin {"idle", "done"}
      PROVE  l = inFlight /\ Stage = "logout" /\ LoggingOut(l)
  BY <1>1, <1>3, <1>8 DEF LogoutsRest, Rest, Requests
<1> QED
  BY <1>4, <1>5, <1>6, <1>7, <1>8

(* The parts of the invariant that a step of the service leaves to no      *)
(* slice.                                                                  *)
LEMMA ServiceStep ==
    ASSUME TestsInvariant, inFlight # None, UNCHANGED <<now, boots, runnerVars>>,
           "keepTokens" \in Past => Account(world.accessToken)'
    PROVE  /\ RunnerTypeOK' /\ NothingIsLeft' /\ ScenariosPass' /\ WorldIsSet'
           /\ ResponseIsRead'
           /\ stepNo # None /\ Stage' = Stage /\ Past' = Past /\ Subject' = inFlight
           /\ Name' = Name /\ DiskIsFull' = DiskIsFull /\ inFlight' = inFlight
           /\ world' = world /\ junk' = junk
<1>1. RunnerTypeOK /\ ScenariosPass /\ WorldIsSet /\ NothingIsLeft /\ ResponseIsRead
  BY DEF TestsInvariant
<1>2. /\ RunnerTypeOK' /\ ScenariosPass'
      /\ stepNo' = stepNo /\ Name' = Name /\ Past' = Past /\ Stage' = Stage
      /\ Subject' = Subject /\ DiskIsFull' = DiskIsFull
      /\ inFlight' = inFlight /\ world' = world /\ junk' = junk /\ profile' = profile
  BY <1>1, RunnerWaits
<1>3. stepNo # None /\ Subject = inFlight
  BY Sent
<1>4. NothingIsLeft' /\ WorldIsSet' /\ ResponseIsRead'
  BY <1>1, <1>2, <1>3 DEF NothingIsLeft, WorldIsSet, ResponseIsRead
<1> QED
  BY <1>2, <1>3, <1>4

(* A request that moves leaves the others at rest.                         *)
LEMMA RestMoves ==
    ASSUME NEW X, NEW pc, NEW reply, NEW f, NEW g, Rest(X, pc, reply),
           NEW q \in X, q = inFlight, f[q] # "idle",
           \A x \in X : x # q => f[x] = pc[x] /\ g[x] = reply[x]
    PROVE  Rest(X, f, g)
BY DEF Rest

(* Where the request is that the runner waits for.                         *)
LEMMA AtInFlight ==
    ASSUME NEW q, q = inFlight, inFlight' = inFlight
    PROVE  At(inFlight)' = At(q)'
BY DEF At

(* POST /v1/registrations is answered OK: nothing is in its way.           *)
LEMMA StartProceedsKeeps ==
    ASSUME TestsInvariant, NEW r \in RegStarts, StartProceeds(r),
           UNCHANGED <<finishVars, loginVars, assertVars, logoutVars>>,
           UNCHANGED runnerVars, At(inFlight)' # "lost"
    PROVE  TestsInvariant'
<1>1. /\ StartsRest /\ FinishesRest /\ LoginsRest /\ AssertionsRest /\ LogoutsRest
      /\ RowsAreAnswered /\ WorldIsSet /\ RunnerTypeOK
  BY DEF TestsInvariant
<1>2. r = inFlight /\ Stage = "register" /\ Registering(r)
  <2>1. startPc[r] \notin {"idle", "done"}
    BY DEF StartProceeds, PersistRegistrationSession, RespondStart
  <2> QED
    BY <2>1, OnlyTheLastRuns
<1>3. inFlight # None /\ "keepTokens" \notin Past
  <2>1. inFlight # None
    BY <1>2, KindsAreDisjoint DEF Requests
  <2>2. Consistent(Name, stepNo)
    BY <2>1, Sent
  <2> QED
    BY <1>2, <2>1, <2>2 DEF Consistent, Stage, Past
<1>4. UNCHANGED <<now, boots>>
  BY DEF StartProceeds, PersistRegistrationSession, RespondStart, Autocommit,
     storeVars
<1>5. /\ RunnerTypeOK' /\ NothingIsLeft' /\ ScenariosPass' /\ WorldIsSet'
      /\ ResponseIsRead'
      /\ stepNo # None /\ Stage' = Stage /\ Past' = Past /\ Subject' = r
      /\ Name' = Name /\ inFlight' = inFlight /\ junk' = junk
  BY <1>2, <1>3, <1>4, ServiceStep
<1>6. startPc'[r] # "lost"
  BY <1>2, <1>5, EachKind, AtInFlight
<1>7. /\ \/ startPc[r] = "persist" /\ startPc' = [startPc EXCEPT ![r] = "respond"]
            /\ startReply' = [startReply EXCEPT ![r] = "OK"]
            /\ db' = InsertRow(db, "registration_sessions", SessionRow(r))
         \/ startPc[r] = "respond" /\ startPc' = [startPc EXCEPT ![r] = "done"]
            /\ startReply' = startReply /\ db' = db
      /\ opened' = opened /\ writer' = writer
  <2>1. CASE PersistRegistrationSession(r)
    BY <2>1 DEF PersistRegistrationSession, AnswerStart, Autocommit
  <2>2. CASE RespondStart(r)
    <3>1. PICK end \in {"done", "lost"} : startPc' = [startPc EXCEPT ![r] = end]
      BY <2>2 DEF RespondStart
    <3>2. startPc'[r] = end
      BY <1>1, <3>1, Updated DEF StartsRest
    <3>3. end = "done"
      BY <1>6, <3>1, <3>2
    <3> QED
      BY <2>2, <3>1, <3>3 DEF RespondStart, storeVars
  <2> QED
    BY <2>1, <2>2 DEF StartProceeds
<1>8. /\ OnEach(RegStarts, startPc)' /\ OnEach(RegStarts, startReply)'
      /\ startPc'[r] \in {"respond", "done"} /\ startReply'[r] = "OK"
      /\ \A x \in RegStarts : x # r => /\ startPc'[x] = startPc[x]
                                       /\ startReply'[x] = startReply[x]
  <2>1. startPc[r] = "respond" => startReply[r] = "OK"
    BY <1>2 DEF Registering
  <2>2. startPc' = [startPc EXCEPT ![r] = "respond"] \/ startPc' = [startPc EXCEPT ![r] = "done"]
    BY <1>7
  <2>3. /\ OnEach(RegStarts, startPc)' /\ startPc'[r] \in {"respond", "done"}
        /\ \A x \in RegStarts : x # r => startPc'[x] = startPc[x]
    BY <1>1, <2>2, Updated DEF StartsRest, OnEach
  <2>4. /\ OnEach(RegStarts, startReply)' /\ startReply'[r] = "OK"
        /\ \A x \in RegStarts : x # r => startReply'[x] = startReply[x]
    BY <1>1, <1>7, <2>1, Updated DEF StartsRest, OnEach
  <2> QED
    BY <2>3, <2>4
<1>9. StartsRest'
  <2>1. Rest(RegStarts, startPc', startReply')
    BY <1>1, <1>2, <1>8, RestMoves DEF StartsRest
  <2> QED
    BY <1>1, <1>5, <1>7, <1>8, <2>1 DEF StartsRest, OnEach, Rest
<1>10. FinishesRest' /\ LoginsRest' /\ AssertionsRest' /\ LogoutsRest'
  BY <1>1, <1>5, SlicesRest
<1>11. SessionRow(r)' = SessionRow(r)
  BY <1>7 DEF SessionRow
<1>12. db' = OpenedImage(r)
  BY <1>2, <1>7 DEF Registering, OpenedImage, EmptyDatabase, InsertRow
<1>13. Registering(r)'
  <2>1. OpenedImage(r)' = OpenedImage(r)
    BY <1>11 DEF OpenedImage
  <2>2. junk' => startPc'[r] = "done"
    BY <1>2, <1>5, <1>7 DEF Registering
  <2> QED
    BY <1>2, <1>4, <1>5, <1>7, <1>8, <1>12, <2>1, <2>2 DEF Registering
<1>14. LastRequest'
  BY <1>2, <1>5, <1>13 DEF LastRequest
<1>15. RowsAreAnswered'
  BY <1>12 DEF RowsAreAnswered, OpenedImage, EmptyDatabase
<1> QED
  BY <1>5, <1>9, <1>10, <1>14, <1>15 DEF TestsInvariant

(* A step of an attestation touches what is its own.                       *)
LEMMA FinishMoves ==
    ASSUME FinishesRest, NEW p \in RegFinishes, p = inFlight, inFlight' = inFlight,
           FinishProceeds(p) \/ \E f \in {"busy", "full"} : WriteFails(p, f)
    PROVE  /\ FinishesRest' /\ command' = command /\ UNCHANGED <<now, boots>>
           /\ finishPc[p] \notin {"idle", "done"}
<1>1. PICK pc \in FinishRunning \cup {"done", "lost"} :
         finishPc' = [finishPc EXCEPT ![p] = pc]
  BY DEF FinishProceeds, LoadRegistrationSession, SessionNotFound,
     VerifyAttestation,
     SessionExpired, AttestationInvalid, IssueTokenPair, InsertUser,
     InsertUserConflicts, InsertCredential, InsertCredentialConflicts,
     InsertRefreshToken, DeleteSession, CommitRegistration, RespondFinish, WriteFails,
     GoTo, Answer, FinishRunning, InTransaction
<1>2. finishReply' = finishReply \/ \E c : finishReply' = [finishReply EXCEPT ![p] = c]
  BY DEF FinishProceeds, LoadRegistrationSession, SessionNotFound,
     VerifyAttestation,
     SessionExpired, AttestationInvalid, IssueTokenPair, InsertUser,
     InsertUserConflicts, InsertCredential, InsertCredentialConflicts,
     InsertRefreshToken, DeleteSession, CommitRegistration, RespondFinish, WriteFails,
     Answer
<1>3. /\ loaded' = loaded \/ \E row : loaded' = [loaded EXCEPT ![p] = row]
      /\ issued' = issued \/ \E pair : issued' = [issued EXCEPT ![p] = pair]
      /\ command' = command
  BY DEF FinishProceeds, LoadRegistrationSession, SessionNotFound,
     VerifyAttestation,
     SessionExpired, AttestationInvalid, IssueTokenPair, InsertUser,
     InsertUserConflicts, InsertCredential, InsertCredentialConflicts,
     InsertRefreshToken, DeleteSession, CommitRegistration, RespondFinish, WriteFails
<1>4. UNCHANGED <<now, boots>> /\ finishPc[p] \notin {"idle", "done"}
  BY DEF FinishProceeds, LoadRegistrationSession, SessionNotFound,
     VerifyAttestation,
     SessionExpired, AttestationInvalid, IssueTokenPair, InsertUser,
     InsertUserConflicts, InsertCredential, InsertCredentialConflicts,
     InsertRefreshToken, DeleteSession, CommitRegistration, RespondFinish, WriteFails,
     FirstWrite, NextWrite, Commit, Rollback, storeVars, InTransaction
<1>5. /\ OnEach(RegFinishes, finishPc)' /\ finishPc'[p] # "idle"
      /\ \A x \in RegFinishes : x # p => finishPc'[x] = finishPc[x]
  BY <1>1, Updated DEF FinishesRest, OnEach, FinishRunning, InTransaction
<1>6. /\ OnEach(RegFinishes, finishReply)'
      /\ \A x \in RegFinishes : x # p => finishReply'[x] = finishReply[x]
  BY <1>2, Updated DEF FinishesRest, OnEach
<1>7. OnEach(RegFinishes, loaded)' /\ OnEach(RegFinishes, issued)'
  BY <1>3, Updated DEF FinishesRest, OnEach
<1>8. Rest(RegFinishes, finishPc', finishReply')
  BY <1>5, <1>6, RestMoves DEF FinishesRest
<1> QED
  BY <1>3, <1>4, <1>5, <1>6, <1>7, <1>8 DEF FinishesRest, OnEach, Rest

(* The rows, once an attestation has come that far.                        *)
LEMMA AttestingAnswers ==
    ASSUME NEW p, Attesting(p)'
    PROVE  RowsAreAnswered'
<1>1. /\ p \in RegFinishes
      /\ db' = IF finishReply'[p] = "OK" THEN AccountImage(p)'
               ELSE OpenedImage(command[p].id)'
  BY DEF Attesting, Ceremony
<1> QED
  BY <1>1 DEF RowsAreAnswered, AccountImage, OpenedImage, EmptyDatabase, UserOf,
              CredentialOf, RefreshTokenOf

(* What is known of an attestation that a step of its own has come to.     *)
LEMMA AttestationGoes ==
    ASSUME NEW p, Attesting(p), Name' = Name, world'.credential = world.credential,
           UNCHANGED <<now, boots, opened, command>>
    PROVE  /\ Ceremony(p)'
           /\ SessionRow(command[p].id)' = SessionRow(command[p].id)
           /\ OpenedImage(command[p].id)' = OpenedImage(command[p].id)
           /\ loaded'[p] = loaded[p] => UserOf(p)' = UserOf(p)
           /\ CredentialOf(p)' = CredentialOf(p)
           /\ issued'[p] = issued[p] => RefreshTokenOf(p)' = RefreshTokenOf(p)
<1>1. Ceremony(p)'
  BY DEF Attesting, Ceremony
<1>2. SessionRow(command[p].id)' = SessionRow(command[p].id)
  BY DEF SessionRow
<1>3. OpenedImage(command[p].id)' = OpenedImage(command[p].id)
  BY <1>2 DEF OpenedImage
<1> QED
  BY <1>1, <1>2, <1>3 DEF UserOf, CredentialOf, RefreshTokenOf

(* An attestation is answered OK, unless the disk is full.                 *)
LEMMA FinishProceedsAttests ==
    ASSUME TestsInvariant, NEW p \in RegFinishes, FinishProceeds(p), Attesting(p),
           FinishesRest, FinishesRest', Ceremony(p)', command' = command,
           UNCHANGED <<now, boots, startVars>>,
           Name' = Name, world' = world, DiskIsFull' = DiskIsFull,
           DiskIsFull => db' = db, finishPc'[p] # "lost"
    PROVE  Attesting(p)'
<1> DEFINE row == SessionRow(command[p].id)
<1>1. /\ row' = row /\ OpenedImage(command[p].id)' = OpenedImage(command[p].id)
      /\ loaded'[p] = loaded[p] => UserOf(p)' = UserOf(p)
      /\ CredentialOf(p)' = CredentialOf(p)
      /\ issued'[p] = issued[p] => RefreshTokenOf(p)' = RefreshTokenOf(p)
  BY AttestationGoes DEF startVars
<1>2. /\ row.id = command[p].id /\ row.handle = HandleOf(Name)
      /\ row.expires_at = Unix(now + ChallengeTTL)
      /\ command[p].challenge = command[p].id
  BY DEF Attesting, Ceremony, SessionRow, NewRegistrationSession
<1> HIDE DEF row
<1>3. /\ OnEach(RegFinishes, finishPc) /\ OnEach(RegFinishes, finishReply)
      /\ OnEach(RegFinishes, loaded) /\ OnEach(RegFinishes, issued)
      /\ OnEach(RegFinishes, finishPc)' /\ OnEach(RegFinishes, finishReply)'
  BY DEF FinishesRest
<1>4. /\ finishPc[p] # "load" => loaded[p] = row
      /\ finishPc[p] \notin {"load", "check", "issue"} =>
            issued[p] = GenerateTokenPair(now, boots)
      /\ finishReply[p] = IF finishPc[p] \notin {"respond", "done"} THEN None
                          ELSE IF DiskIsFull THEN "db_disk_full" ELSE "OK"
      /\ db = IF finishReply[p] = "OK" THEN AccountImage(p)
              ELSE OpenedImage(command[p].id)
      /\ writer = IF finishPc[p] \in InTransaction THEN p ELSE None
      /\ finishPc[p] \in InTransaction => view = FinishView(p)
  BY DEF Attesting, row
<1>5. finishPc[p] \notin {"respond", "done"} =>
         finishReply[p] = None /\ db = OpenedImage(command[p].id)
  BY <1>4, StoreAssumption DEF Codes
<1>6. /\ OpenedImage(command[p].id).registration_sessions = {row}
      /\ OpenedImage(command[p].id).users = {}
      /\ OpenedImage(command[p].id).credentials = {}
      /\ OpenedImage(command[p].id).refresh_tokens = {}
      /\ OpenedImage(command[p].id).login_sessions = {}
  BY DEF OpenedImage, EmptyDatabase, row
<1>7. p # None /\ None # "OK"
  BY StoreAssumption DEF Codes
<1>8. CASE LoadRegistrationSession(p)
  <2>1. /\ finishPc[p] = "load" /\ finishReply' = finishReply /\ issued' = issued
        /\ finishPc' = [finishPc EXCEPT ![p] = "check"]
        /\ UNCHANGED <<db, view, writer>>
    BY <1>8 DEF LoadRegistrationSession, GoTo, storeVars
  <2>2. loaded' = [loaded EXCEPT ![p] = row]
    BY <1>5, <1>6, <1>8, <2>1 DEF LoadRegistrationSession
  <2>3. finishPc'[p] = "check" /\ loaded'[p] = row
    BY <1>3, <2>1, <2>2, Updated
  <2> QED
    BY <1>1, <1>4, <1>5, <1>7, <2>1, <2>3 DEF Attesting, InTransaction, row
<1>9. CASE SessionNotFound(p)
  BY <1>2, <1>5, <1>6, <1>9 DEF SessionNotFound
<1>10. ASSUME finishPc[p] = "check"  PROVE  FreshSession(p, now) /\ Verified(command[p], loaded[p])
  <2>1. loaded[p] = row /\ now \in Nat
    BY <1>4, <1>10 DEF TestsInvariant, RunnerTypeOK
  <2>2. Fresh(now, FromUnix(Unix(now + ChallengeTTL)))
    BY <2>1, FreshWhenMade, LifetimesAssumption, ChallengeTTLAssumption
  <2> QED
    BY <1>2, <2>1, <2>2 DEF FreshSession, Verified
<1>11. CASE VerifyAttestation(p)
  <2>1. /\ finishPc[p] = "check" /\ finishReply' = finishReply /\ issued' = issued
        /\ loaded' = loaded
        /\ finishPc' = [finishPc EXCEPT ![p] = "issue"]
        /\ UNCHANGED <<db, view, writer>>
    BY <1>11 DEF VerifyAttestation, GoTo, storeVars
  <2>2. finishPc'[p] = "issue"
    BY <1>3, <2>1, Updated
  <2> QED
    BY <1>1, <1>4, <1>5, <1>7, <2>1, <2>2 DEF Attesting, InTransaction, row
<1>12. CASE SessionExpired(p)
  BY <1>10, <1>12 DEF SessionExpired
<1>13. CASE AttestationInvalid(p)
  BY <1>10, <1>13 DEF AttestationInvalid
<1>14. CASE IssueTokenPair(p)
  <2>1. /\ finishPc[p] = "issue" /\ finishReply' = finishReply /\ loaded' = loaded
        /\ issued' = [issued EXCEPT ![p] = GenerateTokenPair(now, boots)]
        /\ finishPc' = [finishPc EXCEPT ![p] = "insertUser"]
        /\ UNCHANGED <<db, view, writer>>
    BY <1>14 DEF IssueTokenPair, GoTo, storeVars
  <2>2. finishPc'[p] = "insertUser" /\ issued'[p] = GenerateTokenPair(now, boots)
    BY <1>3, <2>1, Updated
  <2> QED
    BY <1>1, <1>4, <1>5, <1>7, <2>1, <2>2 DEF Attesting, InTransaction, row
<1>15. CASE InsertUser(p)
  <2>1. /\ finishPc[p] = "insertUser" /\ finishReply' = finishReply /\ loaded' = loaded
        /\ issued' = issued /\ db' = db /\ writer' = p
        /\ view' = InsertRow(db, "users", UserOf(p))
        /\ finishPc' = [finishPc EXCEPT ![p] = "insertCredential"]
    BY <1>15 DEF InsertUser, FirstWrite, GoTo
  <2>2. finishPc'[p] = "insertCredential"
    BY <1>3, <2>1, Updated
  <2>3. view' = FinishView(p)'
    BY <1>1, <1>5, <2>1, <2>2
       DEF FinishView, InsertRow, OpenedImage, EmptyDatabase
  <2> QED
    BY <1>1, <1>4, <1>5, <1>7, <2>1, <2>2, <2>3
       DEF Attesting, InTransaction, row
<1>16. CASE InsertUserConflicts(p)
  BY <1>5, <1>6, <1>16 DEF InsertUserConflicts, HandleTaken
<1>17. CASE InsertCredential(p)
  <2>1. /\ finishPc[p] = "insertCredential" /\ finishReply' = finishReply
        /\ loaded' = loaded /\ issued' = issued /\ db' = db /\ writer' = writer
        /\ view' = InsertRow(view, "credentials", CredentialOf(p))
        /\ finishPc' = [finishPc EXCEPT ![p] = "insertRefreshToken"]
    BY <1>17 DEF InsertCredential, NextWrite, GoTo
  <2>2. finishPc'[p] = "insertRefreshToken"
    BY <1>3, <2>1, Updated
  <2>3. view = FinishView(p)
    BY <1>4, <2>1 DEF InTransaction
  <2>4. view' = FinishView(p)'
    BY <1>1, <2>1, <2>2, <2>3 DEF FinishView, InsertRow, row
  <2> QED
    BY <1>1, <1>4, <1>5, <1>7, <2>1, <2>2, <2>4
       DEF Attesting, InTransaction, row
<1>18. CASE InsertCredentialConflicts(p)
  BY <1>4, <1>18
     DEF InsertCredentialConflicts, CredentialExists, FinishView,
         InTransaction
<1>19. CASE InsertRefreshToken(p)
  <2>1. /\ finishPc[p] = "insertRefreshToken" /\ finishReply' = finishReply
        /\ loaded' = loaded /\ issued' = issued /\ db' = db /\ writer' = writer
        /\ view' = InsertRow(view, "refresh_tokens", RefreshTokenOf(p))
        /\ finishPc' = [finishPc EXCEPT ![p] = "deleteSession"]
    BY <1>19 DEF InsertRefreshToken, NextWrite, GoTo
  <2>2. finishPc'[p] = "deleteSession"
    BY <1>3, <2>1, Updated
  <2>3. view = FinishView(p)
    BY <1>4, <2>1 DEF InTransaction
  <2>4. view' = FinishView(p)'
    BY <1>1, <2>1, <2>2, <2>3 DEF FinishView, InsertRow, row
  <2> QED
    BY <1>1, <1>4, <1>5, <1>7, <2>1, <2>2, <2>4
       DEF Attesting, InTransaction, row
<1>20. CASE DeleteSession(p)
  <2>1. /\ finishPc[p] = "deleteSession" /\ finishReply' = finishReply
        /\ loaded' = loaded /\ issued' = issued /\ db' = db /\ writer' = writer
        /\ view' = DeleteByID(view, "registration_sessions", loaded[p].id)
        /\ finishPc' = [finishPc EXCEPT ![p] = "commit"]
    BY <1>20 DEF DeleteSession, NextWrite, GoTo
  <2>2. finishPc'[p] = "commit"
    BY <1>3, <2>1, Updated
  <2>3. view = FinishView(p) /\ view.registration_sessions = {row} /\ loaded[p] = row
    BY <1>4, <2>1 DEF InTransaction, FinishView, row
  <2>4. {s \in view.registration_sessions : s.id # loaded[p].id} = {}
    BY <2>3
  <2>5. view' = FinishView(p)'
    BY <1>1, <2>1, <2>2, <2>3, <2>4 DEF FinishView, DeleteByID, row
  <2> QED
    BY <1>1, <1>4, <1>5, <1>7, <2>1, <2>2, <2>5
       DEF Attesting, InTransaction, row
<1>21. CASE CommitRegistration(p)
  <2>1. /\ finishPc[p] = "commit" /\ loaded' = loaded /\ issued' = issued
        /\ db' = view /\ writer' = None
        /\ finishReply' = [finishReply EXCEPT ![p] = "OK"]
        /\ finishPc' = [finishPc EXCEPT ![p] = "respond"]
    BY <1>21 DEF CommitRegistration, Commit, Answer, GoTo
  <2>2. finishPc'[p] = "respond" /\ finishReply'[p] = "OK"
    BY <1>3, <2>1, Updated
  <2>3. view = AccountImage(p)
    BY <1>4, <2>1 DEF InTransaction, FinishView, AccountImage
  <2>4. AccountImage(p)' = AccountImage(p)
    BY <1>1, <2>1 DEF AccountImage
  <2>5. ~DiskIsFull
    <3>1. AccountImage(p).users # {}
      BY DEF AccountImage
    <3> QED
      BY <1>5, <1>6, <2>1, <2>3, <3>1
  <2> QED
    BY <1>1, <1>4, <1>7, <2>1, <2>2, <2>3, <2>4, <2>5
       DEF Attesting, InTransaction, row
<1>22. CASE RespondFinish(p)
  <2>1. PICK end \in {"done", "lost"} : finishPc' = [finishPc EXCEPT ![p] = end]
    BY <1>22 DEF RespondFinish, GoTo
  <2>2. finishPc'[p] = end
    BY <1>3, <2>1, Updated
  <2>3. finishPc'[p] = "done"
    BY <2>1, <2>2
  <2>4. /\ finishPc[p] = "respond" /\ finishReply' = finishReply
        /\ loaded' = loaded /\ issued' = issued /\ UNCHANGED <<db, view, writer>>
    BY <1>22 DEF RespondFinish, storeVars
  <2>5. AccountImage(p)' = AccountImage(p)
    BY <1>1, <2>4 DEF AccountImage
  <2> QED
    BY <1>1, <1>4, <1>7, <2>3, <2>4, <2>5 DEF Attesting, InTransaction, row
<1> QED
  BY <1>8, <1>9, <1>11, <1>12, <1>13, <1>14, <1>15, <1>16, <1>17, <1>18, <1>19,
     <1>20, <1>21, <1>22 DEF FinishProceeds

(* POST /v1/registrations/{id}/attestation goes on.                        *)
LEMMA FinishProceedsKeeps ==
    ASSUME TestsInvariant, NEW p \in RegFinishes, FinishProceeds(p),
           UNCHANGED <<startVars, loginVars, assertVars, logoutVars>>,
           UNCHANGED runnerVars, At(inFlight)' # "lost", DiskIsFull => db' = db
    PROVE  TestsInvariant'
<1>1. /\ StartsRest /\ FinishesRest /\ LoginsRest /\ AssertionsRest /\ LogoutsRest
      /\ LastRequest
  BY DEF TestsInvariant
<1>2. inFlight' = inFlight
  BY DEF runnerVars
<1>3. finishPc[p] \notin {"idle", "done"}
  BY DEF FinishProceeds, LoadRegistrationSession, SessionNotFound,
     VerifyAttestation,
     SessionExpired, AttestationInvalid, IssueTokenPair, InsertUser,
     InsertUserConflicts, InsertCredential, InsertCredentialConflicts,
     InsertRefreshToken, DeleteSession, CommitRegistration, RespondFinish
<1>4. p = inFlight /\ Stage = "attest" /\ Attesting(p) /\ "keepTokens" \notin Past
  BY <1>3, OnlyTheLastRuns
<1>5. FinishesRest' /\ command' = command /\ UNCHANGED <<now, boots>>
  BY <1>1, <1>2, <1>4, FinishMoves
<1>6. inFlight # None
  BY <1>4, KindsAreDisjoint DEF Requests
<1>7. /\ RunnerTypeOK' /\ NothingIsLeft' /\ ScenariosPass' /\ WorldIsSet'
      /\ ResponseIsRead'
      /\ stepNo # None /\ Stage' = Stage /\ Past' = Past /\ Subject' = p
      /\ Name' = Name /\ world' = world /\ DiskIsFull' = DiskIsFull
  BY <1>4, <1>5, <1>6, ServiceStep
<1>8. Attesting(p)'
  <2>1. Ceremony(p)'
    BY <1>4, <1>5, <1>7, AttestationGoes DEF startVars
  <2>2. finishPc'[p] # "lost"
    BY <1>2, <1>4, EachKind, AtInFlight
  <2> QED
    BY <1>1, <1>4, <1>5, <1>7, <2>1, <2>2, FinishProceedsAttests
<1>9. StartsRest' /\ LoginsRest' /\ AssertionsRest' /\ LogoutsRest'
  BY <1>1, <1>2, SlicesRest
<1>10. LastRequest'
  BY <1>4, <1>7, <1>8 DEF LastRequest
<1>11. RowsAreAnswered'
  BY <1>8, AttestingAnswers
<1> QED
  BY <1>5, <1>7, <1>9, <1>10, <1>11 DEF TestsInvariant

(* A step of a request for a login session touches what is its own.        *)
LEMMA LoginMoves ==
    ASSUME LoginsRest, NEW r \in LoginStarts, r = inFlight, inFlight' = inFlight,
           LoginProceeds(r)
    PROVE  /\ LoginsRest' /\ UNCHANGED <<now, boots>>
<1>1. PICK pc \in LoginRunning \cup {"done", "lost"} : loginPc' = [loginPc EXCEPT ![r] = pc]
  BY DEF LoginProceeds, LoadCredentials, OpenLoginSession, PersistLoginSession,
     RespondLogin, LoginGoes, AnswerLogin, LoginRunning
<1>2. loginReply' = loginReply \/ \E c : loginReply' = [loginReply EXCEPT ![r] = c]
  BY DEF LoginProceeds, LoadCredentials, OpenLoginSession, PersistLoginSession,
     RespondLogin, AnswerLogin
<1>3. /\ session' = session \/ \E s : session' = [session EXCEPT ![r] = s]
      /\ user' = user
  BY DEF LoginProceeds, LoadCredentials, OpenLoginSession, PersistLoginSession,
     RespondLogin
<1>4. UNCHANGED <<now, boots>>
  BY DEF LoginProceeds, LoadCredentials, OpenLoginSession, PersistLoginSession,
     RespondLogin, Autocommit, storeVars
<1>5. /\ OnEach(LoginStarts, loginPc)' /\ loginPc'[r] # "idle"
      /\ \A x \in LoginStarts : x # r => loginPc'[x] = loginPc[x]
  BY <1>1, Updated DEF LoginsRest, OnEach, LoginRunning
<1>6. /\ OnEach(LoginStarts, loginReply)'
      /\ \A x \in LoginStarts : x # r => loginReply'[x] = loginReply[x]
  BY <1>2, Updated DEF LoginsRest, OnEach
<1>7. OnEach(LoginStarts, session)'
  BY <1>3, Updated DEF LoginsRest, OnEach
<1>8. Rest(LoginStarts, loginPc', loginReply')
  BY <1>5, <1>6, RestMoves DEF LoginsRest
<1> QED
  BY <1>3, <1>4, <1>5, <1>6, <1>7, <1>8 DEF LoginsRest, OnEach, Rest

(* POST /v1/sessions is answered OK.                                       *)
LEMMA LoginProceedsKeeps ==
    ASSUME TestsInvariant, NEW r \in LoginStarts, LoginProceeds(r),
           UNCHANGED <<startVars, finishVars, assertVars, logoutVars>>,
           UNCHANGED runnerVars, At(inFlight)' # "lost"
    PROVE  TestsInvariant'
<1>0. PICK p : p = world.accessToken
  OBVIOUS
<1>1. /\ StartsRest /\ FinishesRest /\ LoginsRest /\ AssertionsRest /\ LogoutsRest
      /\ LastRequest /\ RowsAreAnswered /\ WorldIsSet
  BY DEF TestsInvariant
<1>2. inFlight' = inFlight
  BY DEF runnerVars
<1>3. loginPc[r] \notin {"idle", "done"}
  BY DEF LoginProceeds, LoadCredentials, OpenLoginSession, PersistLoginSession,
     RespondLogin
<1>4. r = inFlight /\ Stage = "login" /\ LoggingIn(p, r)
  BY <1>0, <1>3, OnlyTheLastRuns
<1>5. LoginsRest' /\ UNCHANGED <<now, boots>>
  BY <1>1, <1>2, <1>4, LoginMoves
<1>6. inFlight # None
  BY <1>4, KindsAreDisjoint DEF Requests
<1>7. Account(p)
  <2>1. Consistent(Name, stepNo) /\ stepNo # None
    BY <1>6, Sent
  <2> QED
    BY <1>0, <1>1, <1>4, <2>1 DEF Consistent, Stage, Past, WorldIsSet
<1>8. Name' = Name /\ world' = world
  BY DEF runnerVars, Name, Round
<1>9. /\ Account(p)' /\ AccountImage(p)' = AccountImage(p) /\ UserOf(p)' = UserOf(p)
      /\ CredentialOf(p)' = CredentialOf(p) /\ RefreshTokenOf(p)' = RefreshTokenOf(p)
  BY <1>5, <1>7, <1>8, AccountKept
<1>10. /\ RunnerTypeOK' /\ NothingIsLeft' /\ ScenariosPass' /\ WorldIsSet'
       /\ ResponseIsRead'
       /\ stepNo # None /\ Stage' = Stage /\ Past' = Past /\ Subject' = r
  BY <1>0, <1>4, <1>5, <1>6, <1>8, <1>9, ServiceStep
<1>11. /\ OnEach(LoginStarts, loginPc) /\ OnEach(LoginStarts, loginReply)
       /\ OnEach(LoginStarts, session)
  BY <1>1 DEF LoginsRest
<1>12. /\ loginPc[r] \in {"credentials", "open", "persist", "respond", "done"}
       /\ user[r] = UserOf(p)
       /\ loginPc[r] \in {"persist", "respond", "done"} =>
             session[r] = NewLoginSession(p, now)
       /\ loginReply[r] = IF loginPc[r] \in {"respond", "done"} THEN "OK" ELSE None
       /\ db = IF loginReply[r] = "OK" THEN ChallengedImage(p, r) ELSE AccountImage(p)
       /\ writer = IF world.lockConn THEN Runner ELSE None
       /\ world.lockConn => loginPc[r] = "done"
  BY <1>4 DEF LoggingIn
<1>13. None # "OK"
  BY StoreAssumption DEF Codes
<1>14. ~world.lockConn /\ writer = None
  BY <1>3, <1>12
<1>15. loginPc[r] # "respond" => loginReply[r] = None /\ db = AccountImage(p)
  BY <1>3, <1>12, <1>13
<1> DEFINE SameAccount == UNCHANGED <<db.users, db.credentials, db.refresh_tokens>>
<1>16. ASSUME LoadCredentials(r)  PROVE  LoggingIn(p, r)' /\ SameAccount
  <2>1. /\ loginPc[r] = "credentials"
        /\ user' = user /\ session' = session /\ UNCHANGED <<db, writer>>
    BY <1>16 DEF LoadCredentials, storeVars
  <2>2. CredentialsOf(user[r]) # {}
    <3>1. db.credentials = {CredentialOf(p)} /\ user[r].id = p
      BY <1>12, <1>15, <2>1 DEF AccountImage, UserOf
    <3>2. CredentialOf(p) \in CredentialsOf(user[r])
      BY <3>1 DEF CredentialsOf, CredentialOf
    <3> QED
      BY <3>2
  <2>3. loginPc' = [loginPc EXCEPT ![r] = "open"] /\ loginReply' = loginReply
    BY <1>16, <2>2 DEF LoadCredentials, LoginGoes
  <2>4. loginPc'[r] = "open"
    BY <1>11, <2>3, Updated
  <2>5. LoggingIn(p, r)'
    BY <1>8, <1>9, <1>12, <1>13, <1>14, <1>15, <2>1, <2>3, <2>4 DEF LoggingIn
  <2> QED
    BY <2>1, <2>5
<1>17. ASSUME OpenLoginSession(r)  PROVE  LoggingIn(p, r)' /\ SameAccount
  <2>1. /\ loginPc[r] = "open"
        /\ user' = user /\ loginReply' = loginReply /\ UNCHANGED <<db, writer>>
        /\ session' = [session EXCEPT ![r] = NewLoginSession(user[r].id, now)]
        /\ loginPc' = [loginPc EXCEPT ![r] = "persist"]
    BY <1>17 DEF OpenLoginSession, LoginGoes, storeVars
  <2>2. loginPc'[r] = "persist" /\ session'[r] = NewLoginSession(p, now)
    BY <1>11, <1>12, <2>1, Updated DEF UserOf
  <2>3. LoggingIn(p, r)'
    BY <1>5, <1>8, <1>9, <1>12, <1>13, <1>14, <1>15, <2>1, <2>2 DEF LoggingIn
  <2> QED
    BY <2>1, <2>3
<1>18. ASSUME PersistLoginSession(r)  PROVE  LoggingIn(p, r)' /\ SameAccount
  <2>1. /\ loginPc[r] = "persist"
        /\ user' = user /\ session' = session
        /\ db' = InsertRow(db, "login_sessions", LoginSessionRowOf(r))
        /\ loginReply' = [loginReply EXCEPT ![r] = "OK"]
        /\ loginPc' = [loginPc EXCEPT ![r] = "respond"] /\ writer' = writer
    BY <1>18 DEF PersistLoginSession, AnswerLogin, LoginGoes, Autocommit
  <2>2. loginPc'[r] = "respond" /\ loginReply'[r] = "OK"
    BY <1>11, <2>1, Updated
  <2>3. LoginSessionRowOf(r)' = LoginSessionRowOf(r)
    BY <2>1 DEF LoginSessionRowOf
  <2>4. db = AccountImage(p)
    BY <1>15, <2>1
  <2>5. db' = ChallengedImage(p, r)
    BY <2>1, <2>4 DEF ChallengedImage, InsertRow, AccountImage
  <2>6. ChallengedImage(p, r)' = ChallengedImage(p, r)
    BY <1>9, <2>3 DEF ChallengedImage
  <2>7. LoggingIn(p, r)'
    BY <1>5, <1>8, <1>9, <1>12, <1>13, <1>14, <2>1, <2>2, <2>5, <2>6
       DEF LoggingIn
  <2> QED
    BY <2>1, <2>4, <2>7 DEF InsertRow, AccountImage
<1>19. ASSUME RespondLogin(r)  PROVE  LoggingIn(p, r)' /\ SameAccount
  <2>1. PICK end \in {"done", "lost"} : loginPc' = [loginPc EXCEPT ![r] = end]
    BY <1>19 DEF RespondLogin, LoginGoes
  <2>2. loginPc'[r] = end
    BY <1>11, <2>1, Updated
  <2>3. loginPc'[r] = "done"
    BY <1>2, <1>4, <2>1, <2>2, EachKind, AtInFlight
  <2>4. /\ loginPc[r] = "respond" /\ loginReply' = loginReply
        /\ user' = user /\ session' = session /\ UNCHANGED <<db, writer>>
    BY <1>19 DEF RespondLogin, storeVars
  <2>5. ChallengedImage(p, r)' = ChallengedImage(p, r)
    BY <1>9, <2>4 DEF ChallengedImage, LoginSessionRowOf
  <2>6. LoggingIn(p, r)'
    BY <1>5, <1>8, <1>9, <1>12, <1>13, <1>14, <2>3, <2>4, <2>5 DEF LoggingIn
  <2> QED
    BY <2>4, <2>6
<1>20. LoggingIn(p, r)' /\ SameAccount
  BY <1>16, <1>17, <1>18, <1>19 DEF LoginProceeds
<1>21. StartsRest' /\ FinishesRest' /\ AssertionsRest' /\ LogoutsRest'
  BY <1>1, <1>2, SlicesRest
<1>22. LastRequest'
  BY <1>0, <1>4, <1>8, <1>10, <1>20 DEF LastRequest
<1>23. RowsAreAnswered'
  BY <1>1, <1>20 DEF RowsAreAnswered, finishVars, assertVars
<1> QED
  BY <1>5, <1>10, <1>21, <1>22, <1>23 DEF TestsInvariant

(* A step of an assertion touches what is its own.                         *)
LEMMA AssertMoves ==
    ASSUME AssertionsRest, NEW q \in LoginFinishes, q = inFlight, inFlight' = inFlight,
           AssertProceeds(q) \/ \E f \in {"busy", "full"} : FinishLoginFails(q, f)
    PROVE  /\ AssertionsRest' /\ assertion' = assertion /\ UNCHANGED <<now, boots>>
           /\ assertPc[q] \notin {"idle", "done"}
<1>1. PICK pc \in AssertRunning \cup {"done", "lost"} :
         assertPc' = [assertPc EXCEPT ![q] = pc]
  BY DEF AssertProceeds, LoadLoginSession, LoginSessionNotFound,
     NewFreshLoginSession,
     LoginSessionExpired, LoadCredential, CredentialNotFound, LoadOwner,
     VerifyAssertion, AssertionInvalid, UpdateSignCount, InsertLoginToken,
     DeleteLoginSession, CommitLogin, RespondAssertion, FinishLoginFails,
     AssertGoes, AnswerAssertion, AssertRunning, LoginTransaction
<1>2. assertReply' = assertReply \/ \E c : assertReply' = [assertReply EXCEPT ![q] = c]
  BY DEF AssertProceeds, LoadLoginSession, LoginSessionNotFound,
     NewFreshLoginSession,
     LoginSessionExpired, LoadCredential, CredentialNotFound, LoadOwner,
     VerifyAssertion, AssertionInvalid, UpdateSignCount, InsertLoginToken,
     DeleteLoginSession, CommitLogin, RespondAssertion, FinishLoginFails,
     AnswerAssertion
<1>3. /\ loginLoaded' = loginLoaded \/ \E row : loginLoaded' = [loginLoaded EXCEPT ![q] = row]
      /\ target' = target \/ \E k : target' = [target EXCEPT ![q] = k]
      /\ loginIssued' = loginIssued \/ \E g : loginIssued' = [loginIssued EXCEPT ![q] = g]
      /\ assertion' = assertion
  BY DEF AssertProceeds, LoadLoginSession, LoginSessionNotFound,
     NewFreshLoginSession,
     LoginSessionExpired, LoadCredential, CredentialNotFound, LoadOwner,
     VerifyAssertion, AssertionInvalid, UpdateSignCount, InsertLoginToken,
     DeleteLoginSession, CommitLogin, RespondAssertion, FinishLoginFails
<1>4. UNCHANGED <<now, boots>> /\ assertPc[q] \notin {"idle", "done"}
  BY DEF AssertProceeds, LoadLoginSession, LoginSessionNotFound,
     NewFreshLoginSession,
     LoginSessionExpired, LoadCredential, CredentialNotFound, LoadOwner,
     VerifyAssertion, AssertionInvalid, UpdateSignCount, InsertLoginToken,
     DeleteLoginSession, CommitLogin, RespondAssertion, FinishLoginFails,
     FirstWrite, NextWrite, Commit, Rollback, storeVars, LoginTransaction
<1>5. /\ OnEach(LoginFinishes, assertPc)' /\ assertPc'[q] # "idle"
      /\ \A x \in LoginFinishes : x # q => assertPc'[x] = assertPc[x]
  BY <1>1, Updated DEF AssertionsRest, OnEach, AssertRunning, LoginTransaction
<1>6. /\ OnEach(LoginFinishes, assertReply)'
      /\ \A x \in LoginFinishes : x # q => assertReply'[x] = assertReply[x]
  BY <1>2, Updated DEF AssertionsRest, OnEach
<1>7. /\ OnEach(LoginFinishes, loginLoaded)' /\ OnEach(LoginFinishes, target)'
      /\ OnEach(LoginFinishes, loginIssued)'
  BY <1>3, Updated DEF AssertionsRest, OnEach
<1>8. Rest(LoginFinishes, assertPc', assertReply')
  BY <1>5, <1>6, RestMoves DEF AssertionsRest
<1> QED
  BY <1>3, <1>4, <1>5, <1>6, <1>7, <1>8 DEF AssertionsRest, OnEach, Rest

(* An assertion that holds the transaction sees what it has written, and   *)
(* the rows once it has come that far.                                     *)
LEMMA AssertingAnswers ==
    ASSUME NEW p, NEW q, Asserting(p, q)', Account(p)'
    PROVE  RowsAreAnswered'
<1>1. /\ p \in RegFinishes /\ finishReply'[p] = "OK"
  BY DEF Account, Ceremony
<1>2. /\ q \in LoginFinishes
      /\ db' = IF assertReply'[q] = "OK" THEN SignedInImage(p, q)'
               ELSE ChallengedImage(p, assertion[q].id)'
  BY DEF Asserting
<1> QED
  BY <1>1, <1>2
     DEF RowsAreAnswered, SignedInImage, ChallengedImage, AccountImage,
                    UserOf, CredentialOf, RefreshTokenOf, LoginTokenOf

(* An assertion is answered OK, unless the runner holds the lock: then it  *)
(* waits.                                                                  *)
LEMMA AssertProceedsAsserts ==
    ASSUME TestsInvariant, NEW p, Account(p), NEW q \in LoginFinishes,
           AssertProceeds(q), Asserting(p, q), AssertionsRest, AssertionsRest',
           assertion' = assertion,
           UNCHANGED <<now, boots, startVars, finishVars, loginVars>>,
           Name' = Name, world' = world, assertPc'[q] # "lost"
    PROVE  Asserting(p, q)'
<1>0. PICK r : r = assertion[q].id
  OBVIOUS
<1>1. /\ Account(p)' /\ AccountImage(p)' = AccountImage(p)
      /\ UserOf(p)' = UserOf(p) /\ CredentialOf(p)' = CredentialOf(p)
      /\ RefreshTokenOf(p)' = RefreshTokenOf(p)
  BY AccountKept
<1>2. /\ LoginSessionRowOf(r)' = LoginSessionRowOf(r)
      /\ ChallengedImage(p, r)' = ChallengedImage(p, r)
  BY <1>1 DEF LoginSessionRowOf, ChallengedImage, loginVars
<1>3. /\ OnEach(LoginFinishes, assertPc) /\ OnEach(LoginFinishes, assertReply)
      /\ OnEach(LoginFinishes, loginLoaded) /\ OnEach(LoginFinishes, target)
  BY DEF AssertionsRest
<1>4. /\ r \in LoginStarts /\ session[r] = NewLoginSession(p, now)
      /\ assertion[q].signed = [challenge |-> r, credential_id |-> world.credential,
                                sign_count |-> 0]
      /\ assertPc[q] # "load" => loginLoaded[q] = LoginSessionRowOf(r)
      /\ assertPc[q] \notin {"load", "check", "credential"} =>
            target[q] = CredentialOf(p)
      /\ assertReply[q] = IF assertPc[q] \notin {"respond", "done"} THEN None
                          ELSE IF world.lockConn THEN "db_locked" ELSE "OK"
      /\ db = IF assertReply[q] = "OK" THEN SignedInImage(p, q)
              ELSE ChallengedImage(p, r)
      /\ writer = IF world.lockConn THEN Runner
                  ELSE IF assertPc[q] \in LoginTransaction THEN q ELSE None
      /\ assertPc[q] \in LoginTransaction => ~world.lockConn /\ view = LoginView(p, q)
  BY <1>0 DEF Asserting
<1>5. assertPc[q] \notin {"respond", "done"} =>
         assertReply[q] = None /\ db = ChallengedImage(p, r)
  BY <1>4, StoreAssumption DEF Codes
<1>6. /\ LoginSessionRowOf(r).id = r /\ LoginSessionRowOf(r).user_id = p
      /\ LoginSessionRowOf(r).expires_at = Unix(now + ChallengeTTL)
  BY <1>4 DEF LoginSessionRowOf, NewLoginSession
<1>7. /\ ChallengedImage(p, r).login_sessions = {LoginSessionRowOf(r)}
      /\ ChallengedImage(p, r).credentials = {CredentialOf(p)}
      /\ ChallengedImage(p, r).users = {UserOf(p)}
  BY DEF ChallengedImage, AccountImage
<1>8. /\ CredentialOf(p) = [credential_id |-> world.credential, user_id |-> p,
                            sign_count |-> 0]
      /\ UserOf(p).id = p
  BY DEF Account, Ceremony, CredentialOf, UserOf
<1>9. q # None /\ None # "OK" /\ Runner # None
  BY StoreAssumption, ComponentTestsAssumption DEF Codes
<1>10. session' = session
  BY DEF loginVars
<1>11. CASE LoadLoginSession(q)
  <2>1. /\ assertPc[q] = "load" /\ assertReply' = assertReply /\ target' = target
        /\ assertPc' = [assertPc EXCEPT ![q] = "check"]
        /\ UNCHANGED <<db, view, writer>>
    BY <1>11 DEF LoadLoginSession, AssertGoes, storeVars
  <2>2. loginLoaded' = [loginLoaded EXCEPT ![q] = LoginSessionRowOf(r)]
    BY <1>0, <1>5, <1>7, <1>11, <2>1 DEF LoadLoginSession
  <2>3. assertPc'[q] = "check" /\ loginLoaded'[q] = LoginSessionRowOf(r)
    BY <1>3, <2>1, <2>2, Updated
  <2> QED
    BY <1>0, <1>1, <1>2, <1>4, <1>5, <1>9, <1>10, <2>1, <2>3
       DEF Asserting, LoginTransaction
<1>12. CASE LoginSessionNotFound(q)
  BY <1>0, <1>5, <1>6, <1>7, <1>12 DEF LoginSessionNotFound
<1>13. ASSUME assertPc[q] = "check"
       PROVE  Fresh(now, FromUnix(loginLoaded[q].expires_at))
  <2>1. loginLoaded[q] = LoginSessionRowOf(r) /\ now \in Nat
    BY <1>4, <1>13 DEF TestsInvariant, RunnerTypeOK
  <2> QED
    BY <1>6, <2>1, FreshWhenMade, LifetimesAssumption, ChallengeTTLAssumption
<1>14. CASE NewFreshLoginSession(q)
  <2>1. /\ assertPc[q] = "check" /\ assertReply' = assertReply /\ target' = target
        /\ loginLoaded' = loginLoaded
        /\ assertPc' = [assertPc EXCEPT ![q] = "credential"]
        /\ UNCHANGED <<db, view, writer>>
    BY <1>14 DEF NewFreshLoginSession, AssertGoes, storeVars
  <2>2. assertPc'[q] = "credential"
    BY <1>3, <2>1, Updated
  <2> QED
    BY <1>0, <1>1, <1>2, <1>4, <1>5, <1>9, <1>10, <2>1, <2>2
       DEF Asserting, LoginTransaction
<1>15. CASE LoginSessionExpired(q)
  BY <1>13, <1>15 DEF LoginSessionExpired
<1>16. CASE LoadCredential(q)
  <2>1. /\ assertPc[q] = "credential" /\ assertReply' = assertReply
        /\ loginLoaded' = loginLoaded
        /\ assertPc' = [assertPc EXCEPT ![q] = "owner"]
        /\ UNCHANGED <<db, view, writer>>
    BY <1>16 DEF LoadCredential, AssertGoes, storeVars
  <2>2. target' = [target EXCEPT ![q] = CredentialOf(p)]
    BY <1>5, <1>7, <1>16, <2>1 DEF LoadCredential
  <2>3. assertPc'[q] = "owner" /\ target'[q] = CredentialOf(p)
    BY <1>3, <2>1, <2>2, Updated
  <2> QED
    BY <1>0, <1>1, <1>2, <1>4, <1>5, <1>9, <1>10, <2>1, <2>3
       DEF Asserting, LoginTransaction
<1>17. CASE CredentialNotFound(q)
  <2>1. /\ assertPc[q] = "credential" /\ CredentialOf(p) \in db.credentials
        /\ ~OwnCredential(q, CredentialOf(p))
    BY <1>5, <1>7, <1>17 DEF CredentialNotFound
  <2> QED
    BY <1>4, <1>6, <1>8, <2>1 DEF OwnCredential
<1>18. CASE LoadOwner(q)
  <2>1. assertPc[q] = "owner" /\ target[q] = CredentialOf(p) /\ UserOf(p) \in db.users
    BY <1>4, <1>5, <1>7, <1>18 DEF LoadOwner
  <2>2. \E u \in db.users : u.id = target[q].user_id
    BY <1>8, <2>1
  <2>3. /\ assertReply' = assertReply /\ target' = target /\ loginLoaded' = loginLoaded
        /\ assertPc' = [assertPc EXCEPT ![q] = "verify"]
        /\ UNCHANGED <<db, view, writer>>
    BY <1>18, <2>2 DEF LoadOwner, AssertGoes, storeVars
  <2>4. assertPc'[q] = "verify"
    BY <1>3, <2>3, Updated
  <2> QED
    BY <1>0, <1>1, <1>2, <1>4, <1>5, <1>9, <1>10, <2>1, <2>3, <2>4
    DEF Asserting, LoginTransaction
<1>19. CASE VerifyAssertion(q)
  <2>1. /\ assertPc[q] = "verify" /\ assertReply' = assertReply /\ target' = target
        /\ loginLoaded' = loginLoaded
        /\ assertPc' = [assertPc EXCEPT ![q] = "updateCount"]
        /\ UNCHANGED <<db, view, writer>>
    BY <1>19 DEF VerifyAssertion, AssertGoes, storeVars
  <2>2. assertPc'[q] = "updateCount"
    BY <1>3, <2>1, Updated
  <2> QED
    BY <1>0, <1>1, <1>2, <1>4, <1>5, <1>9, <1>10, <2>1, <2>2
       DEF Asserting, LoginTransaction
<1>20. CASE AssertionInvalid(q)
  BY <1>4, <1>6, <1>20 DEF AssertionInvalid, AssertionVerified
<1>21. CASE UpdateSignCount(q)
  <2>1. /\ assertPc[q] = "updateCount" /\ assertReply' = assertReply
        /\ target' = target /\ loginLoaded' = loginLoaded /\ db' = db
        /\ assertPc' = [assertPc EXCEPT ![q] = "insertToken"]
        /\ writer = None /\ writer' = q
        /\ view' = SetSignCount(db, target[q].credential_id,
                                assertion[q].signed.sign_count)
    BY <1>21 DEF UpdateSignCount, FirstWrite, AssertGoes
  <2>2. assertPc'[q] = "insertToken"
    BY <1>3, <2>1, Updated
  <2>3. ~world.lockConn
    BY <1>4, <1>9, <2>1
  <2>4. view' = ChallengedImage(p, r)
    <3>1. /\ db = ChallengedImage(p, r) /\ target[q] = CredentialOf(p)
          /\ assertion[q].signed.sign_count = 0
      BY <1>4, <1>5, <2>1
    <3>2. [CredentialOf(p) EXCEPT !.sign_count = 0] = CredentialOf(p)
      BY <1>8
    <3>3. {IF k.credential_id = target[q].credential_id
           THEN [k EXCEPT !.sign_count = 0] ELSE k : k \in {CredentialOf(p)}}
             = {CredentialOf(p)}
      BY <3>1, <3>2
    <3>4. view' = [ChallengedImage(p, r) EXCEPT !.credentials = {CredentialOf(p)}]
      BY <1>7, <2>1, <3>1, <3>3 DEF SetSignCount
    <3> QED
      BY <3>4 DEF ChallengedImage, AccountImage
  <2>5. ChallengedImage(p, r) = LoginView(p, q)'
    BY <1>0, <1>1, <1>2, <2>2 DEF ChallengedImage, AccountImage, LoginView
  <2> QED
    BY <1>0, <1>1, <1>2, <1>4, <1>5, <1>9, <1>10, <2>1, <2>2, <2>3, <2>4, <2>5
    DEF Asserting, LoginTransaction
<1>22. CASE InsertLoginToken(q)
  <2>1. /\ assertPc[q] = "insertToken" /\ assertReply' = assertReply
        /\ target' = target /\ loginLoaded' = loginLoaded /\ loginIssued' = loginIssued
        /\ assertPc' = [assertPc EXCEPT ![q] = "deleteSession"]
        /\ db' = db /\ writer' = writer
        /\ view' = InsertRow(view, "refresh_tokens", LoginTokenOf(q))
    BY <1>22 DEF InsertLoginToken, NextWrite, AssertGoes
  <2>2. assertPc'[q] = "deleteSession"
    BY <1>3, <2>1, Updated
  <2>3. view = LoginView(p, q) /\ ~world.lockConn
    BY <1>4, <2>1 DEF LoginTransaction
  <2>4. LoginTokenOf(q)' = LoginTokenOf(q)
    BY <2>1 DEF LoginTokenOf
  <2>5. view' = LoginView(p, q)'
    BY <1>0, <1>1, <1>2, <2>1, <2>2, <2>3, <2>4 DEF LoginView, InsertRow
  <2> QED
    BY <1>0, <1>1, <1>2, <1>4, <1>5, <1>9, <1>10, <2>1, <2>2, <2>3, <2>5
    DEF Asserting, LoginTransaction
<1>23. CASE DeleteLoginSession(q)
  <2>1. /\ assertPc[q] = "deleteSession" /\ assertReply' = assertReply
        /\ target' = target /\ loginLoaded' = loginLoaded /\ loginIssued' = loginIssued
        /\ assertPc' = [assertPc EXCEPT ![q] = "commit"]
        /\ db' = db /\ writer' = writer
        /\ view' = DeleteByID(view, "login_sessions", loginLoaded[q].id)
    BY <1>23 DEF DeleteLoginSession, NextWrite, AssertGoes
  <2>2. assertPc'[q] = "commit"
    BY <1>3, <2>1, Updated
  <2>3. view = LoginView(p, q) /\ ~world.lockConn /\ loginLoaded[q] = LoginSessionRowOf(r)
    BY <1>4, <2>1 DEF LoginTransaction
  <2>4. LoginTokenOf(q)' = LoginTokenOf(q)
    BY <2>1 DEF LoginTokenOf
  <2>5. view.login_sessions = {LoginSessionRowOf(r)}
    BY <1>0, <2>1, <2>3 DEF LoginView
  <2>6. {s \in view.login_sessions : s.id # loginLoaded[q].id} = {}
    BY <2>3, <2>5
  <2>7. view' = LoginView(p, q)'
    BY <1>0, <1>1, <1>2, <2>1, <2>2, <2>3, <2>4, <2>6 DEF LoginView, DeleteByID
  <2> QED
    BY <1>0, <1>1, <1>2, <1>4, <1>5, <1>9, <1>10, <2>1, <2>2, <2>3, <2>7
    DEF Asserting, LoginTransaction
<1>24. CASE CommitLogin(q)
  <2>1. /\ assertPc[q] = "commit"
        /\ target' = target /\ loginLoaded' = loginLoaded /\ loginIssued' = loginIssued
        /\ assertPc' = [assertPc EXCEPT ![q] = "respond"]
        /\ assertReply' = [assertReply EXCEPT ![q] = "OK"]
        /\ db' = view /\ writer' = None
    BY <1>24 DEF CommitLogin, Commit, AnswerAssertion, AssertGoes
  <2>2. assertPc'[q] = "respond" /\ assertReply'[q] = "OK"
    BY <1>3, <2>1, Updated
  <2>3. view = LoginView(p, q) /\ ~world.lockConn
    BY <1>4, <2>1 DEF LoginTransaction
  <2>4. LoginTokenOf(q)' = LoginTokenOf(q)
    BY <2>1 DEF LoginTokenOf
  <2>5. SignedInImage(p, q)' = SignedInImage(p, q)
    BY <1>1, <2>4 DEF SignedInImage
  <2>6. view = SignedInImage(p, q)
    BY <2>1, <2>3 DEF LoginView, SignedInImage, AccountImage
  <2> QED
    BY <1>0, <1>1, <1>2, <1>4, <1>9, <1>10, <2>1, <2>2, <2>3, <2>5, <2>6
    DEF Asserting, LoginTransaction
<1>25. CASE RespondAssertion(q)
  <2>1. PICK end \in {"done", "lost"} : assertPc' = [assertPc EXCEPT ![q] = end]
    BY <1>25 DEF RespondAssertion, AssertGoes
  <2>2. assertPc'[q] = end
    BY <1>3, <2>1, Updated
  <2>3. assertPc'[q] = "done"
    BY <2>1, <2>2
  <2>4. /\ assertPc[q] = "respond" /\ assertReply' = assertReply /\ target' = target
        /\ loginLoaded' = loginLoaded /\ loginIssued' = loginIssued
        /\ UNCHANGED <<db, view, writer>>
    BY <1>25 DEF RespondAssertion, storeVars
  <2>5. SignedInImage(p, q)' = SignedInImage(p, q)
    BY <1>1, <2>4 DEF SignedInImage, LoginTokenOf
  <2> QED
    BY <1>0, <1>1, <1>2, <1>4, <1>9, <1>10, <2>3, <2>4, <2>5
       DEF Asserting, LoginTransaction
<1> QED
  BY <1>11, <1>12, <1>14, <1>15, <1>16, <1>17, <1>18, <1>19, <1>20, <1>21,
     <1>22,
     <1>23, <1>24, <1>25 DEF AssertProceeds

(* What the invariant says of the account while an assertion runs.         *)
LEMMA AccountWhileSent ==
    ASSUME TestsInvariant, inFlight # None, Stage \in {"login", "assert", "logout"}
    PROVE  Account(world.accessToken)
<1>1. Consistent(Name, stepNo) /\ stepNo # None
  BY Sent
<1> QED
  BY <1>1 DEF Consistent, Stage, Past, TestsInvariant, WorldIsSet

(* What a step of an assertion leaves as the invariant wants it.           *)
LEMMA AssertStepKeeps ==
    ASSUME TestsInvariant, NEW q \in LoginFinishes, q = inFlight, Stage = "assert",
           AssertionsRest', Asserting(world.accessToken, q)',
           UNCHANGED <<now, boots, startVars, finishVars, loginVars, logoutVars>>,
           UNCHANGED runnerVars
    PROVE  TestsInvariant'
<1>0. PICK p : p = world.accessToken
  OBVIOUS
<1>1. /\ StartsRest /\ FinishesRest /\ LoginsRest /\ LogoutsRest /\ LastRequest
  BY DEF TestsInvariant
<1>2. inFlight # None
  BY KindsAreDisjoint DEF Requests
<1>3. Name' = Name /\ world' = world /\ inFlight' = inFlight
  BY DEF runnerVars, Name, Round
<1>4. Account(p)'
  <2>1. Account(p)
    BY <1>0, <1>2, AccountWhileSent
  <2> QED
    BY <1>3, <2>1, AccountKept
<1>5. /\ RunnerTypeOK' /\ NothingIsLeft' /\ ScenariosPass' /\ WorldIsSet'
      /\ ResponseIsRead'
      /\ stepNo # None /\ Stage' = Stage /\ Past' = Past /\ Subject' = q
  BY <1>0, <1>2, <1>3, <1>4, ServiceStep
<1>6. Asserting(p, q)'
  BY <1>0, <1>3
<1>7. StartsRest' /\ FinishesRest' /\ LoginsRest' /\ LogoutsRest'
  BY <1>1, <1>3, SlicesRest
<1>8. LastRequest'
  BY <1>0, <1>3, <1>5, <1>6 DEF LastRequest
<1>9. RowsAreAnswered'
  BY <1>4, <1>6, AssertingAnswers
<1> QED
  BY <1>5, <1>7, <1>8, <1>9 DEF TestsInvariant

(* POST /v1/sessions/{id}/assertion goes on.                               *)
LEMMA AssertProceedsKeeps ==
    ASSUME TestsInvariant, NEW q \in LoginFinishes, AssertProceeds(q),
           UNCHANGED <<startVars, finishVars, loginVars, logoutVars>>,
           UNCHANGED runnerVars, At(inFlight)' # "lost"
    PROVE  TestsInvariant'
<1>0. PICK p : p = world.accessToken
  OBVIOUS
<1>1. AssertionsRest
  BY DEF TestsInvariant
<1>2. Name' = Name /\ world' = world /\ inFlight' = inFlight
  BY DEF runnerVars, Name, Round
<1>3. assertPc[q] \notin {"idle", "done"}
  BY DEF AssertProceeds, LoadLoginSession, LoginSessionNotFound,
     NewFreshLoginSession,
     LoginSessionExpired, LoadCredential, CredentialNotFound, LoadOwner,
     VerifyAssertion, AssertionInvalid, UpdateSignCount, InsertLoginToken,
     DeleteLoginSession, CommitLogin, RespondAssertion
<1>4. q = inFlight /\ Stage = "assert" /\ Asserting(p, q)
  BY <1>0, <1>3, OnlyTheLastRuns
<1>5. AssertionsRest' /\ assertion' = assertion /\ UNCHANGED <<now, boots>>
  BY <1>1, <1>2, <1>4, AssertMoves
<1>6. Account(p)
  <2>1. inFlight # None
    BY <1>4, KindsAreDisjoint DEF Requests
  <2> QED
    BY <1>0, <1>4, <2>1, AccountWhileSent
<1>7. assertPc'[q] # "lost"
  BY <1>2, <1>4, EachKind, AtInFlight
<1>8. Asserting(p, q)'
  BY <1>1, <1>2, <1>4, <1>5, <1>6, <1>7, AssertProceedsAsserts
<1>9. Asserting(world.accessToken, q)'
  BY <1>0, <1>2, <1>8
<1> QED
  BY <1>4, <1>5, <1>9, AssertStepKeeps

(* DELETE /v1/sessions/current is answered OK; the rows of the tokens that *)
(* it revokes stay those of the same requests.                             *)
LEMMA LogoutProceedsKeeps ==
    ASSUME TestsInvariant, NEW l \in Logouts, LogoutProceeds(l),
           UNCHANGED <<startVars, finishVars, loginVars, assertVars>>,
           UNCHANGED runnerVars, At(inFlight)' # "lost"
    PROVE  TestsInvariant'
<1>0. PICK p : p = world.accessToken
  OBVIOUS
<1>1. /\ StartsRest /\ FinishesRest /\ LoginsRest /\ AssertionsRest /\ LogoutsRest
      /\ LastRequest /\ RowsAreAnswered
  BY DEF TestsInvariant
<1>2. Name' = Name /\ world' = world /\ inFlight' = inFlight
  BY DEF runnerVars, Name, Round
<1>3. logoutPc[l] \notin {"idle", "done"}
  BY DEF LogoutProceeds, StampRevocation, RevokeUserSessions, RespondLogout
<1>4. l = inFlight /\ Stage = "logout" /\ LoggingOut(l)
  BY <1>3, OnlyTheLastRuns
<1>5. inFlight # None
  BY <1>4, KindsAreDisjoint DEF Requests
<1>6. UNCHANGED <<now, boots, writer>>
  BY DEF LogoutProceeds, StampRevocation, RevokeUserSessions, RespondLogout,
     Autocommit,
     storeVars
<1>7. Account(p)'
  <2>1. Account(p)
    BY <1>0, <1>4, <1>5, AccountWhileSent
  <2> QED
    BY <1>2, <1>6, <2>1, AccountKept
<1>8. /\ RunnerTypeOK' /\ NothingIsLeft' /\ ScenariosPass' /\ WorldIsSet'
      /\ ResponseIsRead'
      /\ stepNo # None /\ Stage' = Stage /\ Past' = Past /\ Subject' = l
  BY <1>0, <1>2, <1>4, <1>5, <1>6, <1>7, ServiceStep
<1>9. logoutPc'[l] # "lost"
  BY <1>2, <1>4, EachKind, AtInFlight
<1>10. PICK pc \in {"revoke", "respond", "done"} :
          /\ logoutPc' = [logoutPc EXCEPT ![l] = pc]
          /\ \/ pc = "revoke" /\ logoutReply' = logoutReply
             \/ pc = "respond" /\ logoutReply' = [logoutReply EXCEPT ![l] = "OK"]
             \/ pc = "done" /\ logoutReply' = logoutReply /\ logoutPc[l] = "respond"
          /\ pc = "revoke" => logoutPc[l] = "stamp"
  <2>1. CASE StampRevocation(l)
    BY <2>1 DEF StampRevocation, LogoutGoes
  <2>2. CASE RevokeUserSessions(l)
    BY <2>2 DEF RevokeUserSessions, AnswerLogout, LogoutGoes
  <2>3. CASE RespondLogout(l)
    <3>1. PICK end \in {"done", "lost"} : logoutPc' = [logoutPc EXCEPT ![l] = end]
      BY <2>3 DEF RespondLogout, LogoutGoes
    <3>2. logoutPc'[l] = end
      BY <1>1, <3>1, Updated DEF LogoutsRest
    <3>3. end = "done"
      BY <1>9, <3>1, <3>2
    <3> QED
      BY <2>3, <3>1, <3>3 DEF RespondLogout
  <2> QED
    BY <2>1, <2>2, <2>3 DEF LogoutProceeds
<1>11. /\ OnEach(Logouts, logoutPc)' /\ logoutPc'[l] = pc
       /\ \A x \in Logouts : x # l => logoutPc'[x] = logoutPc[x]
  BY <1>1, <1>10, Updated DEF LogoutsRest, OnEach
<1>12. /\ OnEach(Logouts, logoutReply)'
       /\ logoutReply'[l] = IF pc = "revoke" THEN logoutReply[l] ELSE "OK"
       /\ \A x \in Logouts : x # l => logoutReply'[x] = logoutReply[x]
  <2>1. logoutPc[l] = "respond" => logoutReply[l] = "OK"
    BY <1>4 DEF LoggingOut
  <2> QED
    BY <1>1, <1>10, <2>1, Updated DEF LogoutsRest, OnEach
<1>13. LogoutsRest'
  <2>1. logoutPc'[l] # "idle"
    BY <1>11
  <2>2. Rest(Logouts, logoutPc', logoutReply')
    BY <1>1, <1>4, <1>11, <1>12, <2>1, RestMoves DEF LogoutsRest
  <2> QED
    BY <1>2, <1>11, <1>12, <2>2 DEF LogoutsRest, OnEach, Rest
<1>14. LoggingOut(l)'
  <2>1. DOMAIN db' = DOMAIN db
    BY DEF LogoutProceeds, StampRevocation, RevokeUserSessions,
       RespondLogout, Autocommit,
           RevokeTokens, storeVars
  <2> QED
    BY <1>4, <1>6, <1>10, <1>11, <1>12, <2>1 DEF LoggingOut
<1>15. StartsRest' /\ FinishesRest' /\ LoginsRest' /\ AssertionsRest'
  BY <1>1, <1>2, SlicesRest
<1>16. LastRequest'
  BY <1>4, <1>8, <1>14 DEF LastRequest
<1>17. RowsAreAnswered'
  <2>1. finishReply' = finishReply /\ assertReply' = assertReply
    BY DEF finishVars, assertVars
  <2>2. CASE db' = db
    BY <1>1, <2>1, <2>2 DEF RowsAreAnswered
  <2>3. CASE \E u, s : db' = RevokeTokens(db, u, s)
    <3>1. PICK u, s : db' = RevokeTokens(db, u, s)
      BY <2>3
    <3>2. {"users", "credentials", "refresh_tokens"} \subseteq DOMAIN db
      BY <1>4 DEF LoggingOut, EmptyDatabase
    <3>3. /\ db'.users = db.users /\ db'.credentials = db.credentials
          /\ db'.refresh_tokens = {IF t.user_id = u /\ t.revoked_at = None
                                   THEN [t EXCEPT !.revoked_at = s] ELSE t :
                                   t \in db.refresh_tokens}
      BY <3>1, <3>2 DEF RevokeTokens
    <3>4. ASSUME NEW t, "token_hash" \in DOMAIN t
          PROVE  /\ [t EXCEPT !.revoked_at = s].token_hash = t.token_hash
                 /\ "token_hash" \in DOMAIN [t EXCEPT !.revoked_at = s]
      BY <3>4
    <3>5. ASSUME NEW t \in db'.refresh_tokens
          PROVE  /\ "token_hash" \in DOMAIN t
                 /\ \E o \in db.refresh_tokens : t.token_hash = o.token_hash
      <4>1. PICK o \in db.refresh_tokens :
               t = IF o.user_id = u /\ o.revoked_at = None
                   THEN [o EXCEPT !.revoked_at = s] ELSE o
        BY <3>3, <3>5
      <4>2. "token_hash" \in DOMAIN o
        BY <1>1 DEF RowsAreAnswered
      <4> QED
        BY <3>4, <4>1, <4>2
    <3> QED
      BY <1>1, <2>1, <3>3, <3>5 DEF RowsAreAnswered
  <2> QED
    BY <2>2, <2>3
       DEF LogoutProceeds, StampRevocation, RevokeUserSessions,
           RespondLogout,
                      Autocommit, storeVars
<1> QED
  BY <1>8, <1>13, <1>15, <1>16, <1>17 DEF TestsInvariant

----------------------------------------------------------------------------
(* The statements that fail.                                               *)

(* What fails for the lock is an assertion, and what fails for the disk is *)
(* an attestation.                                                         *)
LEMMA WhatFails ==
    ASSUME TestsInvariant, ServiceFails
    PROVE  \/ \E q \in LoginFinishes :
                 /\ FinishLoginFails(q, "busy") /\ writer = Runner
                 /\ UNCHANGED <<startVars, finishVars, loginVars, logoutVars>>
           \/ \E p \in RegFinishes :
                 /\ WriteFails(p, "full") /\ DiskIsFull
                 /\ UNCHANGED <<startVars, loginVars, assertVars, logoutVars>>
<1>1. Runner # None /\ Runner \notin RegFinishes
  BY ComponentTestsAssumption
<1>2. ASSUME NEW r \in RegStarts, startPc[r] = "persist"
      PROVE  writer # Runner /\ ~DiskIsFull
  BY <1>1, <1>2, OnlyTheLastRuns DEF Registering, DiskIsFull
<1>3. ASSUME NEW p \in RegFinishes, finishPc[p] \in InTransaction \cup {"insertUser"}
      PROVE  writer # Runner
  <2>1. finishPc[p] \notin {"idle", "done"}
    BY <1>3 DEF InTransaction
  <2> QED
    BY <1>1, <2>1, OnlyTheLastRuns DEF Attesting
<1>4. ASSUME inFlight # None, Stage \in {"login", "assert", "logout"}
      PROVE  ~DiskIsFull
  <2>1. Consistent(Name, stepNo) /\ stepNo # None
    BY <1>4, Sent
  <2> QED
    BY <1>4, <2>1
       DEF Consistent, Stage, Past, TestsInvariant, WorldIsSet, DiskIsFull
<1>5. ASSUME NEW r \in LoginStarts, loginPc[r] = "persist"
      PROVE  writer # Runner /\ ~DiskIsFull
  <2>1. r = inFlight /\ Stage = "login" /\ LoggingIn(world.accessToken, r)
    BY <1>5, OnlyTheLastRuns
  <2>2. inFlight # None
    BY <2>1, KindsAreDisjoint DEF Requests
  <2> QED
    BY <1>1, <1>4, <1>5, <2>1, <2>2 DEF LoggingIn
<1>6. ASSUME NEW q \in LoginFinishes, assertPc[q] \in LoginTransaction \cup {"updateCount"}
      PROVE  ~DiskIsFull
  <2>1. assertPc[q] \notin {"idle", "done"}
    BY <1>6 DEF LoginTransaction
  <2>2. q = inFlight /\ Stage = "assert"
    BY <2>1, OnlyTheLastRuns
  <2>3. inFlight # None
    BY <2>2, KindsAreDisjoint DEF Requests
  <2> QED
    BY <1>4, <2>2, <2>3
<1>7. ASSUME NEW l \in Logouts, logoutPc[l] = "revoke"
      PROVE  writer # Runner /\ ~DiskIsFull
  <2>1. l = inFlight /\ Stage = "logout" /\ LoggingOut(l)
    BY <1>7, OnlyTheLastRuns
  <2>2. inFlight # None
    BY <2>1, KindsAreDisjoint DEF Requests
  <2> QED
    BY <1>1, <1>4, <2>1, <2>2 DEF LoggingOut
<1>8. CASE writer = Runner /\ AWriteFails("busy")
  BY <1>2, <1>3, <1>5, <1>7, <1>8
  DEF AWriteFails, PersistFails, WriteFails, PersistLoginFails, RevokeFails
<1>9. CASE DiskIsFull /\ AWriteFails("full")
  BY <1>2, <1>5, <1>6, <1>7, <1>9
  DEF AWriteFails, PersistFails, PersistLoginFails, FinishLoginFails, RevokeFails
<1> QED
  BY <1>8, <1>9 DEF ServiceFails

(* The lock that the runner holds: the assertion has written nothing.      *)
LEMMA LockedKeeps ==
    ASSUME TestsInvariant, NEW q \in LoginFinishes, FinishLoginFails(q, "busy"),
           writer = Runner,
           UNCHANGED <<startVars, finishVars, loginVars, logoutVars>>,
           UNCHANGED runnerVars
    PROVE  TestsInvariant'
<1>0. PICK p : p = world.accessToken
  OBVIOUS
<1>1. AssertionsRest
  BY DEF TestsInvariant
<1>2. Name' = Name /\ world' = world /\ inFlight' = inFlight
  BY DEF runnerVars, Name, Round
<1>3. assertPc[q] \notin {"idle", "done", "respond"}
  BY DEF FinishLoginFails, LoginTransaction
<1>4. q = inFlight /\ Stage = "assert" /\ Asserting(p, q)
  BY <1>0, <1>3, OnlyTheLastRuns
<1>5. AssertionsRest' /\ assertion' = assertion /\ UNCHANGED <<now, boots>>
  BY <1>1, <1>2, <1>4, AssertMoves
<1>6. Account(p)
  <2>1. inFlight # None
    BY <1>4, KindsAreDisjoint DEF Requests
  <2> QED
    BY <1>0, <1>4, <2>1, AccountWhileSent
<1>7. /\ AccountImage(p)' = AccountImage(p) /\ UserOf(p)' = UserOf(p)
      /\ CredentialOf(p)' = CredentialOf(p) /\ RefreshTokenOf(p)' = RefreshTokenOf(p)
  BY <1>2, <1>5, <1>6, AccountKept
<1>8. Runner # None /\ Runner # q
  BY ComponentTestsAssumption
<1>9. world.lockConn /\ assertPc[q] = "updateCount"
  BY <1>4, <1>8 DEF Asserting, FinishLoginFails
<1>10. /\ assertReply' = [assertReply EXCEPT ![q] = "db_locked"]
       /\ assertPc' = [assertPc EXCEPT ![q] = "respond"]
       /\ UNCHANGED <<db, view, writer, loginLoaded, target>>
  BY <1>8
     DEF FinishLoginFails, AnswerAssertion, AssertGoes, Rollback, WriteError
<1>11. assertPc'[q] = "respond" /\ assertReply'[q] = "db_locked"
  BY <1>1, <1>10, Updated DEF AssertionsRest
<1>12. ChallengedImage(p, assertion[q].id)' = ChallengedImage(p, assertion[q].id)
  BY <1>5, <1>7 DEF ChallengedImage, LoginSessionRowOf, loginVars
<1>13. LoginSessionRowOf(assertion[q].id)' = LoginSessionRowOf(assertion[q].id)
  BY <1>5 DEF LoginSessionRowOf, loginVars
<1>14. /\ assertReply[q] = None /\ db = ChallengedImage(p, assertion[q].id)
       /\ session' = session
  <2>1. assertReply[q] = None /\ None # "OK"
    BY <1>3, <1>4, StoreAssumption DEF Asserting, Codes
  <2> QED
    BY <1>4, <2>1 DEF Asserting, loginVars
<1>15. Asserting(p, q)'
  BY <1>2, <1>4, <1>5, <1>7, <1>9, <1>10, <1>11, <1>12, <1>13, <1>14
  DEF Asserting, LoginTransaction
<1>16. Asserting(world.accessToken, q)'
  BY <1>0, <1>2, <1>15
<1> QED
  BY <1>4, <1>5, <1>16, AssertStepKeeps

(* The disk that is full: the attestation has published nothing.           *)
LEMMA DiskFullKeeps ==
    ASSUME TestsInvariant, NEW p \in RegFinishes, WriteFails(p, "full"), DiskIsFull,
           UNCHANGED <<startVars, loginVars, assertVars, logoutVars>>,
           UNCHANGED runnerVars
    PROVE  TestsInvariant'
<1>1. /\ StartsRest /\ FinishesRest /\ LoginsRest /\ AssertionsRest /\ LogoutsRest
      /\ LastRequest
  BY DEF TestsInvariant
<1>2. inFlight' = inFlight
  BY DEF runnerVars
<1>3. finishPc[p] \notin {"idle", "done", "respond", "load", "check", "issue"}
  BY DEF WriteFails, InTransaction
<1>4. p = inFlight /\ Stage = "attest" /\ Attesting(p) /\ "keepTokens" \notin Past
  BY <1>3, OnlyTheLastRuns
<1>5. FinishesRest' /\ command' = command /\ UNCHANGED <<now, boots>>
  BY <1>1, <1>2, <1>4, FinishMoves
<1>6. inFlight # None
  BY <1>4, KindsAreDisjoint DEF Requests
<1>7. /\ RunnerTypeOK' /\ NothingIsLeft' /\ ScenariosPass' /\ WorldIsSet'
      /\ ResponseIsRead'
      /\ stepNo # None /\ Stage' = Stage /\ Past' = Past /\ Subject' = p
      /\ Name' = Name /\ world' = world /\ DiskIsFull' = DiskIsFull
  BY <1>4, <1>5, <1>6, ServiceStep
<1>8. /\ Ceremony(p)'
      /\ SessionRow(command[p].id)' = SessionRow(command[p].id)
      /\ OpenedImage(command[p].id)' = OpenedImage(command[p].id)
  BY <1>4, <1>5, <1>7, AttestationGoes DEF startVars
<1>9. /\ finishReply' = [finishReply EXCEPT ![p] = "db_disk_full"]
      /\ finishPc' = [finishPc EXCEPT ![p] = "respond"]
      /\ writer' = IF writer = p THEN None ELSE writer
      /\ UNCHANGED <<db, loaded, issued>>
  BY DEF WriteFails, Answer, GoTo, Rollback, WriteError
<1>10. finishPc'[p] = "respond" /\ finishReply'[p] = "db_disk_full"
  BY <1>1, <1>9, Updated DEF FinishesRest
<1>11. finishReply[p] = None /\ db = OpenedImage(command[p].id)
  <2>1. finishReply[p] = None /\ None # "OK"
    BY <1>3, <1>4, StoreAssumption DEF Attesting, Codes
  <2> QED
    BY <1>4, <2>1 DEF Attesting
<1>12. writer' = None
  BY <1>4, <1>9 DEF Attesting
<1>13. Attesting(p)'
  BY <1>3, <1>4, <1>5, <1>7, <1>8, <1>9, <1>10, <1>11, <1>12
     DEF Attesting, InTransaction
<1>14. StartsRest' /\ LoginsRest' /\ AssertionsRest' /\ LogoutsRest'
  BY <1>1, <1>2, SlicesRest
<1>15. LastRequest'
  BY <1>4, <1>7, <1>13 DEF LastRequest
<1>16. RowsAreAnswered'
  BY <1>13, AttestingAnswers
<1> QED
  BY <1>5, <1>7, <1>14, <1>15, <1>16 DEF TestsInvariant

----------------------------------------------------------------------------
(* The theorems.                                                           *)

(* The run starts between two scenarios, with nothing anywhere.            *)
LEMMA InitHolds == TestsInit => TestsInvariant
<1> SUFFICES ASSUME TestsInit  PROVE  TestsInvariant
  OBVIOUS
<1>1. /\ now = 0 /\ db = EmptyDatabase /\ writer = None
      /\ profile \in {"healthy", "disk-full"} /\ plan \in [1 .. Rounds -> DOMAIN Scenarios]
      /\ stepNo = None /\ verdicts = <<>> /\ world = NewWorld
      /\ inFlight = None /\ junk = FALSE
  BY DEF TestsInit, StoreInit
<1>2. RunnerTypeOK
  <2>1. world \in Worlds
    BY <1>1 DEF Worlds, NewWorld
  <2>2. verdicts \in Seq({"passed", "failed"}) /\ Len(verdicts) = 0
    BY <1>1
  <2> QED
    <3>1. now \in Nat
      BY <1>1
    <3>2. Len(verdicts) <= Rounds
      BY <2>2, ComponentTestsAssumption
    <3>3. inFlight \in Requests \cup {None} /\ stepNo = None /\ junk \in BOOLEAN
      BY <1>1
    <3> QED
      BY <1>1, <2>1, <2>2, <3>1, <3>2, <3>3, Zenon DEF RunnerTypeOK
<1>3. StartsRest /\ FinishesRest /\ LoginsRest /\ AssertionsRest /\ LogoutsRest
  BY DEF TestsInit, StartInit, FinishInit, LoginInit, AssertInit, LogoutInit,
         StartsRest, FinishesRest, LoginsRest, AssertionsRest, LogoutsRest, OnEach, Rest
<1>4. NothingIsLeft /\ WorldIsSet /\ LastRequest /\ ResponseIsRead
  BY <1>1 DEF NothingIsLeft, NewWorld, WorldIsSet, LastRequest, ResponseIsRead
<1>5. RowsAreAnswered
  BY <1>1 DEF RowsAreAnswered, EmptyDatabase
<1>6. ScenariosPass
  BY <1>1 DEF ScenariosPass
<1> QED
  BY <1>2, <1>3, <1>4, <1>5, <1>6 DEF TestsInvariant

(* Every step of the run, one by one.                                      *)
LEMMA NextKeeps == TestsInvariant /\ [TestsNext]_testsVars => TestsInvariant'
<1> SUFFICES ASSUME TestsInvariant, [TestsNext]_testsVars  PROVE  TestsInvariant'
  OBVIOUS
<1>1. CASE BeforeScenario
  BY <1>1, BeforeScenarioKeeps
<1>2. CASE Register
  BY <1>2, RegisterKeeps
<1>3. CASE LoginRequest
  BY <1>3, LoginRequestKeeps
<1>4. CASE SendAttestation
  BY <1>4, SendAttestationKeeps
<1>5. CASE SendAssertion
  BY <1>5, SendAssertionKeeps
<1>6. CASE Logout
  BY <1>6, LogoutKeeps
<1>7. CASE VirtualAuthenticator
  BY <1>7, VirtualAuthenticatorKeeps
<1>8. CASE KeepTokens
  BY <1>8, KeepTokensKeeps
<1>9. CASE LockDatabase
  BY <1>9, LockDatabaseKeeps
<1>10. CASE FillDisk
  BY <1>10, FillDiskKeeps
<1>11. CASE Expect
  BY <1>11, ExpectKeeps
<1>12. CASE Finish
  BY <1>12, FinishKeeps
<1>13. CASE \E q \in Requests : Receive(q)
  BY <1>13, ReceiveKeeps
<1>14. CASE ServiceProceeds
  BY <1>14, StartProceedsKeeps, FinishProceedsKeeps, LoginProceedsKeeps,
     AssertProceedsKeeps, LogoutProceedsKeeps DEF ServiceProceeds, Proceeds
<1>15. CASE ServiceFails
  <2>1. UNCHANGED runnerVars
    BY <1>15 DEF ServiceFails
  <2> QED
    BY <1>15, <2>1, WhatFails, LockedKeeps, DiskFullKeeps
<1>16. CASE RunIsOver \/ UNCHANGED testsVars
  BY <1>16, StutteringKeeps DEF RunIsOver, testsVars
<1> QED
  BY <1>1, <1>2, <1>3, <1>4, <1>5, <1>6, <1>7, <1>8, <1>9, <1>10, <1>11, <1>12,
     <1>13, <1>14, <1>15, <1>16 DEF TestsNext, RunnerStep

(* The inductive invariant of the component tests.                         *)
THEOREM TestsInvariantHolds == TestsSpec => []TestsInvariant
<1>1. TestsInit => TestsInvariant
  BY InitHolds
<1>2. TestsInvariant /\ [TestsNext]_testsVars => TestsInvariant'
  BY NextKeeps
<1> QED
  BY <1>1, <1>2, PTL DEF TestsSpec

(* Whatever the scenarios of a run, and in whatever order godog runs them  *)
(* (component-tests/main_test.go), each passes: all but the one that wants *)
(* a full disk, on the profile that has none.                              *)
THEOREM ScenariosAlwaysPass == TestsSpec => []ScenariosPass
<1>1. TestsInvariant => ScenariosPass
  BY DEF TestsInvariant
<1> QED
  BY <1>1, TestsInvariantHolds, PTL

(* The invariant is enough for what the tests cannot see: of a request     *)
(* that was answered with the lock or the full disk there is no row, since *)
(* a row is there only for a request that was answered OK, and what the    *)
(* tables hold meanwhile includes the session that it was to use.          *)
LEMMA NothingIsSaved == TestsInvariant => FailureSavesNothing
<1> SUFFICES ASSUME TestsInvariant, NEW q \in RegFinishes \cup LoginFinishes,
                    Reply(q) \in {"db_locked", "db_disk_full"}
             PROVE  /\ \A u \in db.users : u.id # q
                    /\ \A k \in db.credentials : k.user_id # q
                    /\ \A t \in db.refresh_tokens : t.token_hash # q
                    /\ stepNo # None /\ world.lastResponse = [request |-> q, code |-> Reply(q)]
                         => IF q \in RegFinishes
                            THEN \E s \in db.registration_sessions : s.id = command[q].id
                            ELSE \E s \in db.login_sessions : s.id = assertion[q].id
  BY DEF FailureSavesNothing
<1>1. RowsAreAnswered /\ ResponseIsRead /\ LastRequest
  BY DEF TestsInvariant
<1>2. /\ q \in RegFinishes => finishReply[q] # "OK" /\ q \notin LoginFinishes
      /\ q \in LoginFinishes => assertReply[q] # "OK" /\ q \notin RegFinishes
  BY EachKind, KindsAreDisjoint
<1>3. /\ \A u \in db.users : u.id # q
      /\ \A k \in db.credentials : k.user_id # q
      /\ \A t \in db.refresh_tokens : t.token_hash # q
  BY <1>1, <1>2 DEF RowsAreAnswered
<1>4. ASSUME stepNo # None, world.lastResponse = [request |-> q, code |-> Reply(q)]
      PROVE  IF q \in RegFinishes
             THEN \E s \in db.registration_sessions : s.id = command[q].id
             ELSE \E s \in db.login_sessions : s.id = assertion[q].id
  <2>1. /\ world.lastResponse.request = q /\ world.lastResponse.code = Reply(q)
        /\ world.lastResponse.code # "OK"
    BY <1>4
  <2>2. world.lastResponse # None
    <3>1. Reply(q) \in Codes /\ q \in Requests
      BY DEF Codes, Requests
    <3> QED
      BY <1>4, <3>1, ResponsesAssumption DEF Responses
  <2>3. inFlight = None
    BY <1>1, <1>4, <2>1, <2>2 DEF ResponseIsRead
  <2>4. Stage # "nothing"
    BY <1>1, <1>4, <2>2 DEF LastRequest
  <2>5. CASE Stage = "attest"
    <3>1. Attesting(q) /\ q \in RegFinishes /\ finishReply[q] # "OK"
      BY <1>2, <1>4, <2>1, <2>3, <2>5, Answered DEF Attesting, Ceremony
    <3>2. db = OpenedImage(command[q].id)
      BY <3>1 DEF Attesting
    <3> QED
      BY <3>1, <3>2 DEF OpenedImage, EmptyDatabase, SessionRow
  <2>6. CASE Stage = "assert"
    <3>1. PICK p : p = world.accessToken
      OBVIOUS
    <3>2. Asserting(p, q) /\ q \in LoginFinishes /\ assertReply[q] # "OK"
      BY <1>2, <1>4, <2>1, <2>3, <2>6, <3>1, Answered DEF Asserting
    <3>3. db = ChallengedImage(p, assertion[q].id)
      BY <3>2 DEF Asserting
    <3> QED
      BY <1>2, <3>2, <3>3 DEF ChallengedImage, LoginSessionRowOf
  <2> QED
    BY <1>4, <2>1, <2>3, <2>4, <2>5, <2>6, Answered, Stages
<1> QED
  BY <1>3, <1>4

(* A request that was answered with the lock or the full disk has saved    *)
(* nothing and its session is there for a retry                            *)
(* (devlog/05-failure-modes.md:80).                                        *)
THEOREM FailuresSaveNothing == TestsSpec => []FailureSavesNothing
BY NothingIsSaved, TestsInvariantHolds, PTL
=============================================================================
