--------------------------- MODULE ComponentTests ---------------------------
(***************************************************************************)
(* component-tests: the godog runner that drives the service through HTTP, *)
(* scenario by scenario, and that interferes with its database - it holds  *)
(* a lock of its own, fills the disk, empties the tables.  The service is  *)
(* that of the slice modules; nothing else uses it and a run takes no time *)
(* that a token or a session would notice.                                 *)
(*                                                                         *)
(* godog runs the scenarios in an order of its own (Randomize: -1) and on  *)
(* one of two profiles.  The scenarios of GET /health and of the endpoint  *)
(* that does not exist yet, GET /v1/users/me, are left out.                *)
(***************************************************************************)
EXTENDS RegistrationsFinish, SessionsFinish, SessionsLogout, Sequences

CONSTANTS
    Runner,    \* the runner's own connection, as holder of the write lock
    Rounds     \* bound: scenarios in a run

ASSUME ComponentTestsAssumption ==
    /\ {"alice", "bob", "carol"} \subseteq Handles
    /\ 0 \in SignCounts
    /\ Rounds \in Nat
    /\ Runner \notin RegFinishes \cup LoginFinishes \cup {None}

(* No service of docker-compose.test.yml is given lifetimes: the defaults  *)
(* of config.go are minutes.                                               *)
ASSUME LifetimesAssumption ==
    ChallengeTTL >= TicksPerSecond /\ AccessTTL >= TicksPerSecond

(* A request is of one kind.                                               *)
ASSUME RequestsAssumption ==
    /\ RegStarts \cap (RegFinishes \cup LoginStarts \cup LoginFinishes) = {}
    /\ LoginStarts \cap (RegFinishes \cup LoginFinishes) = {}
    /\ Logouts \cap (RegStarts \cup RegFinishes \cup LoginStarts
                        \cup LoginFinishes \cup {None}) = {}

VARIABLES
    profile,    \* docker-compose profile: how large the disk is
    plan,       \* the scenarios, in the order godog has chosen
    stepNo,     \* number of the current scenario's next step, or None
    verdicts,   \* how the scenarios so far have ended
    world,      \* the World
    inFlight,   \* the request that httpClient.Do waits for, or None
    junk        \* whether junk.bin is on the disk

sliceVars == <<startVars, finishVars, loginVars, assertVars, logoutVars>>
runnerVars == <<profile, plan, stepNo, verdicts, world, inFlight, junk>>

Requests == RegStarts \cup RegFinishes \cup LoginStarts \cup LoginFinishes
                \cup Logouts
Responses == [request : Requests, code : Codes]

ASSUME ResponsesAssumption == None \notin Responses

(* The fields of the World that the steps read; a token is named by the    *)
(* request that was answered with it.                                      *)
NewWorld == [lastResponse |-> None, authenticator |-> FALSE,
             credential |-> None, accessToken |-> None, lockConn |-> FALSE]

----------------------------------------------------------------------------
(* features/*.feature.                                                     *)

Post(do, handle) == [do |-> do, arg |-> handle]
Then(code) == [do |-> "expect", arg |-> code]
Step(do) == [do |-> do, arg |-> None]

(* The macro step of auth_steps.go.                                        *)
UserIsLoggedIn(handle) ==
    << Post("register", handle), Then("OK"), Step("authenticator"),
       Step("attest"), Then("OK"), Step("keepTokens") >>

(* registrations.feature                                                   *)
RegistrationScenarios ==
    [ challenge   |-> <<Post("register", "alice"), Then("OK")>>,
      attestation |-> <<Step("authenticator"), Post("register", "bob"),
                        Step("attest"), Then("OK")>>,
      diskFull    |-> <<Step("authenticator"), Post("register", "carol"),
                        Step("fillDisk"), Step("attest"),
                        Then("db_disk_full")>> ]

(* sessions.feature                                                        *)
LoginScenarios ==
    [ loginStart |-> UserIsLoggedIn("alice")
                       \o <<Post("login", "alice"), Then("OK")>>,
      login      |-> UserIsLoggedIn("bob")
                       \o <<Post("login", "bob"), Step("assert"), Then("OK")>>,
      locked     |-> UserIsLoggedIn("carol")
                       \o <<Post("login", "carol"), Step("lock"),
                            Step("assert"), Then("db_locked")>> ]

(* sessions-current.feature                                                *)
LogoutScenarios ==
    [ logout |-> UserIsLoggedIn("alice") \o <<Step("logout"), Then("OK")>> ]

(* TestFeatures runs every file of ../features.                            *)
Scenarios ==
    [ challenge   |-> RegistrationScenarios.challenge,
      attestation |-> RegistrationScenarios.attestation,
      diskFull    |-> RegistrationScenarios.diskFull,
      loginStart  |-> LoginScenarios.loginStart,
      login       |-> LoginScenarios.login,
      locked      |-> LoginScenarios.locked,
      logout      |-> LogoutScenarios.logout ]

----------------------------------------------------------------------------
(* Hooks.                                                                  *)

Round == Len(verdicts) + 1
Current == Scenarios[plan[Round]]

(* Mutant of CleanupDB: a table is forgotten.                              *)
CleanupButUsers(d) == [EmptyDatabase EXCEPT !.users = d.users]

(* DELETE FROM each of the five tables.                                    *)
CleanupDB(d) == EmptyDatabase

(* junk.bin goes first; the errors of the DELETEs are ignored, so that a   *)
(* lock that somebody holds leaves the rows where they are.                *)
BeforeScenario ==
    /\ stepNo = None
    /\ Round <= Rounds
    /\ stepNo' = 1
    /\ world' = NewWorld
    /\ junk' = FALSE
    /\ db' = IF writer = None THEN CleanupDB(db) ELSE db
    /\ view' = IF writer = None THEN db' ELSE view
    /\ UNCHANGED <<now, boots, writer, sliceVars, profile, plan, verdicts,
                   inFlight>>

ReleaseLock == IF world.lockConn THEN Rollback(Runner) ELSE UNCHANGED storeVars

AfterScenario(verdict) ==
    /\ verdicts' = Append(verdicts, verdict)
    /\ stepNo' = None
    /\ world' = [world EXCEPT !.lockConn = FALSE]
    /\ ReleaseLock
    /\ UNCHANGED <<sliceVars, profile, plan, inFlight, junk>>

----------------------------------------------------------------------------
(* Steps.                                                                  *)

Runs(do) == /\ stepNo # None /\ stepNo \in DOMAIN Current
            /\ Current[stepNo].do = do
            /\ inFlight = None

Passes == stepNo' = stepNo + 1 /\ UNCHANGED <<profile, plan, verdicts>>
Fails == AfterScenario("failed")

(* Which of the requests and key pairs that are left is taken makes no     *)
(* difference.                                                             *)
OneOf(S) == {x \in S : x = CHOOSE y \in S : TRUE}

Unused(requests, pc) == OneOf({q \in requests : pc[q] = "idle"})
NewCredential ==
    OneOf({k \in CredIDs : \A p \in RegFinishes :
             command[p] # None => command[p].credential_id # k})

(* doRequest, up to the moment the service has the request.                *)
Sends(q) == Passes /\ inFlight' = q /\ UNCHANGED <<world, junk>>

Register ==
    /\ Runs("register")
    /\ \E r \in Unused(RegStarts, startPc) :
          OpenSession(r, Current[stepNo].arg) /\ Sends(r)
    /\ UNCHANGED <<finishVars, loginVars, assertVars, logoutVars>>

LoginRequest ==
    /\ Runs("login")
    /\ \E r \in Unused(LoginStarts, loginPc) :
          /\ \/ LoadUser(r, Current[stepNo].arg)
             \/ UserNotFound(r, Current[stepNo].arg)
          /\ Sends(r)
    /\ UNCHANGED <<startVars, finishVars, assertVars, logoutVars>>

(* The last response has options of the kind that the step parses.         *)
HasOptions(offers) ==
    /\ world.lastResponse # None
    /\ world.lastResponse.request \in offers
    /\ world.lastResponse.code = "OK"

(* A key pair is generated for every attestation; its counter stays 0.     *)
(* Without options, or without a key to sign with, nothing is sent.        *)
Attest(r) ==
    \E p \in Unused(RegFinishes, finishPc), k \in NewCredential :
      /\ AcceptCommand(p, [id |-> r, challenge |-> r, credential_id |-> k,
                           sign_count |-> 0])
      /\ Passes
      /\ inFlight' = p
      /\ world' = [world EXCEPT !.credential = k]
      /\ UNCHANGED <<startVars, loginVars, assertVars, logoutVars, junk>>

SendAttestation ==
    /\ Runs("attest")
    /\ IF HasOptions(RegStarts) /\ world.authenticator
       THEN Attest(world.lastResponse.request) ELSE Fails

Assert(r) ==
    \E q \in Unused(LoginFinishes, assertPc) :
      /\ AcceptAssertion(q, [id     |-> r,
                             signed |-> [challenge     |-> r,
                                         credential_id |-> world.credential,
                                         sign_count    |-> 0]])
      /\ Sends(q)
      /\ UNCHANGED <<startVars, finishVars, loginVars, logoutVars>>

SendAssertion ==
    /\ Runs("assert")
    /\ IF HasOptions(LoginStarts) /\ world.credential # None
       THEN Assert(world.lastResponse.request) ELSE Fails

Logout ==
    /\ Runs("logout")
    /\ \E l \in Unused(Logouts, logoutPc) :
          /\ LET p == world.accessToken
                 token == AccessTokenIn(issued[p], p, p)
             IN  IF p = None THEN RejectBearer(l)
                 ELSE AuthenticateLogout(l, token) \/ AccessTokenInvalid(l, token)
          /\ Sends(l)
    /\ UNCHANGED <<startVars, finishVars, loginVars, assertVars>>

VirtualAuthenticator ==
    /\ Runs("authenticator")
    /\ Passes
    /\ world' = [world EXCEPT !.authenticator = TRUE]
    /\ UNCHANGED <<storeVars, sliceVars, inFlight, junk>>

KeepTokens ==
    /\ Runs("keepTokens")
    /\ Passes
    /\ world' = [world EXCEPT !.accessToken = world.lastResponse.request]
    /\ UNCHANGED <<storeVars, sliceVars, inFlight, junk>>

(* BEGIN EXCLUSIVE on a connection that does not wait.                     *)
LockDatabase ==
    /\ Runs("lock")
    /\ IF writer = None
       THEN /\ FirstWrite(Runner, db)
            /\ Passes
            /\ world' = [world EXCEPT !.lockConn = TRUE]
            /\ UNCHANGED <<sliceVars, inFlight, junk>>
       ELSE Fails

FillDisk ==
    /\ Runs("fillDisk")
    /\ Passes
    /\ junk' = TRUE
    /\ UNCHANGED <<storeVars, sliceVars, world, inFlight>>

Expect ==
    /\ Runs("expect")
    /\ IF world.lastResponse # None /\ world.lastResponse.code = Current[stepNo].arg
       THEN Passes /\ UNCHANGED <<storeVars, sliceVars, world, inFlight, junk>>
       ELSE Fails

Finish == /\ stepNo # None /\ stepNo = Len(Current) + 1
          /\ inFlight = None
          /\ AfterScenario("passed")

----------------------------------------------------------------------------
(* The service, while the runner waits.                                    *)

At(q) == CASE q \in RegStarts     -> startPc[q]
           [] q \in RegFinishes   -> finishPc[q]
           [] q \in LoginStarts   -> loginPc[q]
           [] q \in LoginFinishes -> assertPc[q]
           [] q \in Logouts       -> logoutPc[q]

Reply(q) == CASE q \in RegStarts     -> startReply[q]
              [] q \in RegFinishes   -> finishReply[q]
              [] q \in LoginStarts   -> loginReply[q]
              [] q \in LoginFinishes -> assertReply[q]
              [] q \in Logouts       -> logoutReply[q]

Proceeds ==
    \/ \E r \in RegStarts : /\ StartProceeds(r)
                            /\ UNCHANGED <<finishVars, loginVars, assertVars, logoutVars>>
    \/ \E p \in RegFinishes : /\ FinishProceeds(p)
                              /\ UNCHANGED <<startVars, loginVars, assertVars, logoutVars>>
    \/ \E r \in LoginStarts : /\ LoginProceeds(r)
                              /\ UNCHANGED <<startVars, finishVars, assertVars, logoutVars>>
    \/ \E q \in LoginFinishes : /\ AssertProceeds(q)
                                /\ UNCHANGED <<startVars, finishVars, loginVars, logoutVars>>
    \/ \E l \in Logouts : /\ LogoutProceeds(l)
                          /\ UNCHANGED <<startVars, finishVars, loginVars, assertVars>>

AWriteFails(f) ==
    \/ \E r \in RegStarts : /\ PersistFails(r, f)
                            /\ UNCHANGED <<finishVars, loginVars, assertVars, logoutVars>>
    \/ \E p \in RegFinishes : /\ WriteFails(p, f)
                              /\ UNCHANGED <<startVars, loginVars, assertVars, logoutVars>>
    \/ \E r \in LoginStarts : /\ PersistLoginFails(r, f)
                              /\ UNCHANGED <<startVars, finishVars, assertVars, logoutVars>>
    \/ \E q \in LoginFinishes : /\ FinishLoginFails(q, f)
                                /\ UNCHANGED <<startVars, finishVars, loginVars, logoutVars>>
    \/ \E l \in Logouts : /\ RevokeFails(l, f)
                          /\ UNCHANGED <<startVars, finishVars, loginVars, assertVars>>

(* 1.5 MB of junk fill the tmpfs of one profile and nothing of the other's *)
(* volume.                                                                 *)
DiskIsFull == junk /\ profile = "disk-full"

(* The runner waits for every response.                                    *)
ServiceProceeds ==
    /\ Proceeds
    /\ DiskIsFull => db' = db
    /\ UNCHANGED runnerVars
    /\ At(inFlight)' # "lost"

(* A statement fails for what the runner does, and then for no more than   *)
(* the 5 seconds of the busy timeout: less than the client's 10.           *)
ServiceFails ==
    /\ \/ writer = Runner /\ AWriteFails("busy")
       \/ DiskIsFull /\ AWriteFails("full")
    /\ UNCHANGED runnerVars

Receive(q) ==
    /\ inFlight = q
    /\ At(q) = "done"
    /\ inFlight' = None
    /\ world' = [world EXCEPT !.lastResponse = [request |-> q, code |-> Reply(q)]]
    /\ UNCHANGED <<storeVars, sliceVars, profile, plan, stepNo, verdicts, junk>>

----------------------------------------------------------------------------

TestsInit ==
    /\ StoreInit /\ StartInit /\ FinishInit /\ LoginInit /\ AssertInit /\ LogoutInit
    /\ profile \in {"healthy", "disk-full"}
    /\ plan \in [1 .. Rounds -> DOMAIN Scenarios]
    /\ stepNo = None /\ verdicts = <<>> /\ world = NewWorld
    /\ inFlight = None /\ junk = FALSE

RunnerStep ==
    \/ BeforeScenario
    \/ Register
    \/ LoginRequest
    \/ SendAttestation
    \/ SendAssertion
    \/ Logout
    \/ VirtualAuthenticator
    \/ KeepTokens
    \/ LockDatabase
    \/ FillDisk
    \/ Expect
    \/ Finish
    \/ \E q \in Requests : Receive(q)

RunIsOver == Len(verdicts) = Rounds /\ UNCHANGED <<storeVars, sliceVars, runnerVars>>

TestsNext == RunnerStep \/ ServiceProceeds \/ ServiceFails \/ RunIsOver

testsVars == <<storeVars, sliceVars, runnerVars>>

TestsSpec == TestsInit /\ [][TestsNext]_testsVars

(* The runner and the handlers run on; a wait for a lock that is not given *)
(* up, and a statement for which there is no room, fail in the end.        *)
FairTestsSpec ==
    /\ TestsSpec
    /\ WF_testsVars(RunnerStep)
    /\ WF_testsVars(ServiceProceeds)
    /\ WF_testsVars(ServiceFails)

----------------------------------------------------------------------------

(* The repository's own tests, run on the model: every scenario passes, in *)
(* whatever order and company godog runs it, with the handles that others  *)
(* used and after the locks and the junk they left - except that the full  *)
(* disk of one scenario cannot be had on the profile that is the default.  *)
ScenariosPass ==
    \A i \in DOMAIN verdicts :
        verdicts[i] = "failed" <=> plan[i] = "diskFull" /\ profile = "healthy"

(* What these tests cannot see (devlog/05-failure-modes.md:80): a request  *)
(* that was answered with the lock or the full disk has saved nothing, and *)
(* the session it was to use is still there for a retry, until the next    *)
(* scenario empties the tables.                                            *)
FailureSavesNothing ==
    \A q \in RegFinishes \cup LoginFinishes :
        Reply(q) \in {"db_locked", "db_disk_full"} =>
            /\ \A u \in db.users : u.id # q
            /\ \A k \in db.credentials : k.user_id # q
            /\ \A t \in db.refresh_tokens : t.token_hash # q
            /\ stepNo # None /\ world.lastResponse = [request |-> q, code |-> Reply(q)]
                 => IF q \in RegFinishes
                    THEN \E s \in db.registration_sessions : s.id = command[q].id
                    ELSE \E s \in db.login_sessions : s.id = assertion[q].id

(* A scenario that holds a lock waits for a request that waits for that    *)
(* lock; the run ends all the same.                                        *)
TheRunEnds == <>(Len(verdicts) = Rounds)
=============================================================================
