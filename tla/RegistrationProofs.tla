------------------------- MODULE RegistrationProofs -------------------------
(***************************************************************************)
(* What holds of Registration for every value of its constants.            *)
(*                                                                         *)
(* The proofs carry one invariant, InductiveInvariant, from step to step:  *)
(* the types, what each handler knows at each point (HandlersKnow), what   *)
(* the open transaction will publish (IsolatedTransaction), that the       *)
(* committed tables are those the answers account for                      *)
(* (DatabaseMatchesAnswers) and that no two accounts share a handle or a   *)
(* credential (OwnersAreUnique).  The lemmas ...Step say that a step keeps *)
(* one of the parts; the theorems follow from the whole.                   *)
(***************************************************************************)
EXTENDS Registration, TLAPS

----------------------------------------------------------------------------
(* Types.                                                                  *)

(* InsertRow of a row of a table gives a database again.                   *)
LEMMA InsertRowTyped ==
    ASSUME NEW d \in Database
    PROVE  /\ \A row \in RegSessionRow :
                 InsertRow(d, "registration_sessions", row) \in Database
           /\ \A row \in UserRow : InsertRow(d, "users", row) \in Database
           /\ \A row \in CredentialRow : InsertRow(d, "credentials", row) \in Database
           /\ \A row \in RefreshTokenRow :
                 InsertRow(d, "refresh_tokens", row) \in Database
BY DEF Database, InsertRow

(* DeleteByID gives a database again.                                      *)
LEMMA DeleteByIDTyped ==
    ASSUME NEW d \in Database, NEW id
    PROVE  DeleteByID(d, "registration_sessions", id) \in Database
BY DEF Database, DeleteByID

(* Time.Unix of an instant is a number of seconds.                         *)
LEMMA UnixTyped == \A t \in Nat : Unix(t) \in Nat
BY StoreAssumption DEF Unix

(* The error mappings answer only codes their slices know.                 *)
LEMMA ErrorTyped ==
    /\ \A f : WriteError(f) \in {"db_locked", "db_disk_full", "INTERNAL_ERROR"}
    /\ \A f : ReadError(f) \in {"db_locked", "INTERNAL_ERROR"}
    /\ \A x : ConstraintError(x) \in {"HANDLE_TAKEN", "INTERNAL_ERROR"}
BY DEF WriteError, ReadError, ConstraintError

(* generateTokenPair returns a token pair.                                 *)
LEMMA TokenPairTyped ==
    ASSUME NEW t \in Nat, NEW key \in Nat
    PROVE  GenerateTokenPair(t, key) \in TokenPair
<1>1. t + AccessTTL \in Nat /\ t + RefreshTTL \in Nat
  BY TokensAssumption
<1> QED
  BY <1>1, UnixTyped DEF GenerateTokenPair, TokenPair

(* A session that was built can be stored.                                 *)
LEMMA SessionRowTyped ==
    ASSUME NEW r \in RegStarts, opened[r] \in RegistrationSession
    PROVE  SessionRow(r) \in RegSessionRow
BY UnixTyped DEF SessionRow, RegSessionRow, RegistrationSession

(* The rows that FinishRegistration inserts fit their tables.              *)
LEMMA RegistrationRowsTyped ==
    ASSUME NEW p \in RegFinishes, 
           command[p] \in RegistrationFinishCommand,
           loaded[p] \in RegSessionRow,
           issued[p] \in TokenPair
    PROVE  /\ UserOf(p) \in UserRow
           /\ CredentialOf(p) \in CredentialRow
           /\ RefreshTokenOf(p) \in RefreshTokenRow
BY DEF UserOf, CredentialOf, RefreshTokenOf, UserRow, CredentialRow,
       RefreshTokenRow, RegistrationFinishCommand, RegSessionRow, TokenPair

(* From its first INSERT on, a request has the rows it needs.              *)
LEMMA TransactionRowsTyped ==
    ASSUME InductiveInvariant, NEW p \in RegFinishes,
           finishPc[p] \in {"insertUser"} \cup InTransaction
    PROVE  /\ UserOf(p) \in UserRow
           /\ CredentialOf(p) \in CredentialRow
           /\ RefreshTokenOf(p) \in RefreshTokenRow
<1>1. /\ command[p] \in RegistrationFinishCommand
      /\ command[p].id \in Stored
      /\ loaded[p] = SessionRow(command[p].id)
      /\ issued[p] \in TokenPair
  BY DEF InductiveInvariant, HandlersKnow, FinishKnows
<1>2. opened[command[p].id] \in RegistrationSession
  BY <1>1 DEF InductiveInvariant, HandlersKnow, StartKnows, Stored
<1>3. loaded[p] \in RegSessionRow
  BY <1>1, <1>2, SessionRowTyped DEF Stored
<1> QED
  BY <1>1, <1>3, RegistrationRowsTyped

(* A request that has not decided its answer has not answered.             *)
LEMMA NoneIsNoReply ==
    /\ None # "OK" /\ None # "NOT_FOUND" /\ None # "HANDLE_TAKEN"
BY StoreAssumption DEF Codes

----------------------------------------------------------------------------
(* Each step of Next keeps each part of the invariant.                     *)

(* A step keeps every variable in its type.                                *)
LEMMA TypeStep ==
    ASSUME InductiveInvariant, [Next]_vars
    PROVE  TypeOK'
<1> USE DEF InductiveInvariant, TypeOK, StoreTypeOK, StartTypeOK,
        FinishTypeOK, StartPcs, StartReplies, FinishPcs, FinishReplies,
        FinishRunning, InTransaction
<1>1. ASSUME NEW r \in RegStarts,
             RejectHandle(r) \/ RespondStart(r),
             UNCHANGED finishVars
      PROVE  TypeOK'
  BY <1>1
  DEF RejectHandle, RespondStart, finishVars, storeVars, AnswerStart
<1>2. ASSUME NEW r \in RegStarts, NEW h \in Handles,
             OpenSession(r, h), UNCHANGED finishVars
      PROVE  TypeOK'
  BY <1>2, ChallengeTTLAssumption
  DEF OpenSession, finishVars, storeVars, AnswerStart,
      NewRegistrationSession, RegistrationSession
<1>3. ASSUME NEW r \in RegStarts,
             PersistRegistrationSession(r), UNCHANGED finishVars
      PROVE  TypeOK'
  BY <1>3, InsertRowTyped, SessionRowTyped
  DEF PersistRegistrationSession, finishVars, storeVars, AnswerStart,
      Autocommit, HandlersKnow, StartKnows
<1>4. ASSUME NEW r \in RegStarts, NEW f \in Faults,
             PersistFails(r, f), UNCHANGED finishVars
      PROVE  TypeOK'
  BY <1>4, ErrorTyped
  DEF PersistFails, finishVars, storeVars, AnswerStart
<1>5. ASSUME NEW p \in RegFinishes,
             (\/ RejectAttestation(p)
              \/ \E c \in RegistrationFinishCommand : AcceptCommand(p, c)
              \/ SessionNotFound(p)
              \/ VerifyAttestation(p)
              \/ SessionExpired(p)
              \/ AttestationInvalid(p)
              \/ RespondFinish(p)),
             UNCHANGED startVars
      PROVE  TypeOK'
  BY <1>5
  DEF RejectAttestation, AcceptCommand, SessionNotFound, VerifyAttestation,
      SessionExpired, AttestationInvalid, RespondFinish, startVars,
      storeVars, Answer, GoTo
<1>6. ASSUME NEW p \in RegFinishes,
             LoadRegistrationSession(p), UNCHANGED startVars
      PROVE  TypeOK'
  BY <1>6
  DEF LoadRegistrationSession, startVars, storeVars, Answer, GoTo, Database
<1>7. ASSUME NEW p \in RegFinishes,
             (\/ \E f \in Faults : LoadFails(p, f)
              \/ InsertUserConflicts(p)
              \/ InsertCredentialConflicts(p)
              \/ \E f \in Faults : WriteFails(p, f)),
             UNCHANGED startVars
      PROVE  TypeOK'
  BY <1>7, ErrorTyped
  DEF LoadFails, InsertUserConflicts, InsertCredentialConflicts, WriteFails,
      startVars, storeVars, Answer, GoTo, Rollback
<1>8. ASSUME NEW p \in RegFinishes, IssueTokenPair(p), UNCHANGED startVars
      PROVE  TypeOK'
  BY <1>8, TokenPairTyped
  DEF IssueTokenPair, startVars, storeVars, Answer, GoTo
<1>9. ASSUME NEW p \in RegFinishes, InsertUser(p), UNCHANGED startVars
      PROVE  TypeOK'
  BY <1>9, InsertRowTyped, TransactionRowsTyped
  DEF InsertUser, startVars, storeVars, Answer, GoTo, FirstWrite, NextWrite
<1>10. ASSUME NEW p \in RegFinishes,
             InsertCredential(p), UNCHANGED startVars
      PROVE  TypeOK'
  BY <1>10, InsertRowTyped, TransactionRowsTyped
  DEF InsertCredential, startVars, storeVars, Answer, GoTo, FirstWrite,
      NextWrite
<1>11. ASSUME NEW p \in RegFinishes,
             InsertRefreshToken(p), UNCHANGED startVars
      PROVE  TypeOK'
  BY <1>11, InsertRowTyped, TransactionRowsTyped
  DEF InsertRefreshToken, startVars, storeVars, Answer, GoTo, FirstWrite,
      NextWrite
<1>12. ASSUME NEW p \in RegFinishes, DeleteSession(p), UNCHANGED startVars
      PROVE  TypeOK'
  BY <1>12, DeleteByIDTyped
  DEF DeleteSession, startVars, storeVars, Answer, GoTo, NextWrite
<1>13. ASSUME NEW p \in RegFinishes,
             CommitRegistration(p), UNCHANGED startVars
      PROVE  TypeOK'
  BY <1>13
  DEF CommitRegistration, startVars, storeVars, Answer, GoTo, Commit
<1>14. ASSUME ClockStep
      PROVE  TypeOK'
  BY <1>14
  DEF ClockStep, Tick, startVars, finishVars
<1>15. ASSUME Restart
      PROVE  TypeOK'
  BY <1>15
  DEF Restart, Reboot, StartKilled, FinishKilled
<1>16. ASSUME UNCHANGED vars
      PROVE  TypeOK'
  BY <1>16
  DEF vars, storeVars, startVars, finishVars
<1> QED
  BY <1>1, <1>2, <1>3, <1>4, <1>5, <1>6, <1>7, <1>8, <1>9, <1>10, <1>11,
     <1>12, <1>13, <1>14, <1>15, <1>16
  DEF Next, StartStep, StartArrives, StartProceeds, StartFails, FinishStep,
      FinishArrives, FinishProceeds, FinishFails, Quiescent

(* A step keeps what the start slice knows of each of its requests.        *)
LEMMA StartKnowsStep ==
    ASSUME InductiveInvariant, [Next]_vars
    PROVE  \A q \in RegStarts : StartKnows(q)'
<1> USE DEF InductiveInvariant, TypeOK, StoreTypeOK, StartTypeOK,
        FinishTypeOK, HandlersKnow, StartKnows, Stored
<1>1. ASSUME NEW r \in RegStarts,
             (\/ RejectHandle(r)
              \/ PersistRegistrationSession(r)
              \/ \E f \in Faults : PersistFails(r, f)
              \/ RespondStart(r)),
             UNCHANGED finishVars
      PROVE  \A q \in RegStarts : StartKnows(q)'
  BY <1>1
  DEF RejectHandle, PersistRegistrationSession, PersistFails, RespondStart,
      finishVars, storeVars, AnswerStart
<1>2. ASSUME NEW r \in RegStarts, NEW h \in Handles,
             OpenSession(r, h), UNCHANGED finishVars
      PROVE  \A q \in RegStarts : StartKnows(q)'
  BY <1>2, ChallengeTTLAssumption
  DEF OpenSession, finishVars, storeVars, AnswerStart,
      NewRegistrationSession, RegistrationSession
<1>3. ASSUME NEW p \in RegFinishes,
             (\/ RejectAttestation(p)
              \/ \E c \in RegistrationFinishCommand : AcceptCommand(p, c)
              \/ LoadRegistrationSession(p)
              \/ SessionNotFound(p)
              \/ \E f \in Faults : LoadFails(p, f)
              \/ VerifyAttestation(p)
              \/ SessionExpired(p)
              \/ AttestationInvalid(p)
              \/ IssueTokenPair(p)
              \/ InsertUser(p)
              \/ InsertUserConflicts(p)
              \/ InsertCredential(p)
              \/ InsertCredentialConflicts(p)
              \/ InsertRefreshToken(p)
              \/ DeleteSession(p)
              \/ CommitRegistration(p)
              \/ \E f \in Faults : WriteFails(p, f)
              \/ RespondFinish(p)),
             UNCHANGED startVars
      PROVE  \A q \in RegStarts : StartKnows(q)'
  BY <1>3
  DEF RejectAttestation, AcceptCommand, LoadRegistrationSession,
      SessionNotFound, LoadFails, VerifyAttestation, SessionExpired,
      AttestationInvalid, IssueTokenPair, InsertUser, InsertUserConflicts,
      InsertCredential, InsertCredentialConflicts, InsertRefreshToken,
      DeleteSession, CommitRegistration, WriteFails, RespondFinish,
      startVars, storeVars, Answer, GoTo, Rollback
<1>4. ASSUME ClockStep
      PROVE  \A q \in RegStarts : StartKnows(q)'
  BY <1>4
  DEF ClockStep, Tick, startVars, finishVars
<1>5. ASSUME Restart
      PROVE  \A q \in RegStarts : StartKnows(q)'
  BY <1>5
  DEF Restart, Reboot, StartKilled, FinishKilled
<1>6. ASSUME UNCHANGED vars
      PROVE  \A q \in RegStarts : StartKnows(q)'
  BY <1>6
  DEF vars, storeVars, startVars, finishVars
<1> QED
  BY <1>1, <1>2, <1>3, <1>4, <1>5, <1>6
  DEF Next, StartStep, StartArrives, StartProceeds, StartFails, FinishStep,
      FinishArrives, FinishProceeds, FinishFails, Quiescent

(* A stored session stays stored, and what it was opened with stays the    *)
(* same: only a request that has not decided its answer opens one.         *)
LEMMA StoredGrows ==
    ASSUME InductiveInvariant, [Next]_vars
    PROVE  Stored \subseteq Stored' /\ \A s \in Stored : opened'[s] = opened[s]
<1> USE DEF InductiveInvariant, TypeOK, StoreTypeOK, StartTypeOK,
        FinishTypeOK, HandlersKnow, StartKnows, Stored
<1>1. ASSUME NEW r \in RegStarts,
             (\/ RejectHandle(r)
              \/ \E h \in Handles : OpenSession(r, h)
              \/ PersistRegistrationSession(r)
              \/ \E f \in Faults : PersistFails(r, f)
              \/ RespondStart(r)),
             UNCHANGED finishVars
      PROVE  Stored \subseteq Stored' /\ \A s \in Stored : opened'[s] = opened[s]
  BY <1>1, NoneIsNoReply
  DEF RejectHandle, OpenSession, PersistRegistrationSession, PersistFails,
      RespondStart, finishVars, storeVars, AnswerStart
<1>2. ASSUME NEW p \in RegFinishes,
             (\/ RejectAttestation(p)
              \/ \E c \in RegistrationFinishCommand : AcceptCommand(p, c)
              \/ LoadRegistrationSession(p)
              \/ SessionNotFound(p)
              \/ \E f \in Faults : LoadFails(p, f)
              \/ VerifyAttestation(p)
              \/ SessionExpired(p)
              \/ AttestationInvalid(p)
              \/ IssueTokenPair(p)
              \/ InsertUser(p)
              \/ InsertUserConflicts(p)
              \/ InsertCredential(p)
              \/ InsertCredentialConflicts(p)
              \/ InsertRefreshToken(p)
              \/ DeleteSession(p)
              \/ CommitRegistration(p)
              \/ \E f \in Faults : WriteFails(p, f)
              \/ RespondFinish(p)),
             UNCHANGED startVars
      PROVE  Stored \subseteq Stored' /\ \A s \in Stored : opened'[s] = opened[s]
  BY <1>2, NoneIsNoReply
  DEF RejectAttestation, AcceptCommand, LoadRegistrationSession,
      SessionNotFound, LoadFails, VerifyAttestation, SessionExpired,
      AttestationInvalid, IssueTokenPair, InsertUser, InsertUserConflicts,
      InsertCredential, InsertCredentialConflicts, InsertRefreshToken,
      DeleteSession, CommitRegistration, WriteFails, RespondFinish,
      startVars, storeVars, Answer, GoTo, Rollback
<1>3. ASSUME ClockStep
      PROVE  Stored \subseteq Stored' /\ \A s \in Stored : opened'[s] = opened[s]
  BY <1>3, NoneIsNoReply
  DEF ClockStep, Tick, startVars, finishVars
<1>4. ASSUME Restart
      PROVE  Stored \subseteq Stored' /\ \A s \in Stored : opened'[s] = opened[s]
  BY <1>4, NoneIsNoReply
  DEF Restart, Reboot, StartKilled, FinishKilled
<1>5. ASSUME UNCHANGED vars
      PROVE  Stored \subseteq Stored' /\ \A s \in Stored : opened'[s] = opened[s]
  BY <1>5, NoneIsNoReply
  DEF vars, storeVars, startVars, finishVars
<1> QED
  BY <1>1, <1>2, <1>3, <1>4, <1>5
  DEF Next, StartStep, StartArrives, StartProceeds, StartFails, FinishStep,
      FinishArrives, FinishProceeds, FinishFails, Quiescent

(* A step that leaves the finish slice, the users and the credentials as   *)
(* they are leaves what the finish slice knows as it is.                   *)
LEMMA FinishKnowsFrame ==
    ASSUME Stored \subseteq Stored',
           \A s \in Stored : opened'[s] = opened[s],
           UNCHANGED finishVars,
           db'.users = db.users, db'.credentials = db.credentials,
           NEW q \in RegFinishes, FinishKnows(q)
    PROVE  FinishKnows(q)'
BY DEF FinishKnows, finishVars, FreshSession, Verified, HandleTaken,
       CredentialExists, SessionRow

(* A step keeps what the finish slice knows of each of its requests.       *)
LEMMA FinishKnowsStep ==
    ASSUME InductiveInvariant, [Next]_vars
    PROVE  \A q \in RegFinishes : FinishKnows(q)'
<1> USE DEF InductiveInvariant, TypeOK, StoreTypeOK, StartTypeOK,
        FinishTypeOK, HandlersKnow, FinishKnows, StartKnows, Stored,
        FinishRunning, InTransaction, FreshSession, Verified, SessionRow
<1>1. ASSUME NEW r \in RegStarts,
             (\/ RejectHandle(r)
              \/ \E h \in Handles : OpenSession(r, h)
              \/ \E f \in Faults : PersistFails(r, f)
              \/ RespondStart(r)),
             UNCHANGED finishVars
      PROVE  \A q \in RegFinishes : FinishKnows(q)'
  BY <1>1, StoredGrows, FinishKnowsFrame
  DEF RejectHandle, OpenSession, PersistFails, RespondStart, finishVars,
      storeVars, AnswerStart
<1>2. ASSUME NEW r \in RegStarts,
             PersistRegistrationSession(r), UNCHANGED finishVars
      PROVE  \A q \in RegFinishes : FinishKnows(q)'
  BY <1>2, StoredGrows, FinishKnowsFrame
  DEF PersistRegistrationSession, finishVars, storeVars, AnswerStart,
      Autocommit, InsertRow, Database
<1>3. ASSUME NEW p \in RegFinishes,
             (\/ RejectAttestation(p) \/ VerifyAttestation(p)
              \/ AttestationInvalid(p) \/ RespondFinish(p)),
             UNCHANGED startVars
      PROVE  \A q \in RegFinishes : FinishKnows(q)'
  BY <1>3
  DEF RejectAttestation, VerifyAttestation, AttestationInvalid,
      RespondFinish, startVars, storeVars, Answer, GoTo
<1>4. ASSUME NEW p \in RegFinishes, NEW c \in RegistrationFinishCommand,
             AcceptCommand(p, c), UNCHANGED startVars
      PROVE  \A q \in RegFinishes : FinishKnows(q)'
  BY <1>4, NoneIsNoReply
  DEF AcceptCommand, startVars, storeVars, Answer, GoTo, CanSend, Offered,
      RegistrationFinishCommand
<1>5. ASSUME NEW p \in RegFinishes,
             LoadRegistrationSession(p), UNCHANGED startVars
      PROVE  \A q \in RegFinishes : FinishKnows(q)'
  BY <1>5
  DEF LoadRegistrationSession, startVars, storeVars, Answer, GoTo,
      DatabaseMatchesAnswers
<1>6. ASSUME NEW p \in RegFinishes,
             SessionNotFound(p) \/ SessionExpired(p),
             UNCHANGED startVars
      PROVE  \A q \in RegFinishes : FinishKnows(q)'
  BY <1>6, NoneIsNoReply
  DEF SessionNotFound, SessionExpired, startVars, storeVars, Answer, GoTo
<1>7. ASSUME NEW p \in RegFinishes,
             (\/ \E f \in Faults : LoadFails(p, f)
              \/ \E f \in Faults : WriteFails(p, f)),
             UNCHANGED startVars
      PROVE  \A q \in RegFinishes : FinishKnows(q)'
  BY <1>7, ErrorTyped
  DEF LoadFails, WriteFails, startVars, storeVars, Answer, GoTo, Rollback
<1>8. ASSUME NEW p \in RegFinishes, IssueTokenPair(p), UNCHANGED startVars
      PROVE  \A q \in RegFinishes : FinishKnows(q)'
  BY <1>8, TokenPairTyped
  DEF IssueTokenPair, startVars, storeVars, Answer, GoTo
<1>9. ASSUME NEW p \in RegFinishes, InsertUser(p), UNCHANGED startVars
      PROVE  \A q \in RegFinishes : FinishKnows(q)'
  BY <1>9
  DEF InsertUser, startVars, storeVars, Answer, GoTo, FirstWrite
<1>10. ASSUME NEW p \in RegFinishes,
             InsertUserConflicts(p) \/ InsertCredentialConflicts(p),
             UNCHANGED startVars
      PROVE  \A q \in RegFinishes : FinishKnows(q)'
  BY <1>10
  DEF InsertUserConflicts, InsertCredentialConflicts, startVars, storeVars,
      Answer, GoTo, Rollback, ConstraintError
<1>11. ASSUME NEW p \in RegFinishes,
             InsertCredential(p), UNCHANGED startVars
      PROVE  \A q \in RegFinishes : FinishKnows(q)'
  <2>1. view.credentials = db.credentials
    BY <1>11 DEF InsertCredential, IsolatedTransaction
  <2>2. ~CredentialExists(db, command[p].credential_id)
    BY <1>11, <2>1 DEF InsertCredential, CredentialExists
  <2> QED
    BY <1>11, <2>2 DEF InsertCredential, GoTo, startVars, NextWrite
<1>12. ASSUME NEW p \in RegFinishes,
             InsertRefreshToken(p) \/ DeleteSession(p),
             UNCHANGED startVars
      PROVE  \A q \in RegFinishes : FinishKnows(q)'
  BY <1>12
  DEF InsertRefreshToken, DeleteSession, startVars, storeVars, Answer, GoTo,
      NextWrite
<1>13. ASSUME NEW p \in RegFinishes,
             CommitRegistration(p), UNCHANGED startVars
      PROVE  \A q \in RegFinishes : FinishKnows(q)'
  BY <1>13
  DEF CommitRegistration, startVars, storeVars, Answer, GoTo, Commit,
      IsolatedTransaction
<1>14. ASSUME ClockStep
      PROVE  \A q \in RegFinishes : FinishKnows(q)'
  BY <1>14
  DEF ClockStep, Tick, startVars, finishVars
<1>15. ASSUME Restart
      PROVE  \A q \in RegFinishes : FinishKnows(q)'
  BY <1>15
  DEF Restart, Reboot, StartKilled, FinishKilled, FinishPcs
<1>16. ASSUME UNCHANGED vars
      PROVE  \A q \in RegFinishes : FinishKnows(q)'
  BY <1>16
  DEF vars, storeVars, startVars, finishVars
<1> QED
  BY <1>1, <1>2, <1>3, <1>4, <1>5, <1>6, <1>7, <1>8, <1>9, <1>10, <1>11,
     <1>12, <1>13, <1>14, <1>15, <1>16
  DEF Next, StartStep, StartArrives, StartProceeds, StartFails, FinishStep,
      FinishArrives, FinishProceeds, FinishFails, Quiescent

(* A step keeps the open transaction isolated.                             *)
LEMMA IsolatedStep ==
    ASSUME InductiveInvariant, [Next]_vars
    PROVE  IsolatedTransaction'
<1> USE DEF InductiveInvariant, TypeOK, StoreTypeOK, StartTypeOK,
        FinishTypeOK, IsolatedTransaction, InTransaction, UserOf,
        CredentialOf, RefreshTokenOf
<1>1. ASSUME NEW r \in RegStarts, RejectHandle(r), UNCHANGED finishVars
      PROVE  IsolatedTransaction'
  BY <1>1
  DEF RejectHandle, finishVars, storeVars, AnswerStart
<1>2. ASSUME NEW r \in RegStarts, NEW h \in Handles,
             OpenSession(r, h), UNCHANGED finishVars
      PROVE  IsolatedTransaction'
  BY <1>2
  DEF OpenSession, finishVars, storeVars, AnswerStart
<1>3. ASSUME NEW r \in RegStarts,
             PersistRegistrationSession(r), UNCHANGED finishVars
      PROVE  IsolatedTransaction'
  BY <1>3, StoreAssumption
  DEF PersistRegistrationSession, finishVars, storeVars, AnswerStart,
      Autocommit
<1>4. ASSUME NEW r \in RegStarts, NEW f \in Faults,
             PersistFails(r, f), UNCHANGED finishVars
      PROVE  IsolatedTransaction'
  BY <1>4
  DEF PersistFails, finishVars, storeVars, AnswerStart
<1>5. ASSUME NEW r \in RegStarts, RespondStart(r), UNCHANGED finishVars
      PROVE  IsolatedTransaction'
  BY <1>5
  DEF RespondStart, finishVars, storeVars, AnswerStart
<1>6. ASSUME NEW p \in RegFinishes,
             RejectAttestation(p), UNCHANGED startVars
      PROVE  IsolatedTransaction'
  BY <1>6
  DEF RejectAttestation, startVars, storeVars, Answer, GoTo
<1>7. ASSUME NEW p \in RegFinishes, NEW c \in RegistrationFinishCommand,
             AcceptCommand(p, c), UNCHANGED startVars
      PROVE  IsolatedTransaction'
  BY <1>7
  DEF AcceptCommand, startVars, storeVars, Answer, GoTo
<1>8. ASSUME NEW p \in RegFinishes,
             LoadRegistrationSession(p), UNCHANGED startVars
      PROVE  IsolatedTransaction'
  BY <1>8
  DEF LoadRegistrationSession, startVars, storeVars, Answer, GoTo
<1>9. ASSUME NEW p \in RegFinishes, SessionNotFound(p), UNCHANGED startVars
      PROVE  IsolatedTransaction'
  BY <1>9
  DEF SessionNotFound, startVars, storeVars, Answer, GoTo
<1>10. ASSUME NEW p \in RegFinishes, NEW f \in Faults,
             LoadFails(p, f), UNCHANGED startVars
      PROVE  IsolatedTransaction'
  BY <1>10
  DEF LoadFails, startVars, storeVars, Answer, GoTo
<1>11. ASSUME NEW p \in RegFinishes,
             VerifyAttestation(p), UNCHANGED startVars
      PROVE  IsolatedTransaction'
  BY <1>11
  DEF VerifyAttestation, startVars, storeVars, Answer, GoTo
<1>12. ASSUME NEW p \in RegFinishes, SessionExpired(p), UNCHANGED startVars
      PROVE  IsolatedTransaction'
  BY <1>12
  DEF SessionExpired, startVars, storeVars, Answer, GoTo
<1>13. ASSUME NEW p \in RegFinishes,
             AttestationInvalid(p), UNCHANGED startVars
      PROVE  IsolatedTransaction'
  BY <1>13
  DEF AttestationInvalid, startVars, storeVars, Answer, GoTo
<1>14. ASSUME NEW p \in RegFinishes, IssueTokenPair(p), UNCHANGED startVars
      PROVE  IsolatedTransaction'
  BY <1>14
  DEF IssueTokenPair, startVars, storeVars, Answer, GoTo
<1>15. ASSUME NEW p \in RegFinishes, InsertUser(p), UNCHANGED startVars
      PROVE  IsolatedTransaction'
  BY <1>15, StoreAssumption
  DEF InsertUser, startVars, storeVars, Answer, GoTo, FirstWrite, InsertRow,
      Database
<1>16. ASSUME NEW p \in RegFinishes,
             InsertUserConflicts(p), UNCHANGED startVars
      PROVE  IsolatedTransaction'
  BY <1>16
  DEF InsertUserConflicts, startVars, storeVars, Answer, GoTo
<1>17. ASSUME NEW p \in RegFinishes,
             InsertCredential(p), UNCHANGED startVars
      PROVE  IsolatedTransaction'
  BY <1>17, StoreAssumption
  DEF InsertCredential, startVars, storeVars, Answer, GoTo, NextWrite,
      InsertRow, Database
<1>18. ASSUME NEW p \in RegFinishes,
             InsertCredentialConflicts(p), UNCHANGED startVars
      PROVE  IsolatedTransaction'
  BY <1>18, StoreAssumption
  DEF InsertCredentialConflicts, startVars, storeVars, Answer, GoTo,
      Rollback
<1>19. ASSUME NEW p \in RegFinishes,
             InsertRefreshToken(p), UNCHANGED startVars
      PROVE  IsolatedTransaction'
  BY <1>19, StoreAssumption
  DEF InsertRefreshToken, startVars, storeVars, Answer, GoTo, NextWrite,
      InsertRow, Database
<1>20. ASSUME NEW p \in RegFinishes, DeleteSession(p), UNCHANGED startVars
      PROVE  IsolatedTransaction'
  BY <1>20, StoreAssumption
  DEF DeleteSession, startVars, storeVars, Answer, GoTo, NextWrite,
      DeleteByID, Database, HandlersKnow, FinishKnows, SessionRow
<1>21. ASSUME NEW p \in RegFinishes,
             CommitRegistration(p), UNCHANGED startVars
      PROVE  IsolatedTransaction'
  BY <1>21, StoreAssumption
  DEF CommitRegistration, startVars, storeVars, Answer, GoTo, Commit
<1>22. ASSUME NEW p \in RegFinishes, NEW f \in Faults,
             WriteFails(p, f), UNCHANGED startVars
      PROVE  IsolatedTransaction'
  <2>1. CASE writer = p
    <3>1. finishPc' = [finishPc EXCEPT ![p] = "respond"]
      BY <1>22 DEF WriteFails, Answer, GoTo
    <3>2. writer' = None /\ view' = db /\ db' = db
      BY <1>22, <2>1 DEF WriteFails, Rollback
    <3>3. \A q \in RegFinishes : finishPc'[q] \notin {"insertCredential",
              "insertRefreshToken", "deleteSession", "commit"}
      BY <2>1, <3>1
    <3> QED
      BY <3>2, <3>3, StoreAssumption
  <2>2. CASE writer # p
    <3>1. finishPc' = [finishPc EXCEPT ![p] = "respond"]
      BY <1>22 DEF WriteFails, Answer, GoTo
    <3>2. writer' = writer /\ view' = view /\ db' = db /\ command' = command
            /\ issued' = issued /\ loaded' = loaded
      BY <1>22, <2>2 DEF WriteFails, Rollback
    <3>3. finishPc[p] = "insertUser"
      BY <1>22, <2>2 DEF WriteFails
    <3>4. \A q \in RegFinishes : finishPc'[q] = finishPc[q] \/ q = p
      BY <3>1
    <3>5. finishPc'[p] = "respond"
      BY <3>1
    <3> QED
      BY <1>22, <3>2, <3>3, <3>4, <3>5 DEF startVars
  <2> QED
    BY <2>1, <2>2
<1>23. ASSUME NEW p \in RegFinishes, RespondFinish(p), UNCHANGED startVars
      PROVE  IsolatedTransaction'
  BY <1>23
  DEF RespondFinish, startVars, storeVars, Answer, GoTo
<1>24. ASSUME ClockStep
      PROVE  IsolatedTransaction'
  BY <1>24
  DEF ClockStep, Tick, startVars, finishVars
<1>25. ASSUME Restart
      PROVE  IsolatedTransaction'
  BY <1>25, StoreAssumption
  DEF Restart, Reboot, StartKilled, FinishKilled, FinishPcs, FinishRunning
<1>26. ASSUME UNCHANGED vars
      PROVE  IsolatedTransaction'
  BY <1>26
  DEF vars, storeVars, startVars, finishVars
<1> QED
  BY <1>1, <1>2, <1>3, <1>4, <1>5, <1>6, <1>7, <1>8, <1>9, <1>10, <1>11,
     <1>12, <1>13, <1>14, <1>15, <1>16, <1>17, <1>18, <1>19, <1>20, <1>21,
     <1>22, <1>23, <1>24, <1>25, <1>26
  DEF Next, StartStep, StartArrives, StartProceeds, StartFails, FinishStep,
      FinishArrives, FinishProceeds, FinishFails, Quiescent

(* What DatabaseMatchesAnswers speaks about is the same before and after.   *)
Quiet == /\ db' = db
         /\ Stored' = Stored
         /\ Registered' = Registered
         /\ \A s \in Stored : opened'[s] = opened[s]
         /\ \A q \in Registered : /\ command'[q] = command[q]
                                  /\ loaded'[q] = loaded[q]
                                  /\ issued'[q] = issued[q]

(* Only two steps publish rows: the INSERT of a session and the COMMIT of  *)
(* a registration.                                                         *)
LEMMA QuietSteps ==
    ASSUME InductiveInvariant, [Next]_vars
    PROVE  \/ Quiet
           \/ \E r \in RegStarts : /\ PersistRegistrationSession(r)
                                   /\ UNCHANGED finishVars
           \/ \E p \in RegFinishes : /\ CommitRegistration(p)
                                     /\ UNCHANGED startVars
<1> USE DEF InductiveInvariant, TypeOK, StoreTypeOK, StartTypeOK,
        FinishTypeOK, HandlersKnow, StartKnows, FinishKnows, FinishRunning,
        InTransaction, Stored, Registered, Quiet
<1>1. ASSUME NEW r \in RegStarts,
             (\/ RejectHandle(r)
              \/ \E h \in Handles : OpenSession(r, h)
              \/ RespondStart(r)),
             UNCHANGED finishVars
      PROVE  Quiet
  BY <1>1, NoneIsNoReply
  DEF RejectHandle, OpenSession, RespondStart, finishVars, storeVars,
      AnswerStart
<1>2. ASSUME NEW r \in RegStarts, NEW f \in Faults,
             PersistFails(r, f), UNCHANGED finishVars
      PROVE  Quiet
  BY <1>2, NoneIsNoReply, ErrorTyped
  DEF PersistFails, finishVars, storeVars, AnswerStart
<1>3. ASSUME NEW p \in RegFinishes,
             (\/ RejectAttestation(p)
              \/ \E c \in RegistrationFinishCommand : AcceptCommand(p, c)
              \/ LoadRegistrationSession(p)
              \/ SessionNotFound(p)
              \/ VerifyAttestation(p)
              \/ SessionExpired(p)
              \/ AttestationInvalid(p)
              \/ IssueTokenPair(p)
              \/ RespondFinish(p)),
             UNCHANGED startVars
      PROVE  Quiet
  BY <1>3, NoneIsNoReply
  DEF RejectAttestation, AcceptCommand, LoadRegistrationSession,
      SessionNotFound, VerifyAttestation, SessionExpired,
      AttestationInvalid, IssueTokenPair, RespondFinish, startVars,
      storeVars, Answer, GoTo
<1>4. ASSUME NEW p \in RegFinishes,
             (\/ \E f \in Faults : LoadFails(p, f)
              \/ InsertUserConflicts(p)
              \/ InsertCredentialConflicts(p)
              \/ \E f \in Faults : WriteFails(p, f)),
             UNCHANGED startVars
      PROVE  Quiet
  BY <1>4, NoneIsNoReply, ErrorTyped
  DEF LoadFails, InsertUserConflicts, InsertCredentialConflicts, WriteFails,
      startVars, storeVars, Answer, GoTo, Rollback
<1>5. ASSUME NEW p \in RegFinishes,
             (\/ InsertUser(p) \/ InsertCredential(p)
              \/ InsertRefreshToken(p) \/ DeleteSession(p)),
             UNCHANGED startVars
      PROVE  Quiet
  BY <1>5, NoneIsNoReply
  DEF InsertUser, InsertCredential, InsertRefreshToken, DeleteSession,
      startVars, storeVars, Answer, GoTo, FirstWrite, NextWrite
<1>6. ASSUME ClockStep
      PROVE  Quiet
  BY <1>6, NoneIsNoReply
  DEF ClockStep, Tick, startVars, finishVars
<1>7. ASSUME Restart
      PROVE  Quiet
  BY <1>7, NoneIsNoReply
  DEF Restart, Reboot, StartKilled, FinishKilled
<1>8. ASSUME UNCHANGED vars
      PROVE  Quiet
  BY <1>8, NoneIsNoReply
  DEF vars, storeVars, startVars, finishVars
<1> QED
  BY <1>1, <1>2, <1>3, <1>4, <1>5, <1>6, <1>7, <1>8
  DEF Next, StartStep, StartArrives, StartProceeds, StartFails, FinishStep,
      FinishArrives, FinishProceeds, FinishFails, Quiescent

(* The answer of q and what it rests on are the same before and after.     *)
Kept(q) == /\ finishReply'[q] = finishReply[q]
           /\ command'[q] = command[q]
           /\ loaded'[q] = loaded[q]
           /\ checkedAt'[q] = checkedAt[q]

(* q is refused in this step, in one of the three ways there are.          *)
Refused(q) == /\ SessionNotFound(q) \/ SessionExpired(q) \/ InsertUserConflicts(q)
              /\ UNCHANGED startVars

RefusalsExplained ==
    \A q \in RegFinishes :
        finishReply'[q] \in {"NOT_FOUND", "HANDLE_TAKEN"} => Kept(q) \/ Refused(q)

(* A request that is refused as not found or taken was so already, or is   *)
(* refused in this step by the action that says so.                        *)
LEMMA RefusalSteps ==
    ASSUME InductiveInvariant, [Next]_vars
    PROVE  RefusalsExplained
<1> USE DEF InductiveInvariant, TypeOK, StoreTypeOK, StartTypeOK,
        FinishTypeOK, HandlersKnow, FinishKnows, FinishRunning,
        InTransaction, Kept, RefusalsExplained
<1>1. ASSUME NEW r \in RegStarts,
             (\/ RejectHandle(r)
              \/ \E h \in Handles : OpenSession(r, h)
              \/ PersistRegistrationSession(r)
              \/ RespondStart(r)),
             UNCHANGED finishVars
      PROVE  RefusalsExplained
  BY <1>1, NoneIsNoReply
  DEF RejectHandle, OpenSession, PersistRegistrationSession, RespondStart,
      finishVars, storeVars, AnswerStart
<1>2. ASSUME NEW r \in RegStarts, NEW f \in Faults,
             PersistFails(r, f), UNCHANGED finishVars
      PROVE  RefusalsExplained
  BY <1>2, NoneIsNoReply, ErrorTyped
  DEF PersistFails, finishVars, storeVars, AnswerStart
<1>3. ASSUME NEW p \in RegFinishes,
             (\/ RejectAttestation(p)
              \/ \E c \in RegistrationFinishCommand : AcceptCommand(p, c)
              \/ LoadRegistrationSession(p)
              \/ VerifyAttestation(p)
              \/ AttestationInvalid(p)
              \/ IssueTokenPair(p)
              \/ InsertUser(p)
              \/ InsertCredential(p)
              \/ InsertRefreshToken(p)
              \/ DeleteSession(p)
              \/ CommitRegistration(p)
              \/ RespondFinish(p)),
             UNCHANGED startVars
      PROVE  RefusalsExplained
  BY <1>3, NoneIsNoReply
  DEF RejectAttestation, AcceptCommand, LoadRegistrationSession,
      VerifyAttestation, AttestationInvalid, IssueTokenPair, InsertUser,
      InsertCredential, InsertRefreshToken, DeleteSession,
      CommitRegistration, RespondFinish, startVars, storeVars, Answer, GoTo
<1>4. ASSUME NEW p \in RegFinishes,
             (\/ SessionNotFound(p) \/ SessionExpired(p)
              \/ InsertUserConflicts(p)),
             UNCHANGED startVars
      PROVE  RefusalsExplained
  BY <1>4, NoneIsNoReply
  DEF SessionNotFound, SessionExpired, InsertUserConflicts, startVars,
      storeVars, Answer, GoTo, Refused
<1>5. ASSUME NEW p \in RegFinishes,
             (\/ \E f \in Faults : LoadFails(p, f)
              \/ \E f \in Faults : WriteFails(p, f)),
             UNCHANGED startVars
      PROVE  RefusalsExplained
  BY <1>5, NoneIsNoReply, ErrorTyped
  DEF LoadFails, WriteFails, startVars, storeVars, Answer, GoTo, Rollback
<1>6. ASSUME NEW p \in RegFinishes,
             InsertCredentialConflicts(p), UNCHANGED startVars
      PROVE  RefusalsExplained
  BY <1>6, NoneIsNoReply
  DEF InsertCredentialConflicts, startVars, storeVars, Answer, GoTo,
      Rollback, ConstraintError
<1>7. ASSUME ClockStep
      PROVE  RefusalsExplained
  BY <1>7, NoneIsNoReply
  DEF ClockStep, Tick, startVars, finishVars
<1>8. ASSUME Restart
      PROVE  RefusalsExplained
  BY <1>8, NoneIsNoReply
  DEF Restart, Reboot, StartKilled, FinishKilled
<1>9. ASSUME UNCHANGED vars
      PROVE  RefusalsExplained
  BY <1>9, NoneIsNoReply
  DEF vars, storeVars, startVars, finishVars
<1> QED
  BY <1>1, <1>2, <1>3, <1>4, <1>5, <1>6, <1>7, <1>8, <1>9
  DEF Next, StartStep, StartArrives, StartProceeds, StartFails, FinishStep,
      FinishArrives, FinishProceeds, FinishFails, Quiescent

----------------------------------------------------------------------------
(* The two steps that publish rows, and the others.                        *)

(* A step that publishes no row keeps the database in agreement with the   *)
(* answers.                                                                *)
LEMMA QuietKeepsDatabase ==
    ASSUME DatabaseMatchesAnswers, OwnersAreUnique, Quiet
    PROVE  DatabaseMatchesAnswers' /\ OwnersAreUnique'
<1>1. {UserOf(q) : q \in Registered}' = {UserOf(q) : q \in Registered}
  BY DEF Quiet, UserOf
<1>2. {CredentialOf(q) : q \in Registered}' = {CredentialOf(q) : q \in Registered}
  BY DEF Quiet, CredentialOf
<1>3. {RefreshTokenOf(q) : q \in Registered}' = {RefreshTokenOf(q) : q \in Registered}
  BY DEF Quiet, RefreshTokenOf
<1>4. \A r : Consumed(r)' <=> Consumed(r)
  BY DEF Quiet, Consumed
<1>5. {SessionRow(r) : r \in {s \in Stored : ~Consumed(s)}}'
        = {SessionRow(r) : r \in {s \in Stored : ~Consumed(s)}}
  BY <1>4 DEF Quiet, SessionRow
<1>6. DatabaseMatchesAnswers'
  BY <1>1, <1>2, <1>3, <1>5 DEF DatabaseMatchesAnswers, Quiet
<1>7. OwnersAreUnique'
  <2> SUFFICES ASSUME NEW q1 \in Registered', NEW q2 \in Registered',
                      (\/ loaded[q1].handle = loaded[q2].handle
                       \/ command[q1].credential_id = command[q2].credential_id)'
               PROVE  q1 = q2
    BY DEF OwnersAreUnique
  <2> QED
    BY DEF OwnersAreUnique, Quiet
<1> QED
  BY <1>6, <1>7

(* The INSERT of a session adds the row its answer accounts for.           *)
LEMMA PersistStep ==
    ASSUME InductiveInvariant, NEW r \in RegStarts,
           PersistRegistrationSession(r), UNCHANGED finishVars
    PROVE  DatabaseMatchesAnswers' /\ OwnersAreUnique'
<1>1. /\ db'.users = db.users
      /\ db'.credentials = db.credentials
      /\ db'.refresh_tokens = db.refresh_tokens
      /\ db'.registration_sessions = db.registration_sessions \cup {SessionRow(r)}
  BY DEF PersistRegistrationSession, Autocommit, InsertRow, InductiveInvariant,
         TypeOK, StoreTypeOK, Database
<1>2. r \notin Stored /\ Stored' = Stored \cup {r}
  BY NoneIsNoReply
  DEF PersistRegistrationSession, AnswerStart, Stored, InductiveInvariant,
      HandlersKnow, StartKnows, TypeOK, StartTypeOK
<1>3. \A s \in RegStarts : SessionRow(s)' = SessionRow(s)
  BY DEF PersistRegistrationSession, SessionRow
<1>4. ~Consumed(r)
  BY <1>2 DEF Consumed, Registered, InductiveInvariant, HandlersKnow, FinishKnows
<1>5. \A s : Consumed(s)' <=> Consumed(s)
  BY DEF finishVars, Consumed, Registered
<1>6. db'.registration_sessions =
        {SessionRow(s) : s \in {t \in Stored : ~Consumed(t)}} \cup {SessionRow(r)}
  BY <1>1 DEF InductiveInvariant, DatabaseMatchesAnswers
<1>7. @ = {SessionRow(s) : s \in {t \in Stored : ~Consumed(t)}}'
  <2>1. {t \in Stored : ~Consumed(t)}' = {t \in Stored : ~Consumed(t)} \cup {r}
    BY <1>2, <1>4, <1>5
  <2> QED
    BY <2>1, <1>3 DEF Stored
<1>8. /\ {UserOf(q) : q \in Registered}' = {UserOf(q) : q \in Registered}
      /\ {CredentialOf(q) : q \in Registered}' = {CredentialOf(q) : q \in Registered}
      /\ {RefreshTokenOf(q) : q \in Registered}'
            = {RefreshTokenOf(q) : q \in Registered}
  BY DEF UserOf, CredentialOf, RefreshTokenOf, Registered, finishVars
<1>9. DatabaseMatchesAnswers'
  BY <1>1, <1>6, <1>7, <1>8 DEF InductiveInvariant, DatabaseMatchesAnswers
<1>10. OwnersAreUnique'
  BY DEF InductiveInvariant, OwnersAreUnique, Registered, finishVars
<1> QED
  BY <1>9, <1>10

(* COMMIT publishes the four effects of one registration: the user, the    *)
(* credential and the refresh token appear, the session goes. What the     *)
(* transaction checked when it inserted the user and the credential still  *)
(* holds, because nobody else could commit meanwhile.                      *)
LEMMA CommitStep ==
    ASSUME InductiveInvariant, NEW p \in RegFinishes,
           CommitRegistration(p), UNCHANGED startVars
    PROVE  DatabaseMatchesAnswers' /\ OwnersAreUnique'
<1>1. /\ finishPc[p] = "commit"
      /\ finishPc[p] \in InTransaction \ {"insertCredential"}
  BY DEF CommitRegistration, InTransaction
<1>2. /\ db'.users = db.users \cup {UserOf(p)}
      /\ db'.credentials = db.credentials \cup {CredentialOf(p)}
      /\ db'.refresh_tokens = db.refresh_tokens \cup {RefreshTokenOf(p)}
      /\ db'.registration_sessions =
            {s \in db.registration_sessions : s.id # command[p].id}
  BY <1>1 DEF CommitRegistration, Commit, InductiveInvariant, IsolatedTransaction
<1>3. p \notin Registered /\ Registered' = Registered \cup {p}
  BY <1>1, NoneIsNoReply
  DEF CommitRegistration, Answer, Registered, InductiveInvariant, HandlersKnow,
      FinishKnows, FinishRunning, TypeOK, FinishTypeOK
<1>4. \A q : UserOf(q)' = UserOf(q) /\ CredentialOf(q)' = CredentialOf(q)
             /\ RefreshTokenOf(q)' = RefreshTokenOf(q)
  BY DEF CommitRegistration, UserOf, CredentialOf, RefreshTokenOf
<1>5. Stored' = Stored /\ \A s : SessionRow(s)' = SessionRow(s)
  BY DEF startVars, Stored, SessionRow
<1>6. \A s : Consumed(s)' <=> Consumed(s) \/ s = command[p].id
  BY <1>3 DEF CommitRegistration, Consumed
<1>7. {SessionRow(s) : s \in {t \in Stored : ~Consumed(t)}}'
        = {SessionRow(s) : s \in {t \in Stored : ~Consumed(t) /\ t # command[p].id}}
  <2>1. {t \in Stored : ~Consumed(t)}'
          = {t \in Stored : ~Consumed(t) /\ t # command[p].id}
    BY <1>5, <1>6
  <2> QED
    BY <2>1, <1>5
<1>8. @ = db'.registration_sessions
  BY <1>2 DEF InductiveInvariant, DatabaseMatchesAnswers, SessionRow
<1>9. DatabaseMatchesAnswers'
  <2>1. db'.users = {UserOf(q) : q \in Registered}'
    BY <1>2, <1>3, <1>4 DEF InductiveInvariant, DatabaseMatchesAnswers
  <2>2. db'.credentials = {CredentialOf(q) : q \in Registered}'
    BY <1>2, <1>3, <1>4 DEF InductiveInvariant, DatabaseMatchesAnswers
  <2>3. db'.refresh_tokens = {RefreshTokenOf(q) : q \in Registered}'
    BY <1>2, <1>3, <1>4 DEF InductiveInvariant, DatabaseMatchesAnswers
  <2> QED
    BY <2>1, <2>2, <2>3, <1>7, <1>8 DEF DatabaseMatchesAnswers
<1>10. \A q \in Registered : /\ loaded[q].handle # loaded[p].handle
                             /\ command[q].credential_id # command[p].credential_id
  <2>1. ~HandleTaken(db, loaded[p].handle)
        /\ ~CredentialExists(db, command[p].credential_id)
    BY <1>1 DEF InductiveInvariant, HandlersKnow, FinishKnows
  <2>2. \A q \in Registered : UserOf(q) \in db.users /\ CredentialOf(q) \in db.credentials
    BY DEF InductiveInvariant, DatabaseMatchesAnswers
  <2> QED
    BY <2>1, <2>2 DEF HandleTaken, CredentialExists, UserOf, CredentialOf
<1>11. OwnersAreUnique'
  BY <1>3, <1>10 DEF CommitRegistration, InductiveInvariant, OwnersAreUnique
<1> QED
  BY <1>9, <1>11

(* The invariant holds of an empty database and no requests.               *)
LEMMA InitHolds == Init => InductiveInvariant
<1> SUFFICES ASSUME Init PROVE InductiveInvariant
  OBVIOUS
<1> USE StoreAssumption
    DEF Init, StoreInit, StartInit, FinishInit
<1>1. TypeOK
  BY DEF TypeOK, StoreTypeOK, StartTypeOK, FinishTypeOK, EmptyDatabase, Database,
         StartPcs, StartReplies, FinishPcs, FinishReplies
<1>2. Registered = {} /\ Stored = {}
  BY NoneIsNoReply DEF Registered, Stored
<1>3. HandlersKnow
  BY <1>2, NoneIsNoReply DEF HandlersKnow, StartKnows, FinishKnows, FinishRunning, InTransaction
<1>4. IsolatedTransaction
  BY DEF IsolatedTransaction, InTransaction
<1>5. DatabaseMatchesAnswers /\ OwnersAreUnique
  BY <1>2 DEF DatabaseMatchesAnswers, OwnersAreUnique, EmptyDatabase
<1> QED
  BY <1>1, <1>3, <1>4, <1>5 DEF InductiveInvariant

(* The inductive invariant holds in every reachable state, whatever the    *)
(* number of requests, handles, credentials, faults and restarts.          *)
THEOREM InvariantHolds == Spec => []InductiveInvariant
<1>1. Init => InductiveInvariant
  BY InitHolds
<1>2. InductiveInvariant /\ [Next]_vars => InductiveInvariant'
  <2> SUFFICES ASSUME InductiveInvariant, [Next]_vars
               PROVE  InductiveInvariant'
    OBVIOUS
  <2>1. DatabaseMatchesAnswers' /\ OwnersAreUnique'
    BY QuietSteps, QuietKeepsDatabase, PersistStep, CommitStep DEF InductiveInvariant
  <2>2. HandlersKnow'
    BY StartKnowsStep, FinishKnowsStep DEF HandlersKnow
  <2> QED
    BY <2>1, <2>2, TypeStep, IsolatedStep DEF InductiveInvariant
<1> QED
  BY <1>1, <1>2, PTL DEF Spec

(* Users are never deleted and a session that was used up stays so.        *)
LEMMA Grows ==
    ASSUME InductiveInvariant, [Next]_vars
    PROVE  /\ db.users \subseteq db'.users
           /\ \A s : Consumed(s) => Consumed(s)'
<1>1. CASE Quiet
  BY <1>1 DEF Quiet, Consumed
<1>2. ASSUME NEW r \in RegStarts, PersistRegistrationSession(r), UNCHANGED finishVars
      PROVE  /\ db.users \subseteq db'.users
             /\ \A s : Consumed(s) => Consumed(s)'
  <2>1. db'.users = db.users
    BY <1>2 DEF PersistRegistrationSession, Autocommit, InsertRow,
                InductiveInvariant, TypeOK, StoreTypeOK, Database
  <2> QED
    BY <1>2, <2>1 DEF finishVars, Consumed, Registered
<1>3. ASSUME NEW p \in RegFinishes, CommitRegistration(p), UNCHANGED startVars
      PROVE  /\ db.users \subseteq db'.users
             /\ \A s : Consumed(s) => Consumed(s)'
  <2>1. finishPc[p] = "commit" /\ finishPc[p] \in InTransaction
    BY <1>3 DEF CommitRegistration, InTransaction
  <2>2. db'.users = db.users \cup {UserOf(p)}
    BY <1>3, <2>1 DEF CommitRegistration, Commit, InductiveInvariant,
                      IsolatedTransaction
  <2>3. Registered \subseteq Registered'
    BY <1>3 DEF CommitRegistration, Answer, Registered, InductiveInvariant,
                TypeOK, FinishTypeOK
  <2> QED
    BY <1>3, <2>2, <2>3 DEF CommitRegistration, Consumed
<1> QED
  BY <1>1, <1>2, <1>3, QuietSteps

(* Storing an instant as Unix seconds loses less than a second.            *)
LEMMA UnixTruncates ==
    ASSUME NEW t \in Nat
    PROVE  /\ FromUnix(Unix(t)) \in Nat
           /\ FromUnix(Unix(t)) <= t
           /\ t < FromUnix(Unix(t)) + TicksPerSecond
BY StoreAssumption DEF Unix, FromUnix

(* A step keeps NotFoundMeansConsumed: the row of a stored session is      *)
(* missing only if a registration consumed it.                             *)
LEMMA NotFoundStep ==
    ASSUME InductiveInvariant, NotFoundMeansConsumed, [Next]_vars
    PROVE  NotFoundMeansConsumed'
<1> SUFFICES ASSUME NEW q \in RegFinishes,
                    finishReply'[q] = "NOT_FOUND", checkedAt'[q] = None
             PROVE  command'[q].id = None \/ Consumed(command[q].id)'
  BY DEF NotFoundMeansConsumed
<1>1. CASE Kept(q)
  BY <1>1, Grows DEF Kept, NotFoundMeansConsumed
<1>2. CASE SessionNotFound(q) /\ UNCHANGED startVars
  <2>1. /\ command'[q] = command[q]
        /\ command[q].id \in Stored \cup {None}
    BY <1>2 DEF SessionNotFound, InductiveInvariant, HandlersKnow, FinishKnows
  <2>2. ASSUME command[q].id \in Stored, ~Consumed(command[q].id)
        PROVE  FALSE
    <3>1. SessionRow(command[q].id) \in db.registration_sessions
      BY <2>2 DEF InductiveInvariant, DatabaseMatchesAnswers
    <3> QED
      BY <1>2, <3>1 DEF SessionNotFound, SessionRow
  <2> QED
    BY <2>1, <2>2, Grows
<1>3. CASE SessionExpired(q) /\ UNCHANGED startVars
  BY <1>3, StoreAssumption
  DEF SessionExpired, InductiveInvariant, TypeOK, StoreTypeOK, FinishTypeOK
<1>4. CASE InsertUserConflicts(q) /\ UNCHANGED startVars
  BY <1>4 DEF InsertUserConflicts, Answer, ConstraintError, InductiveInvariant,
              TypeOK, FinishTypeOK
<1> QED
  BY <1>1, <1>2, <1>3, <1>4, RefusalSteps DEF RefusalsExplained, Refused

(* A step keeps RefusedNotTooEarly.                                        *)
LEMMA TooEarlyStep ==
    ASSUME InductiveInvariant, RefusedNotTooEarly, [Next]_vars
    PROVE  RefusedNotTooEarly'
<1> SUFFICES ASSUME NEW q \in RegFinishes,
                    finishReply'[q] = "NOT_FOUND", checkedAt'[q] # None
             PROVE  opened'[command'[q].id].expiresAt
                       < checkedAt'[q] + TicksPerSecond
  BY DEF RefusedNotTooEarly
<1>1. CASE Kept(q)
  <2>1. command[q].id \in Stored
    BY <1>1 DEF Kept, InductiveInvariant, HandlersKnow, FinishKnows
  <2>2. opened'[command[q].id] = opened[command[q].id]
    BY <2>1, StoredGrows
  <2> QED
    BY <1>1, <2>2 DEF Kept, RefusedNotTooEarly
<1>2. CASE SessionExpired(q) /\ UNCHANGED startVars
  <2> DEFINE s == command[q].id
  <2>1. s \in Stored /\ loaded[q] = SessionRow(s)
    BY <1>2 DEF SessionExpired, InductiveInvariant, HandlersKnow, FinishKnows
  <2>2. opened[s] \in RegistrationSession /\ opened[s].expiresAt \in Nat
    BY <2>1 DEF InductiveInvariant, HandlersKnow, StartKnows, Stored,
                RegistrationSession
  <2>3. ~(now < FromUnix(Unix(opened[s].expiresAt)))
    BY <1>2, <2>1 DEF SessionExpired, FreshSession, Fresh, SessionRow
  <2>4. opened[s].expiresAt < now + TicksPerSecond
    <3>1. now \in Nat
      BY DEF InductiveInvariant, TypeOK, StoreTypeOK
    <3> QED
      BY <2>2, <2>3, <3>1, UnixTruncates, StoreAssumption
  <2>5. checkedAt'[q] = now /\ command' = command /\ opened' = opened
    BY <1>2 DEF SessionExpired, startVars, InductiveInvariant, TypeOK, FinishTypeOK
  <2> QED
    BY <2>4, <2>5
<1>3. CASE SessionNotFound(q) /\ UNCHANGED startVars
  BY <1>3 DEF SessionNotFound, InductiveInvariant, HandlersKnow, FinishKnows
<1>4. CASE InsertUserConflicts(q) /\ UNCHANGED startVars
  BY <1>4 DEF InsertUserConflicts, Answer, ConstraintError, InductiveInvariant,
              TypeOK, FinishTypeOK
<1> QED
  BY <1>1, <1>2, <1>3, <1>4, RefusalSteps DEF RefusalsExplained, Refused

(* A step keeps HandleTakenIsTrue: users are never deleted, and the        *)
(* request that is refused has committed none.                             *)
LEMMA HandleTakenStep ==
    ASSUME InductiveInvariant, HandleTakenIsTrue, [Next]_vars
    PROVE  HandleTakenIsTrue'
<1> SUFFICES ASSUME NEW q \in RegFinishes, finishReply'[q] = "HANDLE_TAKEN"
             PROVE  \E u \in db'.users : u.handle = loaded'[q].handle /\ u.id # q
  BY DEF HandleTakenIsTrue
<1>1. CASE Kept(q)
  BY <1>1, Grows DEF Kept, HandleTakenIsTrue
<1>2. CASE InsertUserConflicts(q) /\ UNCHANGED startVars
  <2>1. q \notin Registered
    BY <1>2, NoneIsNoReply
    DEF InsertUserConflicts, Registered, InductiveInvariant, HandlersKnow,
        FinishKnows, FinishRunning
  <2>2. \A u \in db.users : u.id # q
    BY <2>1 DEF InductiveInvariant, DatabaseMatchesAnswers, UserOf
  <2> QED
    BY <1>2, <2>2 DEF InsertUserConflicts, HandleTaken, storeVars
<1>3. CASE (SessionNotFound(q) \/ SessionExpired(q)) /\ UNCHANGED startVars
  BY <1>3 DEF SessionNotFound, SessionExpired, Answer, InductiveInvariant,
              TypeOK, FinishTypeOK
<1> QED
  BY <1>1, <1>2, <1>3, RefusalSteps DEF RefusalsExplained, Refused

----------------------------------------------------------------------------
(* The invariant, seen from the properties.                                *)

(* Every variable of Registration keeps its type: no handler of the two    *)
(* registration slices builds a value its tables or answers do not have.   *)
THEOREM TypeCorrect == Spec => []TypeOK
<1>1. InductiveInvariant => TypeOK
  BY DEF InductiveInvariant
<1> QED
  BY <1>1, InvariantHolds, PTL

(* Store.FinishRegistration is all or nothing: the committed tables are at *)
(* every moment those that the successful answers account for.             *)
THEOREM AllOrNothing == Spec => []DatabaseMatchesAnswers
<1>1. InductiveInvariant => DatabaseMatchesAnswers
  BY DEF InductiveInvariant
<1> QED
  BY <1>1, InvariantHolds, PTL

(* The image that an open transaction of FinishRegistration would publish  *)
(* is the committed one plus its own statements.                           *)
THEOREM Isolation == Spec => []IsolatedTransaction
<1>1. InductiveInvariant => IsolatedTransaction
  BY DEF InductiveInvariant
<1> QED
  BY <1>1, InvariantHolds, PTL

(* However many requests carry the same registration session through       *)
(* ProcessRegistrationFinish, one of them at most creates an account; and  *)
(* no two accounts share a handle.                                         *)
THEOREM SingleUse == Spec => []OneAccountPerCeremony
<1>1. InductiveInvariant => OneAccountPerCeremony
  <2> SUFFICES ASSUME InductiveInvariant, NEW p \in Registered, NEW q \in Registered,
                      command[p].id = command[q].id \/ loaded[p].handle = loaded[q].handle
               PROVE  p = q
    BY DEF OneAccountPerCeremony
  <2>1. loaded[p] = SessionRow(command[p].id) /\ loaded[q] = SessionRow(command[q].id)
    BY DEF InductiveInvariant, HandlersKnow, FinishKnows, Registered
  <2>2. loaded[p].handle = loaded[q].handle
    BY <2>1
  <2> QED
    BY <2>2 DEF InductiveInvariant, OwnersAreUnique
<1> QED
  BY <1>1, InvariantHolds, PTL

(* ProcessRegistrationFinish accepts only an answer to the challenge of    *)
(* the session it consumes, before the expiry that                         *)
(* ProcessRegistrationStart computed.                                      *)
THEOREM Acceptance == Spec => []AcceptedInTime
<1>1. InductiveInvariant => AcceptedInTime
  <2> SUFFICES ASSUME InductiveInvariant, NEW p \in Registered
               PROVE  LET r == command[p].id IN
                        /\ r \in Stored
                        /\ command[p].challenge = r
                        /\ loaded[p].handle = opened[r].handle
                        /\ checkedAt[p] < opened[r].expiresAt
    BY DEF AcceptedInTime
  <2> DEFINE r == command[p].id
  <2>1. /\ r \in Stored
        /\ loaded[p] = SessionRow(r)
        /\ checkedAt[p] \in Nat
        /\ FreshSession(p, checkedAt[p])
        /\ Verified(command[p], loaded[p])
    BY DEF InductiveInvariant, HandlersKnow, FinishKnows, Registered
  <2>2. opened[r].expiresAt \in Nat
    BY <2>1 DEF InductiveInvariant, HandlersKnow, StartKnows, Stored,
                RegistrationSession
  <2>3. checkedAt[p] < FromUnix(Unix(opened[r].expiresAt))
    BY <2>1 DEF FreshSession, Fresh, SessionRow
  <2>4. checkedAt[p] < opened[r].expiresAt
    BY <2>1, <2>2, <2>3, UnixTruncates
  <2> QED
    BY <2>1, <2>4 DEF Verified, SessionRow
<1> QED
  BY <1>1, InvariantHolds, PTL

(* NOT_FOUND without an expiry check means that the session was never      *)
(* handed out or was used by a registration that succeeded.                *)
THEOREM HonestNotFound == Spec => []NotFoundMeansConsumed
<1>1. Init => NotFoundMeansConsumed
  BY NoneIsNoReply DEF Init, FinishInit, NotFoundMeansConsumed
<1>2. InductiveInvariant /\ NotFoundMeansConsumed /\ [Next]_vars
        => NotFoundMeansConsumed'
  BY NotFoundStep
<1> QED
  BY <1>1, <1>2, InvariantHolds, PTL DEF Spec

(* NewFreshRegistrationSession refuses a session less than a second early, *)
(* for every TTL and clock resolution.                                     *)
THEOREM RefusalInTime == Spec => []RefusedNotTooEarly
<1>1. Init => RefusedNotTooEarly
  BY NoneIsNoReply DEF Init, FinishInit, RefusedNotTooEarly
<1>2. InductiveInvariant /\ RefusedNotTooEarly /\ [Next]_vars => RefusedNotTooEarly'
  BY TooEarlyStep
<1> QED
  BY <1>1, <1>2, InvariantHolds, PTL DEF Spec

(* HANDLE_TAKEN is answered only when another committed user has the       *)
(* handle.                                                                 *)
THEOREM HonestHandleTaken == Spec => []HandleTakenIsTrue
<1>1. Init => HandleTakenIsTrue
  BY NoneIsNoReply DEF Init, FinishInit, HandleTakenIsTrue
<1>2. InductiveInvariant /\ HandleTakenIsTrue /\ [Next]_vars => HandleTakenIsTrue'
  BY HandleTakenStep
<1> QED
  BY <1>1, <1>2, InvariantHolds, PTL DEF Spec

----------------------------------------------------------------------------
(* Registration implements Accounts.                                       *)

(* Adding one user with a free handle changes the owner of that handle and *)
(* of no other.                                                            *)
LEMMA AccountOfExt ==
    ASSUME InductiveInvariant, NEW p \in RegFinishes,
           db'.users = db.users \cup {UserOf(p)},
           ~HandleTaken(db, loaded[p].handle), NEW h
    PROVE  AccountOf(h)' = IF h = loaded[p].handle THEN p ELSE AccountOf(h)
<1>1. CASE h = loaded[p].handle
  <2>1. {u \in db'.users : u.handle = h} = {UserOf(p)}
    BY <1>1 DEF HandleTaken, UserOf
  <2>2. TheOne({UserOf(p)}) = UserOf(p)
    BY DEF TheOne
  <2>3. AccountOf(h)' = UserOf(p).id
    BY <2>1, <2>2 DEF AccountOf
  <2> QED
    BY <1>1, <2>3 DEF UserOf
<1>2. CASE h # loaded[p].handle
  <2>1. {u \in db'.users : u.handle = h} = {u \in db.users : u.handle = h}
    BY <1>2 DEF UserOf
  <2>2. AccountOf(h)' = AccountOf(h)
    BY <2>1 DEF AccountOf
  <2> QED
    BY <1>2, <2>2
<1> QED
  BY <1>1, <1>2

(* Adding one credential with a free id changes the holder of that id and  *)
(* of no other.                                                            *)
LEMMA HolderOfExt ==
    ASSUME InductiveInvariant, NEW p \in RegFinishes,
           db'.credentials = db.credentials \cup {CredentialOf(p)},
           ~CredentialExists(db, command[p].credential_id), NEW c
    PROVE  HolderOf(c)' = IF c = command[p].credential_id THEN p ELSE HolderOf(c)
<1>1. CASE c = command[p].credential_id
  <2>1. {k \in db'.credentials : k.credential_id = c} = {CredentialOf(p)}
    BY <1>1 DEF CredentialExists, CredentialOf
  <2>2. TheOne({CredentialOf(p)}) = CredentialOf(p)
    BY DEF TheOne
  <2>3. HolderOf(c)' = CredentialOf(p).user_id
    BY <2>1, <2>2 DEF HolderOf
  <2> QED
    BY <1>1, <2>3 DEF CredentialOf
<1>2. CASE c # command[p].credential_id
  <2>1. {k \in db'.credentials : k.credential_id = c} 
         = {k \in db.credentials : k.credential_id = c}
    BY <1>2 DEF CredentialOf
  <2>2. HolderOf(c)' = HolderOf(c)
    BY <2>1 DEF HolderOf
  <2> QED
    BY <1>2, <2>2
<1> QED
  BY <1>1, <1>2

(* What the variables of Accounts stand for.                               *)
Wanted == [r \in RegStarts |-> IF r \in Stored THEN opened[r].handle ELSE None]
Spent == {r \in Stored : \A s \in db.registration_sessions : s.id # r}
Owner == [h \in Handles |-> AccountOf(h)]
Holder == [c \in CredIDs |-> HolderOf(c)]

(* The stored sessions whose row is gone are those that a registration     *)
(* consumed.                                                               *)
LEMMA SpentIsConsumed ==
    ASSUME DatabaseMatchesAnswers
    PROVE  Spent = {r \in Stored : Consumed(r)}
<1>1. \A s \in db.registration_sessions : s.id \in Stored /\ ~Consumed(s.id)
  BY DEF DatabaseMatchesAnswers, SessionRow
<1>2. ASSUME NEW r \in Stored, ~Consumed(r)
      PROVE  \E s \in db.registration_sessions : s.id = r
  <2>1. SessionRow(r) \in db.registration_sessions
    BY <1>2 DEF DatabaseMatchesAnswers
  <2> QED
    BY <2>1 DEF SessionRow
<1> QED
  BY <1>1, <1>2 DEF Spent

(* A step that publishes no row is a stutter of Accounts.                  *)
LEMMA QuietRefines ==
    ASSUME InductiveInvariant, Quiet, [Next]_vars
    PROVE  UNCHANGED <<Wanted, Spent, Owner, Holder>>
<1>1. Wanted' = Wanted
  BY StoredGrows DEF Quiet, Wanted
<1>2. Spent' = Spent
  BY DEF Quiet, Spent
<1>3. Owner' = Owner /\ Holder' = Holder
  BY DEF Quiet, Owner, Holder, AccountOf, HolderOf
<1> QED
  BY <1>1, <1>2, <1>3

(* The INSERT of a session is an Offer.                                    *)
LEMMA PersistRefines ==
    ASSUME InductiveInvariant, NEW r \in RegStarts,
           PersistRegistrationSession(r), UNCHANGED finishVars
    PROVE  \E h \in Handles : Promise!Offer(r, h)
<1>1. /\ startPc[r] = "persist" /\ opened' = opened
      /\ db'.users = db.users
      /\ db'.credentials = db.credentials
      /\ db'.registration_sessions = db.registration_sessions \cup {SessionRow(r)}
  BY DEF PersistRegistrationSession, Autocommit, InsertRow, InductiveInvariant,
         TypeOK, StoreTypeOK, Database
<1>2. r \notin Stored /\ Stored' = Stored \cup {r}
  BY NoneIsNoReply
  DEF PersistRegistrationSession, AnswerStart, Stored, InductiveInvariant,
      HandlersKnow, StartKnows, TypeOK, StartTypeOK
<1>3. opened[r].handle \in Handles
  BY <1>1 DEF InductiveInvariant, HandlersKnow, StartKnows, RegistrationSession
<1>4. Wanted[r] = None
  BY <1>2 DEF Wanted
<1>5. Wanted' = [Wanted EXCEPT ![r] = opened[r].handle]
  BY <1>1, <1>2 DEF Wanted
<1>6. Spent' = Spent
  <2>1. SessionRow(r).id = r
    BY DEF SessionRow
  <2>2. r \notin Spent'
    BY <1>1, <2>1 DEF Spent
  <2>3. \A s \in Stored : s \in Spent' <=> s \in Spent
    BY <1>1, <1>2, <2>1 DEF Spent
  <2> QED
    BY <1>2, <2>2, <2>3 DEF Spent
<1>7. Owner' = Owner /\ Holder' = Holder
  BY <1>1 DEF Owner, Holder, AccountOf, HolderOf
<1> QED
  BY <1>3, <1>4, <1>5, <1>6, <1>7 DEF Promise!Offer, Wanted, Spent, Owner, Holder

(* The COMMIT of a registration is a Complete.                             *)
LEMMA CommitRefines ==
    ASSUME InductiveInvariant, NEW p \in RegFinishes,
           CommitRegistration(p), UNCHANGED startVars
    PROVE  \E s \in RegStarts, k \in CredIDs : Promise!Complete(s, p, k)
<1> DEFINE h == loaded[p].handle
<1>1. /\ finishPc[p] = "commit"
      /\ finishPc[p] \in InTransaction \ {"insertCredential"}
  BY DEF CommitRegistration, InTransaction
<1>0. PICK s \in RegStarts, k \in CredIDs :
         s = command[p].id /\ k = command[p].credential_id
  BY <1>1 DEF InductiveInvariant, HandlersKnow, FinishKnows, Stored,
              RegistrationFinishCommand
<1>2. /\ db'.users = db.users \cup {UserOf(p)}
      /\ db'.credentials = db.credentials \cup {CredentialOf(p)}
      /\ db'.registration_sessions = {t \in db.registration_sessions : t.id # s}
  BY <1>0, <1>1 DEF CommitRegistration, Commit, InductiveInvariant, IsolatedTransaction
<1>3. /\ s \in Stored /\ k \in CredIDs
      /\ loaded[p] = SessionRow(s)
      /\ ~HandleTaken(db, h)
      /\ ~CredentialExists(db, k)
  BY <1>0, <1>1 DEF InductiveInvariant, HandlersKnow, FinishKnows
<1>4. Wanted[s] = h /\ h \in Handles
  BY <1>3 DEF Wanted, SessionRow, InductiveInvariant, HandlersKnow, StartKnows,
              Stored, RegistrationSession
<1>5. s \notin Spent
  <2> SUFFICES ASSUME s \in Spent PROVE FALSE
    OBVIOUS
  <2>1. Consumed(s)
    BY SpentIsConsumed DEF InductiveInvariant
  <2>2. PICK q \in Registered : command[q].id = s
    BY <2>1 DEF Consumed
  <2>3. loaded[q].handle = h /\ UserOf(q) \in db.users
    BY <1>3, <2>2 DEF InductiveInvariant, HandlersKnow, FinishKnows, Registered,
                      DatabaseMatchesAnswers
  <2> QED
    BY <1>3, <2>3 DEF HandleTaken, UserOf
<1>6. Owner[h] = None /\ Holder[k] = None
  BY <1>3, <1>4 DEF Owner, Holder, AccountOf, HolderOf, HandleTaken, CredentialExists
<1>7. \A g \in Handles : Owner[g] # p
  <2> SUFFICES ASSUME NEW g \in Handles, AccountOf(g) = p PROVE FALSE
    BY DEF Owner
  <2>1. p # None
    BY StoreAssumption
  <2> DEFINE owners == {u \in db.users : u.handle = g}
  <2>2. owners # {} /\ TheOne(owners).id = p
    BY <2>1 DEF AccountOf
  <2>3. TheOne(owners) \in owners
    BY <2>2 DEF TheOne
  <2>4. PICK u \in db.users : u.id = p
    BY <2>2, <2>3
  <2>5. p \in Registered
    BY <2>4 DEF InductiveInvariant, DatabaseMatchesAnswers, UserOf
  <2> QED
    BY <1>1, <2>5, NoneIsNoReply DEF InductiveInvariant, HandlersKnow, FinishKnows,
                                     FinishRunning, Registered, InTransaction
<1>8. Spent' = Spent \cup {s}
  <2>1. Stored' = Stored
    BY DEF startVars, Stored
  <2> QED
    BY <1>2, <1>3, <2>1 DEF Spent
<1>9. Owner' = [Owner EXCEPT ![h] = p]
  BY <1>2, <1>3, <1>4, AccountOfExt DEF Owner
<1>10. Holder' = [Holder EXCEPT ![k] = p]
  BY <1>0, <1>2, <1>3, HolderOfExt DEF Holder
<1>11. Wanted' = Wanted
  BY DEF startVars, Wanted, Stored
<1>12. Wanted[s] # None
  BY <1>4, StoreAssumption
<1> QED
  BY <1>4, <1>5, <1>6, <1>7, <1>8, <1>9, <1>10, <1>11, <1>12
  DEF Promise!Complete, Wanted, Spent, Owner, Holder

(* Registration implements Accounts: to an observer of the committed       *)
(* tables each ceremony happens at one instant or not at all.              *)
THEOREM Refinement == Spec => ImplementsAccounts
<1>1. Init => Promise!Init
  <2> SUFFICES ASSUME Init PROVE Promise!Init
    OBVIOUS
  <2>1. Stored = {}
    BY NoneIsNoReply DEF Init, StartInit, Stored
  <2>2. db.users = {} /\ db.credentials = {}
    BY DEF Init, StoreInit, EmptyDatabase
  <2> QED
    BY <2>1, <2>2 DEF Promise!Init, AccountOf, HolderOf
<1>2. InductiveInvariant /\ [Next]_vars => [Promise!Next]_(Promise!accountVars)
  <2> SUFFICES ASSUME InductiveInvariant, [Next]_vars
               PROVE  [Promise!Next]_(Promise!accountVars)
    OBVIOUS
  <2>1. CASE Quiet
    BY <2>1, QuietRefines DEF Promise!accountVars, Wanted, Spent, Owner, Holder
  <2>2. ASSUME NEW r \in RegStarts, PersistRegistrationSession(r), UNCHANGED finishVars
        PROVE  Promise!Next
    BY <2>2, PersistRefines DEF Promise!Next
  <2>3. ASSUME NEW p \in RegFinishes, CommitRegistration(p), UNCHANGED startVars
        PROVE  Promise!Next
    BY <2>3, CommitRefines DEF Promise!Next
  <2> QED
    BY <2>1, <2>2, <2>3, QuietSteps
<1> QED
  BY <1>1, <1>2, InvariantHolds, PTL DEF Spec, ImplementsAccounts, Promise!Spec
=============================================================================
