---------------------------- MODULE StartupProofs ----------------------------
(***************************************************************************)
(* Proofs about Startup, for any number of starts, any environments and    *)
(* any durations.  The invariant adds to the properties what the open      *)
(* transaction of goose holds - the file's schema and a first part of the  *)
(* migration - and that every step after LoadConfig runs under a good      *)
(* environment.                                                            *)
(***************************************************************************)
EXTENDS Startup, TLAPS

(* A migration half applied is a first part of it, on top of the file.     *)
Prefix(m, n) == {Migrations[m][i] : i \in 1 .. (n - 1)}
TransactionIsPrefix ==
    tx # None =>
        /\ phase = "migrate"
        /\ version < Len(Migrations)
        /\ tx.next \in 1 .. (Len(Migrations[version + 1]) + 1)
        /\ tx.schema = schema \cup Prefix(version + 1, tx.next)

(* After LoadConfig the environment is good and the configuration is its.  *)
ConfigIsLoaded ==
    /\ phase # "down" => env \in Environment
    /\ phase \in {"signer", "open", "migrate", "listen", "serving"} =>
          Accepted(env) /\ config = AppConfig(env)

(* Nothing listens before the last migration is in the file.               *)
MigratedFirst == phase \in {"listen", "serving"} => version = Len(Migrations)

StartupInvariant ==
    /\ StartupTypeOK
    /\ SchemaIsItsVersion
    /\ TransactionIsPrefix
    /\ ConfigIsLoaded
    /\ MigratedFirst
    /\ GivesUpForAReason

----------------------------------------------------------------------------

(* The lengths of the migrations.                                          *)
LEMMA MigrationsAre ==
    /\ Len(Migrations) = 5
    /\ \A m \in 1 .. 5 : /\ Len(Migrations[m]) \in 2 .. 3
                         /\ DOMAIN Migrations[m] = 1 .. Len(Migrations[m])
BY DEF Migrations

(* No statement creates what the migrations before it, or the statements   *)
(* before it in its own, have created: no CREATE needs IF NOT EXISTS.      *)
LEMMA NothingIsCreatedTwice ==
    ASSUME NEW v \in 0 .. 4, NEW n \in 1 .. Len(Migrations[v + 1])
    PROVE  Migrations[v + 1][n] \notin SchemaAt(v) \cup Prefix(v + 1, n)
<1>1. CASE v = 0
  BY <1>1 DEF Migrations, SchemaAt, CreatedBy, Prefix
<1>2. CASE v = 1
  BY <1>2 DEF Migrations, SchemaAt, CreatedBy, Prefix
<1>3. CASE v = 2
  BY <1>3 DEF Migrations, SchemaAt, CreatedBy, Prefix
<1>4. CASE v = 3
  BY <1>4 DEF Migrations, SchemaAt, CreatedBy, Prefix
<1>5. CASE v = 4
  BY <1>5 DEF Migrations, SchemaAt, CreatedBy, Prefix
<1> QED
  BY <1>1, <1>2, <1>3, <1>4, <1>5

(* A migration adds what it creates to the schema.                         *)
LEMMA SchemaGrows ==
    ASSUME NEW v \in 0 .. 4
    PROVE  SchemaAt(v + 1) = SchemaAt(v) \cup CreatedBy(v + 1)
BY DEF SchemaAt

----------------------------------------------------------------------------

(* A migration that is complete, on top of the file that had those before  *)
(* it, is the schema of the next version.                                  *)
LEMMA CompleteMigration ==
    ASSUME NEW v \in 0 .. 4, NEW n \in 1 .. (Len(Migrations[v + 1]) + 1),
           n > Len(Migrations[v + 1])
    PROVE  SchemaAt(v) \cup Prefix(v + 1, n) = SchemaAt(v + 1)
<1>1. n - 1 = Len(Migrations[v + 1]) /\ DOMAIN Migrations[v + 1] = 1 .. (n - 1)
  BY MigrationsAre
<1>2. Prefix(v + 1, n) = CreatedBy(v + 1)
  BY <1>1 DEF Prefix, CreatedBy
<1> QED
  BY <1>2, SchemaGrows

(* One statement more is a longer first part.                              *)
LEMMA PrefixGrows ==
    ASSUME NEW m, NEW n \in Nat \ {0}
    PROVE  Prefix(m, n + 1) = Prefix(m, n) \cup {Migrations[m][n]}
<1>1. 1 .. ((n + 1) - 1) = (1 .. (n - 1)) \cup {n}
  OBVIOUS
<1> QED
  BY <1>1 DEF Prefix

(* What a migration creates is part of the whole schema.                   *)
LEMMA PartOfTheSchema ==
    /\ \A v \in 0 .. 5 : SchemaAt(v) \subseteq SchemaAt(5)
    /\ \A m \in 1 .. 5 : \A i \in 1 .. Len(Migrations[m]) :
          Migrations[m][i] \in SchemaAt(5)
<1>1. \A v \in 0 .. 5 : SchemaAt(v) \subseteq SchemaAt(5)
  BY DEF SchemaAt
<1>2. \A m \in 1 .. 5 : CreatedBy(m) \subseteq SchemaAt(5)
  BY DEF SchemaAt
<1> QED
  BY <1>1, <1>2, MigrationsAre DEF CreatedBy

(* A good environment yields a configuration of durations.                 *)
LEMMA ConfigIsTyped ==
    ASSUME NEW e \in Environment, Accepted(e)
    PROVE  AppConfig(e) \in [ChallengeTTL : Int, AccessTTL : Int, RefreshTTL : Int]
<1>1. \A s \in DurationsOf(e) : s \in Durations \cup {Unset}
  BY DEF Environment, Setting, Accepted, DurationsOf
<1>2. \A s \in Durations \cup {Unset} : \A def \in Int : EnvOr(s, def) \in Int
  BY StartupAssumption DEF EnvOr
<1>3. EnvOr(e.PASSKEY_CHALLENGE_TTL, 5) \in Int
  <2>1. e.PASSKEY_CHALLENGE_TTL \in Durations \cup {Unset}
    BY <1>1 DEF DurationsOf
  <2> QED
    BY <1>2, <2>1
<1>4. EnvOr(e.PASSKEY_JWT_ACCESS_TTL, 15) \in Int
  <2>1. e.PASSKEY_JWT_ACCESS_TTL \in Durations \cup {Unset}
    BY <1>1 DEF DurationsOf
  <2> QED
    BY <1>2, <2>1
<1>5. EnvOr(e.PASSKEY_JWT_REFRESH_TTL, 43200) \in Int
  <2>1. e.PASSKEY_JWT_REFRESH_TTL \in Durations \cup {Unset}
    BY <1>1 DEF DurationsOf
  <2> QED
    BY <1>2, <2>1
<1> QED
  BY <1>3, <1>4, <1>5 DEF AppConfig

----------------------------------------------------------------------------

(* No statement ever conflicts with what is in the file.                   *)
LEMMA NoConflict ==
    ASSUME StartupInvariant
    PROVE  ~Conflicts
<1> SUFFICES ASSUME InMigration, ~Executed, Created \in tx.schema
             PROVE  FALSE
  BY DEF Conflicts
<1>1. version \in 0 .. 4 /\ tx.next \in 1 .. Len(Migrations[version + 1])
  BY MigrationsAre
  DEF StartupInvariant, StartupTypeOK, TransactionIsPrefix, InMigration, Executed
<1>2. tx.schema = SchemaAt(version) \cup Prefix(version + 1, tx.next)
  BY DEF StartupInvariant, SchemaIsItsVersion, TransactionIsPrefix, InMigration
<1> QED
  BY <1>1, <1>2, NothingIsCreatedTwice DEF Created

(* A new file and no process: the invariant holds.                         *)
LEMMA StartupInitially ==
    ASSUME StartupInit
    PROVE  StartupInvariant
<1>1. schema = {} /\ SchemaAt(0) = {} /\ version = 0
  BY DEF StartupInit, SchemaAt
<1>2. failed \in BOOLEAN
  BY Zenon DEF StartupInit
<1>3. exit \in Exits \cup {None} /\ exit # "call" /\ exit # "config"
  BY StartupAssumption DEF StartupInit
<1>4. StartupTypeOK
  BY <1>1, <1>2, <1>3, MigrationsAre, StartupAssumption
  DEF StartupInit, StartupTypeOK
<1> QED
  BY <1>1, <1>3, <1>4
  DEF StartupInit, StartupInvariant, SchemaIsItsVersion, TransactionIsPrefix,
      ConfigIsLoaded, MigratedFirst, GivesUpForAReason

----------------------------------------------------------------------------

(* Every step of a start keeps the invariant.  Only the three steps of a   *)
(* migration, a failing call and LoadConfig need more than their own text. *)
LEMMA StartupStep ==
    ASSUME StartupInvariant, [StartupNext]_startupVars
    PROVE  StartupInvariant'
<1> USE DEF StartupInvariant, StartupTypeOK, SchemaIsItsVersion,
        TransactionIsPrefix, ConfigIsLoaded, MigratedFirst, GivesUpForAReason,
        Starting, Exits, fileVars, Goes, Exit
<1>1. ASSUME NEW e \in Environment, Start(e)
      PROVE  StartupInvariant'
  <2>1. exit' = None /\ exit' # "call" /\ exit' # "config"
    BY <1>1, StartupAssumption DEF Start
  <2>2. failed' \in BOOLEAN
    BY <1>1, Zenon DEF Start
  <2>3. starts' \in 0 .. MaxStarts
    BY <1>1, StartupAssumption DEF Start
  <2> QED
    BY <1>1, <2>1, <2>2, <2>3 DEF Start
<1>2. CASE LoadConfig
  BY <1>2, ConfigIsTyped DEF LoadConfig
<1>3. CASE RejectConfig
  BY <1>3 DEF RejectConfig, Accepted
<1>4. CASE GenerateSigner
  BY <1>4 DEF GenerateSigner
<1>5. CASE Open
  BY <1>5 DEF Open
<1>6. CASE BeginMigration
  BY <1>6, MigrationsAre DEF BeginMigration, Pending, Prefix
<1>7. CASE ExecStatement
  <2>1. /\ phase = "migrate" /\ tx # None
        /\ tx' = [schema |-> tx.schema \cup {Created}, next |-> tx.next + 1]
        /\ UNCHANGED <<phase, exit, env, config, schema, version, failed, starts>>
    BY <1>7 DEF ExecStatement, InMigration
  <2>2. version \in 0 .. 4 /\ tx.next \in 1 .. Len(Migrations[version + 1])
    BY <1>7, <2>1, MigrationsAre DEF ExecStatement, Executed
  <2>3. Len(Migrations[version + 1]) \in 2 .. 3
    BY <2>2, MigrationsAre
  <2>4. tx'.schema = schema \cup Prefix(version + 1, tx'.next)
    BY <2>1, <2>2, <2>3, PrefixGrows DEF Created
  <2>5. Created \in SchemaAt(Len(Migrations))
    <3>1. version + 1 \in 1 .. 5
      BY <2>2
    <3>2. Migrations[version + 1][tx.next] \in SchemaAt(5)
      BY <2>2, <3>1, PartOfTheSchema
    <3> QED
      BY <3>2, MigrationsAre DEF Created
  <2>6. tx' \in [schema : SUBSET SchemaAt(Len(Migrations)), next : 1 .. 4]
    <3>1. tx.schema \in SUBSET SchemaAt(Len(Migrations))
      BY <2>1
    <3>2. tx.schema \cup {Created} \in SUBSET SchemaAt(Len(Migrations))
      BY <2>5, <3>1
    <3>3. tx.next + 1 \in 1 .. 4
      <4>1. \A L \in 2 .. 3 : \A n \in 1 .. L : n + 1 \in 1 .. 4
        OBVIOUS
      <4> QED
        BY <2>2, <2>3, <4>1, Zenon
    <3> QED
      BY <2>1, <3>2, <3>3
  <2> QED
    BY <2>1, <2>2, <2>3, <2>4, <2>6
<1>8. CASE CommitMigration
  <2>1. /\ phase = "migrate" /\ tx # None
        /\ schema' = tx.schema /\ version' = version + 1 /\ tx' = None
        /\ UNCHANGED <<phase, exit, env, config, failed, starts>>
    BY <1>8 DEF CommitMigration, InMigration
  <2>2. version \in 0 .. 4 /\ tx.next > Len(Migrations[version + 1])
    BY <1>8, <2>1, MigrationsAre DEF CommitMigration, Executed
  <2>3. schema' = SchemaAt(version')
    BY <2>1, <2>2, CompleteMigration
  <2>4. version' \in 0 .. 5
    BY <2>1, <2>2
  <2>5. schema' \subseteq SchemaAt(Len(Migrations))
    BY <2>3, <2>4, PartOfTheSchema, MigrationsAre
  <2> QED
    BY <2>1, <2>3, <2>4, <2>5, MigrationsAre
<1>9. CASE Migrated
  BY <1>9, MigrationsAre DEF Migrated, Pending
<1>10. CASE Listen
  BY <1>10 DEF Listen
<1>11. CASE CallFails
  <2>1. failed' = TRUE
    BY <1>11, NoConflict, Zenon DEF CallFails
  <2> QED
    BY <1>11, <2>1 DEF CallFails
<1>12. CASE Closed
  BY <1>12 DEF Closed
<1>13. CASE Killed
  BY <1>13 DEF Killed
<1>14. CASE UNCHANGED startupVars
  BY <1>14 DEF startupVars, Conflicts
<1> QED
  BY <1>1, <1>2, <1>3, <1>4, <1>5, <1>6, <1>7, <1>8, <1>9, <1>10, <1>11,
     <1>12, <1>13, <1>14 DEF StartupNext


----------------------------------------------------------------------------

(* The invariant holds for any number of starts.                           *)
THEOREM StartupInvariantHolds == StartupSpec => []StartupInvariant
<1>1. StartupInit => StartupInvariant
  BY StartupInitially
<1>2. StartupInvariant /\ [StartupNext]_startupVars => StartupInvariant'
  BY StartupStep
<1> QED
  BY <1>1, <1>2, PTL DEF StartupSpec

(* The file always holds exactly what the migrations recorded in it create: *)
(* db.Open never leaves half a migration behind.                           *)
THEOREM FileIsItsVersion == StartupSpec => []SchemaIsItsVersion
<1>1. StartupInvariant => SchemaIsItsVersion
  BY DEF StartupInvariant
<1> QED
  BY <1>1, StartupInvariantHolds, PTL

(* main listens only with the whole schema and its own configuration.      *)
THEOREM ServingIsReady == StartupSpec => []ServesWhatItNeeds
<1>1. StartupInvariant => ServesWhatItNeeds
  BY DEF StartupInvariant, ServesWhatItNeeds, SchemaIsItsVersion,
         ConfigIsLoaded, MigratedFirst
<1> QED
  BY <1>1, StartupInvariantHolds, PTL

(* main gives up only because of its environment or a call that failed.    *)
THEOREM NoStartSpoilsTheNext == StartupSpec => []GivesUpForAReason
<1>1. StartupInvariant => GivesUpForAReason
  BY DEF StartupInvariant
<1> QED
  BY <1>1, StartupInvariantHolds, PTL

(* Only a start whose whole environment LoadConfig accepts touches the     *)
(* file, and it never takes anything out of it.                            *)
THEOREM BadStartsTouchNothing == StartupSpec => OnlyGoodStartsMigrate
<1> DEFINE Good == schema' # schema =>
                      /\ env.SQLITE_PATH # Unset /\ Garbage \notin DurationsOf(env)
                      /\ schema \subseteq schema'
<1>1. ASSUME StartupInvariant, [StartupNext]_startupVars
      PROVE  [Good]_startupVars
  <2>1. CASE CommitMigration
    BY <1>1, <2>1
    DEF CommitMigration, InMigration, StartupInvariant, TransactionIsPrefix,
        ConfigIsLoaded, Accepted
  <2>2. CASE ~CommitMigration
    <3>1. schema' = schema
      BY <1>1, <2>2
      DEF StartupNext, startupVars, fileVars, Start, LoadConfig, RejectConfig,
          GenerateSigner, Open, BeginMigration, ExecStatement, Migrated,
          Listen, CallFails, Closed, Killed
    <3> QED
      BY <3>1
  <2> QED
    BY <2>1, <2>2
<1> QED
  BY <1>1, StartupInvariantHolds, PTL DEF StartupSpec, OnlyGoodStartsMigrate

=============================================================================
