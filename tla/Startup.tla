------------------------------- MODULE Startup -------------------------------
(***************************************************************************)
(* How the process comes up: main reads the environment, draws a key pair, *)
(* opens the database, which applies the migrations that the file does not *)
(* have yet, and listens.  Any call may fail and the process may be killed *)
(* between any two steps; what a start has committed to the file is what   *)
(* the next one finds.                                                     *)
(*                                                                         *)
(* goose runs one migration in one transaction, its version row included;  *)
(* that is external to the repository.                                     *)
(***************************************************************************)
EXTENDS Integers, Sequences

CONSTANTS
    Durations,   \* durations that the environment may hold, in any unit
    Unset,       \* an environment variable that is not set, or empty
    Garbage,     \* one that time.ParseDuration does not understand
    MaxStarts,   \* bound: starts of the process in a run
    None

ASSUME StartupAssumption ==
    /\ Durations \subseteq Int
    /\ Unset \notin Int /\ Garbage \notin Int /\ Unset # Garbage
    /\ None \notin Int \cup {"config", "call", "killed", "closed"}
    /\ MaxStarts \in Nat

VARIABLES
    phase,       \* the call that main is about to make
    env,         \* the environment of this start
    config,      \* the AppConfig, once loaded
    schema,      \* the tables and indexes that are in the file
    version,     \* the last migration recorded in it
    tx,          \* the schema inside the open transaction of goose, or None
    exit,        \* what this start ended with
    failed,      \* whether a call has failed in this start
    starts

startupVars == <<phase, env, config, schema, version, tx, exit, failed, starts>>

(* internal/db/migrations, statement by statement.                         *)
Migrations ==
    << <<"registration_sessions", "idx_registration_sessions_expires_at">>,
       <<"users", "idx_users_handle">>,
       <<"credentials", "idx_credentials_user_id">>,
       <<"refresh_tokens", "idx_refresh_tokens_user_id",
         "idx_refresh_tokens_expires_at">>,
       <<"login_sessions", "idx_login_sessions_user_id",
         "idx_login_sessions_expires_at">> >>

CreatedBy(m) == {Migrations[m][i] : i \in DOMAIN Migrations[m]}
SchemaAt(v) == UNION {CreatedBy(m) : m \in 1 .. v}

Starting == {"config", "signer", "open", "migrate", "listen"}
Exits == {"config", "call", "killed", "closed"}

Setting == Durations \cup {Unset, Garbage}
Environment == [SQLITE_PATH : {"path", Unset}, PASSKEY_CHALLENGE_TTL : Setting,
                PASSKEY_JWT_ACCESS_TTL : Setting, PASSKEY_JWT_REFRESH_TTL : Setting]
DurationsOf(e) == {e.PASSKEY_CHALLENGE_TTL, e.PASSKEY_JWT_ACCESS_TTL,
                   e.PASSKEY_JWT_REFRESH_TTL}

(* "5m", "15m" and "720h", in minutes.                                     *)
EnvOr(s, def) == IF s = Unset THEN def ELSE s
AppConfig(e) ==
    [ChallengeTTL |-> EnvOr(e.PASSKEY_CHALLENGE_TTL, 5),
     AccessTTL    |-> EnvOr(e.PASSKEY_JWT_ACCESS_TTL, 15),
     RefreshTTL   |-> EnvOr(e.PASSKEY_JWT_REFRESH_TTL, 43200)]

(* Mutant of Accepted: only the last error counts.                         *)
LastErrorCounts(e) == e.PASSKEY_JWT_REFRESH_TTL # Garbage

Accepted(e) == e.SQLITE_PATH # Unset /\ Garbage \notin DurationsOf(e)

Goes(p) == phase' = p /\ UNCHANGED exit
Exit(why) == phase' = "down" /\ exit' = why

fileVars == <<schema, version, tx>>

----------------------------------------------------------------------------

Start(e) ==
    /\ phase = "down"
    /\ starts < MaxStarts
    /\ starts' = starts + 1
    /\ env' = e
    /\ config' = None
    /\ failed' = FALSE
    /\ phase' = "config" /\ exit' = None
    /\ UNCHANGED fileVars

LoadConfig ==
    /\ phase = "config"
    /\ Accepted(env)
    /\ config' = AppConfig(env)
    /\ Goes("signer")
    /\ UNCHANGED <<env, failed, starts, fileVars>>

RejectConfig ==
    /\ phase = "config"
    /\ ~Accepted(env)
    /\ Exit("config")
    /\ UNCHANGED <<env, config, failed, starts, fileVars>>

GenerateSigner ==
    /\ phase = "signer"
    /\ Goes("open")
    /\ UNCHANGED <<env, config, failed, starts, fileVars>>

(* MkdirAll, Ping and what goose does before the first migration.          *)
Open ==
    /\ phase = "open"
    /\ Goes("migrate")
    /\ UNCHANGED <<env, config, failed, starts, fileVars>>

(* Mutant of Pending: the last migration is overlooked.                    *)
NotTheLast(v) == v < Len(Migrations) - 1
Pending(v) == v < Len(Migrations)

BeginMigration ==
    /\ phase = "migrate" /\ tx = None /\ Pending(version)
    /\ tx' = [schema |-> schema, next |-> 1]
    /\ Goes("migrate")
    /\ UNCHANGED <<env, config, schema, version, failed, starts>>

InMigration == phase = "migrate" /\ tx # None
Executed == tx.next > Len(Migrations[version + 1])
Created == Migrations[version + 1][tx.next]

(* CREATE without IF NOT EXISTS: fails on what is there already.           *)
Conflicts == InMigration /\ ~Executed /\ Created \in tx.schema

(* Mutant of ExecStatement: no transaction holds the statements together.  *)
ExecDirectly ==
    /\ InMigration /\ ~Executed /\ ~Conflicts
    /\ tx' = [schema |-> tx.schema \cup {Created}, next |-> tx.next + 1]
    /\ schema' = tx'.schema
    /\ Goes("migrate")
    /\ UNCHANGED <<env, config, version, failed, starts>>

ExecStatement ==
    /\ InMigration /\ ~Executed /\ ~Conflicts
    /\ tx' = [schema |-> tx.schema \cup {Created}, next |-> tx.next + 1]
    /\ Goes("migrate")
    /\ UNCHANGED <<env, config, schema, version, failed, starts>>

CommitMigration ==
    /\ InMigration /\ Executed
    /\ schema' = tx.schema
    /\ version' = version + 1
    /\ tx' = None
    /\ Goes("migrate")
    /\ UNCHANGED <<env, config, failed, starts>>

Migrated ==
    /\ phase = "migrate" /\ tx = None /\ ~Pending(version)
    /\ Goes("listen")
    /\ UNCHANGED <<env, config, failed, starts, fileVars>>

(* Build, the routes, ListenAndServe.                                      *)
Listen ==
    /\ phase = "listen"
    /\ Goes("serving")
    /\ UNCHANGED <<env, config, failed, starts, fileVars>>

(* The random source, the directory, the file, a statement, COMMIT or the  *)
(* port: any call after LoadConfig may fail, and main gives up.  Nothing   *)
(* outside has to go wrong for a statement that conflicts.                 *)
CallFails ==
    /\ phase \in Starting \ {"config"}
    /\ failed' = ~Conflicts
    /\ tx' = None
    /\ Exit("call")
    /\ UNCHANGED <<env, config, schema, version, starts>>

Closed ==
    /\ phase = "serving"
    /\ Exit("closed")
    /\ UNCHANGED <<env, config, failed, starts, fileVars>>

Killed ==
    /\ phase # "down"
    /\ tx' = None
    /\ Exit("killed")
    /\ UNCHANGED <<env, config, schema, version, failed, starts>>

----------------------------------------------------------------------------

StartupInit ==
    /\ phase = "down" /\ exit = None /\ failed = FALSE /\ starts = 0
    /\ env = None /\ config = None
    /\ schema = {} /\ version = 0 /\ tx = None

StartupNext ==
    \/ \E e \in Environment : Start(e)
    \/ LoadConfig \/ RejectConfig \/ GenerateSigner \/ Open
    \/ BeginMigration \/ ExecStatement \/ CommitMigration
    \/ Migrated \/ Listen \/ CallFails
    \/ Closed
    \/ Killed

StartupSpec == StartupInit /\ [][StartupNext]_startupVars

----------------------------------------------------------------------------

(* Every variable keeps its type.                                          *)
StartupTypeOK ==
    /\ phase \in Starting \cup {"down", "serving"}
    /\ env \in Environment \cup {None}
    /\ config \in [ChallengeTTL : Int, AccessTTL : Int, RefreshTTL : Int]
                    \cup {None}
    /\ schema \subseteq SchemaAt(Len(Migrations))
    /\ version \in 0 .. Len(Migrations)
    /\ tx \in [schema : SUBSET SchemaAt(Len(Migrations)), next : 1 .. 4]
                \cup {None}
    /\ exit \in Exits \cup {None}
    /\ failed \in BOOLEAN /\ starts \in 0 .. MaxStarts

(* The file holds what the migrations recorded in it create and nothing of *)
(* one that was begun: wherever a start was killed or gave up.             *)
SchemaIsItsVersion == schema = SchemaAt(version)

(* A process that serves has every table and index, and the configuration  *)
(* that its own environment holds.                                         *)
ServesWhatItNeeds ==
    phase = "serving" =>
        /\ schema = SchemaAt(Len(Migrations))
        /\ Accepted(env) /\ config = AppConfig(env)

(* No start stands in the way of a later one: main gives up only because   *)
(* of its own environment or because something outside failed just now,    *)
(* never because of what an interrupted start left in the file.            *)
GivesUpForAReason ==
    /\ exit = "call" => failed
    /\ exit = "config" => env.SQLITE_PATH = Unset \/ Garbage \in DurationsOf(env)

(* The file is touched only by a start whose whole environment is good,    *)
(* and what an earlier start has put there stays.                          *)
OnlyGoodStartsMigrate ==
    [][schema' # schema =>
          /\ env.SQLITE_PATH # Unset /\ Garbage \notin DurationsOf(env)
          /\ schema \subseteq schema']_startupVars
=============================================================================
