------------------------------- MODULE Store -------------------------------
(***************************************************************************)
(* The SQLite database that the five slices of the service share, the      *)
(* clock and the process itself.                                           *)
(*                                                                         *)
(* internal/db/db.go opens the file in WAL mode with a busy timeout and    *)
(* foreign keys on.  Readers see the last committed image, `db'.  A        *)
(* connection takes the single write lock with the first INSERT, UPDATE or *)
(* DELETE of its transaction and builds a private image, `view', that      *)
(* COMMIT publishes and ROLLBACK (or a crash) drops.  An INSERT outside a  *)
(* transaction takes and releases the lock in one step.                    *)
(*                                                                         *)
(* Every id that the code draws at random (uuid.New, 32 random bytes) is   *)
(* drawn by one request and never again; it is named here by the request   *)
(* that drew it.  A session's challenge is as unique as its id and is      *)
(* identified with it.                                                     *)
(***************************************************************************)
EXTENDS Integers

CONSTANTS
    RegStarts,       \* invocations of POST /v1/registrations
    RegFinishes,     \* invocations of POST /v1/registrations/{id}/attestation
    LoginStarts,     \* invocations of POST /v1/sessions
    LoginFinishes,   \* invocations of POST /v1/sessions/{id}/assertion
    Handles,         \* handles that NewHandle accepts
    CredIDs,         \* WebAuthn credential ids
    SignCounts,      \* values of the authenticators' signature counters
    TicksPerSecond,  \* resolution of time.Now against Unix seconds
    ChallengeTTL,    \* ticks from the opening of a session to its expiry
    Faults,          \* the SQLite failures considered, of "busy", "full", "io"
    MaxTime,         \* bound: last instant of a run, in ticks
    MaxRestarts,     \* bound: restarts of the process in a run
    None             \* no row, no request, no input

(* What the service answers with: "OK" for a 2xx response, otherwise the   *)
(* "code" member of the error body.  StartReplies, FinishReplies,          *)
(* LoginReplies, AssertReplies and LogoutReplies are taken from the        *)
(* mapError of each slice; here they are together.                         *)
Codes == {"OK", "VALIDATION_ERROR", "NOT_FOUND", "UNAUTHORIZED",
          "ATTESTATION_INVALID", "ASSERTION_INVALID", "HANDLE_TAKEN",
          "db_locked", "db_disk_full", "INTERNAL_ERROR"}

ASSUME StoreAssumption ==
    /\ TicksPerSecond \in Nat \ {0}
    /\ SignCounts \subseteq Nat
    /\ Faults \subseteq {"busy", "full", "io"}
    /\ MaxTime \in Nat
    /\ MaxRestarts \in Nat
    /\ None \notin RegStarts \cup RegFinishes \cup LoginStarts \cup LoginFinishes
    /\ None \notin Handles \cup CredIDs
    /\ None \notin Nat
    /\ None \notin Codes
    /\ RegFinishes \cap LoginFinishes = {}

ASSUME ChallengeTTLAssumption == ChallengeTTL \in Nat

VARIABLES
    now,     \* the wall clock, in ticks
    boots,   \* restarts so far: names the process and its Ed25519 key pair
    db,      \* the committed image of the database
    view,    \* the image the holder of the write lock works on
    writer   \* the request whose transaction holds the write lock, or None

storeVars == <<now, boots, db, view, writer>>

----------------------------------------------------------------------------
(* The tables.                                                             *)

RegSessionRow == [id : RegStarts, handle : Handles, expires_at : Nat]
UserRow == [id : RegFinishes, handle : Handles]
CredentialRow == [credential_id : CredIDs, user_id : RegFinishes,
                  sign_count : SignCounts]
RefreshTokenRow == [token_hash : RegFinishes \cup LoginFinishes,
                    user_id : RegFinishes, expires_at : Nat,
                    revoked_at : Nat \cup {None}]
LoginSessionRow == [id : LoginStarts, user_id : RegFinishes, expires_at : Nat]

Database == [registration_sessions : SUBSET RegSessionRow,
             users : SUBSET UserRow,
             credentials : SUBSET CredentialRow,
             refresh_tokens : SUBSET RefreshTokenRow,
             login_sessions : SUBSET LoginSessionRow]

EmptyDatabase == [registration_sessions |-> {}, users |-> {},
                  credentials |-> {}, refresh_tokens |-> {},
                  login_sessions |-> {}]

(* Time.Unix() drops what is below a second; time.Unix(s, 0) restores the  *)
(* start of that second.                                                   *)
Unix(t) == t \div TicksPerSecond
FromUnix(s) == s * TicksPerSecond

(* Mutants of Fresh: a session is good at its expiry; a second is taken    *)
(* off every session.                                                      *)
FreshAtExpiry(t, expiresAt) == t <= expiresAt
FreshOneSecondLess(t, expiresAt) == t + TicksPerSecond < expiresAt

(* Now.Before(expiresAt), the test of both freshness constructors.         *)
Fresh(t, expiresAt) == t < expiresAt

----------------------------------------------------------------------------
(* Constraints the migrations declare.                                     *)

(* Mutants: users.handle is not UNIQUE; credentials has no primary key.    *)
HandleNotUnique(d, h) == FALSE
NoPrimaryKey(d, c) == FALSE

HandleTaken(d, h) == \E u \in d.users : u.handle = h
CredentialExists(d, c) == \E k \in d.credentials : k.credential_id = c

(* Statements, as functions from an image of the database to the next.     *)

InsertRow(d, table, row) == [d EXCEPT ![table] = @ \cup {row}]

(* Mutants of DeleteByID: the WHERE is missing; it matches no row.         *)
DeleteEvery(d, table, id) == [d EXCEPT ![table] = {}]
DeleteNone(d, table, id) == d

DeleteByID(d, table, id) == [d EXCEPT ![table] = {s \in @ : s.id # id}]

(* Mutant of SetSignCount: the WHERE is missing.                           *)
SetEverySignCount(d, c, n) ==
    [d EXCEPT !.credentials = {[k EXCEPT !.sign_count = n] : k \in @}]

SetSignCount(d, c, n) ==
    [d EXCEPT !.credentials = {IF k.credential_id = c
                               THEN [k EXCEPT !.sign_count = n] ELSE k : k \in @}]

----------------------------------------------------------------------------
(* How a failed call of the driver is answered.                            *)

(* mapSQLiteErrWrite and the mapError of each slice.                       *)
WriteError(f) == CASE f = "busy" -> "db_locked"
                   [] f = "full" -> "db_disk_full"
                   [] OTHER      -> "INTERNAL_ERROR"

(* mapSQLiteErrRead knows only SQLITE_BUSY.                                *)
ReadError(f) == IF f = "busy" THEN "db_locked" ELSE "INTERNAL_ERROR"

----------------------------------------------------------------------------
(* Transactions.  The holder of the write lock is the only request whose   *)
(* Rollback releases it: a request that fails while it still waits for the *)
(* lock has nothing to undo.                                               *)

(* Mutant of Autocommit: the statement does not wait for a transaction.    *)
AutocommitAnyway(d) ==
    /\ db' = d
    /\ view' = d
    /\ UNCHANGED <<now, boots, writer>>

Autocommit(d) ==
    /\ writer = None
    /\ db' = d
    /\ view' = d
    /\ UNCHANGED <<now, boots, writer>>

FirstWrite(p, d) ==
    /\ writer = None
    /\ writer' = p
    /\ view' = d
    /\ UNCHANGED <<now, boots, db>>

NextWrite(p, d) ==
    /\ writer = p
    /\ view' = d
    /\ UNCHANGED <<now, boots, db, writer>>

Commit(p) ==
    /\ writer = p
    /\ db' = view
    /\ writer' = None
    /\ UNCHANGED <<now, boots, view>>

(* Mutants of Rollback: COMMIT is deferred in its place; the one write     *)
(* lock is released by whoever fails; nothing is deferred.                 *)
CommitOnTheWayOut(p) ==
    /\ writer' = IF writer = p THEN None ELSE writer
    /\ db' = IF writer = p THEN view ELSE db
    /\ UNCHANGED <<now, boots, view>>
ReleaseAnyLock(p) ==
    /\ writer' = None
    /\ view' = db
    /\ UNCHANGED <<now, boots, db>>
NoRollback(p) == UNCHANGED storeVars

Rollback(p) ==
    /\ writer' = IF writer = p THEN None ELSE writer
    /\ view' = IF writer = p THEN db ELSE view
    /\ UNCHANGED <<now, boots, db>>

----------------------------------------------------------------------------
(* The clock.                                                              *)
Tick ==
    /\ now < MaxTime
    /\ now' = now + 1
    /\ UNCHANGED <<boots, db, view, writer>>

(* The process ends, at SIGTERM or in a crash, and starts again: SQLite    *)
(* recovers the committed image and a new key pair is generated.           *)
Reboot ==
    /\ boots < MaxRestarts
    /\ boots' = boots + 1
    /\ writer' = None
    /\ view' = db
    /\ UNCHANGED <<now, db>>

StoreInit ==
    /\ now = 0
    /\ boots = 0
    /\ db = EmptyDatabase
    /\ view = EmptyDatabase
    /\ writer = None

StoreTypeOK ==
    /\ now \in Nat
    /\ boots \in Nat
    /\ db \in Database
    /\ view \in Database
    /\ writer \in RegFinishes \cup LoginFinishes \cup {None}
=============================================================================
