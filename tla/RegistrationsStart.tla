------------------------- MODULE RegistrationsStart -------------------------
(***************************************************************************)
(* internal/slice/registrations_start: POST /v1/registrations.             *)
(*                                                                         *)
(* A request validates the handle, draws a challenge and an id, builds the *)
(* session from one reading of the clock, stores it with one autocommitted *)
(* INSERT and answers with the creation options.  Nothing here looks at    *)
(* the users table: two clients may open sessions for the same handle.     *)
(***************************************************************************)
EXTENDS Store

VARIABLES
    startPc,      \* what a request does next
    startReply,   \* the code it answers with once it is decided
    opened        \* the RegistrationSession it built, before it is a row

startVars == <<startPc, startReply, opened>>

StartPcs == {"idle", "persist", "respond", "done", "lost", "killed"}
StartReplies == {"OK", "VALIDATION_ERROR", "db_locked", "db_disk_full",
                 "INTERNAL_ERROR", None}

RegistrationSession == [handle : Handles, expiresAt : Nat]

(* Mutant of NewRegistrationSession: expiresAt = Now - TTL.                *)
SessionInThePast(h, t) == [handle |-> h, expiresAt |-> t - ChallengeTTL]

(* NewRegistrationSession: expiresAt = Now + TTL, at the clock's precision. *)
NewRegistrationSession(h, t) == [handle |-> h, expiresAt |-> t + ChallengeTTL]

(* The row PersistRegistrationSession inserts.                             *)
SessionRow(r) == [id         |-> r,
                  handle     |-> opened[r].handle,
                  expires_at |-> Unix(opened[r].expiresAt)]

(* The client has the session's id and challenge.                          *)
Offered(r) == startPc[r] = "done" /\ startReply[r] = "OK"

AnswerStart(r, code) ==
    /\ startPc' = [startPc EXCEPT ![r] = "respond"]
    /\ startReply' = [startReply EXCEPT ![r] = code]

----------------------------------------------------------------------------

(* The body does not decode, or NewHandle refuses the handle.              *)
RejectHandle(r) ==
    /\ startPc[r] = "idle"
    /\ AnswerStart(r, "VALIDATION_ERROR")
    /\ UNCHANGED <<opened, storeVars>>

OpenSession(r, h) ==
    /\ startPc[r] = "idle"
    /\ opened' = [opened EXCEPT ![r] = NewRegistrationSession(h, now)]
    /\ startPc' = [startPc EXCEPT ![r] = "persist"]
    /\ UNCHANGED <<startReply, storeVars>>

PersistRegistrationSession(r) ==
    /\ startPc[r] = "persist"
    /\ Autocommit(InsertRow(db, "registration_sessions", SessionRow(r)))
    /\ AnswerStart(r, "OK")
    /\ UNCHANGED opened

PersistFails(r, f) ==
    /\ startPc[r] = "persist"
    /\ AnswerStart(r, WriteError(f))
    /\ UNCHANGED <<opened, storeVars>>

(* The response reaches the client, or the client has gone: the handler    *)
(* works on context.Background() and does not notice.                      *)
RespondStart(r) ==
    /\ startPc[r] = "respond"
    /\ \E end \in {"done", "lost"} : startPc' = [startPc EXCEPT ![r] = end]
    /\ UNCHANGED <<startReply, opened, storeVars>>

----------------------------------------------------------------------------

StartArrives(r) == RejectHandle(r) \/ \E h \in Handles : OpenSession(r, h)

StartProceeds(r) == PersistRegistrationSession(r) \/ RespondStart(r)

StartFails(r) == \E f \in Faults : PersistFails(r, f)

(* A restart of the process ends every request it was serving.             *)
StartKilled ==
    /\ startPc' = [r \in RegStarts |-> IF startPc[r] \in {"persist", "respond"}
                                       THEN "killed" ELSE startPc[r]]
    /\ UNCHANGED <<startReply, opened>>

StartAtRest(r) == startPc[r] \in {"done", "lost", "killed"}

StartInit ==
    /\ startPc = [r \in RegStarts |-> "idle"]
    /\ startReply = [r \in RegStarts |-> None]
    /\ opened = [r \in RegStarts |-> None]

StartTypeOK ==
    /\ startPc \in [RegStarts -> StartPcs]
    /\ startReply \in [RegStarts -> StartReplies]
    /\ opened \in [RegStarts -> RegistrationSession \cup {None}]
=============================================================================
