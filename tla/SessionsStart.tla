--------------------------- MODULE SessionsStart ---------------------------
(***************************************************************************)
(* internal/slice/sessions_start: POST /v1/sessions.                       *)
(*                                                                         *)
(* A request looks the user up by handle and the user's credentials by     *)
(* user id, in two SELECTs and no transaction, builds a login session and  *)
(* stores it with one autocommitted INSERT.  Any number of sessions of one *)
(* user may be open.                                                       *)
(***************************************************************************)
EXTENDS Store

VARIABLES
    loginPc,      \* what a request does next
    loginReply,   \* the code it answers with once it is decided
    user,         \* the users row that LoadUserCredentials found
    allowed,      \* the ids in the response's allowCredentials
    session       \* the LoginSession it built, before it is a row

loginVars == <<loginPc, loginReply, user, allowed, session>>

LoginRunning == {"credentials", "open", "persist", "respond"}
LoginPcs == {"idle", "done", "lost", "killed"} \cup LoginRunning
LoginReplies == {"OK", "VALIDATION_ERROR", "NOT_FOUND", "db_locked",
                 "db_disk_full", "INTERNAL_ERROR", None}

LoginSession == [user_id : RegFinishes, expiresAt : Nat]

(* NewLoginSession: expiresAt = Now + TTL, at the clock's precision.       *)
NewLoginSession(u, t) == [user_id |-> u, expiresAt |-> t + ChallengeTTL]

(* The row PersistLoginSession inserts.                                    *)
LoginSessionRowOf(r) == [id         |-> r,
                         user_id    |-> session[r].user_id,
                         expires_at |-> Unix(session[r].expiresAt)]

(* The client has the session's id and challenge.                          *)
Challenged(r) == loginPc[r] = "done" /\ loginReply[r] = "OK"

LoginGoes(r, pc) == loginPc' = [loginPc EXCEPT ![r] = pc]

AnswerLogin(r, code) ==
    /\ LoginGoes(r, "respond")
    /\ loginReply' = [loginReply EXCEPT ![r] = code]

----------------------------------------------------------------------------

(* The body does not decode, or NewHandle refuses the handle.              *)
RejectLoginHandle(r) ==
    /\ loginPc[r] = "idle"
    /\ AnswerLogin(r, "VALIDATION_ERROR")
    /\ UNCHANGED <<user, allowed, session, storeVars>>

(* NewSessionStartCommand succeeds and the first SELECT finds the user.    *)
LoadUser(r, h) ==
    /\ loginPc[r] = "idle"
    /\ \E u \in db.users : /\ u.handle = h
                           /\ user' = [user EXCEPT ![r] = u]
    /\ LoginGoes(r, "credentials")
    /\ UNCHANGED <<loginReply, allowed, session, storeVars>>

UserNotFound(r, h) ==
    /\ loginPc[r] = "idle"
    /\ ~HandleTaken(db, h)
    /\ AnswerLogin(r, "NOT_FOUND")
    /\ UNCHANGED <<user, allowed, session, storeVars>>

CredentialsOf(u) == {k \in db.credentials : k.user_id = u.id}

(* A user without a credential would be reported as no user.               *)
LoadCredentials(r) ==
    /\ loginPc[r] = "credentials"
    /\ allowed' = [allowed EXCEPT
                     ![r] = {k.credential_id : k \in CredentialsOf(user[r])}]
    /\ IF CredentialsOf(user[r]) = {}
       THEN AnswerLogin(r, "NOT_FOUND")
       ELSE LoginGoes(r, "open") /\ UNCHANGED loginReply
    /\ UNCHANGED <<user, session, storeVars>>

OpenLoginSession(r) ==
    /\ loginPc[r] = "open"
    /\ session' = [session EXCEPT ![r] = NewLoginSession(user[r].id, now)]
    /\ LoginGoes(r, "persist")
    /\ UNCHANGED <<loginReply, user, allowed, storeVars>>

PersistLoginSession(r) ==
    /\ loginPc[r] = "persist"
    /\ Autocommit(InsertRow(db, "login_sessions", LoginSessionRowOf(r)))
    /\ AnswerLogin(r, "OK")
    /\ UNCHANGED <<user, allowed, session>>

(* Either SELECT fails, the first before anything is known of the user.    *)
LoadUserCredentialsFails(r, f) ==
    /\ loginPc[r] \in {"idle", "credentials"}
    /\ AnswerLogin(r, ReadError(f))
    /\ UNCHANGED <<user, allowed, session, storeVars>>

PersistLoginFails(r, f) ==
    /\ loginPc[r] = "persist"
    /\ AnswerLogin(r, WriteError(f))
    /\ UNCHANGED <<user, allowed, session, storeVars>>

RespondLogin(r) ==
    /\ loginPc[r] = "respond"
    /\ \E end \in {"done", "lost"} : LoginGoes(r, end)
    /\ UNCHANGED <<loginReply, user, allowed, session, storeVars>>

----------------------------------------------------------------------------

LoginArrives(r) ==
    \/ RejectLoginHandle(r)
    \/ \E h \in Handles : LoadUser(r, h) \/ UserNotFound(r, h)

LoginProceeds(r) ==
    \/ LoadCredentials(r)
    \/ OpenLoginSession(r)
    \/ PersistLoginSession(r)
    \/ RespondLogin(r)

LoginFails(r) ==
    \E f \in Faults : LoadUserCredentialsFails(r, f) \/ PersistLoginFails(r, f)

LoginKilled ==
    /\ loginPc' = [r \in LoginStarts |-> IF loginPc[r] \in LoginRunning
                                         THEN "killed" ELSE loginPc[r]]
    /\ UNCHANGED <<loginReply, user, allowed, session>>

LoginAtRest(r) == loginPc[r] \in {"done", "lost", "killed"}

LoginInit ==
    /\ loginPc = [r \in LoginStarts |-> "idle"]
    /\ loginReply = [r \in LoginStarts |-> None]
    /\ user = [r \in LoginStarts |-> None]
    /\ allowed = [r \in LoginStarts |-> {}]
    /\ session = [r \in LoginStarts |-> None]

LoginTypeOK ==
    /\ loginPc \in [LoginStarts -> LoginPcs]
    /\ loginReply \in [LoginStarts -> LoginReplies]
    /\ user \in [LoginStarts -> UserRow \cup {None}]
    /\ allowed \in [LoginStarts -> SUBSET CredIDs]
    /\ session \in [LoginStarts -> LoginSession \cup {None}]
=============================================================================
