------------------------------- MODULE Handles -------------------------------
(***************************************************************************)
(* What becomes of a handle as text.  A client types it to register and    *)
(* types it again to log in; the service trims and measures it, stores it  *)
(* in two tables, and takes it through the same NewHandle each time it is  *)
(* read back.  The other modules start from the handles that NewHandle     *)
(* accepts; here the requests are whole steps, and only the text counts.   *)
(***************************************************************************)
EXTENDS SequencesExt

CONSTANTS
    Clients,     \* who registers: a POST /v1/registrations, then attestations
    Logins,      \* invocations of POST /v1/sessions
    MinBytes,    \* shortest handle, 3
    MaxBytes,    \* longest handle, 64
    MaxWidth,    \* most bytes of UTF-8 that one character takes, 4
    MaxLength,   \* bound: most characters that a client types
    None

VARIABLES
    typed,       \* the text in the body of each request
    answer,      \* how its handler last answered it
    sessions,    \* registration_sessions: id and handle
    users,       \* users: id and handle
    found        \* the account for which a login session was opened

handlesVars == <<typed, answer, sessions, users, found>>

Requests == Clients \cup Logins

Char == [bytes : 1 .. MaxWidth, space : BOOLEAN]
Texts == SeqOf(Char, MaxLength)
Row == [id : Clients, handle : Texts]

ASSUME HandlesAssumption ==
    /\ MaxWidth \in Nat /\ MaxLength \in Nat
    /\ None \notin Texts
    /\ None \notin Clients /\ None # "INTERNAL_ERROR"
    /\ Clients \cap Logins = {}

(* strings.TrimSpace and its mutant, strings.TrimLeft.                     *)
Inked(text) == {i \in DOMAIN text : ~text[i].space}
TrimLeft(text) ==
    IF Inked(text) = {} THEN <<>> ELSE SubSeq(text, Min(Inked(text)), Len(text))
TrimSpace(text) ==
    IF Inked(text) = {} THEN <<>>
    ELSE SubSeq(text, Min(Inked(text)), Max(Inked(text)))

(* Go's len counts the bytes of the UTF-8 encoding.                        *)
ByteLen(text) == MapThenSumSet(LAMBDA i : text[i].bytes, DOMAIN text)

(* Mutant of NewHandle: what is measured is the text before trimming.      *)
MeasuredFirst(raw) ==
    {h \in {TrimSpace(raw)} : /\ h # <<>>
                              /\ ByteLen(raw) \in MinBytes .. MaxBytes}

(* The handle that a text stands for, if any.                              *)
NewHandle(raw) ==
    {h \in {TrimSpace(raw)} : /\ h # <<>>
                              /\ ByteLen(h) \in MinBytes .. MaxBytes}

Answered(q, code) == answer' = [answer EXCEPT ![q] = code]

Type(q, raw) ==
    /\ typed[q] = None
    /\ typed' = [typed EXCEPT ![q] = raw]

----------------------------------------------------------------------------

StartRegistration(c, raw) ==
    /\ Type(c, raw)
    /\ \E h \in NewHandle(raw) :
          sessions' = sessions \cup {[id |-> c, handle |-> h]}
    /\ Answered(c, "challenge")
    /\ UNCHANGED <<users, found>>

(* S1 and S3 refuse a text that is not a handle alike.                     *)
RefuseHandle(q, raw) ==
    /\ Type(q, raw)
    /\ NewHandle(raw) = {}
    /\ Answered(q, "VALIDATION_ERROR")
    /\ UNCHANGED <<sessions, users, found>>

(* RegistrationSessionFromRow and UserFromRow: the stored text goes        *)
(* through NewHandle again; if it did not pass, no error that mapError     *)
(* knows would come of it.                                                 *)
Reread(row) == NewHandle(row.handle)

(* handle TEXT NOT NULL UNIQUE                                             *)
FinishRegistration(c) ==
    \E row \in sessions : \E h \in Reread(row) :
        /\ row.id = c
        /\ \A u \in users : u.handle # h
        /\ users' = users \cup {[id |-> c, handle |-> h]}
        /\ sessions' = sessions \ {row}
        /\ Answered(c, "tokens")
        /\ UNCHANGED <<typed, found>>

FinishRefused(c) ==
    \E row \in sessions :
        /\ row.id = c
        /\ \A h \in Reread(row) : \E u \in users : u.handle = h
        /\ Answered(c, IF Reread(row) = {} THEN "INTERNAL_ERROR"
                       ELSE "HANDLE_TAKEN")
        /\ UNCHANGED <<typed, sessions, users, found>>

(* SELECT id, handle, created_at FROM users WHERE handle = ?               *)
StartLogin(l, raw) ==
    /\ Type(l, raw)
    /\ \E h \in NewHandle(raw), u \in users :
          /\ u.handle = h
          /\ Reread(u) # {}
          /\ found' = [found EXCEPT ![l] = u.id]
    /\ Answered(l, "challenge")
    /\ UNCHANGED <<sessions, users>>

LoginRefused(l, raw) ==
    /\ Type(l, raw)
    /\ \E h \in NewHandle(raw) :
          LET rows == {u \in users : u.handle = h} IN
            /\ \A u \in rows : Reread(u) = {}
            /\ Answered(l, IF rows = {} THEN "NOT_FOUND" ELSE "INTERNAL_ERROR")
    /\ UNCHANGED <<sessions, users, found>>

----------------------------------------------------------------------------

HandlesInit ==
    /\ typed = [q \in Requests |-> None]
    /\ answer = [q \in Requests |-> None]
    /\ found = [l \in Logins |-> None]
    /\ sessions = {} /\ users = {}

HandlesNext ==
    \/ \E c \in Clients, raw \in Texts : StartRegistration(c, raw)
    \/ \E q \in Requests, raw \in Texts : RefuseHandle(q, raw)
    \/ \E c \in Clients : FinishRegistration(c) \/ FinishRefused(c)
    \/ \E l \in Logins, raw \in Texts :
          StartLogin(l, raw) \/ LoginRefused(l, raw)

HandlesSpec == HandlesInit /\ [][HandlesNext]_handlesVars

----------------------------------------------------------------------------

(* Two texts are one name: they differ in the spaces around them only.     *)
SameName(a, b) ==
    \E i, m \in 0 .. MaxLength, n \in 0 .. MaxLength :
        /\ i + n <= Len(a) /\ m + n <= Len(b)
        /\ \A j \in DOMAIN a : a[j].space \/ j \in i + 1 .. i + n
        /\ \A j \in DOMAIN b : b[j].space \/ j \in m + 1 .. m + n
        /\ \A j \in 1 .. n : a[i + j] = b[m + j]

Accounts == {u.id : u \in users}

(* Every variable keeps its type.                                          *)
HandlesTypeOK ==
    /\ typed \in [Requests -> Texts \cup {None}]
    /\ answer \in [Requests -> {"challenge", "tokens", "VALIDATION_ERROR",
                                "NOT_FOUND", "HANDLE_TAKEN", "INTERNAL_ERROR", None}]
    /\ sessions \in SUBSET Row /\ users \in SUBSET Row
    /\ found \in [Logins -> Clients \cup {None}]

(* A handle survives storage: every row that a table holds is rehydrated   *)
(* to the very text that is stored, so no request is answered              *)
(* INTERNAL_ERROR for a row that an earlier one wrote - NewHandle accepts  *)
(* what it returns, whatever it was given.                                 *)
HandlesSurviveStorage ==
    /\ \A row \in sessions \cup users : NewHandle(row.handle) = {row.handle}
    /\ \A q \in Requests : answer[q] # "INTERNAL_ERROR"

(* One name, one account: no two accounts, registered by clients that      *)
(* typed their handles with whatever spaces around them, have one name.    *)
OneAccountPerName ==
    \A c, d \in Accounts : SameName(typed[c], typed[d]) => c = d

(* Logging in with the name that an account was registered under finds     *)
(* that account, and another name finds no account: the text is stored,    *)
(* read back and compared in three tables and two slices on the way.       *)
TheNameFindsTheAccount ==
    [][\A l \in Logins :
          answer'[l] # answer[l] =>
            IF answer'[l] = "VALIDATION_ERROR"
            THEN \A c \in Accounts : ~SameName(typed'[l], typed[c])
            ELSE \A c \in Accounts :
                    SameName(typed'[l], typed[c]) <=> found'[l] = c]_handlesVars
=============================================================================
