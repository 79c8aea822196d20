------------------------------ MODULE Accounts ------------------------------
(***************************************************************************)
(* What registration promises, with no requests, transactions or failures: *)
(* a ceremony is offered for a handle, and at one instant it is either     *)
(* completed, giving a new person the handle and the passkey, or still     *)
(* open.  A handle and a passkey belong to one person for ever, and a      *)
(* ceremony is completed at most once.                                     *)
(***************************************************************************)
CONSTANTS Ceremonies, People, Handles, Passkeys, None

VARIABLES
    wanted,   \* the handle a ceremony was offered for
    spent,    \* the ceremonies completed
    owner,    \* the person that a handle belongs to
    holder    \* the person that a passkey belongs to

accountVars == <<wanted, spent, owner, holder>>

Init ==
    /\ wanted = [s \in Ceremonies |-> None]
    /\ spent = {}
    /\ owner = [h \in Handles |-> None]
    /\ holder = [k \in Passkeys |-> None]

Offer(s, h) ==
    /\ wanted[s] = None
    /\ wanted' = [wanted EXCEPT ![s] = h]
    /\ UNCHANGED <<spent, owner, holder>>

Complete(s, a, k) ==
    /\ wanted[s] # None
    /\ s \notin spent
    /\ owner[wanted[s]] = None
    /\ holder[k] = None
    /\ \A h \in Handles : owner[h] # a
    /\ spent' = spent \cup {s}
    /\ owner' = [owner EXCEPT ![wanted[s]] = a]
    /\ holder' = [holder EXCEPT ![k] = a]
    /\ UNCHANGED wanted

Next ==
    \/ \E s \in Ceremonies, h \in Handles : Offer(s, h)
    \/ \E s \in Ceremonies, a \in People, k \in Passkeys : Complete(s, a, k)

Spec == Init /\ [][Next]_accountVars
=============================================================================
