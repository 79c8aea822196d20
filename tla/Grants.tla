------------------------------- MODULE Grants -------------------------------
(***************************************************************************)
(* What login and logout promise, with no requests, transactions or        *)
(* failures.  A grant stands for a refresh token: a person's first comes   *)
(* with the account, each login adds one, and a logout ends, in one step,  *)
(* all that the person has.  An ended grant stays ended, and to log out    *)
(* takes a grant of the current epoch: access tokens do not outlive the    *)
(* key that signed them, while grants do.                                  *)
(***************************************************************************)
EXTENDS Naturals

CONSTANTS People, Names

VARIABLES
    epoch,   \* which key is in use
    given    \* the grants given so far

grantVars == <<epoch, given>>

Grant == [name : Names, owner : People, epoch : Nat, live : BOOLEAN]

GrantsOf(p) == {g \in given : g.owner = p}

Give(p, n) ==
    /\ \A g \in given : g.name # n
    /\ given' = given \cup
           {[name |-> n, owner |-> p, epoch |-> epoch, live |-> TRUE]}
    /\ UNCHANGED epoch

SignUp(p, n) == GrantsOf(p) = {} /\ Give(p, n)

SignIn(p, n) == GrantsOf(p) # {} /\ Give(p, n)

SignOut(p) ==
    /\ \E g \in GrantsOf(p) : g.epoch = epoch
    /\ given' = (given \ GrantsOf(p))
                    \cup {[g EXCEPT !.live = FALSE] : g \in GrantsOf(p)}
    /\ UNCHANGED epoch

NewEpoch ==
    /\ epoch' = epoch + 1
    /\ UNCHANGED given

Init == epoch = 0 /\ given = {}

Next ==
    \/ \E p \in People, n \in Names : SignUp(p, n) \/ SignIn(p, n)
    \/ \E p \in People : SignOut(p)
    \/ NewEpoch

Spec == Init /\ [][Next]_grantVars
=============================================================================
