------------------------------- MODULE Tokens -------------------------------
(***************************************************************************)
(* The token pair that both finish slices issue and the check that the     *)
(* logout slice makes of an access token.  Registration and login share    *)
(* generateTokenPair (registrations_finish/logic.go); the signature is     *)
(* represented by the key pair that made it, named by the number of        *)
(* restarts before that process started.                                   *)
(***************************************************************************)
EXTENDS Store

CONSTANTS
    AccessTTL,    \* lifetime of an access token, in ticks
    RefreshTTL    \* lifetime of a refresh token, in ticks

TokenPair == [key : Nat, issued_at : Nat, access_exp : Nat, refresh_exp : Nat]

ASSUME TokensAssumption ==
    /\ AccessTTL \in Nat
    /\ RefreshTTL \in Nat
    /\ None \notin TokenPair

(* The "iat" and "exp" claims are NumericDates and the refresh token's     *)
(* expiry is stored as Unix seconds: all lose what is below a second.      *)
GenerateTokenPair(t, key) ==
    [key         |-> key,
     issued_at   |-> Unix(t),
     access_exp  |-> Unix(t + AccessTTL),
     refresh_exp |-> Unix(t + RefreshTTL)]

(* The access token in the answer of request g to user u.  `from' is no    *)
(* claim and no step reads it: two tokens that one process signs for one   *)
(* user in one second are the same text.                                   *)
AccessToken == [from : RegFinishes \cup LoginFinishes, sub : RegFinishes,
                key : Nat, iat : Nat, exp : Nat]
AccessTokenIn(pair, g, u) ==
    [from |-> g, sub |-> u, key |-> pair.key,
     iat |-> pair.issued_at, exp |-> pair.access_exp]

(* Mutant of VerifyAccessToken: the signature is not looked at.            *)
AnySignature(token, key, t) == Fresh(t, FromUnix(token.exp))

(* Signature, "iat" and "exp".  The instant is read twice, by the slice    *)
(* and by jwt.ParseWithClaims; t is the later reading, which is the one    *)
(* that decides.  Every process signs with the issuer it expects.          *)
VerifyAccessToken(token, key, t) ==
    /\ token.key = key
    /\ FromUnix(token.iat) <= t
    /\ Fresh(t, FromUnix(token.exp))
=============================================================================
