---------------------------- MODULE HandlesProofs ----------------------------
(***************************************************************************)
(* What module Handles says of every length limit and every text, with     *)
(* proofs.  The measuring of a text is never looked into: what matters is  *)
(* that trimming what has been trimmed changes nothing, and that trimming  *)
(* forgets just what SameName ignores.                                     *)
(***************************************************************************)
EXTENDS Handles, WellFoundedInduction, TLAPS

(* Every non-empty set of naturals has a least element.                    *)
LEMMA Least ==
    ASSUME NEW S \in SUBSET Nat, S # {}
    PROVE  \E x \in S : \A y \in S : x <= y
<1> DEFINE R == {p \in Nat \X Nat : p[1] < p[2]}
<1>1. IsWellFoundedOn(R, Nat)
  BY NatLessThanWellFounded, Zenon DEF OpToRel
<1>2. \A x, y \in Nat : y < x => <<y, x>> \in R
  OBVIOUS
<1> HIDE DEF R
<1>3. PICK x \in S : \A y \in S : ~(<<y, x>> \in R)
  BY <1>1, WFMin
<1>4. \A y \in S : ~(y < x)
  BY <1>2, <1>3
<1>5. \A y \in S : x <= y
  BY <1>4
<1>6. QED
  BY <1>5

(* Min returns the least element.                                          *)
LEMMA MinIsLeast ==
    ASSUME NEW S \in SUBSET Nat, S # {}
    PROVE  Min(S) \in S /\ \A y \in S : Min(S) <= y
<1>1. \E x \in S : \A y \in S : x <= y
  BY Least
<1>2. QED
  BY <1>1 DEF Min

(* Max returns the greatest element of a bounded set.                      *)
LEMMA MaxIsGreatest ==
    ASSUME NEW n \in Nat, NEW S \in SUBSET (1 .. n), S # {}
    PROVE  Max(S) \in S /\ \A y \in S : Max(S) >= y
<1> DEFINE T == {n - x : x \in S}
<1>1. T \in SUBSET Nat /\ T # {}
  <2>1. PICK x \in S : TRUE
    OBVIOUS
  <2>2. n - x \in T
    OBVIOUS
  <2>3. \A y \in S : n - y \in Nat
    OBVIOUS
  <2>4. QED
    BY <2>2, <2>3
<1>2. PICK t \in T : \A y \in T : t <= y
  BY <1>1, Least
<1>3. PICK x \in S : t = n - x
  BY <1>2
<1>4. \A y \in S : x >= y
  <2> TAKE y \in S
  <2>1. n - y \in T
    OBVIOUS
  <2>2. n - x <= n - y
    BY <1>2, <1>3, <2>1
  <2>3. QED
    BY <2>2
<1>5. QED
  BY <1>4 DEF Max

----------------------------------------------------------------------------

(* Where trimming cuts: at the first and at the last character that is not *)
(* a space.                                                                *)
LEMMA TrimCuts ==
    ASSUME NEW raw \in Seq(Char), Inked(raw) # {}
    PROVE  /\ Min(Inked(raw)) \in Inked(raw)
           /\ Max(Inked(raw)) \in Inked(raw)
           /\ \A k \in Inked(raw) :
                 Min(Inked(raw)) <= k /\ k <= Max(Inked(raw))
           /\ Inked(raw) \subseteq 1 .. Len(raw)
           /\ \A k \in Inked(raw) : ~raw[k].space
<1>1. Inked(raw) \in SUBSET (1 .. Len(raw))
  BY DEF Inked
<1>2. \A k \in Inked(raw) : ~raw[k].space
  BY DEF Inked
<1>3. Min(Inked(raw)) \in Inked(raw) /\ \A k \in Inked(raw) : Min(Inked(raw)) <= k
  BY <1>1, MinIsLeast
<1>4. Max(Inked(raw)) \in Inked(raw) /\ \A k \in Inked(raw) : Max(Inked(raw)) >= k
  <2>1. Len(raw) \in Nat
    OBVIOUS
  <2>2. QED
    BY <1>1, <2>1, MaxIsGreatest
<1>5. QED
  BY <1>1, <1>2, <1>3, <1>4

(* A trimmed text neither begins nor ends with a space.                    *)
LEMMA TrimmedText ==
    ASSUME NEW raw \in Seq(Char), TrimSpace(raw) # <<>>
    PROVE  /\ TrimSpace(raw) \in Seq(Char)
           /\ Len(TrimSpace(raw)) \in 1 .. Len(raw)
           /\ ~TrimSpace(raw)[1].space
           /\ ~TrimSpace(raw)[Len(TrimSpace(raw))].space
<1> DEFINE i == Min(Inked(raw))
           j == Max(Inked(raw))
<1>1. Inked(raw) # {}
  BY DEF TrimSpace
<1>2. /\ i \in 1 .. Len(raw) /\ j \in 1 .. Len(raw) /\ i <= j
      /\ ~raw[i].space /\ ~raw[j].space
  BY <1>1, TrimCuts
<1>3. TrimSpace(raw) = SubSeq(raw, i, j)
  BY <1>1 DEF TrimSpace
<1> HIDE DEF i, j
<1>4. /\ SubSeq(raw, i, j) \in Seq(Char)
      /\ Len(SubSeq(raw, i, j)) = j - i + 1
      /\ SubSeq(raw, i, j)[1] = raw[i]
      /\ SubSeq(raw, i, j)[j - i + 1] = raw[j]
  BY <1>2
<1>5. QED
  BY <1>2, <1>3, <1>4

(* Trimming leaves such a text alone.                                      *)
LEMMA TrimOnce ==
    ASSUME NEW t \in Seq(Char), t # <<>>,
           ~t[1].space, ~t[Len(t)].space
    PROVE  TrimSpace(t) = t
<1>1. 1 \in Inked(t) /\ Len(t) \in Inked(t)
  BY DEF Inked
<1>2. Min(Inked(t)) = 1 /\ Max(Inked(t)) = Len(t)
  BY <1>1, TrimCuts
<1>3. SubSeq(t, 1, Len(t)) = t
  OBVIOUS
<1>4. QED
  BY <1>1, <1>2, <1>3 DEF TrimSpace

(* NewHandle accepts what it returned and returns it unchanged: whatever a *)
(* client typed and whatever the limits are.                               *)
THEOREM HandleIsStable ==
    ASSUME NEW raw \in Seq(Char), NEW h \in NewHandle(raw)
    PROVE  NewHandle(h) = {h}
<1>1. /\ h = TrimSpace(raw) /\ h # <<>>
      /\ ByteLen(h) \in MinBytes .. MaxBytes
  BY DEF NewHandle
<1>2. TrimSpace(h) = h
  BY <1>1, TrimmedText, TrimOnce
<1>3. QED
  BY <1>1, <1>2 DEF NewHandle

(* Texts that are one name are trimmed to one text.                        *)
LEMMA SameNameTrimsAlike ==
    ASSUME NEW a \in Seq(Char), NEW b \in Seq(Char), SameName(a, b)
    PROVE  TrimSpace(a) = TrimSpace(b)
<1>0. MaxLength \in Nat
  BY HandlesAssumption
<1>1. PICK i \in 0 .. MaxLength, m \in 0 .. MaxLength, n \in 0 .. MaxLength :
        /\ i + n <= Len(a) /\ m + n <= Len(b)
        /\ \A j \in DOMAIN a : a[j].space \/ j \in i + 1 .. i + n
        /\ \A j \in DOMAIN b : b[j].space \/ j \in m + 1 .. m + n
        /\ \A j \in 1 .. n : a[i + j] = b[m + j]
  BY DEF SameName
<1>2. i \in Nat /\ m \in Nat /\ n \in Nat
  BY <1>0
<1>3. \A k \in Inked(a) : k - i + m \in Inked(b)
  <2> TAKE k \in Inked(a)
  <2>1. k \in 1 .. Len(a) /\ ~a[k].space
    BY DEF Inked
  <2>2. k - i \in 1 .. n
    BY <1>1, <1>2, <2>1
  <2>3. a[i + (k - i)] = b[m + (k - i)]
    BY <1>1, <2>2
  <2>4. i + (k - i) = k /\ m + (k - i) = k - i + m /\ k - i + m \in 1 .. Len(b)
    BY <1>1, <1>2, <2>1, <2>2
  <2>5. QED
    BY <2>1, <2>3, <2>4 DEF Inked
<1>4. \A k \in Inked(b) : k - m + i \in Inked(a)
  <2> TAKE k \in Inked(b)
  <2>1. k \in 1 .. Len(b) /\ ~b[k].space
    BY DEF Inked
  <2>2. k - m \in 1 .. n
    BY <1>1, <1>2, <2>1
  <2>3. a[i + (k - m)] = b[m + (k - m)]
    BY <1>1, <2>2
  <2>4. m + (k - m) = k /\ i + (k - m) = k - m + i /\ k - m + i \in 1 .. Len(a)
    BY <1>1, <1>2, <2>1, <2>2
  <2>5. QED
    BY <2>1, <2>3, <2>4 DEF Inked
<1>5. CASE Inked(a) = {}
  <2>1. Inked(b) = {}
    BY <1>4, <1>5
  <2>2. QED
    BY <1>5, <2>1 DEF TrimSpace
<1>6. CASE Inked(a) # {}
  <2> DEFINE p == Min(Inked(a))
             q == Max(Inked(a))
             s == Min(Inked(b))
             t == Max(Inked(b))
  <2>1. Inked(b) # {}
    BY <1>3, <1>6
  <2>2. /\ p \in Inked(a) /\ q \in Inked(a) /\ p \in 1 .. Len(a) /\ q \in 1 .. Len(a)
        /\ \A k \in Inked(a) : p <= k /\ k <= q
    BY <1>6, TrimCuts
  <2>3. /\ s \in Inked(b) /\ t \in Inked(b) /\ s \in 1 .. Len(b) /\ t \in 1 .. Len(b)
        /\ \A k \in Inked(b) : s <= k /\ k <= t
    BY <2>1, TrimCuts
  <2>4. TrimSpace(a) = SubSeq(a, p, q) /\ TrimSpace(b) = SubSeq(b, s, t)
    BY <1>6, <2>1 DEF TrimSpace
  <2> HIDE DEF p, q, s, t
  <2>5. s = p - i + m
    <3>1. s <= p - i + m /\ p <= s - m + i
      BY <1>3, <1>4, <2>2, <2>3
    <3>2. QED
      BY <1>2, <2>2, <2>3, <3>1
  <2>6. t = q - i + m
    <3>1. q - i + m <= t /\ t - m + i <= q
      BY <1>3, <1>4, <2>2, <2>3
    <3>2. QED
      BY <1>2, <2>2, <2>3, <3>1
  <2>7. p - i \in 1 .. n /\ q - i \in 1 .. n
    <3>1. ~a[p].space /\ ~a[q].space
      BY <2>2 DEF Inked
    <3>2. QED
      BY <1>1, <1>2, <2>2, <3>1
  <2>8. \A k \in 1 .. q - p + 1 : a[p + k - 1] = b[s + k - 1]
    <3> TAKE k \in 1 .. q - p + 1
    <3>1. (p - i) + k - 1 \in 1 .. n
      BY <1>2, <2>2, <2>7
    <3>2. a[i + ((p - i) + k - 1)] = b[m + ((p - i) + k - 1)]
      BY <1>1, <3>1
    <3>3. /\ i + ((p - i) + k - 1) = p + k - 1
          /\ m + ((p - i) + k - 1) = s + k - 1
      BY <1>2, <2>2, <2>5
    <3>4. QED
      BY <3>2, <3>3
  <2>9. SubSeq(a, p, q) = SubSeq(b, s, t)
    <3>1. t - s + 1 = q - p + 1
      BY <1>2, <2>2, <2>5, <2>6
    <3>2. /\ SubSeq(a, p, q) = [k \in 1 .. q - p + 1 |-> a[p + k - 1]]
          /\ SubSeq(b, s, t) = [k \in 1 .. t - s + 1 |-> b[s + k - 1]]
      BY <2>2, <2>3
    <3>3. QED
      BY <2>8, <3>1, <3>2
  <2>10. QED
    BY <2>4, <2>9
<1>7. QED
  BY <1>5, <1>6

(* The converse, for what trimming does not leave empty.                   *)
LEMMA TrimmedAlikeIsSameName ==
    ASSUME NEW a \in Seq(Char), NEW b \in Seq(Char),
           Len(a) <= MaxLength, Len(b) <= MaxLength,
           TrimSpace(a) = TrimSpace(b), TrimSpace(a) # <<>>
    PROVE  SameName(a, b)
<1> DEFINE p == Min(Inked(a))
           q == Max(Inked(a))
           s == Min(Inked(b))
           t == Max(Inked(b))
<1>1. Inked(a) # {} /\ Inked(b) # {}
  BY DEF TrimSpace
<1>2. /\ p \in 1 .. Len(a) /\ q \in 1 .. Len(a) /\ p <= q
      /\ \A k \in Inked(a) : p <= k /\ k <= q
  BY <1>1, TrimCuts
<1>3. /\ s \in 1 .. Len(b) /\ t \in 1 .. Len(b) /\ s <= t
      /\ \A k \in Inked(b) : s <= k /\ k <= t
  BY <1>1, TrimCuts
<1>4. SubSeq(a, p, q) = SubSeq(b, s, t)
  BY <1>1 DEF TrimSpace
<1> HIDE DEF p, q, s, t
<1> DEFINE i == p - 1
           m == s - 1
           n == q - p + 1
<1>5. t - s + 1 = n
  <2>1. Len(SubSeq(a, p, q)) = q - p + 1 /\ Len(SubSeq(b, s, t)) = t - s + 1
    BY <1>2, <1>3
  <2>2. QED
    BY <1>4, <2>1
<1>6. \A k \in 1 .. n : a[i + k] = b[m + k]
  <2> TAKE k \in 1 .. n
  <2>1. SubSeq(a, p, q)[k] = a[p + k - 1] /\ SubSeq(b, s, t)[k] = b[s + k - 1]
    BY <1>2, <1>3, <1>5
  <2>2. i + k = p + k - 1 /\ m + k = s + k - 1
    BY <1>2, <1>3
  <2>3. QED
    BY <1>4, <2>1, <2>2
<1>7. \A j \in DOMAIN a : a[j].space \/ j \in i + 1 .. i + n
  BY <1>2 DEF Inked
<1>8. \A j \in DOMAIN b : b[j].space \/ j \in m + 1 .. m + n
  BY <1>3, <1>5 DEF Inked
<1>9. /\ i \in 0 .. MaxLength /\ m \in 0 .. MaxLength /\ n \in 0 .. MaxLength
      /\ i + n <= Len(a) /\ m + n <= Len(b)
  BY <1>2, <1>3, <1>5, HandlesAssumption
<1> HIDE DEF i, m, n
<1>10. QED
  BY <1>6, <1>7, <1>8, <1>9 DEF SameName

----------------------------------------------------------------------------

(* The typed texts are finite sequences of characters.                     *)
LEMMA TextsAreSequences ==
    \A text \in Texts : text \in Seq(Char) /\ Len(text) <= MaxLength
<1> TAKE text \in Texts
<1>1. PICK m \in 0 .. MaxLength : text \in [1 .. m -> Char]
  BY DEF Texts, SeqOf
<1>2. QED
  BY <1>1, HandlesAssumption

(* A handle is no longer than what was typed.                              *)
LEMMA HandlesAreTexts ==
    ASSUME NEW raw \in Texts, NEW h \in NewHandle(raw)
    PROVE  raw \in Seq(Char) /\ h \in Texts
<1>1. PICK m \in 0 .. MaxLength : raw \in [1 .. m -> Char]
  BY DEF Texts, SeqOf
<1>2. m \in Nat /\ raw \in Seq(Char) /\ Len(raw) = m
  BY <1>1, HandlesAssumption
<1>3. h = TrimSpace(raw) /\ h # <<>>
  BY DEF NewHandle
<1>4. h \in Seq(Char) /\ Len(h) \in 1 .. m
  BY <1>2, <1>3, TrimmedText
<1>5. Len(h) \in 0 .. MaxLength /\ h \in [1 .. Len(h) -> Char]
  BY <1>1, <1>4, HandlesAssumption
<1>6. QED
  BY <1>2, <1>5 DEF Texts, SeqOf

(* The inductive invariant: every row holds the trimmed text of the client *)
(* it belongs to, no two accounts hold the same, rows reread alike, and a  *)
(* login that has not come has found nobody.                               *)
RowsAreTyped ==
    /\ \A row \in sessions \cup users :
          /\ typed[row.id] # None
          /\ row.handle = TrimSpace(typed[row.id])
    /\ \A u, v \in users : u.handle = v.handle => u = v
    /\ \A l \in Logins : typed[l] = None => found[l] = None

HandlesInv == HandlesTypeOK /\ HandlesSurviveStorage /\ RowsAreTyped

(* The initial state satisfies it.                                         *)
LEMMA InvInit == HandlesInit => HandlesInv
  BY HandlesAssumption
     DEF HandlesInit, HandlesInv, HandlesTypeOK, HandlesSurviveStorage,
         RowsAreTyped

(* What an accepted text becomes is stored as it will be read.             *)
LEMMA StoredAsRead ==
    ASSUME NEW raw \in Texts, NEW h \in NewHandle(raw)
    PROVE  h \in Texts /\ h = TrimSpace(raw) /\ NewHandle(h) = {h}
<1>1. raw \in Seq(Char) /\ h \in Texts
  BY HandlesAreTexts
<1>2. QED
  BY <1>1, HandleIsStable DEF NewHandle

(* A request that types its text is a new one: texts that rows came from   *)
(* stay.                                                                   *)
LEMMA TypingKeepsTexts ==
    ASSUME HandlesInv, NEW q \in Requests, NEW raw \in Texts, Type(q, raw)
    PROVE  /\ typed' \in [Requests -> Texts \cup {None}]
           /\ typed'[q] = raw /\ raw # None
           /\ \A row \in sessions \cup users : typed'[row.id] = typed[row.id]
           /\ \A l \in Logins : typed'[l] = None => l # q /\ typed[l] = None
<1>1. typed \in [Requests -> Texts \cup {None}]
  BY DEF HandlesInv, HandlesTypeOK
<1>2. \A row \in sessions \cup users : row.id # q
  BY DEF HandlesInv, RowsAreTyped, Type
<1>3. \A row \in sessions \cup users : row.id \in Requests
  BY DEF HandlesInv, HandlesTypeOK, Row, Requests
<1>4. QED
  BY <1>1, <1>2, <1>3, HandlesAssumption DEF Type, Requests

(* Every step preserves it.                                                *)
LEMMA InvNext == HandlesInv /\ [HandlesNext]_handlesVars => HandlesInv'
<1> SUFFICES ASSUME HandlesInv, [HandlesNext]_handlesVars
             PROVE  HandlesInv'
  OBVIOUS
<1> USE DEF HandlesInv
<1>a. \A c \in Clients \cup Logins : c \in Requests
  BY DEF Requests
<1>1. ASSUME NEW c \in Clients, NEW raw \in Texts, StartRegistration(c, raw)
      PROVE  HandlesInv'
  <2>1. PICK h \in NewHandle(raw) :
          sessions' = sessions \cup {[id |-> c, handle |-> h]}
    BY <1>1 DEF StartRegistration
  <2>2. h \in Texts /\ h = TrimSpace(raw) /\ NewHandle(h) = {h}
    BY StoredAsRead
  <2>3. /\ typed' \in [Requests -> Texts \cup {None}]
        /\ typed'[c] = raw /\ raw # None
        /\ \A row \in sessions \cup users : typed'[row.id] = typed[row.id]
        /\ \A p \in Logins : typed'[p] = None => p # c /\ typed[p] = None
    BY <1>1, <1>a, TypingKeepsTexts DEF StartRegistration
  <2>4. HandlesTypeOK'
    <3>1. sessions' \in SUBSET Row
      BY <2>1, <2>2 DEF HandlesTypeOK, Row
    <3>2. QED
      BY <1>1, <1>a, <2>3, <3>1 DEF HandlesTypeOK, StartRegistration, Answered
  <2>5. HandlesSurviveStorage'
    BY <1>1, <1>a, <2>1, <2>2
       DEF HandlesTypeOK, HandlesSurviveStorage, StartRegistration, Answered
  <2>6. RowsAreTyped'
    BY <1>1, <2>1, <2>2, <2>3 DEF RowsAreTyped, StartRegistration
  <2>7. QED
    BY <2>4, <2>5, <2>6
<1>2. ASSUME NEW q \in Requests, NEW raw \in Texts, RefuseHandle(q, raw)
      PROVE  HandlesInv'
  <2>1. /\ typed' \in [Requests -> Texts \cup {None}]
        /\ \A row \in sessions \cup users : typed'[row.id] = typed[row.id]
        /\ \A p \in Logins : typed'[p] = None => p # q /\ typed[p] = None
    BY <1>2, TypingKeepsTexts DEF RefuseHandle
  <2>2. HandlesTypeOK' /\ HandlesSurviveStorage'
    BY <1>2, <2>1
       DEF HandlesTypeOK, HandlesSurviveStorage, RefuseHandle, Answered
  <2>3. RowsAreTyped'
    BY <1>2, <2>1 DEF RowsAreTyped, RefuseHandle
  <2>4. QED
    BY <2>2, <2>3
<1>3. ASSUME NEW c \in Clients, FinishRegistration(c)
      PROVE  HandlesInv'
  <2>1. PICK row \in sessions : \E h \in Reread(row) :
          /\ row.id = c
          /\ \A u \in users : u.handle # h
          /\ users' = users \cup {[id |-> c, handle |-> h]}
          /\ sessions' = sessions \ {row}
          /\ Answered(c, "tokens")
          /\ UNCHANGED <<typed, found>>
    BY <1>3 DEF FinishRegistration
  <2>2. Reread(row) = {row.handle} /\ row \in Row
    BY DEF HandlesSurviveStorage, HandlesTypeOK, Reread
  <2>3. row = [id |-> c, handle |-> row.handle]
    BY <2>1, <2>2 DEF Row
  <2>4. /\ users' = users \cup {row} /\ sessions' = sessions \ {row}
        /\ \A u \in users : u.handle # row.handle
        /\ Answered(c, "tokens") /\ UNCHANGED <<typed, found>>
    BY <2>1, <2>2, <2>3
  <2>5. HandlesTypeOK' /\ HandlesSurviveStorage'
    BY <1>a, <2>2, <2>4 DEF HandlesTypeOK, HandlesSurviveStorage, Answered
  <2>6. RowsAreTyped'
    BY <2>4 DEF RowsAreTyped
  <2>7. QED
    BY <2>5, <2>6
<1>4. ASSUME NEW c \in Clients, FinishRefused(c)
      PROVE  HandlesInv'
  <2>1. PICK row \in sessions :
          /\ Answered(c, IF Reread(row) = {} THEN "INTERNAL_ERROR"
                         ELSE "HANDLE_TAKEN")
          /\ UNCHANGED <<typed, sessions, users, found>>
    BY <1>4 DEF FinishRefused
  <2>2. Reread(row) = {row.handle}
    BY DEF HandlesSurviveStorage, Reread
  <2>3. Answered(c, "HANDLE_TAKEN")
    BY <2>1, <2>2
  <2>4. QED
    BY <1>a, <2>1, <2>3
       DEF HandlesTypeOK, HandlesSurviveStorage, RowsAreTyped, Answered
<1>5. ASSUME NEW l \in Logins, NEW raw \in Texts, StartLogin(l, raw)
      PROVE  HandlesInv'
  <2>1. PICK u \in users : found' = [found EXCEPT ![l] = u.id]
    BY <1>5 DEF StartLogin
  <2>2. /\ typed' \in [Requests -> Texts \cup {None}]
        /\ \A row \in sessions \cup users : typed'[row.id] = typed[row.id]
        /\ \A p \in Logins : typed'[p] = None => p # l /\ typed[p] = None
    BY <1>5, <1>a, TypingKeepsTexts DEF StartLogin
  <2>3. HandlesTypeOK' /\ HandlesSurviveStorage'
    BY <1>5, <1>a, <2>1, <2>2
       DEF HandlesTypeOK, HandlesSurviveStorage, StartLogin, Answered, Row
  <2>4. RowsAreTyped'
    BY <1>5, <2>1, <2>2 DEF HandlesTypeOK, RowsAreTyped, StartLogin
  <2>5. QED
    BY <2>3, <2>4
<1>6. ASSUME NEW l \in Logins, NEW raw \in Texts, LoginRefused(l, raw)
      PROVE  HandlesInv'
  <2>1. PICK h \in NewHandle(raw) :
          LET rows == {u \in users : u.handle = h} IN
            /\ \A u \in rows : Reread(u) = {}
            /\ Answered(l, IF rows = {} THEN "NOT_FOUND" ELSE "INTERNAL_ERROR")
    BY <1>6 DEF LoginRefused
  <2>2. \A u \in users : Reread(u) # {}
    BY DEF HandlesSurviveStorage, Reread
  <2>3. Answered(l, "NOT_FOUND")
    BY <2>1, <2>2
  <2>4. /\ typed' \in [Requests -> Texts \cup {None}]
        /\ \A row \in sessions \cup users : typed'[row.id] = typed[row.id]
        /\ \A p \in Logins : typed'[p] = None => p # l /\ typed[p] = None
    BY <1>6, <1>a, TypingKeepsTexts DEF LoginRefused
  <2>5. HandlesTypeOK' /\ HandlesSurviveStorage'
    BY <1>6, <1>a, <2>3, <2>4
       DEF HandlesTypeOK, HandlesSurviveStorage, LoginRefused, Answered
  <2>6. RowsAreTyped'
    BY <1>6, <2>4 DEF RowsAreTyped, LoginRefused
  <2>7. QED
    BY <2>5, <2>6
<1>7. CASE UNCHANGED handlesVars
  BY <1>7 DEF handlesVars, HandlesTypeOK, HandlesSurviveStorage, RowsAreTyped
<1>8. QED
  BY <1>1, <1>2, <1>3, <1>4, <1>5, <1>6, <1>7 DEF HandlesNext

(* The inductive invariant holds for every text, limit and number of       *)
(* requests.                                                               *)
THEOREM HandlesInvariant == HandlesSpec => []HandlesInv
<1>1. QED
  BY InvInit, InvNext, PTL DEF HandlesSpec

(* Every variable of module Handles keeps its type.                        *)
THEOREM HandlesTyped == HandlesSpec => []HandlesTypeOK
<1>1. HandlesInv => HandlesTypeOK
  BY DEF HandlesInv
<1>2. QED
  BY <1>1, HandlesInvariant, PTL

(* No row that the service wrote fails to be read back, and none is read   *)
(* back as another handle.                                                 *)
THEOREM StorageIsFaithful == HandlesSpec => []HandlesSurviveStorage
<1>1. HandlesInv => HandlesSurviveStorage
  BY DEF HandlesInv
<1>2. QED
  BY <1>1, HandlesInvariant, PTL

(* No two accounts have one name, spaces around it aside.                  *)
THEOREM NamesAreUnique == HandlesSpec => []OneAccountPerName
<1>1. HandlesInv => OneAccountPerName
  <2> SUFFICES ASSUME HandlesInv, NEW c \in Accounts, NEW d \in Accounts,
                      SameName(typed[c], typed[d])
               PROVE  c = d
    BY DEF OneAccountPerName
  <2>1. PICK u \in users, v \in users : u.id = c /\ v.id = d
    BY DEF Accounts
  <2>2. typed[c] \in Texts /\ typed[d] \in Texts
    BY <2>1 DEF HandlesInv, HandlesTypeOK, RowsAreTyped, Row, Requests
  <2>4. TrimSpace(typed[c]) = TrimSpace(typed[d])
    BY <2>2, TextsAreSequences, SameNameTrimsAlike
  <2>5. u.handle = v.handle
    BY <2>1, <2>4 DEF HandlesInv, RowsAreTyped
  <2>6. QED
    BY <2>1, <2>5 DEF HandlesInv, RowsAreTyped
<1>2. QED
  BY <1>1, HandlesInvariant, PTL

(* A login finds the account that was registered under its name and no     *)
(* other: for every text typed, whenever it is typed.                      *)
THEOREM LoginFindsTheAccount == HandlesSpec => TheNameFindsTheAccount
<1> DEFINE Finds(l) ==
      answer'[l] # answer[l] =>
        IF answer'[l] = "VALIDATION_ERROR"
        THEN \A c \in Accounts : ~SameName(typed'[l], typed[c])
        ELSE \A c \in Accounts :
                SameName(typed'[l], typed[c]) <=> found'[l] = c
<1>1. ASSUME HandlesInv, [HandlesNext]_handlesVars, NEW l \in Logins
      PROVE  Finds(l)
  <2> SUFFICES ASSUME answer'[l] # answer[l], NEW c \in Accounts
               PROVE  IF answer'[l] = "VALIDATION_ERROR"
                      THEN ~SameName(typed'[l], typed[c])
                      ELSE SameName(typed'[l], typed[c]) <=> found'[l] = c
    OBVIOUS
  <2>1. /\ l \in Requests /\ l \notin Clients
        /\ answer \in [Requests -> {"challenge", "tokens", "VALIDATION_ERROR",
              "NOT_FOUND", "HANDLE_TAKEN", "INTERNAL_ERROR", None}]
        /\ typed \in [Requests -> Texts \cup {None}]
        /\ found \in [Logins -> Clients \cup {None}]
    BY <1>1, HandlesAssumption DEF HandlesInv, HandlesTypeOK, Requests
  <2>2. PICK v \in users : v.id = c
    BY DEF Accounts
  <2>3. /\ typed[c] \in Texts /\ v.handle = TrimSpace(typed[c])
        /\ NewHandle(v.handle) = {v.handle}
    BY <1>1, <2>2 DEF HandlesInv, HandlesTypeOK, RowsAreTyped,
       HandlesSurviveStorage, Row, Requests
  <2>4. \A raw \in Texts : SameName(raw, typed[c]) => TrimSpace(raw) = v.handle
    BY <2>3, TextsAreSequences, SameNameTrimsAlike
  <2>5. \A raw \in Texts :
          v.handle \in NewHandle(raw) => SameName(raw, typed[c])
    BY <2>3, TextsAreSequences, TrimmedAlikeIsSameName DEF NewHandle
  <2>6. CASE \E raw \in Texts : RefuseHandle(l, raw)
    <3>1. PICK raw \in Texts : RefuseHandle(l, raw)
      BY <2>6
    <3>2. typed'[l] = raw /\ answer'[l] = "VALIDATION_ERROR"
      BY <2>1, <3>1 DEF RefuseHandle, Type, Answered
    <3>3. ~SameName(raw, typed[c])
      BY <2>3, <2>4, <3>1 DEF RefuseHandle, NewHandle
    <3>4. QED
      BY <3>2, <3>3
  <2>7. CASE \E raw \in Texts : StartLogin(l, raw)
    <3>0. PICK raw \in Texts : StartLogin(l, raw)
      BY <2>7
    <3>1. PICK h \in NewHandle(raw), u \in users :
             u.handle = h /\ found' = [found EXCEPT ![l] = u.id]
      BY <3>0 DEF StartLogin
    <3>2. typed'[l] = raw /\ answer'[l] = "challenge" /\ found'[l] = u.id
      BY <2>1, <3>0, <3>1 DEF StartLogin, Type, Answered
    <3>3. h = TrimSpace(raw)
      BY DEF NewHandle
    <3>4. SameName(raw, typed[c]) => u.id = c
      BY <1>1, <2>2, <2>4, <3>1, <3>3 DEF HandlesInv, RowsAreTyped
    <3>5. u.id = c => SameName(raw, typed[c])
      <4>1. u.handle = TrimSpace(typed[u.id])
        BY <1>1 DEF HandlesInv, RowsAreTyped
      <4>2. QED
        BY <2>3, <2>5, <3>1, <4>1
    <3>6. QED
      BY <3>2, <3>4, <3>5
  <2>8. CASE \E raw \in Texts : LoginRefused(l, raw)
    <3>0. PICK raw \in Texts : LoginRefused(l, raw)
      BY <2>8
    <3>1. PICK h \in NewHandle(raw) :
             /\ \A u \in {w \in users : w.handle = h} : Reread(u) = {}
             /\ \E code \in {"NOT_FOUND", "INTERNAL_ERROR"} : Answered(l, code)
      BY <3>0 DEF LoginRefused
    <3>2. /\ typed[l] = None /\ typed'[l] = raw
          /\ answer'[l] # "VALIDATION_ERROR" /\ found'[l] = found[l]
      BY <2>1, <3>0, <3>1 DEF LoginRefused, Type, Answered
    <3>3. found'[l] # c
      <4>1. found[l] = None
        BY <1>1, <3>2 DEF HandlesInv, RowsAreTyped
      <4>2. c \in Clients
        BY <1>1, <2>2 DEF HandlesInv, HandlesTypeOK, Row
      <4>3. QED
        BY <3>2, <4>1, <4>2, HandlesAssumption
    <3>4. ~SameName(raw, typed[c])
      <4>1. h = TrimSpace(raw)
        BY DEF NewHandle
      <4>2. v.handle # h
        BY <2>3, <3>1 DEF Reread
      <4>3. QED
        BY <2>4, <4>1, <4>2
    <3>5. QED
      BY <3>2, <3>3, <3>4
  <2>9. CASE \E q \in Requests \ {l} : \E code : Answered(q, code)
    BY <2>1, <2>9 DEF Answered
  <2>10. CASE UNCHANGED handlesVars
    BY <2>10 DEF handlesVars
  <2>11. \/ \E raw \in Texts :
              RefuseHandle(l, raw) \/ StartLogin(l, raw) \/ LoginRefused(l, raw)
         \/ \E q \in Requests \ {l} : \E code : Answered(q, code)
         \/ UNCHANGED handlesVars
    <3>1. \A q \in Clients : q \in Requests \ {l}
      BY <2>1 DEF Requests
    <3>2. \A q \in Logins : q \in Requests
      BY DEF Requests
    <3>3. QED
      BY <1>1, <3>1, <3>2, Zenon
         DEF HandlesNext, StartRegistration, RefuseHandle,
             FinishRegistration, FinishRefused, StartLogin, LoginRefused
  <2>12. QED
    BY <2>6, <2>7, <2>8, <2>9, <2>10, <2>11
<1>2. HandlesInv /\ [HandlesNext]_handlesVars
        => [\A l \in Logins : Finds(l)]_handlesVars
  BY <1>1
<1>3. QED
  BY <1>2, HandlesInvariant, PTL DEF HandlesSpec, TheNameFindsTheAccount
=============================================================================
