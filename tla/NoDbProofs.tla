------------------------------ MODULE NoDbProofs ------------------------------
(***************************************************************************)
(* The domain heuristic and its composition with the second pipeline, for  *)
(* every list of brands, every URL and every setting:                      *)
(*   - the edit distance: how it changes from one prefix to the next, what *)
(*     the lengths say of it, and that the one-row table computes it;      *)
(*   - check_typosquatting decides what its definition says (TypoIsExact); *)
(*   - the composition implements DbIndependentPipeline, so that what      *)
(*     DbIndependentProofs proves holds of it too;                         *)
(*   - a slow RDAP server costs no signals (FoundSignalsScore).            *)
(*                                                                         *)
(* Facts about all prefixes are proved by their least counterexample.      *)
(***************************************************************************)
EXTENDS NoDbAnalysis, DbIndependentProofs, WellFoundedInduction, SequenceTheorems

\* A nonempty set of numbers has a least one.
LEMMA LeastNumber ==
  ASSUME NEW T, T \subseteq Nat, T # {}
  PROVE  \E x \in T : \A y \in T : x <= y
<1>1. \E x \in T : \A y \in T : ~(<<y, x>> \in OpToRel(<, Nat))
  BY NatLessThanWellFounded, WFMin
<1>2. ASSUME NEW x \in T, NEW y \in T, ~(<<y, x>> \in OpToRel(<, Nat))
      PROVE  x <= y
  BY <1>2 DEF OpToRel
<1> QED
  BY <1>1, <1>2

\* The lengths and the distances are numbers.
LEMMA EditsTyped ==
  ASSUME NEW a \in Labels, NEW b \in Labels
  PROVE  /\ Len(a) \in Nat \ {0} /\ Len(b) \in Nat \ {0}
         /\ \A i \in 0..Len(a), j \in 0..Len(b) : Edits[a][b][i][j] \in Nat
<1>1. a \in Seq(Nat) /\ b \in Seq(Nat) /\ a # <<>> /\ b # <<>>
  BY UrlsAssumption
<1>2. Len(a) \in Nat \ {0} /\ Len(b) \in Nat \ {0}
  BY <1>1, EmptySeq
<1>3. Edits[a][b] \in [0..Len(a) -> [0..Len(b) -> Nat]]
  BY EditsAssumption
<1>4. \A i \in 0..Len(a), j \in 0..Len(b) : Edits[a][b][i][j] \in Nat
  BY <1>3
<1> QED
  BY <1>2, <1>4

\* The recurrence on the borders: only inserting, only deleting.
LEMMA Borders ==
  ASSUME NEW a \in Labels, NEW b \in Labels
  PROVE  /\ \A i \in 0..Len(a) : Edits[a][b][i][0] = i
         /\ \A j \in 0..Len(b) : Edits[a][b][0][j] = j
BY EditsAssumption

\* The recurrence inside: the neighbours above, to the left and to the upper left.
LEMMA Inside ==
  ASSUME NEW a \in Labels, NEW b \in Labels, NEW i \in 1..Len(a), NEW j \in 1..Len(b)
  PROVE  /\ Edits[a][b][i][j] \in Nat
         /\ Edits[a][b][i - 1][j] \in Nat
         /\ Edits[a][b][i][j - 1] \in Nat
         /\ Edits[a][b][i - 1][j - 1] \in Nat
         /\ Edits[a][b][i][j] <= Edits[a][b][i - 1][j] + 1
         /\ Edits[a][b][i][j] <= Edits[a][b][i][j - 1] + 1
         /\ \/ Edits[a][b][i][j] = Edits[a][b][i - 1][j] + 1
            \/ Edits[a][b][i][j] = Edits[a][b][i][j - 1] + 1
            \/ Edits[a][b][i][j] >= Edits[a][b][i - 1][j - 1]
<1> DEFINE here == Edits[a][b][i][j]
           up == Edits[a][b][i - 1][j]
           left == Edits[a][b][i][j - 1]
           diagonal == Edits[a][b][i - 1][j - 1]
           cost == IF a[i] = b[j] THEN 0 ELSE 1
<1>1. /\ i \in 0..Len(a) /\ i - 1 \in 0..Len(a)
      /\ j \in 0..Len(b) /\ j - 1 \in 0..Len(b)
  BY EditsTyped
<1>2. here \in Nat /\ up \in Nat /\ left \in Nat /\ diagonal \in Nat
  BY <1>1, EditsTyped
<1>3. here = Least(Least(up + 1, left + 1), diagonal + cost)
  BY EditsAssumption
<1>4. cost \in {0, 1}
  OBVIOUS
<1> HIDE DEF here, up, left, diagonal, cost
<1>5. /\ here <= up + 1
      /\ here <= left + 1
      /\ here = up + 1 \/ here = left + 1 \/ here >= diagonal
  BY <1>2, <1>3, <1>4 DEF Least
<1> QED
  BY <1>2, <1>5 DEF here, up, left, diagonal

\* A cell that does not come from the left comes from above or from the diagonal,
\* whose left neighbours differ from them by at most one.
LEMMA LeftIsClose ==
  ASSUME NEW here \in Nat, NEW left \in Nat, NEW up \in Nat, NEW diagonal \in Nat,
         diagonal <= up + 1, left <= diagonal + 1,
         here = up + 1 \/ here = left + 1 \/ here >= diagonal
  PROVE  left <= here + 1
OBVIOUS

\* A letter less in the second label is at most one edit more.
LEMMA DropOfSecond ==
  ASSUME NEW a \in Labels, NEW b \in Labels
  PROVE  \A i \in 0..Len(a), j \in 1..Len(b) :
           Edits[a][b][i][j - 1] <= Edits[a][b][i][j] + 1
<1> DEFINE Fails == {i \in 0..Len(a) : \E j \in 1..Len(b) :
                       ~(Edits[a][b][i][j - 1] <= Edits[a][b][i][j] + 1)}
<1> SUFFICES ASSUME Fails # {} PROVE FALSE
  OBVIOUS
<1>1. Len(a) \in Nat /\ Len(b) \in Nat /\ Fails \subseteq Nat
  BY EditsTyped
<1>2. PICK i \in Fails : \A k \in Fails : i <= k
  BY <1>1, LeastNumber
<1>3. PICK j \in 1..Len(b) : ~(Edits[a][b][i][j - 1] <= Edits[a][b][i][j] + 1)
  BY <1>2
<1>4. i \in 0..Len(a) /\ j \in 1..Len(b) /\ j - 1 \in 0..Len(b) /\ j \in 0..Len(b)
  BY <1>1, <1>2, <1>3
<1>5. Edits[a][b][i][j - 1] \in Nat /\ Edits[a][b][i][j] \in Nat
  BY <1>4, EditsTyped
<1>6. CASE i = 0
  <2>1. Edits[a][b][i][j - 1] = j - 1 /\ Edits[a][b][i][j] = j
    BY <1>4, <1>6, Borders
  <2> QED
    BY <1>3, <1>4, <2>1
<1>7. CASE i # 0
  <2>1. i \in 1..Len(a) /\ i - 1 \in 0..Len(a) /\ i - 1 \notin Fails
    <3>1. i \in 1..Len(a) /\ i - 1 \in 0..Len(a) /\ ~(i <= i - 1)
      BY <1>1, <1>4, <1>7
    <3> HIDE DEF Fails
    <3> QED
      BY <1>2, <3>1
  <2>2. Edits[a][b][i - 1][j - 1] <= Edits[a][b][i - 1][j] + 1
    BY <1>3, <2>1
  <2>3. Edits[a][b][i - 1][j - 1] \in Nat /\ Edits[a][b][i - 1][j] \in Nat
    BY <1>4, <2>1, EditsTyped
  <2>4. Edits[a][b][i][j - 1] <= Edits[a][b][i - 1][j - 1] + 1
    <3>1. CASE j = 1
      <4>1. Edits[a][b][i][j - 1] = i /\ Edits[a][b][i - 1][j - 1] = i - 1
        BY <1>4, <2>1, <3>1, Borders
      <4> QED
        BY <2>1, <4>1
    <3>2. CASE j # 1
      <4>1. j - 1 \in 1..Len(b)
        BY <1>1, <1>4, <3>2
      <4> QED
        BY <2>1, <4>1, Inside
    <3> QED
      BY <3>1, <3>2
  <2>5. \/ Edits[a][b][i][j] = Edits[a][b][i - 1][j] + 1
        \/ Edits[a][b][i][j] = Edits[a][b][i][j - 1] + 1
        \/ Edits[a][b][i][j] >= Edits[a][b][i - 1][j - 1]
    BY <1>3, <2>1, Inside
  <2>6. Edits[a][b][i][j - 1] <= Edits[a][b][i][j] + 1
    <3> DEFINE here == Edits[a][b][i][j]
               left == Edits[a][b][i][j - 1]
               up == Edits[a][b][i - 1][j]
               diagonal == Edits[a][b][i - 1][j - 1]
    <3>1. /\ here \in Nat /\ left \in Nat /\ up \in Nat /\ diagonal \in Nat
          /\ diagonal <= up + 1 /\ left <= diagonal + 1
          /\ here = up + 1 \/ here = left + 1 \/ here >= diagonal
      BY <1>5, <2>2, <2>3, <2>4, <2>5
    <3> HIDE DEF here, left, up, diagonal
    <3>2. left <= here + 1
      BY <3>1, LeftIsClose
    <3> QED
      BY <3>2 DEF here, left
  <2> QED
    BY <1>3, <2>6
<1> QED
  BY <1>6, <1>7

\* A letter less in the first label is at most one edit more.
LEMMA DropOfFirst ==
  ASSUME NEW a \in Labels, NEW b \in Labels
  PROVE  \A i \in 1..Len(a), j \in 0..Len(b) :
           Edits[a][b][i - 1][j] <= Edits[a][b][i][j] + 1
<1> DEFINE Fails == {j \in 0..Len(b) : \E i \in 1..Len(a) :
                       ~(Edits[a][b][i - 1][j] <= Edits[a][b][i][j] + 1)}
<1> SUFFICES ASSUME Fails # {} PROVE FALSE
  OBVIOUS
<1>1. Len(a) \in Nat /\ Len(b) \in Nat /\ Fails \subseteq Nat
  BY EditsTyped
<1>2. PICK j \in Fails : \A k \in Fails : j <= k
  BY <1>1, LeastNumber
<1>3. PICK i \in 1..Len(a) : ~(Edits[a][b][i - 1][j] <= Edits[a][b][i][j] + 1)
  BY <1>2
<1>4. j \in 0..Len(b) /\ i \in 1..Len(a) /\ i - 1 \in 0..Len(a) /\ i \in 0..Len(a)
  BY <1>1, <1>2, <1>3
<1>5. Edits[a][b][i - 1][j] \in Nat /\ Edits[a][b][i][j] \in Nat
  BY <1>4, EditsTyped
<1>6. CASE j = 0
  <2>1. Edits[a][b][i - 1][j] = i - 1 /\ Edits[a][b][i][j] = i
    BY <1>4, <1>6, Borders
  <2> QED
    BY <1>3, <1>4, <2>1
<1>7. CASE j # 0
  <2>1. j \in 1..Len(b) /\ j - 1 \in 0..Len(b) /\ j - 1 \notin Fails
    <3>1. j \in 1..Len(b) /\ j - 1 \in 0..Len(b) /\ ~(j <= j - 1)
      BY <1>1, <1>4, <1>7
    <3> HIDE DEF Fails
    <3> QED
      BY <1>2, <3>1
  <2>2. Edits[a][b][i - 1][j - 1] <= Edits[a][b][i][j - 1] + 1
    BY <1>3, <2>1
  <2>3. Edits[a][b][i - 1][j - 1] \in Nat /\ Edits[a][b][i][j - 1] \in Nat
    BY <1>4, <2>1, EditsTyped
  <2>4. Edits[a][b][i - 1][j] <= Edits[a][b][i - 1][j - 1] + 1
    <3>1. CASE i = 1
      <4>1. Edits[a][b][i - 1][j] = j /\ Edits[a][b][i - 1][j - 1] = j - 1
        BY <1>4, <2>1, <3>1, Borders
      <4> QED
        BY <2>1, <4>1
    <3>2. CASE i # 1
      <4>1. i - 1 \in 1..Len(a)
        BY <1>1, <1>4, <3>2
      <4> QED
        BY <2>1, <4>1, Inside
    <3> QED
      BY <3>1, <3>2
  <2>5. \/ Edits[a][b][i][j] = Edits[a][b][i - 1][j] + 1
        \/ Edits[a][b][i][j] = Edits[a][b][i][j - 1] + 1
        \/ Edits[a][b][i][j] >= Edits[a][b][i - 1][j - 1]
    BY <1>3, <2>1, Inside
  <2>6. Edits[a][b][i - 1][j] <= Edits[a][b][i][j] + 1
    <3> DEFINE here == Edits[a][b][i][j]
               left == Edits[a][b][i - 1][j]
               up == Edits[a][b][i][j - 1]
               diagonal == Edits[a][b][i - 1][j - 1]
    <3>1. /\ here \in Nat /\ left \in Nat /\ up \in Nat /\ diagonal \in Nat
          /\ diagonal <= up + 1 /\ left <= diagonal + 1
          /\ here = up + 1 \/ here = left + 1 \/ here >= diagonal
      BY <1>5, <2>2, <2>3, <2>4, <2>5
    <3> HIDE DEF here, left, up, diagonal
    <3>2. left <= here + 1
      BY <3>1, LeftIsClose
    <3> QED
      BY <3>2 DEF here, left
  <2> QED
    BY <1>3, <2>6
<1> QED
  BY <1>6, <1>7

\* One step of the count of letters.
LEMMA OneLess ==
  ASSUME NEW n \in Nat, NEW k \in Nat, NEW less \in Nat, NEW here \in Nat,
         n - (k - 1) <= less, less <= here + 1
  PROVE  n - k <= here
OBVIOUS

\* Each letter one label has more costs an edit.
LEMMA LengthsBound ==
  ASSUME NEW a \in Labels, NEW b \in Labels
  PROVE  /\ Distance(a, b) \in Nat
         /\ Len(a) - Len(b) <= Distance(a, b)
         /\ Len(b) - Len(a) <= Distance(a, b)
<1>1. Len(a) \in Nat /\ Len(b) \in Nat
  BY EditsTyped
<1>2. \A j \in 0..Len(b) : Len(a) - j <= Edits[a][b][Len(a)][j]
  <2> DEFINE Fails == {j \in 0..Len(b) : ~(Len(a) - j <= Edits[a][b][Len(a)][j])}
  <2> SUFFICES ASSUME Fails # {} PROVE FALSE
    OBVIOUS
  <2>0. Fails \subseteq Nat
    BY <1>1
  <2>1. PICK j \in Fails : \A k \in Fails : j <= k
    BY <2>0, LeastNumber
  <2>2. CASE j = 0
    BY <1>1, <2>1, <2>2, Borders
  <2>3. CASE j # 0
    <3>1. j \in 1..Len(b) /\ j - 1 \in 0..Len(b) /\ j - 1 \notin Fails
      <4>1. j \in 1..Len(b) /\ j - 1 \in 0..Len(b) /\ ~(j <= j - 1)
        BY <1>1, <2>1, <2>3
      <4> HIDE DEF Fails
      <4> QED
        BY <2>1, <4>1
    <3>2. Len(a) - (j - 1) <= Edits[a][b][Len(a)][j - 1]
      BY <3>1
    <3>3. Edits[a][b][Len(a)][j - 1] <= Edits[a][b][Len(a)][j] + 1
      BY <1>1, <3>1, DropOfSecond
    <3>4. Edits[a][b][Len(a)][j - 1] \in Nat /\ Edits[a][b][Len(a)][j] \in Nat
      <4>1. Len(a) \in 0..Len(a) /\ j \in 0..Len(b)
        BY <1>1, <3>1
      <4> QED
        BY <3>1, <4>1, EditsTyped
    <3>5. Len(a) - j <= Edits[a][b][Len(a)][j]
      <4> DEFINE less == Edits[a][b][Len(a)][j - 1]
                 here == Edits[a][b][Len(a)][j]
      <4>1. /\ less \in Nat /\ here \in Nat /\ j \in Nat /\ Len(a) \in Nat
            /\ Len(a) - (j - 1) <= less /\ less <= here + 1
        BY <1>1, <3>1, <3>2, <3>3, <3>4
      <4> HIDE DEF less, here
      <4>2. Len(a) - j <= here
        BY <4>1, OneLess
      <4> QED
        BY <4>2 DEF here
    <3> QED
      BY <2>1, <3>5
  <2> QED
    BY <2>2, <2>3
<1>3. \A i \in 0..Len(a) : Len(b) - i <= Edits[a][b][i][Len(b)]
  <2> DEFINE Fails == {i \in 0..Len(a) : ~(Len(b) - i <= Edits[a][b][i][Len(b)])}
  <2> SUFFICES ASSUME Fails # {} PROVE FALSE
    OBVIOUS
  <2>0. Fails \subseteq Nat
    BY <1>1
  <2>1. PICK i \in Fails : \A k \in Fails : i <= k
    BY <2>0, LeastNumber
  <2>2. CASE i = 0
    BY <1>1, <2>1, <2>2, Borders
  <2>3. CASE i # 0
    <3>1. i \in 1..Len(a) /\ i - 1 \in 0..Len(a) /\ i - 1 \notin Fails
      <4>1. i \in 1..Len(a) /\ i - 1 \in 0..Len(a) /\ ~(i <= i - 1)
        BY <1>1, <2>1, <2>3
      <4> HIDE DEF Fails
      <4> QED
        BY <2>1, <4>1
    <3>2. Len(b) - (i - 1) <= Edits[a][b][i - 1][Len(b)]
      BY <3>1
    <3>3. Edits[a][b][i - 1][Len(b)] <= Edits[a][b][i][Len(b)] + 1
      BY <1>1, <3>1, DropOfFirst
    <3>4. Edits[a][b][i - 1][Len(b)] \in Nat /\ Edits[a][b][i][Len(b)] \in Nat
      BY <1>1, <3>1, EditsTyped
    <3>5. Len(b) - i <= Edits[a][b][i][Len(b)]
      <4> DEFINE less == Edits[a][b][i - 1][Len(b)]
                 here == Edits[a][b][i][Len(b)]
      <4>1. /\ less \in Nat /\ here \in Nat /\ i \in Nat /\ Len(b) \in Nat
            /\ Len(b) - (i - 1) <= less /\ less <= here + 1
        BY <1>1, <3>1, <3>2, <3>3, <3>4
      <4> HIDE DEF less, here
      <4>2. Len(b) - i <= here
        BY <4>1, OneLess
      <4> QED
        BY <4>2 DEF here
    <3> QED
      BY <2>1, <3>5
  <2> QED
    BY <2>2, <2>3
<1>4. Distance(a, b) \in Nat
  BY <1>1, EditsTyped DEF Distance
<1> QED
  BY <1>1, <1>2, <1>3, <1>4 DEF Distance

\* Labels whose lengths differ by more than two are more than two edits apart,
\* so typosquatting.py:118 leaves out nothing that could be a match.
THEOREM LengthCutIsSound ==
  ASSUME NEW a \in Labels, NEW b \in Labels, TooLong(a, b)
  PROVE  Distance(a, b) > 2
<1>1. Len(a) \in Nat /\ Len(b) \in Nat
  BY EditsTyped
<1> QED
  BY <1>1, LengthsBound DEF TooLong

\* The recurrence along the diagonal: a letter that is replaced costs one edit, a
\* letter that is kept costs none, and nothing else is free.
LEMMA AlongDiagonal ==
  ASSUME NEW a \in Labels, NEW b \in Labels, NEW i \in 1..Len(a), NEW j \in 1..Len(b)
  PROVE  /\ Edits[a][b][i][j] <= Edits[a][b][i - 1][j - 1] + 1
         /\ a[i] = b[j] => Edits[a][b][i][j] <= Edits[a][b][i - 1][j - 1]
         /\ Edits[a][b][i][j] = 0 => a[i] = b[j] /\ Edits[a][b][i - 1][j - 1] = 0
<1> DEFINE here == Edits[a][b][i][j]
           up == Edits[a][b][i - 1][j]
           left == Edits[a][b][i][j - 1]
           diagonal == Edits[a][b][i - 1][j - 1]
           cost == IF a[i] = b[j] THEN 0 ELSE 1
<1>1. here \in Nat /\ up \in Nat /\ left \in Nat /\ diagonal \in Nat
  BY Inside
<1>2. here = Least(Least(up + 1, left + 1), diagonal + cost)
  BY EditsAssumption
<1>3. cost \in {0, 1} /\ (cost = 0 <=> a[i] = b[j])
  OBVIOUS
<1> HIDE DEF here, up, left, diagonal, cost
<1>4. /\ here <= diagonal + cost
      /\ here = 0 => diagonal + cost = 0
  BY <1>1, <1>2, <1>3 DEF Least
<1>5. /\ here <= diagonal + 1
      /\ a[i] = b[j] => here <= diagonal
      /\ here = 0 => a[i] = b[j] /\ diagonal = 0
  BY <1>1, <1>3, <1>4
<1> QED
  BY <1>5 DEF here, diagonal

\* How many of two places lie in the first n letters.
Slips(p, q, n) == (IF p <= n THEN 1 ELSE 0) + (IF q <= n THEN 1 ELSE 0)

\* Labels of one length that differ in two places at most are at most two edits
\* apart.
LEMMA TwoPlaces ==
  ASSUME NEW a \in Labels, NEW b \in Labels, Len(a) = Len(b),
         NEW p \in 1..Len(a), NEW q \in 1..Len(a),
         \A i \in 1..Len(a) : i \in {p, q} \/ a[i] = b[i]
  PROVE  Distance(a, b) <= 2
<1>1. Len(a) \in Nat
  BY EditsTyped
<1>2. \A i \in 0..Len(a) : Edits[a][b][i][i] <= Slips(p, q, i)
  <2> DEFINE Fails == {i \in 0..Len(a) : ~(Edits[a][b][i][i] <= Slips(p, q, i))}
  <2> SUFFICES ASSUME Fails # {} PROVE FALSE
    OBVIOUS
  <2>0. Fails \subseteq Nat
    BY <1>1
  <2>1. PICK i \in Fails : \A k \in Fails : i <= k
    BY <2>0, LeastNumber
  <2>2. CASE i = 0
    <3>1. Edits[a][b][0][0] = 0
      BY <1>1, Borders
    <3> QED
      BY <2>1, <2>2, <3>1 DEF Slips
  <2>3. CASE i # 0
    <3>1. i \in 1..Len(a) /\ i - 1 \in 0..Len(a) /\ i - 1 \notin Fails
      <4>1. i \in 1..Len(a) /\ i - 1 \in 0..Len(a) /\ ~(i <= i - 1)
        BY <1>1, <2>1, <2>3
      <4> HIDE DEF Fails
      <4> QED
        BY <2>1, <4>1
    <3> DEFINE here == Edits[a][b][i][i]
               before == Edits[a][b][i - 1][i - 1]
    <3>2. here \in Nat /\ before \in Nat
      BY <3>1, EditsTyped
    <3>3. here <= before + 1 /\ (i \in {p, q} \/ here <= before)
      BY <3>1, AlongDiagonal
    <3>4. before <= Slips(p, q, i - 1) /\ ~(here <= Slips(p, q, i))
      BY <2>1, <3>1
    <3> HIDE DEF here, before, Fails
    <3>5. /\ Slips(p, q, i - 1) \in Nat /\ Slips(p, q, i) \in Nat
          /\ Slips(p, q, i - 1) <= Slips(p, q, i)
          /\ i \in {p, q} => Slips(p, q, i - 1) + 1 <= Slips(p, q, i)
      BY <1>1, <3>1 DEF Slips
    <3> QED
      BY <3>2, <3>3, <3>4, <3>5
  <2> QED
    BY <2>2, <2>3
<1>3. Edits[a][b][Len(a)][Len(a)] <= 2 
  <2>1. Len(a) \in 0..Len(a) /\ Slips(p, q, Len(a)) = 2
    BY <1>1 DEF Slips
  <2> QED
    BY <1>2, <2>1
<1> QED
  BY <1>3 DEF Distance

\* Only a label itself is no edit away from it.
LEMMA ZeroIsEqual ==
  ASSUME NEW a \in Labels, NEW b \in Labels
  PROVE  Distance(a, b) = 0 <=> a = b
<1>1. /\ Len(a) \in Nat /\ Len(b) \in Nat
      /\ a \in Seq(Nat) /\ b \in Seq(Nat)
  BY EditsTyped, UrlsAssumption
<1>2. ASSUME Distance(a, b) = 0 PROVE a = b
  <2>1. Len(a) = Len(b)
    BY <1>1, <1>2, LengthsBound
  <2>2. \A k \in 0..Len(a) : Edits[a][b][Len(a) - k][Len(a) - k] = 0
    <3> DEFINE Fails == {k \in 0..Len(a) : ~(Edits[a][b][Len(a) - k][Len(a) - k] = 0)}
    <3> SUFFICES ASSUME Fails # {} PROVE FALSE
      OBVIOUS
    <3>0. Fails \subseteq Nat
      BY <1>1
    <3>1. PICK k \in Fails : \A m \in Fails : k <= m
      BY <3>0, LeastNumber
    <3>2. CASE k = 0
      BY <1>1, <1>2, <2>1, <3>1, <3>2 DEF Distance
    <3>3. CASE k # 0
      <4>1. k - 1 \in 0..Len(a) /\ k - 1 \notin Fails
        <5>1. k - 1 \in 0..Len(a) /\ ~(k <= k - 1)
          BY <1>1, <3>1, <3>3
        <5> HIDE DEF Fails
        <5> QED
          BY <3>1, <5>1
      <4>2. PICK i \in 1..Len(a) : i = Len(a) - (k - 1) /\ i - 1 = Len(a) - k
        <5>1. k \in 1..Len(a)
          BY <1>1, <3>1, <3>3
        <5> HIDE DEF Fails
        <5>2. Len(a) - (k - 1) \in 1..Len(a) /\ (Len(a) - (k - 1)) - 1 = Len(a) - k
          BY <1>1, <5>1
        <5> QED
          BY <5>2
      <4>3. Edits[a][b][i][i] = 0
        BY <4>1, <4>2
      <4>4. Edits[a][b][i - 1][i - 1] = 0
        BY <2>1, <4>3, AlongDiagonal
      <4> QED
        BY <3>1, <4>2, <4>4
    <3> QED
      BY <3>2, <3>3
  <2>3. ASSUME NEW i \in 1..Len(a) PROVE a[i] = b[i]
    <3>1. Len(a) - i \in 0..Len(a) /\ Len(a) - (Len(a) - i) = i
      BY <1>1
    <3>2. Edits[a][b][i][i] = 0
      BY <2>2, <3>1
    <3> QED
      BY <2>1, <3>2, AlongDiagonal
  <2> QED
    BY <1>1, <2>1, <2>3, SeqEqual
<1>3. ASSUME a = b PROVE Distance(a, b) = 0
  <2>1. \A i \in 0..Len(a) : Edits[a][a][i][i] = 0
    <3> DEFINE Fails == {i \in 0..Len(a) : ~(Edits[a][a][i][i] = 0)}
    <3> SUFFICES ASSUME Fails # {} PROVE FALSE
      OBVIOUS
    <3>0. Fails \subseteq Nat
      BY <1>1
    <3>1. PICK i \in Fails : \A k \in Fails : i <= k
      BY <3>0, LeastNumber
    <3>2. CASE i = 0
      BY <1>1, <3>1, <3>2, Borders
    <3>3. CASE i # 0
      <4>1. i \in 1..Len(a) /\ i - 1 \in 0..Len(a) /\ i - 1 \notin Fails
        <5>1. i \in 1..Len(a) /\ i - 1 \in 0..Len(a) /\ ~(i <= i - 1)
          BY <1>1, <3>1, <3>3
        <5> HIDE DEF Fails
        <5> QED
          BY <3>1, <5>1
      <4>2. Edits[a][a][i - 1][i - 1] = 0
        BY <4>1
      <4>3. Edits[a][a][i][i] <= 0
        <5>1. Edits[a][a][i][i] <= Edits[a][a][i - 1][i - 1]
          BY <4>1, AlongDiagonal
        <5> QED
          BY <4>2, <5>1
      <4>4. Edits[a][a][i][i] \in Nat
        BY <4>1, EditsTyped
      <4> DEFINE here == Edits[a][a][i][i]
      <4>5. here \in Nat /\ here <= 0
        BY <4>3, <4>4
      <4> HIDE DEF here
      <4>6. here = 0
        BY <4>5
      <4> QED
        BY <3>1, <4>6 DEF here
    <3> QED
      BY <3>2, <3>3
  <2>2. Edits[a][a][Len(a)][Len(a)] = 0
    BY <1>1, <2>1
  <2> QED
    BY <1>3, <2>2 DEF Distance
<1> QED
  BY <1>2, <1>3

\* With equal letters the value to the upper left is the least of the three, as
\* _levenshtein takes it to be.
LEMMA CellIsDistance ==
  ASSUME NEW a \in Labels, NEW b \in Labels, NEW i \in 1..Len(a), NEW j \in 1..Len(b)
  PROVE  Edits[a][b][i][j] =
           IF a[i] = b[j] THEN Edits[a][b][i - 1][j - 1]
           ELSE 1 + Least(Edits[a][b][i - 1][j - 1],
                          Least(Edits[a][b][i - 1][j], Edits[a][b][i][j - 1]))
<1> DEFINE up == Edits[a][b][i - 1][j]
           left == Edits[a][b][i][j - 1]
           diagonal == Edits[a][b][i - 1][j - 1]
           cost == IF a[i] = b[j] THEN 0 ELSE 1
<1>1. up \in Nat /\ left \in Nat /\ diagonal \in Nat
  BY Inside
<1>2. Edits[a][b][i][j] = Least(Least(up + 1, left + 1), diagonal + cost)
  BY EditsAssumption
<1>3. diagonal <= up + 1
  <2>1. i - 1 \in 0..Len(a)
    BY EditsTyped
  <2> QED
    BY <2>1, DropOfSecond
<1>4. diagonal <= left + 1
  <2>1. j - 1 \in 0..Len(b)
    BY EditsTyped
  <2> QED
    BY <2>1, DropOfFirst
<1> HIDE DEF up, left, diagonal
<1>5. Edits[a][b][i][j] = IF a[i] = b[j] THEN diagonal
                          ELSE 1 + Least(diagonal, Least(up, left))
  BY <1>1, <1>2, <1>3, <1>4 DEF Least
<1> QED
  BY <1>5 DEF up, left, diagonal
-------------------------------------------------------------------------------
\* What the variables of the check are.
CheckTypes ==
  /\ url \in Urls
  /\ check \in {"off", "patterns", "address", "dga", "typo", "distance", "rdap", "returned",
               "timedOut", "raised"}
  /\ brand \in 1..(Len(Brands) + 1)
  /\ isTypo \in BOOLEAN

\* Before the loop over the brands nothing has been found.
Untouched ==
  check \in {"off", "patterns", "dga"} => brand = 1 /\ ~isTypo

\* The brands the loop has passed.
Passed == 1..(brand - 1)

\* The loop: none of the brands it has passed is the URL's, and one of them is
\* near exactly if isTypo says so.
LoopIsRight ==
  check \in {"typo", "distance"} =>
    /\ \A k \in Passed : ~IsExact(Brands[k])
    /\ isTypo <=> \E k \in Passed : Near(url, Brands[k])

\* Up to col the table has the distances of this row, after it those of the row
\* above, and prev the one that col has overwritten.
TableIsRight ==
  check = "distance" =>
    /\ brand <= Len(Brands) /\ ~TypoIsSkipped /\ ~IsExact(Brand) /\ SuffixFits(url, Brand)
    /\ row \in 0..Len(url.label) /\ col \in 0..Len(Brand.label)
    /\ dp \in [0..Len(Brand.label) -> Nat]
    /\ \A k \in 0..col : dp[k] = Edits[url.label][Brand.label][row][k]
    /\ col < Len(Brand.label) =>
         /\ row # 0
         /\ prev = Edits[url.label][Brand.label][row - 1][col]
         /\ \A k \in (col + 1)..Len(Brand.label) :
              dp[k] = Edits[url.label][Brand.label][row - 1][k]

\* TYPO_DOMAIN is not among the signals before the loop has ended.
NotYetSaid == check \in {"off", "patterns", "dga", "typo", "distance"} => "TYPO_DOMAIN" \notin signals

\* Only an address is scored as one.
AddressIsOne == check = "address" => url.address

CheckInv ==
  /\ CheckTypes /\ Untouched /\ LoopIsRight /\ TableIsRight
  /\ NotYetSaid /\ AddressIsOne /\ TypoIsExact

\* A brand is a label and a suffix.
LEMMA BrandTyped ==
  ASSUME NEW k \in 1..Len(Brands)
  PROVE  /\ Brands[k] \in [label : Labels, suffix : STRING]
         /\ Brands[k].label \in Labels
         /\ k \in DOMAIN Brands
<1>1. Brands \in Seq([label : Labels, suffix : STRING])
  BY UrlsAssumption
<1>2. Brands[k] \in [label : Labels, suffix : STRING]
  BY <1>1, ElementOfSeq
<1>3. DOMAIN Brands = 1..Len(Brands)
  BY <1>1, LenProperties
<1> QED
  BY <1>2, <1>3

\* The URL has a label.
LEMMA UrlTyped == CheckTypes => url.label \in Labels
BY UrlsAssumption DEF CheckTypes

\* The loop has found the URL among the brands exactly if it is a brand.
LEMMA ExactIsBrand ==
  CheckTypes => (IsBrand(url) <=> \E k \in 1..Len(Brands) : IsExact(Brands[k]))
<1> SUFFICES ASSUME CheckTypes
             PROVE  IsBrand(url) <=> \E k \in 1..Len(Brands) : IsExact(Brands[k])
  OBVIOUS
<1>1. DOMAIN Brands = 1..Len(Brands)
  BY UrlsAssumption, LenProperties
<1>2. \A k \in 1..Len(Brands) :
        Brands[k] = [label |-> url.label, suffix |-> url.suffix] <=> IsExact(Brands[k])
  BY BrandTyped DEF IsExact
<1> QED
  BY <1>1, <1>2 DEF IsBrand

\* A brand the loop passes over without computing a distance is not near.
LEMMA SkippedIsNotNear ==
  ASSUME CheckInv, SkipBrand
  PROVE  ~Near(url, Brand)
<1>1. brand \in 1..Len(Brands)
  BY DEF CheckInv, CheckTypes, SkipBrand
<1>2. url.label \in Labels /\ Brand.label \in Labels
  BY <1>1, UrlTyped, BrandTyped DEF CheckInv, Brand
<1>3. CASE ~SuffixFits(url, Brand)
  BY <1>3 DEF Near
<1>4. CASE TooLong(url.label, Brand.label)
  <2>1. Distance(url.label, Brand.label) \notin 0..2
    BY <1>2, <1>4, LengthCutIsSound, LengthsBound
  <2> QED
    BY <2>1 DEF Near, Imitates
<1> QED
  BY <1>3, <1>4 DEF SkipBrand

\* Passing one brand more, not an exact one, keeps the loop right if isTypo takes
\* up whether it is near.
LEMMA LoopGoesOn ==
  ASSUME CheckInv, check \in {"typo", "distance"}, brand <= Len(Brands), ~IsExact(Brand),
         brand' = brand + 1, url' = url, isTypo' = (isTypo \/ Near(url, Brand))
  PROVE  /\ brand' \in 1..(Len(Brands) + 1)
         /\ \A k \in Passed' : ~IsExact(Brands[k])'
         /\ isTypo' <=> \E k \in Passed' : Near(url', Brands[k])
<1>1. brand \in 1..Len(Brands) /\ Len(Brands) \in Nat
  BY UrlsAssumption, LenProperties DEF CheckInv, CheckTypes
<1>2. Passed' = Passed \cup {brand}
  BY <1>1 DEF Passed
<1>3. \A k \in Passed : ~IsExact(Brands[k])
  BY DEF CheckInv, LoopIsRight
<1>4. isTypo <=> \E k \in Passed : Near(url, Brands[k])
  BY DEF CheckInv, LoopIsRight
<1>5. \A k \in Passed' : ~IsExact(Brands[k])'
  BY <1>2, <1>3 DEF IsExact, Brand
<1>6. isTypo' <=> \E k \in Passed' : Near(url', Brands[k])
  BY <1>2, <1>4, Zenon DEF Brand
<1> QED
  BY <1>1, <1>5, <1>6

\* The table is complete: it holds the distance, and the judgement is that of Near.
LEMMA JudgementIsRight ==
  ASSUME CheckInv, JudgeBrand
  PROVE  Imitates(url, Brand, dp[col]) <=> Near(url, Brand)
<1>1. dp[col] = Edits[url.label][Brand.label][row][col] /\ SuffixFits(url, Brand)
  <2>1. brand \in 1..Len(Brands)
    BY DEF CheckInv, CheckTypes, TableIsRight, JudgeBrand
  <2>2. col \in 0..col
    BY DEF CheckInv, TableIsRight, JudgeBrand
  <2> QED
    BY <2>2 DEF CheckInv, TableIsRight, JudgeBrand
<1> QED
  BY <1>1 DEF JudgeBrand, Near, Distance

\* The first row.
LEMMA FirstRowIsRight == CheckInv /\ CompareBrand => TableIsRight'
<1> SUFFICES ASSUME CheckInv, CompareBrand PROVE TableIsRight'
  OBVIOUS
<1>1. brand \in 1..Len(Brands)
  BY DEF CheckInv, CheckTypes, CompareBrand
<1>2. url.label \in Labels /\ Brand.label \in Labels
  BY <1>1, UrlTyped, BrandTyped DEF CheckInv, Brand
<1>3. Brand' = Brand /\ url' = url /\ signals' = signals
  BY DEF CompareBrand, Brand
<1>4. /\ ~TypoIsSkipped' /\ ~IsExact(Brand)' /\ SuffixFits(url', Brand')
      /\ brand' <= Len(Brands)
  BY <1>3 DEF CompareBrand, TypoIsSkipped, IsExact
<1>5. /\ row' = 0 /\ col' = Len(Brand.label)
      /\ dp' = [j \in 0..Len(Brand.label) |-> j]
  BY DEF CompareBrand
<1>6. Len(url.label) \in Nat /\ Len(Brand.label) \in Nat
  BY <1>2, EditsTyped
<1>7. /\ row' \in 0..Len(url'.label) /\ col' \in 0..Len(Brand'.label)
      /\ dp' \in [0..Len(Brand'.label) -> Nat]
  BY <1>3, <1>5, <1>6
<1>8. \A k \in 0..col' : dp'[k] = Edits[url'.label][Brand'.label][row'][k]
  BY <1>2, <1>3, <1>5, Borders
<1>9. ~(col' < Len(Brand'.label))
  BY <1>3, <1>5, <1>6
<1> QED
  BY <1>4, <1>7, <1>8, <1>9 DEF TableIsRight

\* The first cell of the next row.
LEMMA NextRowIsRight == CheckInv /\ NextRow => TableIsRight'
<1> SUFFICES ASSUME CheckInv, NextRow PROVE TableIsRight'
  OBVIOUS
<1> DEFINE a == url.label
           b == Brand.label
<1>1. brand \in 1..Len(Brands)
  BY DEF CheckInv, CheckTypes, TableIsRight, NextRow
<1>2. a \in Labels /\ b \in Labels
  BY <1>1, UrlTyped, BrandTyped DEF CheckInv, Brand
<1>3. Brand' = Brand /\ url' = url /\ signals' = signals /\ brand' = brand
  BY DEF NextRow, Brand
<1>4. /\ ~TypoIsSkipped' /\ ~IsExact(Brand)' /\ SuffixFits(url', Brand')
      /\ brand' <= Len(Brands)
  BY <1>3 DEF NextRow, CheckInv, TableIsRight, TypoIsSkipped, IsExact
<1>5. Len(a) \in Nat \ {0} /\ Len(b) \in Nat \ {0}
  BY <1>2, EditsTyped
<1>6. /\ col = Len(b) /\ row \in 0..Len(a) /\ row < Len(a)
      /\ dp \in [0..Len(b) -> Nat]
      /\ \A k \in 0..Len(b) : dp[k] = Edits[a][b][row][k]
      /\ row' = row + 1 /\ col' = 0 /\ prev' = dp[0]
      /\ dp' = [dp EXCEPT ![0] = row + 1]
  BY DEF NextRow, CheckInv, TableIsRight
<1>7. Edits[a][b][row + 1][0] = row + 1 /\ row + 1 \in 1..Len(a) /\ row + 1 - 1 = row
  BY <1>2, <1>5, <1>6, Borders
<1> HIDE DEF a, b
<1>8. /\ row' \in 0..Len(a) /\ row' # 0 /\ row' - 1 = row /\ col' \in 0..Len(b)
      /\ dp' \in [0..Len(b) -> Nat]
      /\ dp'[0] = Edits[a][b][row'][0]
      /\ prev' = Edits[a][b][row' - 1][col']
      /\ \A k \in 1..Len(b) : dp'[k] = Edits[a][b][row' - 1][k]
  BY <1>5, <1>6, <1>7
<1> QED
  BY <1>3, <1>4, <1>6, <1>8 DEF TableIsRight, a, b

\* One cell more.
LEMMA NextCellIsRight == CheckInv /\ NextCell => TableIsRight'
<1> SUFFICES ASSUME CheckInv, NextCell PROVE TableIsRight'
  OBVIOUS
<1> DEFINE a == url.label
           b == Brand.label
           next == col + 1
<1>1. brand \in 1..Len(Brands)
  BY DEF CheckInv, CheckTypes, TableIsRight, NextCell
<1>2. a \in Labels /\ b \in Labels
  BY <1>1, UrlTyped, BrandTyped DEF CheckInv, Brand
<1>3. Brand' = Brand /\ url' = url /\ signals' = signals /\ brand' = brand
  BY DEF NextCell, Brand
<1>4. /\ ~TypoIsSkipped' /\ ~IsExact(Brand)' /\ SuffixFits(url', Brand')
      /\ brand' <= Len(Brands)
  BY <1>3 DEF NextCell, CheckInv, TableIsRight, TypoIsSkipped, IsExact
<1>5. Len(a) \in Nat \ {0} /\ Len(b) \in Nat \ {0}
  BY <1>2, EditsTyped
<1>6. /\ col \in 0..Len(b) /\ col < Len(b) /\ row \in 0..Len(a) /\ row # 0
      /\ dp \in [0..Len(b) -> Nat]
      /\ \A k \in 0..col : dp[k] = Edits[a][b][row][k]
      /\ prev = Edits[a][b][row - 1][col]
      /\ \A k \in (col + 1)..Len(b) : dp[k] = Edits[a][b][row - 1][k]
      /\ row' = row /\ col' = next /\ prev' = dp[next]
      /\ dp' = [dp EXCEPT ![next] = Cell(next)]
  BY DEF NextCell, CheckInv, TableIsRight
<1>7. row \in 1..Len(a) /\ next \in 1..Len(b) /\ next - 1 = col
  BY <1>5, <1>6
<1>8. Cell(next) = Edits[a][b][row][next]
  <2>1. /\ prev = Edits[a][b][row - 1][next - 1]
        /\ dp[next] = Edits[a][b][row - 1][next]
        /\ dp[next - 1] = Edits[a][b][row][next - 1]
    BY <1>5, <1>6, <1>7
  <2> HIDE DEF a, b, next
  <2>2. Edits[a][b][row][next] =
          IF a[row] = b[next] THEN Edits[a][b][row - 1][next - 1]
          ELSE 1 + Least(Edits[a][b][row - 1][next - 1],
                         Least(Edits[a][b][row - 1][next], Edits[a][b][row][next - 1]))
    BY <1>2, <1>7, CellIsDistance
  <2>3. Cell(next) = IF a[row] = b[next] THEN prev
                     ELSE 1 + Least(prev, Least(dp[next], dp[next - 1]))
    BY DEF Cell, a, b
  <2> QED
    BY <2>1, <2>2, <2>3
<1>9. Edits[a][b][row][next] \in Nat
  BY <1>2, <1>7, Inside
<1>10. /\ row' \in 0..Len(a) /\ row' # 0 /\ col' \in 0..Len(b)
       /\ dp' \in [0..Len(b) -> Nat]
       /\ \A k \in 0..col' : dp'[k] = Edits[a][b][row'][k]
       /\ prev' = Edits[a][b][row' - 1][col']
       /\ \A k \in (col' + 1)..Len(b) : dp'[k] = Edits[a][b][row' - 1][k]
  <2>1. row' \in 0..Len(a) /\ row' # 0 /\ col' \in 0..Len(b)
    BY <1>5, <1>6, <1>7
  <2>2. Cell(next) \in Nat
    BY <1>8, <1>9
  <2> HIDE DEF a, b
  <2>3. dp' \in [0..Len(b) -> Nat]
    BY <1>6, <2>2
  <2>4. dp'[next] = Edits[a][b][row][next]
    BY <1>5, <1>6, <1>7, <1>8
  <2>5. \A k \in 0..Len(b) : k # next => dp'[k] = dp[k]
    BY <1>6
  <2>6. ASSUME NEW k \in 0..next PROVE dp'[k] = Edits[a][b][row][k]
    BY <1>5, <1>6, <1>7, <2>4, <2>5
  <2>7. ASSUME NEW k \in (next + 1)..Len(b) PROVE dp'[k] = Edits[a][b][row - 1][k]
    BY <1>5, <1>6, <1>7, <2>5
  <2>8. prev' = Edits[a][b][row - 1][next]
    BY <1>5, <1>6, <1>7
  <2> QED
    BY <1>6, <2>1, <2>3, <2>6, <2>7, <2>8
<1> QED
  BY <1>3, <1>4, <1>10 DEF TableIsRight
-------------------------------------------------------------------------------
\* Once the loop over all brands has ended, isTypo is what TypoIsExact asks.
LEMMA LoopEndsRight ==
  ASSUME CheckInv, BrandsEnd
  PROVE  /\ ~IsBrand(url)
         /\ isTypo <=> \E k \in DOMAIN Brands : Near(url, Brands[k])
<1>1. Passed = DOMAIN Brands /\ DOMAIN Brands = 1..Len(Brands)
  BY UrlsAssumption, LenProperties DEF CheckInv, CheckTypes, BrandsEnd, Passed
<1>2. /\ \A k \in Passed : ~IsExact(Brands[k])
      /\ isTypo <=> \E k \in Passed : Near(url, Brands[k])
  BY DEF CheckInv, LoopIsRight, BrandsEnd
<1> QED
  BY <1>1, <1>2, ExactIsBrand DEF CheckInv

\* The initial states have the invariant.
LEMMA CheckStartsRight == CheckInit => CheckInv
<1> SUFFICES ASSUME CheckInit PROVE CheckInv
  OBVIOUS
<1>1. CheckTypes
  <2>1. Len(Brands) \in Nat
    BY UrlsAssumption, LenProperties
  <2>2. 1 \in 1..(Len(Brands) + 1)
    BY <2>1
  <2>3. isTypo \in BOOLEAN
    BY DEF CheckInit
  <2> QED
    BY <2>2, <2>3 DEF CheckInit, CheckTypes
<1> QED
  BY <1>1 DEF CheckInit, CheckInv, Untouched, LoopIsRight, TableIsRight, NotYetSaid,
              AddressIsOne, TypoIsExact, Examined

\* What the checks before the loop keep.
LEMMA EarlyChecksKeep ==
  ASSUME CheckInv, CheckPatterns \/ CheckDga
  PROVE  CheckInv'
<1>1. "TYPO_DOMAIN" \notin PatternSignals(url)
  BY DEF PatternSignals
<1>2. /\ check \in {"patterns", "dga"}
      /\ check' \in {"address", "dga", "typo"}
      /\ check' = "address" => url.address
      /\ UNCHANGED <<url, brand, isTypo>>
  BY DEF CheckPatterns, CheckDga
<1>3. "TYPO_DOMAIN" \notin signals'
  BY <1>1, <1>2 DEF CheckPatterns, CheckDga, CheckInv, NotYetSaid
<1>4. CheckTypes' /\ Untouched' /\ NotYetSaid' /\ AddressIsOne'
  BY <1>2, <1>3 DEF CheckInv, CheckTypes, Untouched, NotYetSaid, AddressIsOne
<1>5. LoopIsRight'
  <2>1. brand' = 1 /\ ~isTypo'
    BY <1>2 DEF CheckInv, Untouched
  <2>2. Passed' = {}
    BY <2>1 DEF Passed
  <2> QED
    BY <2>1, <2>2 DEF LoopIsRight
<1>6. TableIsRight' /\ TypoIsExact'
  BY <1>2 DEF TableIsRight, TypoIsExact, Examined
<1> QED
  BY <1>4, <1>5, <1>6 DEF CheckInv

\* The loop goes to the next brand.
LEMMA NextBrandKeeps ==
  ASSUME CheckInv, SkipBrand \/ JudgeBrand
  PROVE  CheckInv'
<1>1. /\ check \in {"typo", "distance"} /\ check' = "typo"
      /\ brand <= Len(Brands) /\ ~IsExact(Brand) /\ brand' = brand + 1
      /\ UNCHANGED <<url, signals>>
  BY DEF CheckInv, TableIsRight, SkipBrand, JudgeBrand
<1>2. isTypo' = (isTypo \/ Near(url, Brand))
  <2>1. isTypo \in BOOLEAN
    BY DEF CheckInv, CheckTypes
  <2>2. CASE SkipBrand
    BY <2>1, <2>2, SkippedIsNotNear DEF SkipBrand
  <2>3. CASE JudgeBrand
    <3>1. Imitates(url, Brand, dp[col]) <=> Near(url, Brand)
      BY <2>3, JudgementIsRight
    <3>2. isTypo' = (isTypo \/ Imitates(url, Brand, dp[col]))
      BY <2>3 DEF JudgeBrand
    <3> QED
      BY <3>1, <3>2
  <2> QED
    BY <2>2, <2>3
<1>3. /\ brand' \in 1..(Len(Brands) + 1)
      /\ \A k \in Passed' : ~IsExact(Brands[k])'
      /\ isTypo' <=> \E k \in Passed' : Near(url', Brands[k])
  BY <1>1, <1>2, LoopGoesOn
<1>4. isTypo' \in BOOLEAN
  BY <1>2
<1>5. CheckTypes' /\ Untouched' /\ NotYetSaid' /\ AddressIsOne'
  BY <1>1, <1>3, <1>4 DEF CheckInv, CheckTypes, Untouched, NotYetSaid, AddressIsOne
<1>6. LoopIsRight'
  BY <1>3 DEF LoopIsRight
<1>7. TableIsRight' /\ TypoIsExact'
  BY <1>1 DEF TableIsRight, TypoIsExact, Examined
<1> QED
  BY <1>5, <1>6, <1>7 DEF CheckInv

\* The table grows.
LEMMA TableKeeps ==
  ASSUME CheckInv, CompareBrand \/ NextRow \/ NextCell
  PROVE  CheckInv'
<1>1. /\ check \in {"typo", "distance"} /\ check' = "distance"
      /\ UNCHANGED <<url, signals, brand, isTypo>>
  BY DEF CompareBrand, NextRow, NextCell
<1>2. TableIsRight'
  BY FirstRowIsRight, NextRowIsRight, NextCellIsRight
<1>3. CheckTypes' /\ Untouched' /\ NotYetSaid' /\ AddressIsOne'
  BY <1>1 DEF CheckInv, CheckTypes, Untouched, NotYetSaid, AddressIsOne
<1>4. LoopIsRight'
  <2>1. Passed' = Passed
    BY <1>1 DEF Passed
  <2>2. \A k : IsExact(Brands[k])' <=> IsExact(Brands[k])
    BY <1>1 DEF IsExact
  <2> QED
    BY <1>1, <2>1, <2>2 DEF CheckInv, LoopIsRight
<1>5. TypoIsExact'
  BY <1>1 DEF TypoIsExact, Examined
<1> QED
  BY <1>2, <1>3, <1>4, <1>5 DEF CheckInv

\* The ways the loop ends: not begun, a brand itself, no brand left.
LEMMA LoopEndKeeps ==
  ASSUME CheckInv, SkipTypo \/ ExactBrand \/ BrandsEnd
  PROVE  CheckInv'
<1>1. /\ check = "typo" /\ check' = "rdap"
      /\ UNCHANGED <<url, brand, isTypo>>
      /\ signals' = signals \/ signals' = signals \cup {"TYPO_DOMAIN"}
  BY DEF SkipTypo, ExactBrand, BrandsEnd
<1>2. /\ CheckTypes' /\ Untouched' /\ NotYetSaid' /\ AddressIsOne'
      /\ LoopIsRight' /\ TableIsRight'
  BY <1>1 DEF CheckInv, CheckTypes, Untouched, NotYetSaid, AddressIsOne, LoopIsRight,
              TableIsRight
<1>3. "TYPO_DOMAIN" \notin signals
  BY <1>1 DEF CheckInv, NotYetSaid
<1>4. TypoIsSkipped' <=> TypoIsSkipped
  BY <1>1 DEF TypoIsSkipped
<1>5. IsBrand(url)' = IsBrand(url)
  BY <1>1 DEF IsBrand
<1>6. "TYPO_DOMAIN" \in signals' <=>
        ~TypoIsSkipped /\ ~IsBrand(url) /\ \E k \in DOMAIN Brands : Near(url, Brands[k])
  <2>1. CASE SkipTypo
    BY <1>3, <2>1 DEF SkipTypo
  <2>2. CASE ExactBrand
    <3>1. brand \in 1..Len(Brands)
      BY <2>2 DEF CheckInv, CheckTypes, ExactBrand
    <3>2. IsBrand(url)
      BY <2>2, <3>1, ExactIsBrand DEF CheckInv, ExactBrand, Brand
    <3> QED
      BY <1>3, <2>2, <3>2 DEF ExactBrand
  <2>3. CASE BrandsEnd
    BY <1>3, <2>3, LoopEndsRight DEF BrandsEnd
  <2> QED
    BY <2>1, <2>2, <2>3
<1>7. TypoIsExact'
  BY <1>1, <1>4, <1>5, <1>6 DEF TypoIsExact
<1> QED
  BY <1>2, <1>7 DEF CheckInv

\* Every step of the check keeps the invariant.
LEMMA CheckKeeps == CheckInv /\ CheckStep => CheckInv'
BY EarlyChecksKeep, NextBrandKeeps, TableKeeps, LoopEndKeeps DEF CheckStep

\* So does a step that leaves it alone.
LEMMA CheckRests == CheckInv /\ UNCHANGED checkVars => CheckInv'
<1> SUFFICES ASSUME CheckInv, UNCHANGED checkVars PROVE CheckInv'
  OBVIOUS
<1>1. UNCHANGED <<url, check, signals, brand, isTypo, row, col, dp, prev>>
  BY DEF checkVars, table
<1>2. CheckTypes' /\ Untouched' /\ NotYetSaid' /\ AddressIsOne'
  BY <1>1 DEF CheckInv, CheckTypes, Untouched, NotYetSaid, AddressIsOne
<1>3. /\ Passed' = Passed /\ Brand' = Brand
      /\ TypoIsSkipped' <=> TypoIsSkipped
      /\ IsExact(Brand)' <=> IsExact(Brand)
      /\ \A k : IsExact(Brands[k])' <=> IsExact(Brands[k])
      /\ IsBrand(url)' <=> IsBrand(url)
  BY <1>1 DEF Passed, Brand, TypoIsSkipped, IsExact, IsBrand
<1>4. LoopIsRight'
  BY <1>1, <1>3 DEF CheckInv, LoopIsRight
<1>5. TableIsRight'
  BY <1>1, <1>3 DEF CheckInv, TableIsRight
<1>6. TypoIsExact'
  BY <1>1, <1>3 DEF CheckInv, TypoIsExact
<1> QED
  BY <1>2, <1>4, <1>5, <1>6 DEF CheckInv
-------------------------------------------------------------------------------
\* Where the check is in each stage of the pipeline.
StagesAgree ==
  /\ main \in {"normalize", "unchain"} => check = "off"
  /\ main = "domain" => check \in {"patterns", "address", "dga", "typo", "distance", "rdap"}

NoDbInv == IInv /\ CheckInv /\ StagesAgree /\ FoundSignalsScore

\* The score of the signals is a score.
LEMMA ScoreRange == \A found : HeuristicScore(found) \in 0..HeuristicCap
<1> SUFFICES ASSUME NEW found PROVE HeuristicScore(found) \in 0..HeuristicCap
  OBVIOUS
<1>1. \A s \in HeuristicSignals : Worth(found, s) \in Nat
  BY SignalWeightsAssumption DEF Worth
<1>2. /\ Worth(found, "IP_DIRECT") \in Nat /\ Worth(found, "TYPO_DOMAIN") \in Nat
      /\ Worth(found, "PUNYCODE_IDN") \in Nat /\ Worth(found, "NEW_DOMAIN") \in Nat
      /\ Worth(found, "SUBDOMAIN_OVERUSE") \in Nat /\ Worth(found, "NO_HTTPS") \in Nat
      /\ Worth(found, "OPEN_REDIRECT_PARAM") \in Nat /\ Worth(found, "HYPHEN_OVERUSE") \in Nat
      /\ Worth(found, "SUSPICIOUS_TLD") \in Nat /\ Worth(found, "DGA_LIKE") \in Nat
      /\ Worth(found, "HOSTING_PLATFORM") \in Nat /\ Worth(found, "URL_USERINFO") \in Nat
      /\ Worth(found, "BRAND_IN_URL") \in Nat /\ Worth(found, "FREE_HOSTING_LURE") \in Nat
      /\ Worth(found, "SENSITIVE_PATH") \in Nat /\ Worth(found, "URL_SHORTENER") \in Nat
  BY <1>1 DEF HeuristicSignals
<1>3. HeuristicPoints(found) \in Nat
  BY <1>2 DEF HeuristicPoints
<1> QED
  BY <1>3, WeightsAssumption DEF HeuristicScore, Least

\* The redirect bonus never lowers a score.
LEMMA AugmentedIsMore ==
  ASSUME TypeOK, NEW s \in 0..HeuristicCap
  PROVE  Augmented(s) \in 0..HeuristicCap /\ Augmented(s) >= s
BY WeightsAssumption DEF Augmented, Least, TypeOK, Pages

\* A step of the composition is a step of the pipeline, or none.
LEMMA StepIsPipelines == NoDbNext => Next \/ UNCHANGED vars
<1> SUFFICES ASSUME NoDbNext PROVE Next \/ UNCHANGED vars
  OBVIOUS
<1>1. CASE OtherStage
  BY <1>1 DEF OtherStage, Next
<1>2. CASE DomainStageBegins
  BY <1>2 DEF DomainStageBegins, Next
<1>3. CASE CheckAdvances
  BY <1>3 DEF CheckAdvances
<1>4. CASE AddressScored
  BY <1>4, ScoreRange, AnyScoreAssumption DEF AddressScored, HeuristicReturns, Next
<1>5. CASE RdapEnds
  <2>1. HeuristicAnswers(HeuristicScore(signals'))
    BY <1>5 DEF RdapEnds
  <2> QED
    BY <2>1, ScoreRange, AnyScoreAssumption DEF HeuristicReturns, Next
<1>6. CASE StageEndsFirst
  BY <1>6 DEF StageEndsFirst, Next
<1>7. CASE CheckRaises
  BY <1>7 DEF CheckRaises, Next
<1> QED
  BY <1>1, <1>2, <1>3, <1>4, <1>5, <1>6, <1>7 DEF NoDbNext

\* A step that leaves the check behind keeps what was established of it.
LEMMA CheckEndsKeep ==
  ASSUME CheckInv,
         check' \in {"patterns", "returned", "timedOut", "raised"},
         check' = "patterns" => check = "off",
         check' \in {"returned", "timedOut"} => check \in {"rdap", "address"},
         UNCHANGED <<url, brand, isTypo, table>>,
         signals' = signals \/ signals' = signals \cup {"NEW_DOMAIN"},
         check' = "patterns" => signals' = signals
  PROVE  CheckInv'
<1>1. CheckTypes' /\ Untouched' /\ LoopIsRight' /\ TableIsRight' /\ AddressIsOne'
  BY DEF CheckInv, CheckTypes, Untouched, LoopIsRight, TableIsRight, AddressIsOne
<1>2. NotYetSaid'
  BY DEF CheckInv, NotYetSaid
<1>3. /\ TypoIsSkipped' <=> TypoIsSkipped
      /\ IsBrand(url)' <=> IsBrand(url)
      /\ "TYPO_DOMAIN" \in signals' <=> "TYPO_DOMAIN" \in signals
  BY DEF TypoIsSkipped, IsBrand
<1>4. TypoIsExact'
  BY <1>3 DEF CheckInv, AddressIsOne, TypoIsExact, Examined
<1> QED
  BY <1>1, <1>2, <1>4 DEF CheckInv

\* The heuristic answers with a score: the pipeline has it, or more.
LEMMA AnswerIsKept ==
  ASSUME TypeOK, NEW score \in 0..HeuristicCap, HeuristicAnswers(score)
  PROVE  main = "domain" /\ main' \in {"content", "returned"} /\ heuristic' >= score
<1>1. AfterHeuristic(Augmented(score)) /\ main = "domain"
  BY DEF HeuristicAnswers
<1>2. heuristic' = Augmented(score) /\ main' \in {"content", "returned"}
  BY <1>1 DEF AfterHeuristic, Conclude
<1> QED
  BY <1>1, <1>2, AugmentedIsMore

\* The initial states have the invariant.
LEMMA NoDbStartsRight == NoDbInit => NoDbInv
BY InitIInv, CheckStartsRight
DEF NoDbInit, Init, CheckInit, NoDbInv, StagesAgree, FoundSignalsScore

\* The stages before and after the heuristic keep the invariant.
LEMMA OtherStagesKeep ==
  ASSUME NoDbInv, IInv', OtherStage
  PROVE  NoDbInv'
<1>1. CheckInv'
  BY CheckRests DEF OtherStage, NoDbInv
<1>2. UNCHANGED <<check, signals>>
  BY DEF OtherStage, checkVars
<1>3. /\ UNCHANGED <<heuristic, began>>
      /\ \/ main = "normalize" /\ main' \in {"unchain", "returned"}
         \/ main = "content" /\ main' = "returned"
         \/ main' = "cancelled"
  BY DEF OtherStage, Normalize, ContentReturns, ContentFails, Cancelled, Conclude
<1>4. HeuristicScore(signals)' = HeuristicScore(signals)
  BY <1>2 DEF HeuristicScore, HeuristicPoints, Worth
<1>5. StagesAgree' /\ FoundSignalsScore'
  BY <1>2, <1>3, <1>4 DEF NoDbInv, StagesAgree, FoundSignalsScore
<1> QED
  BY <1>1, <1>5 DEF NoDbInv

\* So does the beginning of the domain stage.
LEMMA DomainStageKeeps ==
  ASSUME NoDbInv, IInv', DomainStageBegins
  PROVE  NoDbInv'
<1>1. /\ main = "unchain" /\ main' = "domain" /\ check = "off" /\ check' = "patterns"
      /\ UNCHANGED <<url, signals, brand, isTypo, table>>
  BY DEF DomainStageBegins, UnchainReturns, UnchainFails, NoDbInv, StagesAgree
<1>2. CheckInv'
  BY <1>1, CheckEndsKeep DEF NoDbInv
<1>3. StagesAgree' /\ FoundSignalsScore'
  BY <1>1 DEF StagesAgree, FoundSignalsScore
<1> QED
  BY <1>2, <1>3 DEF NoDbInv

\* So do the checks on the URL itself.
LEMMA CheckAdvancesKeeps ==
  ASSUME NoDbInv, IInv', CheckAdvances
  PROVE  NoDbInv'
<1>1. CheckInv'
  BY CheckKeeps DEF CheckAdvances, NoDbInv
<1>2. main = "domain" /\ main' = "domain"
  BY DEF CheckAdvances, vars
<1>3. check' \in {"patterns", "address", "dga", "typo", "distance", "rdap"}
  BY DEF CheckAdvances, CheckStep, CheckPatterns, CheckDga, SkipTypo, ExactBrand, SkipBrand,
         CompareBrand, NextRow, NextCell, JudgeBrand, BrandsEnd
<1>4. StagesAgree' /\ FoundSignalsScore'
  BY <1>2, <1>3 DEF StagesAgree, FoundSignalsScore
<1> QED
  BY <1>1, <1>4 DEF NoDbInv

\* So does the score.
LEMMA ScoringKeeps ==
  ASSUME NoDbInv, IInv', AddressScored \/ RdapEnds
  PROVE  NoDbInv'
<1>1. /\ check \in {"address", "rdap"} /\ check' = "returned"
      /\ UNCHANGED <<url, brand, isTypo, table>>
      /\ signals' = signals \/ signals' = signals \cup {"NEW_DOMAIN"}
  <2>1. CASE AddressScored
    BY <2>1 DEF AddressScored
  <2>2. CASE RdapEnds
    <3>1. PICK found \in SUBSET {"NEW_DOMAIN"} : signals' = signals \cup found
      BY <2>2 DEF RdapEnds
    <3>2. found = {} \/ found = {"NEW_DOMAIN"}
      BY <3>1
    <3>3. signals' = signals \/ signals' = signals \cup {"NEW_DOMAIN"}
      BY <3>1, <3>2
    <3> QED
      BY <2>2, <3>3 DEF RdapEnds
  <2> QED
    BY <2>1, <2>2
<1>2. CheckInv'
  BY <1>1, CheckEndsKeep DEF NoDbInv
<1>3. HeuristicAnswers(HeuristicScore(signals'))
  BY DEF AddressScored, RdapEnds
<1>4. main' \in {"content", "returned"} /\ heuristic' >= HeuristicScore(signals')
  BY <1>3, ScoreRange, AnswerIsKept DEF NoDbInv, IInv
<1>5. HeuristicScore(signals)' = HeuristicScore(signals')
  BY DEF HeuristicScore, HeuristicPoints, Worth
<1>6. StagesAgree' /\ FoundSignalsScore'
  BY <1>4, <1>5 DEF StagesAgree, FoundSignalsScore
<1> QED
  BY <1>2, <1>6 DEF NoDbInv

\* So do the deadline of the stage, which only the total budget brings forward,
\* and an exception.
LEMMA FailuresKeep ==
  ASSUME NoDbInv, IInv', StageEndsFirst \/ CheckRaises
  PROVE  NoDbInv'
<1>1. /\ check \in {"patterns", "rdap"} /\ check' \in {"timedOut", "raised"}
      /\ check' = "timedOut" => check = "rdap" /\ HeuristicTimesOut
      /\ UNCHANGED <<url, signals, brand, isTypo, table>>
  BY DEF StageEndsFirst, CheckRaises
<1>2. CheckInv'
  BY <1>1, CheckEndsKeep DEF NoDbInv
<1>3. main = "domain" /\ began' = began /\ main' \in {"content", "returned"}
  BY DEF StageEndsFirst, CheckRaises, HeuristicTimesOut, HeuristicRaises, AfterHeuristic,
         Conclude
<1>4. check' = "timedOut" => began' + DomainSeconds > TotalSeconds
  <2>1. clock = began
    BY <1>3 DEF NoDbInv, IInv, StageBounds
  <2> QED
    BY <1>1, <1>3, <2>1, RdapEndsFirst DEF NoDbInv, IInv, HeuristicTimesOut
<1>5. StagesAgree' /\ FoundSignalsScore'
  BY <1>1, <1>3, <1>4 DEF StagesAgree, FoundSignalsScore
<1> QED
  BY <1>2, <1>5 DEF NoDbInv

\* And a step that changes nothing.
LEMMA RestKeeps == NoDbInv /\ UNCHANGED allVars => NoDbInv'
<1> SUFFICES ASSUME NoDbInv, UNCHANGED allVars PROVE NoDbInv'
  OBVIOUS
<1>1. CheckInv'
  BY CheckRests DEF NoDbInv, allVars
<1>2. IInv'
  BY NextKeepsIInv DEF NoDbInv, allVars
<1>3. UNCHANGED <<check, signals, main, heuristic, began>>
  BY DEF allVars, checkVars, vars
<1>4. HeuristicScore(signals)' = HeuristicScore(signals)
  BY <1>3 DEF HeuristicScore, HeuristicPoints, Worth
<1>5. StagesAgree' /\ FoundSignalsScore'
  BY <1>3, <1>4 DEF NoDbInv, StagesAgree, FoundSignalsScore
<1> QED
  BY <1>1, <1>2, <1>5 DEF NoDbInv

\* Every step of the composition keeps the invariant.
LEMMA NoDbKeeps == NoDbInv /\ [NoDbNext]_allVars => NoDbInv'
<1>1. ASSUME NoDbInv, NoDbNext PROVE NoDbInv'
  <2>1. IInv'
    BY <1>1, StepIsPipelines, NextKeepsIInv DEF NoDbInv
  <2> QED
    BY <1>1, <2>1, OtherStagesKeep, DomainStageKeeps, CheckAdvancesKeeps, ScoringKeeps,
       FailuresKeep DEF NoDbNext
<1> QED
  BY <1>1, RestKeeps

\* The invariant of the composition.
THEOREM NoDbInvariance == NoDbSpec => []NoDbInv
BY NoDbStartsRight, NoDbKeeps, PTL DEF NoDbSpec

\* check_typosquatting decides what its definition says, for all brands in any
\* order (typosquatting.py:97-128).
THEOREM TyposAreExact == NoDbSpec => []TypoIsExact
<1>1. NoDbInv => TypoIsExact
  BY DEF NoDbInv, CheckInv
<1> QED
  BY <1>1, NoDbInvariance, PTL

\* The signals found before RDAP was asked reach the score (check.py:81-91).
THEOREM FoundSignalsAreKept == NoDbSpec => []FoundSignalsScore
<1>1. NoDbInv => FoundSignalsScore
  BY DEF NoDbInv
<1> QED
  BY <1>1, NoDbInvariance, PTL

\* The pipeline with its heuristic is one of those DbIndependentPipeline describes.
THEOREM CompositionImplementsPipeline == NoDbSpec => ImplementsPipeline
<1>1. NoDbInit => Init
  BY DEF NoDbInit
<1>2. [NoDbNext]_allVars => [Next]_vars
  BY StepIsPipelines DEF allVars
<1> QED
  BY <1>1, <1>2, PTL DEF NoDbSpec, ImplementsPipeline, Spec

\* So it keeps the time budget and the contract, as DbIndependentProofs has it.
THEOREM CompositionKeepsBudget == NoDbSpec => []WithinBudget
BY CompositionImplementsPipeline, BudgetIsKept, PTL DEF ImplementsPipeline

THEOREM CompositionImplementsContract == NoDbSpec => ImplementsContract
BY CompositionImplementsPipeline, DbIndependentImplementsContract, PTL DEF ImplementsPipeline
-------------------------------------------------------------------------------
\* What the warning means to a user, from TypoIsExact and what a distance is.

\* Two labels of one length that differ in two letters at most: two mistyped
\* letters, or two neighbours swapped.
TwoSlips(a, b) ==
  /\ Len(a) = Len(b)
  /\ \E p, q \in 1..Len(a) : \A i \in 1..Len(a) : i \in {p, q} \/ a[i] = b[i]

\* Who mistypes two letters of a brand's domain, or swaps two, and does not land on
\* another brand, is warned: for every brand long enough to be compared, under
\* its own suffix and under any suspicious one (typosquatting.py:115-126).
TwoSlipsAreSeen ==
  check \in Examined /\ ~url.address /\ ~TypoIsSkipped /\ ~IsBrand(url) =>
    \A k \in DOMAIN Brands :
      /\ SuffixFits(url, Brands[k])
      /\ Len(url.label) >= MinFuzzyLen
      /\ TwoSlips(url.label, Brands[k].label)
      => "TYPO_DOMAIN" \in signals

\* Of a label shorter than _MIN_FUZZY_LEN only the equality with a brand's label
\* counts, as the comment at typosquatting.py:65 says, and it always counts.
ShortNeedsEqual ==
  check \in Examined /\ ~url.address /\ Len(url.label) < MinFuzzyLen =>
    ("TYPO_DOMAIN" \in signals <=>
       /\ ~TypoIsSkipped /\ ~IsBrand(url)
       /\ \E k \in DOMAIN Brands : SuffixFits(url, Brands[k]) /\ Brands[k].label = url.label)

\* A brand by its number.
LEMMA BrandOf ==
  ASSUME NEW k \in DOMAIN Brands
  PROVE  /\ k \in 1..Len(Brands)
         /\ Brands[k].label \in Labels
         /\ Brands[k] = [label |-> Brands[k].label, suffix |-> Brands[k].suffix]
<1>1. k \in 1..Len(Brands)
  BY UrlsAssumption, LenProperties
<1>2. Brands[k] \in [label : Labels, suffix : STRING]
  BY <1>1, BrandTyped
<1> QED
  BY <1>1, <1>2

\* With a brand's label and no brand itself, a URL has another suffix.
LEMMA SameLabelIsNear ==
  ASSUME CheckTypes, ~IsBrand(url), NEW k \in DOMAIN Brands,
         SuffixFits(url, Brands[k]), Brands[k].label = url.label
  PROVE  Near(url, Brands[k])
<1>1. url.suffix # Brands[k].suffix
  BY BrandOf DEF IsBrand
<1>2. Distance(url.label, Brands[k].label) = 0
  BY UrlTyped, ZeroIsEqual
<1> QED
  BY <1>1, <1>2 DEF Near, Imitates

\* Two slips from a long label is near.
LEMMA TwoSlipsAreNear ==
  ASSUME CheckTypes, ~IsBrand(url), NEW k \in DOMAIN Brands,
         SuffixFits(url, Brands[k]), Len(url.label) >= MinFuzzyLen,
         TwoSlips(url.label, Brands[k].label)
  PROVE  Near(url, Brands[k])
<1>1. url.label \in Labels /\ Brands[k].label \in Labels
  BY UrlTyped, BrandOf
<1>2. Distance(url.label, Brands[k].label) \in 0..2
  <2>1. Distance(url.label, Brands[k].label) <= 2
    BY <1>1, TwoPlaces DEF TwoSlips
  <2>2. Distance(url.label, Brands[k].label) \in Nat
    BY <1>1, LengthsBound
  <2> QED
    BY <2>1, <2>2
<1>3. CASE Distance(url.label, Brands[k].label) = 0
  BY <1>1, <1>3, ZeroIsEqual, SameLabelIsNear
<1>4. CASE Distance(url.label, Brands[k].label) # 0
  <2>1. Distance(url.label, Brands[k].label) \in 1..2
    BY <1>2, <1>4
  <2>2. Least(Len(url.label), Len(Brands[k].label)) >= MinFuzzyLen
    BY DEF TwoSlips, Least
  <2> QED
    BY <2>1, <2>2 DEF Near, Imitates
<1> QED
  BY <1>3, <1>4

\* A short label that is near is the same.
LEMMA ShortNearIsSame ==
  ASSUME CheckTypes, Len(url.label) < MinFuzzyLen, NEW k \in DOMAIN Brands,
         Near(url, Brands[k])
  PROVE  SuffixFits(url, Brands[k]) /\ Brands[k].label = url.label
<1>1. url.label \in Labels /\ Brands[k].label \in Labels
  BY UrlTyped, BrandOf
<1>2. Len(url.label) \in Nat /\ Len(Brands[k].label) \in Nat /\ MinFuzzyLen \in Nat
  BY <1>1, EditsTyped, SignalWeightsAssumption
<1>3. ~(Least(Len(url.label), Len(Brands[k].label)) >= MinFuzzyLen)
  BY <1>2 DEF Least
<1>4. Distance(url.label, Brands[k].label) = 0
  BY <1>3 DEF Near, Imitates
<1> QED
  BY <1>1, <1>4, ZeroIsEqual DEF Near

\* Two slips in a brand's domain are always warned of (typosquatting.py:115-126).
THEOREM TwoSlipsAreCaught == NoDbSpec => []TwoSlipsAreSeen
<1>1. NoDbInv => CheckTypes /\ TypoIsExact
  BY DEF NoDbInv, CheckInv
<1>2. CheckTypes /\ TypoIsExact => TwoSlipsAreSeen
  BY TwoSlipsAreNear DEF TypoIsExact, TwoSlipsAreSeen
<1> QED
  BY <1>1, <1>2, NoDbInvariance, PTL

\* A short label is flagged for a brand's own label and for nothing else
\* (typosquatting.py:65, 122-126).
THEOREM ShortLabelsNeedEquality == NoDbSpec => []ShortNeedsEqual
<1>1. NoDbInv => CheckTypes /\ TypoIsExact
  BY DEF NoDbInv, CheckInv
<1>2. CheckTypes /\ TypoIsExact => ShortNeedsEqual
  BY SameLabelIsNear, ShortNearIsSame DEF TypoIsExact, ShortNeedsEqual
<1> QED
  BY <1>1, <1>2, NoDbInvariance, PTL
===============================================================================
