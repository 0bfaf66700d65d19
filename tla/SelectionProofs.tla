---------------------------- MODULE SelectionProofs ----------------------------
(* Lemmas about numbers and selections: what the proofs of the components  *)
(* use in place of induction.                                              *)
EXTENDS Selection, SequenceTheorems, FiniteSetTheorems, WellFoundedInduction, TLAPS

-----------------------------------------------------------------------------
(* Least and last numbers.                                                 *)

(* A nonempty set of numbers has a least element. *)
LEMMA LeastNumber ==
  ASSUME NEW S, S \subseteq Nat, S # {}
  PROVE  \E n \in S : \A m \in S : n <= m
<1>1. PICK n \in S : \A m \in S : ~ (<<m, n>> \in OpToRel(<, Nat))
  BY NatLessThanWellFounded, WFMin
<1>2. \A m \in S : ~ (m < n)
  BY <1>1 DEF OpToRel
<1> QED BY <1>2

(* A nonempty set of positions in a sequence has a last one. *)
LEMMA LastPosition ==
  ASSUME NEW len \in Nat, NEW S, S \subseteq 1..len, S # {}
  PROVE  \E n \in S : \A m \in S : m <= n
<1> DEFINE T == {len - i : i \in S}
<1>1. T \subseteq Nat /\ T # {}
  <2>1. \A i \in S : len - i \in Nat
    OBVIOUS
  <2> QED BY <2>1
<1>2. PICK k \in T : \A m \in T : k <= m
  BY <1>1, LeastNumber
<1>3. PICK n \in S : k = len - n
  OBVIOUS
<1>4. ASSUME NEW m \in S
      PROVE  m <= n
  BY <1>2, <1>3, len - m \in T
<1> QED BY <1>4

-----------------------------------------------------------------------------
(* The k-th number of a set.                                               *)

(* How many numbers of S there are up to n. *)
Below(S, n) == Cardinality(Upto(S, n))

LEMMA BelowIsNumber ==
  ASSUME NEW len \in Nat, NEW S, \A i \in S : i \in 1..len
  PROVE  /\ IsFiniteSet(S) /\ Cardinality(S) \in Nat
         /\ \A n : IsFiniteSet(Upto(S, n)) /\ Below(S, n) \in Nat
<1>1. IsFiniteSet(1..len)
  BY FS_Interval
<1>2. IsFiniteSet(S)
  <2>1. S \subseteq 1..len
    OBVIOUS
  <2> QED BY <1>1, <2>1, FS_Subset
<1>3. \A n : IsFiniteSet(Upto(S, n))
  BY <1>2, FS_Subset DEF Upto
<1> QED BY <1>2, <1>3, FS_CardinalityType DEF Below

(* It grows with n, and by one at each number of S. *)
LEMMA BelowGrows ==
  ASSUME NEW len \in Nat, NEW S, \A i \in S : i \in 1..len, NEW m \in Nat, NEW n \in Nat, m < n
  PROVE  /\ Below(S, m) <= Below(S, n)
         /\ n \in S => Below(S, m) < Below(S, n)
<1>1. /\ IsFiniteSet(Upto(S, m)) /\ IsFiniteSet(Upto(S, n))
      /\ Below(S, m) \in Nat /\ Below(S, n) \in Nat
  BY BelowIsNumber
<1>2. Upto(S, m) \subseteq Upto(S, n)
  BY DEF Upto
<1>3. Below(S, m) <= Below(S, n)
  BY <1>1, <1>2, FS_Subset DEF Below
<1>4. ASSUME n \in S
      PROVE  Below(S, m) < Below(S, n)
  <2> DEFINE more == Upto(S, m) \cup {n}
  <2>1. more \subseteq Upto(S, n) /\ n \notin Upto(S, m)
    BY <1>4, <1>2 DEF Upto
  <2>2. Cardinality(more) = Below(S, m) + 1
    BY <1>1, <2>1, FS_AddElement DEF Below
  <2>3. Cardinality(more) <= Below(S, n)
    BY <1>1, <2>1, FS_Subset DEF Below
  <2> QED BY <1>1, <2>2, <2>3
<1> QED BY <1>3, <1>4

LEMMA BelowOneMore ==
  ASSUME NEW len \in Nat, NEW S, \A i \in S : i \in 1..len, NEW n \in Nat
  PROVE  /\ Below(S, 0) = 0
         /\ Below(S, len) = Cardinality(S)
         /\ Below(S, n + 1) = IF n + 1 \in S THEN Below(S, n) + 1 ELSE Below(S, n)
<1>1. Upto(S, 0) = {}
  BY DEF Upto
<1>2. Upto(S, len) = S
  BY DEF Upto
<1>3. Upto(S, n + 1) = IF n + 1 \in S THEN Upto(S, n) \cup {n + 1} ELSE Upto(S, n)
  BY DEF Upto
<1>4. n + 1 \notin Upto(S, n) /\ IsFiniteSet(Upto(S, n))
  BY BelowIsNumber DEF Upto
<1>5. Cardinality(Upto(S, n) \cup {n + 1}) = Cardinality(Upto(S, n)) + 1
  BY <1>4, FS_AddElement
<1>6. Below(S, 0) = 0
  BY <1>1, FS_EmptySet DEF Below
<1>7. Below(S, len) = Cardinality(S)
  BY <1>2 DEF Below
<1>8. Below(S, n + 1) = IF n + 1 \in S THEN Below(S, n) + 1 ELSE Below(S, n)
  BY <1>3, <1>5 DEF Below
<1> QED BY <1>6, <1>7, <1>8

LEMMA NthIsThere ==
  ASSUME NEW len \in Nat, NEW S, \A i \in S : i \in 1..len, NEW k \in 1..Cardinality(S)
  PROVE  Nth(S, k) \in S /\ Below(S, Nth(S, k)) = k
<1> DEFINE T == {n \in 0..len : Below(S, n) >= k}
<1>0. Cardinality(S) \in Nat /\ \A n : Below(S, n) \in Nat
  BY BelowIsNumber
<1>1. len \in T
  BY <1>0, BelowOneMore
<1>2. PICK n \in T : \A m \in T : n <= m
  <2>1. T \subseteq Nat /\ T # {}
    BY <1>1
  <2> QED BY <2>1, LeastNumber
<1>3. n # 0
  BY <1>0, <1>2, BelowOneMore
<1>4. n - 1 \in Nat /\ n - 1 \notin T /\ n \in 0..len
  BY <1>2, <1>3
<1>5. Below(S, n - 1) < k /\ Below(S, n) >= k
  BY <1>0, <1>2, <1>4
<1>6. Below(S, (n - 1) + 1) =
        IF (n - 1) + 1 \in S THEN Below(S, n - 1) + 1 ELSE Below(S, n - 1)
  BY <1>4, BelowOneMore
<1>7. (n - 1) + 1 = n
  BY <1>4
<1>8. n \in S /\ Below(S, n) = k
  BY <1>0, <1>5, <1>6, <1>7
<1> QED BY <1>8 DEF Nth, Below

(* The numbers are counted in their order, and each of them is counted. *)
LEMMA NthInOrder ==
  ASSUME NEW len \in Nat, NEW S, \A i \in S : i \in 1..len,
         NEW k \in 1..Cardinality(S), NEW l \in 1..Cardinality(S), k < l
  PROVE  Nth(S, k) < Nth(S, l)
<1>1. /\ Nth(S, k) \in S /\ Below(S, Nth(S, k)) = k
      /\ Nth(S, l) \in S /\ Below(S, Nth(S, l)) = l
  BY NthIsThere
<1>2. CASE Nth(S, l) < Nth(S, k)
  <2>1. l <= k
    BY <1>1, <1>2, BelowGrows
  <2> QED BY <2>1, BelowIsNumber
<1>3. CASE Nth(S, l) = Nth(S, k)
  BY <1>1, <1>3, BelowIsNumber
<1> QED BY <1>1, <1>2, <1>3

LEMMA NthOfElement ==
  ASSUME NEW len \in Nat, NEW S, \A i \in S : i \in 1..len, NEW n \in S
  PROVE  Below(S, n) \in 1..Cardinality(S) /\ Nth(S, Below(S, n)) = n
<1>0. Cardinality(S) \in Nat /\ \A m : Below(S, m) \in Nat
  BY BelowIsNumber
<1>1. Below(S, 0) < Below(S, n)
  BY BelowGrows
<1>2. Below(S, n) <= Below(S, len)
  BY BelowGrows, <1>0
<1>3. Below(S, n) \in 1..Cardinality(S)
  BY <1>0, <1>1, <1>2, BelowOneMore
<1>4. ASSUME NEW m \in S, Below(S, m) = Below(S, n)
      PROVE  m = n
  <2>1. ~(m < n) /\ ~(n < m)
    BY <1>0, <1>4, BelowGrows
  <2> QED BY <2>1
<1>5. /\ Nth(S, Below(S, n)) \in S
      /\ Below(S, Nth(S, Below(S, n))) = Below(S, n)
  BY <1>3, NthIsThere
<1> QED BY <1>3, <1>4, <1>5

-----------------------------------------------------------------------------
(* Selections.                                                             *)

LEMMA SelectedIsSequence ==
  ASSUME NEW T, NEW s, NEW len \in Nat, NEW S, \A i \in S : i \in 1..len, \A i \in S : s[i] \in T
  PROVE  Selected(s, S) \in Seq(T) /\ Len(Selected(s, S)) = Cardinality(S)
<1>1. Cardinality(S) \in Nat
  BY BelowIsNumber
<1>2. \A k \in 1..Cardinality(S) : s[Nth(S, k)] \in T
  BY NthIsThere
<1> DEFINE n == Cardinality(S)
           t == [k \in 1..n |-> s[Nth(S, k)]]
<1>3. \A k \in 1..n : s[Nth(S, k)] \in T
  BY <1>2
<1>4. t \in Seq(T) /\ Len(t) = n
  <2> HIDE DEF n
  <2>1. n \in Nat
    BY <1>1 DEF n
  <2> QED BY <1>3, <2>1
<1> QED BY <1>4 DEF Selected

(* The values of a selection are those at the places. *)
LEMMA SelectedValues ==
  ASSUME NEW s, NEW len \in Nat, NEW S, \A i \in S : i \in 1..len
  PROVE  /\ DOMAIN Selected(s, S) = 1..Cardinality(S)
         /\ \A k \in 1..Cardinality(S) : Nth(S, k) \in S /\ Selected(s, S)[k] = s[Nth(S, k)]
         /\ {Selected(s, S)[k] : k \in DOMAIN Selected(s, S)} = {s[i] : i \in S}
<1>1. /\ DOMAIN Selected(s, S) = 1..Cardinality(S)
      /\ \A k \in 1..Cardinality(S) : Nth(S, k) \in S /\ Selected(s, S)[k] = s[Nth(S, k)]
  BY NthIsThere DEF Selected
<1>2. \A i \in S : \E k \in 1..Cardinality(S) : Nth(S, k) = i
  BY NthOfElement
<1>3. ASSUME NEW i \in S
      PROVE  s[i] \in {Selected(s, S)[k] : k \in DOMAIN Selected(s, S)}
  BY <1>1, <1>2
<1>4. {Selected(s, S)[k] : k \in DOMAIN Selected(s, S)} \subseteq {s[i] : i \in S}
  BY <1>1
<1> QED BY <1>1, <1>3, <1>4

(* If no two places hold the same, no value comes twice. *)
LEMMA SelectedApart ==
  ASSUME NEW s, NEW len \in Nat, NEW S, \A i \in S : i \in 1..len,
         \A i, j \in S : i < j => s[i] # s[j]
  PROVE  \A k, l \in DOMAIN Selected(s, S) : Selected(s, S)[k] = Selected(s, S)[l] => k = l
<1>1. ASSUME NEW k \in 1..Cardinality(S), NEW l \in 1..Cardinality(S), k < l
      PROVE  s[Nth(S, k)] # s[Nth(S, l)]
  BY <1>1, NthInOrder, NthIsThere
<1>2. /\ DOMAIN Selected(s, S) = 1..Cardinality(S)
      /\ \A k \in 1..Cardinality(S) : Selected(s, S)[k] = s[Nth(S, k)]
  BY SelectedValues
<1>3. ASSUME NEW k \in 1..Cardinality(S), NEW l \in 1..Cardinality(S),
             s[Nth(S, k)] = s[Nth(S, l)]
      PROVE  k = l
  <2>1. k = l \/ k < l \/ l < k
    BY BelowIsNumber
  <2> QED BY <1>1, <1>3, <2>1
<1> QED BY <1>2, <1>3

(* Append under a name the provers do not look into when they match a fact. *)
Extended(s, v) == Append(s, v)

(* One more place at the end is one more value at the end. *)
LEMMA SelectedOneMore ==
  ASSUME NEW T, NEW s, NEW len \in Nat, NEW S, \A i \in S : i \in 1..len, \A i \in S : s[i] \in T,
         NEW n \in Nat, len < n, s[n] \in T
  PROVE  Selected(s, S \cup {n}) = Extended(Selected(s, S), s[n])
<1> DEFINE more == S \cup {n}
<1>0. (\A i \in more : i \in 1..n) /\ n \notin S /\ \A i \in S : i \in 1..n
  OBVIOUS
<1>1. Cardinality(more) = Cardinality(S) + 1 /\ Cardinality(S) \in Nat
  BY <1>0, BelowIsNumber, FS_AddElement
<1>2. ASSUME NEW k \in 1..Cardinality(S)
      PROVE  Nth(more, k) = Nth(S, k)
  <2> DEFINE i == Nth(S, k)
  <2>1. i \in S /\ Below(S, i) = k
    BY NthIsThere
  <2> HIDE DEF i
  <2>2. Upto(more, i) = Upto(S, i)
    BY <2>1, <1>0 DEF Upto
  <2>3. i \in more /\ Below(more, i) = k
    BY <2>1, <2>2 DEF Below
  <2>4. Nth(more, k) = i
    BY <1>0, <2>3, NthOfElement
  <2> QED BY <2>4 DEF i
<1>3. Nth(more, Cardinality(S) + 1) = n
  <2>1. Upto(more, n) = more
    BY <1>0 DEF Upto
  <2>2. Below(more, n) = Cardinality(S) + 1
    BY <1>1, <2>1 DEF Below
  <2>3. n \in more
    OBVIOUS
  <2>4. Nth(more, Below(more, n)) = n
    BY <1>0, <2>3, NthOfElement
  <2> QED BY <2>2, <2>4
<1>4. /\ Selected(s, S) \in Seq(T) /\ Len(Selected(s, S)) = Cardinality(S)
      /\ Selected(s, more) \in Seq(T) /\ Len(Selected(s, more)) = Cardinality(S) + 1
  BY <1>0, <1>1, SelectedIsSequence
<1>5. \A k \in 1..Cardinality(S) : Selected(s, more)[k] = Selected(s, S)[k]
  <2>1. \A k \in 1..Cardinality(more) : Selected(s, more)[k] = s[Nth(more, k)]
    BY DEF Selected
  <2>2. \A k \in 1..Cardinality(S) : Selected(s, S)[k] = s[Nth(S, k)]
    BY DEF Selected
  <2>3. \A k \in 1..Cardinality(S) : k \in 1..Cardinality(more)
    BY <1>1
  <2> QED BY <1>2, <2>1, <2>2, <2>3
<1>6. Selected(s, more)[Cardinality(S) + 1] = s[n]
  <2>1. Cardinality(S) + 1 \in 1..Cardinality(more)
    BY <1>1
  <2> QED BY <1>3, <2>1 DEF Selected
<1> DEFINE a == Selected(s, S)
           b == Selected(s, more)
<1>7. /\ a \in Seq(T) /\ b \in Seq(T) /\ Len(b) = Len(a) + 1 /\ s[n] \in T /\ b[Len(a) + 1] = s[n]
      /\ \A k \in 1..Len(a) : b[k] = a[k]
  BY <1>4, <1>5, <1>6
<1> HIDE DEF a, b
<1>8. b = Append(a, s[n])
  <2>1. /\ Append(a, s[n]) \in Seq(T) /\ Len(Append(a, s[n])) = Len(a) + 1
        /\ Append(a, s[n])[Len(a) + 1] = s[n]
        /\ \A k \in 1..Len(a) : Append(a, s[n])[k] = a[k]
    BY <1>7, AppendProperties
  <2>2. Len(a) \in Nat
    BY <1>7, LenProperties
  <2>3. \A k \in 1..(Len(a) + 1) : k \in 1..Len(a) \/ k = Len(a) + 1
    BY <2>2
  <2>4. \A k \in 1..Len(b) : b[k] = Append(a, s[n])[k]
    BY <1>7, <2>1, <2>3
  <2> QED BY <1>7, <2>1, <2>4, SeqEqual
<1> QED BY <1>8 DEF a, b, Extended

(* Nothing selected is nothing. *)
LEMMA SelectedNone == ASSUME NEW s PROVE Selected(s, {}) = <<>>
<1>1. Cardinality({}) = 0
  BY FS_EmptySet
<1>2. 1..0 = {}
  OBVIOUS
<1>3. Selected(s, {}) \in Seq({}) /\ Len(Selected(s, {})) = 0
  BY <1>1, SelectedIsSequence, 0 \in Nat
<1> QED BY <1>3, EmptySeq
=============================================================================
