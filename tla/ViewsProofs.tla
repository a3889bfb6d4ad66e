------------------------------ MODULE ViewsProofs ------------------------------
(***************************************************************************)
(* A view is the fold of the rows it has to show, its checkpoints are      *)
(* folds too, and its table shows the state, for any number of rows, any   *)
(* keys and effects, any certificate, any batch size and checkpoint        *)
(* interval, and any faults, restarts, archiving and adoptions.            *)
(*                                                                         *)
(* FoldSound is not inductive.  What it says of a checkpoint speaks of the *)
(* rows that are not pending, and folding a batch makes rows not pending   *)
(* that a checkpoint may already have passed.  The invariant says where a  *)
(* row is instead: a row the view has to show is in its state or waits     *)
(* (Reached), a checkpoint has what the state has up to its order (Kept),  *)
(* and a checkpoint ahead of the state has every row that can still come   *)
(* below it, which only a certificate can bring about (Ahead).             *)
(*                                                                         *)
(* Every refold, of a late row, a rebuild or a registration, is one lemma  *)
(* (RefoldInv), and so is every step that folds a batch on (FoldInv).      *)
(* Both rest on what the loop returns (FoldOK), which is stated of the     *)
(* first j rows and proved of FoldLeft by induction on j.                  *)
(***************************************************************************)
EXTENDS Views, FiniteSetTheorems, SequenceTheorems, WellFoundedInduction, TLAPS

\* A set of natural numbers has a least element.
LEMMA Least ==
  ASSUME NEW S \in SUBSET Nat, S # {}
  PROVE  \E x \in S : \A y \in S : x <= y
<1> DEFINE below == OpToRel(<, Nat)
<1>1. IsWellFoundedOn(below, Nat)  BY NatLessThanWellFounded
<1>2. below = {ss \in Nat \X Nat : ss[1] < ss[2]}  BY DEF OpToRel
<1> HIDE DEF below
<1>3. PICK x \in S : \A y \in S : ~(<<y, x>> \in below)  BY <1>1, WFMin
<1>4. ASSUME NEW y \in S PROVE x <= y
  <2>1. ~(<<y, x>> \in below)  BY <1>3
  <2>2. <<y, x>> \in Nat \X Nat /\ <<y, x>>[1] = y /\ <<y, x>>[2] = x  OBVIOUS
  <2> QED BY <1>2, <2>1, <2>2
<1> QED BY <1>4

\* What has 0 and always the next number has them all.
LEMMA NatInduct ==
  ASSUME NEW S, 0 \in S, \A j \in Nat : j \in S => j + 1 \in S
  PROVE  \A j \in Nat : j \in S
<1> SUFFICES ASSUME NEW k \in Nat, k \notin S PROVE FALSE  OBVIOUS
<1> DEFINE B == {j \in Nat : j \notin S}
<1>1. B \in SUBSET Nat /\ B # {}  OBVIOUS
<1>2. PICK x \in B : \A y \in B : x <= y  BY <1>1, Least
<1>3. x \in Nat /\ x # 0 /\ x - 1 \in Nat /\ x - 1 \notin B  BY <1>2
<1>4. x - 1 \in S  BY <1>3
<1>5. (x - 1) + 1 \in S  BY <1>3, <1>4
<1> QED BY <1>3, <1>5

\* Max picks the greatest element of a bounded set.
LEMMA MaxIn ==
  ASSUME NEW n \in Nat, NEW t \in SUBSET (1..n), t # {}
  PROVE  Max(t) \in t /\ \A k \in t : k <= Max(t)
<1> DEFINE D == {n - k : k \in t}
<1>1. D \in SUBSET Nat /\ D # {}
  <2>1. \A k \in t : n - k \in Nat /\ n - k \in D  OBVIOUS
  <2> QED BY <2>1
<1>2. PICK d \in D : \A u \in D : d <= u  BY <1>1, Least
<1>3. PICK x \in t : d = n - x  OBVIOUS
<1>4. ASSUME NEW k \in t PROVE k <= x
  <2>1. n - k \in D  OBVIOUS
  <2>2. n - x <= n - k  BY <1>2, <1>3, <2>1
  <2> QED BY <2>2
<1> QED BY <1>4 DEF Max

\* Subsets of a finite set, by the number of their elements.
LEMMA SmallerSets ==
  ASSUME NEW T, IsFiniteSet(T)
  PROVE  /\ Cardinality(T) \in Nat
         /\ \A t \in SUBSET T : Cardinality(t) \in Nat /\ Cardinality(t) <= Cardinality(T)
         /\ \A t \in SUBSET T : Cardinality(t) = 0 <=> t = {}
         /\ \A t \in SUBSET T : \A e \in t : /\ t \ {e} \in SUBSET T
                                             /\ Cardinality(t \ {e}) = Cardinality(t) - 1
<1>1. \A t \in SUBSET T : IsFiniteSet(t)  BY FS_Subset
<1>2. Cardinality(T) \in Nat /\ \A t \in SUBSET T : Cardinality(t) \in Nat
  BY <1>1, FS_CardinalityType
<1>3. \A t \in SUBSET T : Cardinality(t) <= Cardinality(T)  BY FS_Subset
<1>4. \A t \in SUBSET T : Cardinality(t) = 0 <=> t = {}  BY <1>1, FS_EmptySet
<1>5. \A t \in SUBSET T : \A e \in t : t \ {e} \in SUBSET T  OBVIOUS
<1>6. \A t \in SUBSET T : \A e \in t : Cardinality(t \ {e}) = Cardinality(t) - 1
  BY <1>1, FS_RemoveElement
<1> QED BY <1>2, <1>3, <1>4, <1>5, <1>6

--------------------------------------------------------------------------------
(* Sequences of rows *)

\* Sorted lists a bounded set of numbers, each once, in increasing order.
LEMMA SortedIs ==
  ASSUME NEW S \in SUBSET Row
  PROVE  Sorted(S) \in Seq(S) /\ Increasing(Sorted(S)) /\ Range(Sorted(S)) = S
<1> DEFINE n == Cardinality(S)
           below(o) == {p \in S : p < o}
           rank == [o \in S |-> Cardinality(below(o)) + 1]
<1>1. S \in SUBSET Nat /\ \A o \in S : o <= MaxOrder  BY Constants DEF Row
<1>2. IsFiniteSet(S) /\ n \in Nat  BY <1>1, Constants, FS_BoundedSetOfNaturals, FS_CardinalityType
<1>3. \A o \in S : IsFiniteSet(below(o)) /\ Cardinality(below(o)) \in Nat
  <2>1. \A o \in S : below(o) \in SUBSET S  OBVIOUS
  <2> QED BY <1>2, <2>1, FS_Subset, FS_CardinalityType
<1>4. \A o \in S : Cardinality(below(o)) < n
  <2> TAKE o \in S
  <2>1. below(o) \in SUBSET S /\ below(o) # S  BY <1>1
  <2>2. Cardinality(below(o)) <= n /\ Cardinality(below(o)) # n  BY <1>2, <2>1, FS_Subset
  <2> QED BY <1>2, <1>3, <2>2
<1>5. \A o \in S, q \in S : o < q => Cardinality(below(o)) < Cardinality(below(q))
  <2> TAKE o \in S, q \in S
  <2> HAVE o < q
  <2>1. below(o) \in SUBSET below(q)
    <3>1. o \in Nat /\ q \in Nat  BY <1>1
    <3>2. ASSUME NEW p \in S, p < o PROVE p < q
      <4>1. p \in Nat  BY <1>1
      <4> QED BY <3>1, <3>2, <4>1
    <3> QED BY <3>2
  <2>2. o \in below(q) /\ o \notin below(o)  BY <1>1
  <2>3. IsFiniteSet(below(q)) /\ Cardinality(below(o)) \in Nat /\ Cardinality(below(q)) \in Nat  BY <1>3
  <2>4. /\ Cardinality(below(o)) <= Cardinality(below(q))
        /\ Cardinality(below(q)) = Cardinality(below(o)) => below(q) = below(o)
    BY <2>1, <2>3, FS_Subset
  <2> QED BY <2>2, <2>3, <2>4
<1> HIDE DEF n, below
<1>6. rank \in Injection(S, 1..n)
  <2>1. rank \in [S -> 1..n]  BY <1>2, <1>3, <1>4
  <2>2. \A o \in S, q \in S : o # q => rank[o] # rank[q]
    <3> TAKE o \in S, q \in S
    <3> HAVE o # q
    <3>1. o < q \/ q < o  BY <1>1
    <3>2. Cardinality(below(o)) \in Nat /\ Cardinality(below(q)) \in Nat  BY <1>3
    <3> QED BY <1>5, <3>1, <3>2
  <2> HIDE DEF rank
  <2>3. DOMAIN rank = S  BY <2>1
  <2>4. IsInjective(rank)  BY <2>2, <2>3 DEF IsInjective
  <2> QED BY <2>1, <2>4 DEF Injection
<1>7. rank \in Surjection(S, 1..n)
  <2>1. IsFiniteSet(1..n) /\ Cardinality(1..n) = n
    <3>1. n \in Int /\ 1 \in Int  BY <1>2
    <3>2. Cardinality(1..n) = IF 1 > n THEN 0 ELSE n - 1 + 1  BY <3>1, FS_Interval
    <3> QED BY <1>2, <3>1, <3>2, FS_Interval
  <2>2. Cardinality(S) = Cardinality(1..n)  BY <2>1 DEF n
  <2> HIDE DEF rank
  <2> QED BY <1>6, <2>1, <2>2, FS_Injection
<1>8. \A i \in 1..n : \E o \in S : Cardinality(below(o)) = i - 1
  <2> TAKE i \in 1..n
  <2>1. PICK o \in S : rank[o] = i  BY <1>7 DEF Surjection
  <2>2. Cardinality(below(o)) + 1 = i /\ Cardinality(below(o)) \in Nat  BY <1>3, <2>1
  <2> QED BY <2>2
<1> DEFINE s == Sorted(S)
<1>9. s = [i \in 1..n |-> CHOOSE o \in S : Cardinality(below(o)) = i - 1]  BY DEF Sorted, n, below
<1>10. \A i \in 1..n : s[i] \in S /\ Cardinality(below(s[i])) = i - 1  BY <1>8, <1>9
<1> HIDE DEF s
<1>11. s \in Seq(S) /\ Len(s) = n /\ DOMAIN s = 1..n  BY <1>2, <1>9, <1>10
<1>12. Increasing(s)
  <2> SUFFICES ASSUME NEW i \in 1..n, NEW j \in 1..n, i < j PROVE s[i] < s[j]
    BY <1>11 DEF Increasing
  <2>1. s[i] \in S /\ s[j] \in S /\ Cardinality(below(s[i])) = i - 1 /\ Cardinality(below(s[j])) = j - 1
    BY <1>10
  <2>2. s[i] # s[j]  BY <2>1, <1>2
  <2>3. ~(s[j] < s[i])  BY <2>1, <1>5, <1>2
  <2>4. s[i] \in Nat /\ s[j] \in Nat  BY <1>1, <2>1
  <2> QED BY <2>2, <2>3, <2>4
<1>13. Range(s) = S
  <2>1. Range(s) \subseteq S  BY <1>10, <1>11 DEF Range
  <2>2. ASSUME NEW o \in S PROVE o \in Range(s)
    <3> DEFINE i == Cardinality(below(o)) + 1
    <3>1. i \in 1..n /\ i - 1 = Cardinality(below(o))  BY <1>2, <1>3, <1>4
    <3>2. s[i] \in S /\ Cardinality(below(s[i])) = Cardinality(below(o))  BY <1>10, <3>1
    <3>3. Cardinality(below(o)) \in Nat  BY <1>3
    <3>4. ~(s[i] < o) /\ ~(o < s[i])  BY <1>5, <3>2, <3>3
    <3>5. s[i] \in Nat /\ o \in Nat  BY <1>1, <3>2
    <3>6. s[i] = o  BY <3>4, <3>5
    <3> QED BY <1>11, <3>1, <3>6 DEF Range
  <2> QED BY <2>1, <2>2
<1> QED BY <1>11, <1>12, <1>13 DEF s

\* Appending a row above the others.
LEMMA AppendRow ==
  ASSUME NEW s \in Seq(Row), Increasing(s), NEW o \in Row, \A p \in Range(s) : p < o
  PROVE  /\ Append(s, o) \in Seq(Row) /\ Increasing(Append(s, o))
         /\ Range(Append(s, o)) = Range(s) \cup {o}
<1> DEFINE t == Append(s, o)
<1>1. /\ t \in Seq(Row) /\ Len(t) = Len(s) + 1 /\ Len(s) \in Nat
      /\ DOMAIN t = 1..(Len(s) + 1) /\ DOMAIN s = 1..Len(s)
      /\ \A i \in 1..Len(s) : t[i] = s[i]
      /\ t[Len(s) + 1] = o
  OBVIOUS
<1> HIDE DEF t
<1>2. Range(t) = Range(s) \cup {o}
  <2>1. \A i \in DOMAIN t : t[i] \in Range(s) \cup {o}
    <3> TAKE i \in DOMAIN t
    <3>1. i \in DOMAIN s \/ i = Len(s) + 1  BY <1>1
    <3> QED BY <1>1, <3>1 DEF Range
  <2>2. \A i \in DOMAIN s : i \in DOMAIN t /\ t[i] = s[i]  BY <1>1
  <2>3. Len(s) + 1 \in DOMAIN t  BY <1>1
  <2> QED BY <1>1, <2>1, <2>2, <2>3 DEF Range
<1>3. Increasing(t)
  <2> SUFFICES ASSUME NEW i \in 1..Len(t), NEW j \in 1..Len(t), i < j PROVE t[i] < t[j]
    BY DEF Increasing
  <2>1. i \in 1..Len(s) /\ t[i] = s[i]  BY <1>1
  <2>2. CASE j \in 1..Len(s)  BY <1>1, <2>1, <2>2 DEF Increasing
  <2>3. CASE j = Len(s) + 1
    <3>1. t[j] = o /\ s[i] \in Range(s)  BY <1>1, <2>1, <2>3 DEF Range
    <3> QED BY <2>1, <3>1
  <2> QED BY <1>1, <2>2, <2>3
<1> QED BY <1>1, <1>2, <1>3 DEF t

\* Concatenating two sequences of rows.
LEMMA CatRows ==
  ASSUME NEW s \in Seq(Row), Increasing(s), NEW u \in Seq(Row), Increasing(u),
         \A p \in Range(s), q \in Range(u) : p < q
  PROVE  s \o u \in Seq(Row) /\ Increasing(s \o u) /\ Range(s \o u) = Range(s) \cup Range(u)
<1> DEFINE t == s \o u
<1>1. /\ t \in Seq(Row) /\ Len(t) = Len(s) + Len(u) /\ Len(s) \in Nat /\ Len(u) \in Nat
      /\ DOMAIN t = 1..(Len(s) + Len(u)) /\ DOMAIN s = 1..Len(s) /\ DOMAIN u = 1..Len(u)
      /\ \A i \in 1..Len(s) : t[i] = s[i]
      /\ \A i \in 1..(Len(s) + Len(u)) : i > Len(s) => t[i] = u[i - Len(s)]
  OBVIOUS
<1> HIDE DEF t
<1>2. \A i \in DOMAIN t : \/ i \in DOMAIN s /\ t[i] = s[i] /\ s[i] \in Range(s)
                          \/ i > Len(s) /\ i - Len(s) \in DOMAIN u /\ t[i] = u[i - Len(s)] /\ t[i] \in Range(u)
  BY <1>1 DEF Range
<1>3. Range(t) = Range(s) \cup Range(u)
  <2>1. \A i \in DOMAIN s : i \in DOMAIN t /\ t[i] = s[i]  BY <1>1
  <2>2. \A i \in DOMAIN u : i + Len(s) \in DOMAIN t /\ t[i + Len(s)] = u[i]
    <3> TAKE i \in DOMAIN u
    <3>1. i + Len(s) \in 1..(Len(s) + Len(u)) /\ i + Len(s) > Len(s) /\ (i + Len(s)) - Len(s) = i
      BY <1>1
    <3> QED BY <1>1, <3>1
  <2>3. Range(t) \subseteq Range(s) \cup Range(u)  BY <1>2 DEF Range
  <2>4. Range(s) \subseteq Range(t) /\ Range(u) \subseteq Range(t)  BY <2>1, <2>2 DEF Range
  <2> QED BY <2>3, <2>4
<1>4. Increasing(t)
  <2> SUFFICES ASSUME NEW i \in DOMAIN t, NEW j \in DOMAIN t, i < j PROVE t[i] < t[j]
    BY <1>1 DEF Increasing
  <2>1. CASE i \in DOMAIN s /\ j \in DOMAIN s  BY <1>1, <2>1 DEF Increasing
  <2>2. CASE i \in DOMAIN s /\ j > Len(s)  BY <1>1, <1>2, <2>2
  <2>3. CASE i > Len(s)
    <3>1. j > Len(s)  BY <1>1, <2>3
    <3>2. i - Len(s) \in 1..Len(u) /\ j - Len(s) \in 1..Len(u) /\ i - Len(s) < j - Len(s)
      BY <1>1, <2>3, <3>1
    <3> QED BY <1>1, <2>3, <3>1, <3>2 DEF Increasing
  <2> QED BY <1>1, <1>2, <2>1, <2>2, <2>3
<1> QED BY <1>1, <1>3, <1>4 DEF t

\* The empty sequence.
LEMMA NoRows == << >> \in Seq(Row) /\ Increasing(<< >>) /\ Range(<< >>) = {}
BY DEF Increasing, Range

\* The first n rows of a sequence, and the others.
LEMMA CutRows ==
  ASSUME NEW s \in Seq(Row), Increasing(s), NEW n \in 0..Len(s)
  PROVE  /\ SubSeq(s, 1, n) \in Seq(Row) /\ Increasing(SubSeq(s, 1, n))
         /\ Range(SubSeq(s, 1, n)) \subseteq Range(s)
         /\ Range(s) = Range(SubSeq(s, 1, n)) \cup Range(SubSeq(s, n + 1, Len(s)))
         /\ \A p \in Range(SubSeq(s, 1, n)), q \in Range(SubSeq(s, n + 1, Len(s))) : p < q
<1> DEFINE a == SubSeq(s, 1, n)
           b == SubSeq(s, n + 1, Len(s))
<1>1. Len(s) \in Nat /\ n \in Nat /\ n <= Len(s) /\ DOMAIN s = 1..Len(s)  OBVIOUS
<1>2. a \in Seq(Row) /\ Len(a) = n /\ DOMAIN a = 1..n /\ \A i \in 1..n : a[i] = s[i]
  BY <1>1
<1>3. /\ Len(b) = Len(s) - n /\ DOMAIN b = 1..(Len(s) - n)
      /\ \A i \in 1..(Len(s) - n) : b[i] = s[n + i]
  <2>1. n + 1 \in Int /\ Len(s) \in Int /\ \A i \in (n + 1)..Len(s) : s[i] \in Row  BY <1>1
  <2> HIDE DEF b
  <2>2. /\ b \in Seq(Row)
        /\ Len(b) = IF n + 1 <= Len(s) THEN Len(s) - (n + 1) + 1 ELSE 0
        /\ \A i \in 1..(Len(s) - (n + 1) + 1) : b[i] = s[(n + 1) + i - 1]
    BY <2>1, SubSeqProperties DEF b
  <2>3. \A i \in 1..(Len(s) - n) : (n + 1) + i - 1 = n + i  BY <1>1
  <2>4. Len(s) - (n + 1) + 1 = Len(s) - n /\ (~(n + 1 <= Len(s)) => Len(s) - n = 0)
    <3>1. \A m \in Nat : n <= m => m - (n + 1) + 1 = m - n /\ (~(n + 1 <= m) => m - n = 0)
      BY ONLY n \in Nat
    <3> QED BY ONLY <1>1, <3>1
  <2>5. Len(b) = Len(s) - n  BY ONLY <2>2, <2>4
  <2>6. DOMAIN b = 1..Len(b)  BY ONLY <2>2
  <2> QED BY ONLY <2>2, <2>3, <2>4, <2>5, <2>6
<1> HIDE DEF a, b
<1>4. Increasing(a)  BY <1>1, <1>2 DEF Increasing
<1>5. Range(a) \subseteq Range(s)  BY <1>1, <1>2 DEF Range
<1>6. Range(b) \subseteq Range(s)
  <2>1. \A i \in DOMAIN b : n + i \in DOMAIN s /\ b[i] = s[n + i]  BY <1>1, <1>3
  <2> QED BY <2>1 DEF Range
<1>7. ASSUME NEW i \in DOMAIN s PROVE s[i] \in Range(a) \cup Range(b)
  <2>1. CASE i <= n  BY <1>1, <1>2, <2>1 DEF Range
  <2>2. CASE i > n
    <3>1. i - n \in DOMAIN b /\ b[i - n] = s[i]  BY <1>1, <1>3, <2>2
    <3> QED BY <3>1 DEF Range
  <2> QED BY <1>1, <2>1, <2>2
<1>8. Range(s) = Range(a) \cup Range(b)  BY <1>5, <1>6, <1>7 DEF Range
<1>9. \A p \in Range(a), q \in Range(b) : p < q
  <2> SUFFICES ASSUME NEW i \in 1..n, NEW j \in 1..(Len(s) - n) PROVE a[i] < b[j]
    BY <1>2, <1>3 DEF Range
  <2>1. n + j \in 1..Len(s) /\ i \in 1..Len(s) /\ i < n + j  BY <1>1
  <2> QED BY <1>2, <1>3, <2>1 DEF Increasing
<1> QED BY <1>2, <1>4, <1>5, <1>8, <1>9 DEF a, b

--------------------------------------------------------------------------------
(* rows and applyDelta *)

\* Where a state mentions a key.
Mine(s, k) == {i \in 1..Len(s) : Effect[s[i]].key = k}

\* rows shows the last mention of each key.
LEMMA RowsAt ==
  ASSUME NEW s \in Seq(Row), NEW k \in Key
  PROVE  /\ Mine(s, k) = {} => rows(s)[k] = 0
         /\ \A n \in Mine(s, k) : (\A i \in Mine(s, k) : i <= n) =>
              rows(s)[k] = IF Effect[s[n]].del THEN 0 ELSE s[n]
<1> DEFINE m == IF Mine(s, k) # {} THEN Max(Mine(s, k)) ELSE 0
<1>1. rows(s)[k] = IF m = 0 THEN 0 ELSE IF Effect[s[m]].del THEN 0 ELSE s[m]
  BY DEF rows, SelectLastInSeq, Mine
<1>2. Mine(s, k) \in SUBSET (1..Len(s)) /\ Len(s) \in Nat  BY DEF Mine
<1>3. Mine(s, k) # {} => m \in Mine(s, k) /\ \A i \in Mine(s, k) : i <= m  BY <1>2, MaxIn
<1>4. ASSUME NEW n \in Mine(s, k), \A i \in Mine(s, k) : i <= n PROVE m = n /\ m # 0
  <2>1. m \in Mine(s, k) /\ n <= m /\ m <= n  BY <1>3, <1>4
  <2>2. m \in 1..Len(s) /\ n \in 1..Len(s)  BY <1>2, <2>1
  <2> QED BY <1>2, <2>1, <2>2
<1> HIDE DEF m
<1>5. Mine(s, k) = {} => m = 0  BY DEF m
<1> QED BY <1>1, <1>4, <1>5

\* A mention that is the last one.
LEMMA LastMention ==
  ASSUME NEW s \in Seq(Row), NEW k \in Key, Mine(s, k) # {}
  PROVE  \E n \in Mine(s, k) : \A i \in Mine(s, k) : i <= n
<1>1. Mine(s, k) \in SUBSET (1..Len(s)) /\ Len(s) \in Nat  BY DEF Mine
<1> QED BY <1>1, MaxIn

\* rows makes a table.
LEMMA RowsType == \A s \in Seq(Row) : rows(s) \in [Key -> 0..MaxOrder]
<1> TAKE s \in Seq(Row)
<1>1. rows(s) = [k \in Key |-> rows(s)[k]]  BY DEF rows
<1>2. ASSUME NEW k \in Key PROVE rows(s)[k] \in 0..MaxOrder
  <2>1. 0 \in 0..MaxOrder /\ Row \subseteq 0..MaxOrder  BY Constants DEF Row
  <2>2. CASE Mine(s, k) = {}  BY <2>1, <2>2, RowsAt
  <2>3. CASE Mine(s, k) # {}
    <3>1. PICK n \in Mine(s, k) : \A i \in Mine(s, k) : i <= n  BY <2>3, LastMention
    <3>2. s[n] \in Row  BY DEF Mine
    <3> QED BY <2>1, <3>1, <3>2, RowsAt
  <2> QED BY <2>2, <2>3
<1> QED BY <1>1, <1>2

\* The delta of a row turns the table of a state into that of the next state.
LEMMA DeltaAgrees ==
  ASSUME NEW s \in Seq(Row), NEW o \in Row
  PROVE  rows(Append(s, o)) = applyDelta(rows(s), o)
<1> DEFINE t == Append(s, o)
           n == Len(s) + 1
<1>1. /\ t \in Seq(Row) /\ Len(t) = n /\ Len(s) \in Nat /\ n \in 1..Len(t)
      /\ \A i \in 1..Len(s) : t[i] = s[i]
      /\ t[n] = o
  OBVIOUS
<1> HIDE DEF t
<1>2. rows(t) \in [Key -> 0..MaxOrder] /\ rows(s) \in [Key -> 0..MaxOrder]  BY <1>1, RowsType
<1>3. Effect[o].key \in Key  BY Constants DEF Row
<1>4. ASSUME NEW k \in Key
      PROVE  rows(t)[k] = IF k = Effect[o].key THEN IF Effect[o].del THEN 0 ELSE o ELSE rows(s)[k]
  <2>1. \A i \in Mine(t, k) : i = n \/ i \in Mine(s, k)  BY <1>1 DEF Mine
  <2>2. CASE k = Effect[o].key
    <3>1. n \in Mine(t, k)  BY <1>1, <2>2 DEF Mine
    <3>2. \A i \in Mine(t, k) : i <= n  BY <1>1 DEF Mine
    <3> QED BY <1>1, <2>2, <3>1, <3>2, RowsAt
  <2>3. CASE k # Effect[o].key
    <3>1. Mine(t, k) = Mine(s, k)
      <4>1. n \notin Mine(t, k)  BY <1>1, <2>3 DEF Mine
      <4>2. \A i \in Mine(s, k) : i \in Mine(t, k)  BY <1>1 DEF Mine
      <4> QED BY <2>1, <4>1, <4>2
    <3>2. CASE Mine(s, k) = {}  BY <1>1, <2>3, <3>1, <3>2, RowsAt
    <3>3. CASE Mine(s, k) # {}
      <4>1. PICK m \in Mine(s, k) : \A i \in Mine(s, k) : i <= m  BY <3>3, LastMention
      <4>2. t[m] = s[m]  BY <1>1 DEF Mine
      <4>3. rows(s)[k] = IF Effect[s[m]].del THEN 0 ELSE s[m]  BY <4>1, RowsAt
      <4>4. rows(t)[k] = IF Effect[t[m]].del THEN 0 ELSE t[m]  BY <1>1, <3>1, <4>1, RowsAt
      <4> QED BY <2>3, <4>2, <4>3, <4>4
    <3> QED BY <3>2, <3>3
  <2> QED BY <2>2, <2>3
<1> QED BY <1>2, <1>3, <1>4 DEF applyDelta, t

--------------------------------------------------------------------------------
(* The fold *)

Tables == [Key -> 0..MaxOrder]
Ckpt == [ord : Row, state : Seq(Row)]
FoldState ==
  [state : Seq(Row), ord : 0..MaxOrder, since : 0..(CHECKPOINT_EVERY - 1), ckpts : SUBSET Ckpt,
   table : Tables, mirror : Tables, alarm : BOOLEAN]

\* A fold of the rows s can start from x.
Foldable(x, s) ==
  /\ x \in FoldState /\ Increasing(x.state) /\ \A p \in Range(x.state) : p <= x.ord
  /\ s \in Seq(Row) /\ Increasing(s) /\ \A o \in Range(s) : x.ord < o

\* A checkpoint that a fold of s from x stores.
Made(x, s, c) ==
  /\ c \in Ckpt /\ c.ord \in Range(s) /\ Increasing(c.state)
  /\ Range(c.state) = Range(x.state) \cup {o \in Range(s) : o <= c.ord}

\* What the fold of s from x is after j rows.
FoldedTo(x, s, d, j, y) ==
  /\ y \in FoldState /\ Increasing(y.state)
  /\ Range(y.state) = Range(x.state) \cup {s[i] : i \in 1..j}
  /\ y.ord = IF j = 0 THEN x.ord ELSE s[j]
  /\ \A c \in y.ckpts : c \in x.ckpts \/ Made(x, s, c)
  /\ ~delta => y.table = x.table /\ y.mirror = x.mirror
  /\ d /\ x.table = rows(x.state) => y.table = rows(y.state)

\* The turn of the loop.
Turn(y, o, d) == reduce(IF d THEN [y EXCEPT !.table = applyDelta(@, o)] ELSE y, o)

\* A table changed by a delta is a table.
LEMMA DeltaType ==
  ASSUME NEW t \in Tables, NEW o \in Row
  PROVE  applyDelta(t, o) \in Tables
<1>1. Effect[o].key \in Key  BY Constants DEF Row
<1>2. 0 \in 0..MaxOrder /\ o \in 0..MaxOrder  BY Constants DEF Row
<1> QED BY <1>1, <1>2 DEF applyDelta, Tables

\* A fold state by its fields.
Rec(a, b, c, k, t, m, l) ==
  [state |-> a, ord |-> b, since |-> c, ckpts |-> k, table |-> t, mirror |-> m, alarm |-> l]

\* A record with these fields and values is Rec of the values.
LEMMA RecIs ==
  ASSUME NEW a, NEW b, NEW c, NEW k, NEW t, NEW m, NEW l,
         NEW y \in [state : {a}, ord : {b}, since : {c}, ckpts : {k}, table : {t}, mirror : {m}, alarm : {l}]
  PROVE  y = Rec(a, b, c, k, t, m, l)
BY DEF Rec

\* A fold state is Rec of its fields.
LEMMA RecOf ==
  ASSUME NEW y \in FoldState
  PROVE  y = Rec(y.state, y.ord, y.since, y.ckpts, y.table, y.mirror, y.alarm)
BY DEF Rec, FoldState

\* Rec of values of their types is a fold state.
LEMMA RecType ==
  ASSUME NEW a \in Seq(Row), NEW b \in 0..MaxOrder, NEW c \in 0..(CHECKPOINT_EVERY - 1),
         NEW k \in SUBSET Ckpt, NEW t \in Tables, NEW m \in Tables, NEW l \in BOOLEAN
  PROVE  Rec(a, b, c, k, t, m, l) \in FoldState
BY DEF Rec, FoldState

\* The rows before the next one, and the ones up to it.
LEMMA NextRow ==
  ASSUME NEW x, NEW s, Foldable(x, s), NEW j \in Nat, j < Len(s)
  PROVE  /\ j + 1 \in 1..Len(s) /\ s[j + 1] \in Row /\ s[j + 1] \in Range(s)
         /\ \A p \in Range(x.state) \cup {s[i] : i \in 1..j} : p < s[j + 1]
         /\ {s[i] : i \in 1..(j + 1)} = {s[i] : i \in 1..j} \cup {s[j + 1]}
         /\ {o \in Range(s) : o <= s[j + 1]} = {s[i] : i \in 1..(j + 1)}
<1>1. /\ s \in Seq(Row) /\ Len(s) \in Nat /\ DOMAIN s = 1..Len(s) /\ Row \subseteq Nat
      /\ x.ord \in Nat /\ x.state \in Seq(Row)
  BY Constants DEF Foldable, FoldState, Row
<1>2. j + 1 \in 1..Len(s) /\ \A i \in 1..j : i \in 1..Len(s)  BY <1>1
<1>3. \A i \in 1..Len(s) : s[i] \in Row /\ s[i] \in Range(s) /\ s[i] \in Nat
  <2>1. \A i \in 1..Len(s) : s[i] \in Row  BY <1>1
  <2>2. \A i \in 1..Len(s) : s[i] \in Range(s)  BY <1>1 DEF Range
  <2> QED BY <1>1, <2>1, <2>2
<1>4. \A i \in 1..Len(s), k \in 1..Len(s) : i < k => s[i] < s[k]  BY DEF Foldable, Increasing
<1>5. \A p \in Range(x.state) : p < s[j + 1]
  <2> TAKE p \in Range(x.state)
  <2>1. p \in Row  BY <1>1 DEF Range
  <2>2. p <= x.ord /\ x.ord < s[j + 1]  BY <1>2, <1>3 DEF Foldable
  <2>3. p \in Nat /\ s[j + 1] \in Nat  BY <1>1, <1>2, <1>3, <2>1
  <2> QED BY <1>1, <2>2, <2>3
<1>6. \A i \in 1..j : s[i] < s[j + 1]  BY <1>2, <1>4
<1>7. \A i \in 1..(j + 1) : i \in 1..j \/ i = j + 1  OBVIOUS
<1>8. \A i \in 1..j : i \in 1..(j + 1)  OBVIOUS
<1>9. {s[i] : i \in 1..(j + 1)} = {s[i] : i \in 1..j} \cup {s[j + 1]}
  <2>1. j + 1 \in 1..(j + 1)  OBVIOUS
  <2> QED BY <1>7, <1>8, <2>1
<1>10. {o \in Range(s) : o <= s[j + 1]} = {s[i] : i \in 1..(j + 1)}
  <2>1. ASSUME NEW i \in 1..(j + 1) PROVE s[i] \in Range(s) /\ s[i] <= s[j + 1]
    <3>1. i \in 1..Len(s)  BY <1>2, <1>7
    <3>2. s[i] \in Nat /\ s[j + 1] \in Nat  BY <1>2, <1>3, <3>1
    <3>3. s[i] < s[j + 1] \/ s[i] = s[j + 1]  BY <1>6, <1>7
    <3> QED BY <1>3, <3>1, <3>2, <3>3
  <2>2. ASSUME NEW o \in Range(s), o <= s[j + 1] PROVE o \in {s[i] : i \in 1..(j + 1)}
    <3>1. PICK i \in 1..Len(s) : o = s[i]  BY <1>1 DEF Range
    <3>2. s[i] \in Nat /\ s[j + 1] \in Nat  BY <1>2, <1>3
    <3>3. ~(j + 1 < i)  BY <1>2, <1>4, <2>2, <3>1, <3>2
    <3>4. i \in 1..(j + 1)  BY <1>1, <3>3
    <3> QED BY <3>1, <3>4
  <2> QED BY <2>1, <2>2
<1> QED BY <1>2, <1>3, <1>5, <1>6, <1>9, <1>10

\* One turn of the loop takes the fold one row further.
LEMMA TurnOK ==
  ASSUME delta \in BOOLEAN, NEW x, NEW s, Foldable(x, s), NEW d \in BOOLEAN, d => delta,
         NEW j \in Nat, j < Len(s), NEW y, FoldedTo(x, s, d, j, y)
  PROVE  FoldedTo(x, s, d, j + 1, Turn(y, s[j + 1], d))
<1> DEFINE o == s[j + 1]
           t == IF d THEN applyDelta(y.table, o) ELSE y.table
           f == Append(y.state, o)
           c == [ord |-> o, state |-> f]
           w == Rec(f, o, y.since + 1, y.ckpts, t, y.mirror, y.alarm)
           P == Puts(y.ckpts, c)
           v == Rec(f, o, 0, P, t, y.mirror, y.alarm)
           r == rows(f)
           u == Rec(f, o, 0, P, r, r, TRUE)
           z == Turn(y, o, d)
<1>1. /\ o \in Row /\ o \in Range(s)
      /\ \A p \in Range(x.state) \cup {s[i] : i \in 1..j} : p < o
      /\ {s[i] : i \in 1..(j + 1)} = {s[i] : i \in 1..j} \cup {o}
      /\ {q \in Range(s) : q <= o} = {s[i] : i \in 1..(j + 1)}
  BY NextRow
<1> HIDE DEF o
<1>2. y \in FoldState /\ y.state \in Seq(Row) /\ Increasing(y.state)  BY DEF FoldedTo, FoldState
<1>3. t \in Tables /\ y.mirror \in Tables /\ y.alarm \in BOOLEAN
  BY <1>1, <1>2, DeltaType DEF FoldState
<1>4. /\ f \in Seq(Row) /\ Increasing(f)
      /\ Range(f) = Range(x.state) \cup {s[i] : i \in 1..(j + 1)}
  <2>1. \A p \in Range(y.state) : p < o  BY <1>1 DEF FoldedTo
  <2>2. f \in Seq(Row) /\ Increasing(f) /\ Range(f) = Range(y.state) \cup {o}
    BY <1>1, <1>2, <2>1, AppendRow
  <2>3. Range(y.state) = Range(x.state) \cup {s[i] : i \in 1..j}  BY DEF FoldedTo
  <2> HIDE DEF f
  <2> QED BY <1>1, <2>2, <2>3
<1>5. z = IF y.since + 1 >= CHECKPOINT_EVERY THEN IF ~delta \/ t = r THEN v ELSE u ELSE w
  <2> DEFINE y1 == IF d THEN [y EXCEPT !.table = applyDelta(@, o)] ELSE y
             y2 == [y1 EXCEPT !.state = Append(@, o), !.ord = o, !.since = @ + 1]
             R(p1, p2, p3, p4, p5, p6, p7) ==
               [state : {p1}, ord : {p2}, since : {p3}, ckpts : {p4}, table : {p5}, mirror : {p6}, alarm : {p7}]
  <2>1. y = Rec(y.state, y.ord, y.since, y.ckpts, y.table, y.mirror, y.alarm)  BY <1>2, RecOf
  <2>2. y1 = Rec(y.state, y.ord, y.since, y.ckpts, t, y.mirror, y.alarm)
    <3>1. [y EXCEPT !.table = applyDelta(@, o)] = [y EXCEPT !.table = applyDelta(y.table, o)]  OBVIOUS
    <3>2. [y EXCEPT !.table = applyDelta(y.table, o)]
            = Rec(y.state, y.ord, y.since, y.ckpts, applyDelta(y.table, o), y.mirror, y.alarm)
      <4> DEFINE b == applyDelta(y.table, o)
                 q == [y EXCEPT !.table = b]
      <4> HIDE DEF b
      <4>1. q \in R(y.state, y.ord, y.since, y.ckpts, b, y.mirror, y.alarm)  BY <1>2 DEF FoldState
      <4> HIDE DEF q
      <4>2. q = Rec(y.state, y.ord, y.since, y.ckpts, b, y.mirror, y.alarm)  BY ONLY <4>1, RecIs
      <4> QED BY <4>2 DEF q, b
    <3> QED BY <2>1, <3>1, <3>2
  <2> HIDE DEF t, y1
  <2>3. y1.state = y.state /\ y1.since = y.since  BY <2>2 DEF Rec
  <2>4. y2 = w
    <3>1. y2 = [y1 EXCEPT !.state = Append(y1.state, o), !.ord = o, !.since = y1.since + 1]  OBVIOUS
    <3>2. [y1 EXCEPT !.state = Append(y1.state, o), !.ord = o, !.since = y1.since + 1]
            = Rec(Append(y1.state, o), o, y1.since + 1, y.ckpts, t, y.mirror, y.alarm)
      <4> DEFINE a == Append(y1.state, o)
                 b == y1.since + 1
                 q == [y1 EXCEPT !.state = a, !.ord = o, !.since = b]
      <4> HIDE DEF a, b
      <4>1. q \in R(a, o, b, y.ckpts, t, y.mirror, y.alarm)  BY <2>2 DEF Rec
      <4> HIDE DEF q
      <4>2. q = Rec(a, o, b, y.ckpts, t, y.mirror, y.alarm)  BY ONLY <4>1, RecIs
      <4> QED BY <4>2 DEF q, a, b
    <3> QED BY <2>3, <3>1, <3>2
  <2>5. z = IF y2.since >= CHECKPOINT_EVERY THEN checkpoint(y2) ELSE y2  BY DEF Turn, reduce, y1
  <2> HIDE DEF y2, w, z, f, v, u, r, c, P
  <2>6. w.since = y.since + 1 /\ w.ord = o /\ w.state = f /\ w.ckpts = y.ckpts  BY DEF w, Rec
  <2>7. checkpoint(w) = verifyDelta(v)
    <3>1. checkpoint(w) = verifyDelta([w EXCEPT !.since = 0, !.ckpts = P])
      BY <2>6 DEF checkpoint, P, c
    <3>2. [w EXCEPT !.since = 0, !.ckpts = P] = v
      <4> DEFINE q == [w EXCEPT !.since = 0, !.ckpts = P]
      <4>1. q \in R(f, o, 0, P, t, y.mirror, y.alarm)  BY DEF w, Rec
      <4> HIDE DEF q
      <4>2. q = Rec(f, o, 0, P, t, y.mirror, y.alarm)  BY ONLY <4>1, RecIs
      <4> QED BY <4>2 DEF q, v
    <3> QED BY <3>1, <3>2
  <2>8. v.state = f /\ v.table = t  BY DEF v, Rec
  <2>9. [v EXCEPT !.table = r, !.mirror = r, !.alarm = TRUE] = u
    <3> DEFINE yes == TRUE
               q == [v EXCEPT !.table = r, !.mirror = r, !.alarm = yes]
    <3> HIDE DEF yes
    <3>1. q \in R(f, o, 0, P, r, r, yes)  BY DEF v, Rec
    <3> HIDE DEF q
    <3>2. q = Rec(f, o, 0, P, r, r, yes)  BY ONLY <3>1, RecIs
    <3> QED BY <3>2 DEF q, u, yes
  <2>10. verifyDelta(v) = IF ~delta \/ t = r THEN v ELSE u  BY <2>8, <2>9 DEF verifyDelta, r
  <2> QED BY <2>4, <2>5, <2>6, <2>7, <2>10
<1>6. Made(x, s, c)
  <2>1. c \in Ckpt /\ c.ord = o /\ c.state = f  BY <1>1, <1>4 DEF Ckpt
  <2> HIDE DEF c, f
  <2> QED BY <1>1, <1>4, <2>1 DEF Made
<1>7. r \in Tables  BY <1>4, RowsType DEF Tables
<1>8. d /\ x.table = rows(x.state) => t = r
  <2> HAVE d /\ x.table = rows(x.state)
  <2>1. y.table = rows(y.state)  BY DEF FoldedTo
  <2>2. rows(Append(y.state, o)) = applyDelta(rows(y.state), o)  BY <1>1, <1>2, DeltaAgrees
  <2> QED BY <2>1, <2>2
<1>9. ~delta => t = x.table /\ y.mirror = x.mirror  BY DEF FoldedTo
<1>10. /\ y.ckpts \in SUBSET Ckpt /\ \A e \in y.ckpts : e \in x.ckpts \/ Made(x, s, e)
       /\ P \in SUBSET Ckpt /\ \A e \in P : e \in x.ckpts \/ Made(x, s, e)
  <2>1. y.ckpts \in SUBSET Ckpt /\ \A e \in y.ckpts : e \in x.ckpts \/ Made(x, s, e)
    BY DEF FoldedTo, FoldState
  <2>2. c \in Ckpt  BY <1>6 DEF Made
  <2> HIDE DEF c
  <2> QED BY <1>6, <2>1, <2>2 DEF Puts
<1>11. y.since \in 0..(CHECKPOINT_EVERY - 1) /\ CHECKPOINT_EVERY \in Nat \ {0}
  BY <1>2, Constants DEF FoldState
<1>12. o \in 0..MaxOrder /\ 0 \in 0..(CHECKPOINT_EVERY - 1)  BY <1>1, <1>11, Constants DEF Row
<1> HIDE DEF t, f, c, P, r, z
<1>13. ASSUME NEW q, NEW k, q \in FoldState, q.state = f, q.ord = o, q.ckpts = k,
              \A e \in k : e \in x.ckpts \/ Made(x, s, e),
              ~delta => q.table = t /\ q.mirror = y.mirror,
              t = r \/ delta => (q.table = r \/ (t # r /\ q.table = t)), z = q
       PROVE  FoldedTo(x, s, d, j + 1, z)
  <2>1. d /\ x.table = rows(x.state) => q.table = rows(q.state)  BY <1>8, <1>13 DEF r
  <2>2. q.ord = IF j + 1 = 0 THEN x.ord ELSE s[j + 1]  BY <1>13 DEF o
  <2>3. ~delta => q.table = x.table /\ q.mirror = x.mirror  BY <1>9, <1>13
  <2> QED BY <1>4, <1>13, <2>1, <2>2, <2>3 DEF FoldedTo
<1>14. FoldedTo(x, s, d, j + 1, z)
  <2>1. CASE ~(y.since + 1 >= CHECKPOINT_EVERY)
    <3>1. z = w  BY <1>5, <2>1
    <3>4. y.since + 1 \in 0..(CHECKPOINT_EVERY - 1)  BY ONLY <1>11, <2>1
    <3>2. w \in FoldState  BY <1>3, <1>4, <1>10, <1>12, <3>4, RecType
    <3>3. w.state = f /\ w.ord = o /\ w.ckpts = y.ckpts /\ w.table = t /\ w.mirror = y.mirror
      BY DEF Rec
    <3> HIDE DEF w
    <3> QED BY <1>10, <1>13, <3>1, <3>2, <3>3
  <2>2. CASE y.since + 1 >= CHECKPOINT_EVERY /\ (~delta \/ t = r)
    <3>1. z = v  BY <1>5, <2>2
    <3>2. v \in FoldState  BY <1>3, <1>4, <1>10, <1>12, RecType
    <3>3. v.state = f /\ v.ord = o /\ v.ckpts = P /\ v.table = t /\ v.mirror = y.mirror
      BY DEF Rec
    <3> HIDE DEF v
    <3> QED BY <1>10, <1>13, <3>1, <3>2, <3>3
  <2>3. CASE y.since + 1 >= CHECKPOINT_EVERY /\ ~(~delta \/ t = r)
    <3>1. z = u  BY <1>5, <2>3
    <3>2. u \in FoldState  BY <1>4, <1>7, <1>10, <1>12, RecType
    <3>3. u.state = f /\ u.ord = o /\ u.ckpts = P /\ u.table = r  BY DEF Rec
    <3> HIDE DEF u
    <3> QED BY <1>10, <1>13, <2>3, <3>1, <3>2, <3>3
  <2> QED BY <2>1, <2>2, <2>3
<1> QED BY <1>14 DEF z, o

\* The whole loop.  FoldLeft chooses a function by a recursive equation over the
\* sets of positions: the equation has a solution, built up to sets of j elements
\* for every j, and the chosen one then folds the first j rows, for every j.
LEMMA FoldOK ==
  ASSUME delta \in BOOLEAN, NEW x, NEW s, Foldable(x, s), NEW d \in BOOLEAN, d => delta
  PROVE  FoldedTo(x, s, d, Len(s), FoldRows(x, s, d))
<1> DEFINE T == DOMAIN s
           Pick(t) == Max(t)
           Op(y, e) == Turn(y, s[e], d)
           Right(f, t) == f[t] = IF t = {} THEN x ELSE Op(f[t \ {Pick(t)}], Pick(t))
           Upto(j) == \E f : \A t \in SUBSET T : Cardinality(t) <= j => Right(f, t)
           It(f) == f = [t \in SUBSET T |-> IF t = {} THEN x ELSE Op(f[t \ {Pick(t)}], Pick(t))]
           F == CHOOSE f : It(f)
<1>1. FoldRows(x, s, d) = F[T]  BY DEF FoldRows, FoldLeft, MapThenFoldSet, Turn
<1>2. T = 1..Len(s) /\ Len(s) \in Nat  BY DEF Foldable
<1>3. IsFiniteSet(T)  BY <1>2, FS_Interval
<1>4. \A t \in SUBSET T : t # {} => Pick(t) \in t /\ \A k \in t : k <= Pick(t)  BY <1>2, MaxIn
<1>5. \A y : \A j \in Nat : j < Len(s) /\ FoldedTo(x, s, d, j, y) => FoldedTo(x, s, d, j + 1, Op(y, j + 1))
  BY TurnOK
<1>6. FoldedTo(x, s, d, 0, x)
  <2>1. {s[i] : i \in 1..0} = {}  OBVIOUS
  <2> QED BY <2>1 DEF FoldedTo, Foldable
<1> HIDE DEF T, Pick, Op
<1>7. /\ Cardinality(T) \in Nat
      /\ \A t \in SUBSET T : Cardinality(t) \in Nat /\ Cardinality(t) <= Cardinality(T)
      /\ \A t \in SUBSET T : Cardinality(t) = 0 <=> t = {}
      /\ \A t \in SUBSET T : \A e \in t : /\ t \ {e} \in SUBSET T
                                          /\ Cardinality(t \ {e}) = Cardinality(t) - 1
  BY <1>3, SmallerSets
<1>8. Upto(0)
  <2> DEFINE f == [t \in SUBSET T |-> x]
  <2>1. \A t \in SUBSET T : Cardinality(t) <= 0 => Right(f, t)  BY <1>7
  <2> QED BY <2>1
<1>9. ASSUME NEW j \in Nat, Upto(j) PROVE Upto(j + 1)
  <2>1. PICK f : \A t \in SUBSET T : Cardinality(t) <= j => Right(f, t)  BY <1>9
  <2> DEFINE g == [t \in SUBSET T |-> IF Cardinality(t) = j + 1
                                      THEN Op(f[t \ {Pick(t)}], Pick(t)) ELSE f[t]]
  <2>2. ASSUME NEW t \in SUBSET T, Cardinality(t) <= j + 1 PROVE Right(g, t)
    <3>1. CASE t = {}
      <4>1. Cardinality(t) = 0  BY <1>7, <3>1
      <4>2. Cardinality(t) <= j /\ Cardinality(t) # j + 1  BY <4>1
      <4>3. g[t] = f[t] /\ Right(f, t)  BY <2>1, <4>2
      <4> QED BY <3>1, <4>3
    <3>2. CASE t # {}
      <4> DEFINE u == t \ {Pick(t)}
      <4>1. u \in SUBSET T /\ Cardinality(u) = Cardinality(t) - 1 /\ Cardinality(t) \in Nat
        BY <1>4, <1>7, <3>2
      <4>2. g[u] = f[u]  BY <2>2, <4>1
      <4>3. CASE Cardinality(t) = j + 1
        <5>1. g[t] = Op(f[u], Pick(t))  BY <4>3
        <5> QED BY <3>2, <4>2, <5>1
      <4>4. CASE Cardinality(t) <= j
        <5>1. g[t] = f[t] /\ Right(f, t)  BY <2>1, <4>1, <4>4
        <5> QED BY <3>2, <4>2, <5>1
      <4> QED BY <2>2, <4>1, <4>3, <4>4
    <3> QED BY <3>1, <3>2
  <2> QED BY <2>2
<1>10. \A j \in Nat : Upto(j)
  <2> DEFINE S == {j \in Nat : Upto(j)}
  <2> HIDE DEF Upto
  <2>1. 0 \in S /\ \A j \in Nat : j \in S => j + 1 \in S  BY <1>8, <1>9
  <2> HIDE DEF S
  <2>2. \A j \in Nat : j \in S  BY <2>1, NatInduct
  <2> QED BY <2>2 DEF S
<1>11. It(F)
  <2>1. PICK f : \A t \in SUBSET T : Right(f, t)
    <3>1. Upto(Cardinality(T))  BY <1>7, <1>10
    <3> QED BY <1>7, <3>1
  <2> DEFINE g == [t \in SUBSET T |-> f[t]]
  <2>2. \A t \in SUBSET T : g[t] = IF t = {} THEN x ELSE Op(g[t \ {Pick(t)}], Pick(t))
    BY <2>1
  <2>3. It(g)  BY <2>2
  <2> QED BY <2>3
<1> HIDE DEF F
<1>12. \A j \in Nat : j <= Len(s) => FoldedTo(x, s, d, j, F[1..j])
  <2> DEFINE S == {j \in Nat : j <= Len(s) => FoldedTo(x, s, d, j, F[1..j])}
  <2>1. 0 \in S
    <3>1. 1..0 = {} /\ {} \in SUBSET T  OBVIOUS
    <3>2. F[{}] = x  BY <1>11
    <3> QED BY <1>6, <3>1, <3>2
  <2>2. ASSUME NEW j \in Nat, j \in S PROVE j + 1 \in S
    <3> SUFFICES ASSUME j + 1 <= Len(s) PROVE FoldedTo(x, s, d, j + 1, F[1..(j + 1)])  OBVIOUS
    <3>1. j <= Len(s) /\ j < Len(s)  BY <1>2
    <3>2. FoldedTo(x, s, d, j, F[1..j])  BY <2>2, <3>1
    <3> DEFINE t == 1..(j + 1)
    <3>3. t \in SUBSET T /\ t # {} /\ j + 1 \in t
      <4>1. j + 1 \in t  OBVIOUS
      <4>2. \A i \in t : i \in 1..Len(s)  BY <1>2
      <4> QED BY <1>2, <4>1, <4>2
    <3>4. Pick(t) \in t /\ j + 1 <= Pick(t)  BY <1>4, <3>3
    <3>5. Pick(t) = j + 1  BY <3>4
    <3>6. t \ {Pick(t)} = 1..j  BY <3>5
    <3> HIDE DEF t
    <3>7. F[t] = Op(F[t \ {Pick(t)}], Pick(t))  BY <1>11, <3>3
    <3>8. F[t] = Op(F[1..j], j + 1)  BY <3>5, <3>6, <3>7
    <3> QED BY <1>5, <3>1, <3>2, <3>8 DEF t
  <2> HIDE DEF S
  <2>3. \A j \in Nat : j \in S  BY <2>1, <2>2, NatInduct
  <2> QED BY <2>3 DEF S
<1> QED BY <1>1, <1>2, <1>12

--------------------------------------------------------------------------------
(* The inductive invariant *)

InstRec(n) ==
  [state : Seq(Row), ord : 0..MaxOrder, since : 0..(CHECKPOINT_EVERY - 1), lastRowid : 0..(n - 1),
   faulted : BOOLEAN, scheduled : BOOLEAN, running : BOOLEAN]

\* The log, the archive and the certificate.
LogOK ==
  /\ IsFiniteSet(log) /\ next \in Nat \ {0} /\ log \subseteq [r : 1..(next - 1), o : Row]
  /\ cert \in BOOLEAN /\ delta \in BOOLEAN /\ alarm \in BOOLEAN
  /\ cold \subseteq Cover /\ gone \subseteq Row /\ hidden \subseteq Row
  /\ ~cert => cold = {} /\ gone = {}
  /\ cert => \A o \in Hot : o <= Cut => o \in Cover

\* s is a fold of rows up to n, each of which was in the log.
Upto(s, n) == Increasing(s) /\ \A o \in Range(s) : o <= n /\ o \in Hot \cup cold \cup gone

FoldsOK ==
  /\ inst \in InstRec(next) /\ Upto(inst.state, inst.ord)
  /\ ckpts \subseteq Ckpt /\ \A c \in ckpts : Upto(c.state, c.ord)

Waiting == {e.o : e \in Pending}

\* A row the view has to show is in its state or still to be folded.
Reached == Shown \subseteq Range(inst.state) \cup Waiting

\* A checkpoint has what the state has up to its order.
Kept ==
  \A c \in ckpts : \A o \in Shown \ thin :
    o \in Range(inst.state) /\ o <= c.ord => o \in Range(c.state)

\* A checkpoint ahead of the state has every row that may still come up to its order.
Ahead ==
  \A c \in ckpts : c.ord > inst.ord =>
    cert /\ \A o \in 1..c.ord : (o <= Cut => o \in Cover) => o \in Range(c.state) \cup thin

TablesOK == table \in Tables /\ mirror \in Tables /\ TablesAgree

Inv == LogOK /\ FoldsOK /\ Reached /\ Kept /\ Ahead /\ TablesOK /\ NoLostWakeup

--------------------------------------------------------------------------------
(* What the parts of an action compute *)

\* The rows of the log between two orders.
LEMMA OrdersAre ==
  ASSUME LogOK, NEW l \in SUBSET log, NEW a \in Nat, NEW b \in Nat
  PROVE  /\ Orders(l, a, b) \in SUBSET Row
         /\ Orders(l, a, b) = {o \in {e.o : e \in l} : a < o /\ o <= b}
<1>1. \A e \in l : e.o \in Row  BY DEF LogOK
<1> QED BY <1>1 DEF Orders

\* Hot is the orders of the log, and they are rows.
LEMMA HotRows ==
  ASSUME LogOK
  PROVE  Hot \subseteq Row /\ cold \subseteq Row /\ Cover \subseteq Row /\ Row \subseteq Nat
<1>1. \A e \in log : e.o \in Row  BY DEF LogOK
<1>2. Cover \subseteq Row /\ Row \subseteq Nat  BY Constants DEF Row
<1> QED BY <1>1, <1>2 DEF Hot, LogOK

\* entriesAfterOrder
LEMMA AfterIs ==
  ASSUME LogOK, NEW a \in 0..MaxOrder
  PROVE  /\ After(log, a) \in Seq(Row) /\ Increasing(After(log, a))
         /\ Range(After(log, a)) = {o \in Hot : a < o}
<1> DEFINE S == Orders(log, a, MaxOrder)
<1>1. a \in Nat /\ MaxOrder \in Nat  BY Constants
<1>2. S \in SUBSET Row /\ S = {o \in {e.o : e \in log} : a < o /\ o <= MaxOrder}
  BY <1>1, OrdersAre
<1>3. \A o \in Hot : o <= MaxOrder  BY HotRows, Constants DEF Row
<1>4. S = {o \in Hot : a < o}  BY <1>2, <1>3 DEF Hot
<1> HIDE DEF S
<1>5. Sorted(S) \in Seq(S) /\ Increasing(Sorted(S)) /\ Range(Sorted(S)) = S  BY <1>2, SortedIs
<1>6. Sorted(S) \in Seq(Row)  BY <1>2, <1>5
<1> QED BY <1>4, <1>5, <1>6 DEF After, S

\* MaxRowid is no smaller than any rowid.
LEMMA MaxRowidIs ==
  ASSUME LogOK
  PROVE  MaxRowid \in 0..(next - 1) /\ \A e \in log : e.r <= MaxRowid
<1> DEFINE S == {e.r : e \in log} \cup {0}
           U == {k + 1 : k \in S}
<1>1. next \in Nat /\ next > 0 /\ \A e \in log : e.r \in 1..(next - 1)  BY DEF LogOK
<1>2. S \subseteq 0..(next - 1) /\ 0 \in S  BY <1>1
<1> HIDE DEF S
<1>3. U \in SUBSET (1..next) /\ U # {}  BY <1>1, <1>2
<1>4. Max(U) \in U /\ \A k \in U : k <= Max(U)  BY <1>1, <1>3, MaxIn
<1>5. PICK m \in S : Max(U) = m + 1  BY <1>4
<1>6. \A k \in S : k <= m
  <2> TAKE k \in S
  <2>1. k + 1 \in U  OBVIOUS
  <2>2. k \in Nat /\ m \in Nat  BY <1>1, <1>2
  <2>3. k + 1 <= m + 1  BY <1>4, <1>5, <2>1
  <2> QED BY ONLY <2>2, <2>3
<1>7. \E x \in S : \A y \in S : x >= y
  <2>1. \A k \in S : m >= k  BY <1>1, <1>2, <1>6
  <2> QED BY <2>1
<1>8. MaxRowid = CHOOSE x \in S : \A y \in S : x >= y  BY DEF MaxRowid, Max, S
<1>9. MaxRowid \in S /\ \A y \in S : MaxRowid >= y  BY <1>7, <1>8
<1>10. \A e \in log : e.r \in S  BY DEF S
<1> QED BY <1>1, <1>2, <1>9, <1>10

\* checkpointBefore
LEMMA BeforeIs ==
  ASSUME NEW cs \in SUBSET Ckpt, NEW o \in Nat
  PROVE  LET c == checkpointBefore(cs, o) IN
         /\ (c \in cs /\ c.ord < o) \/ c = NoCkpt
         /\ \A e \in cs : e.ord < o => e.ord <= c.ord /\ c \in cs
<1> DEFINE S == {c \in cs : c.ord < o}
           U == {c.ord : c \in S}
<1>1. CASE S = {}  BY <1>1 DEF checkpointBefore
<1>2. CASE S # {}
  <2>1. \A c \in S : c.ord \in 1..MaxOrder /\ MaxOrder \in Nat  BY Constants DEF Ckpt, Row
  <2>2. U \in SUBSET (1..MaxOrder) /\ U # {}  BY <1>2, <2>1
  <2>3. Max(U) \in U /\ \A k \in U : k <= Max(U)  BY <2>1, <2>2, MaxIn, Constants
  <2>4. \E c \in S : \A d \in S : d.ord <= c.ord  BY <2>3
  <2>5. checkpointBefore(cs, o) = CHOOSE c \in S : \A d \in S : d.ord <= c.ord
    BY <1>2 DEF checkpointBefore
  <2>6. /\ checkpointBefore(cs, o) \in S
        /\ \A d \in S : d.ord <= checkpointBefore(cs, o).ord
    BY <2>4, <2>5
  <2> QED BY <2>6
<1> QED BY <1>1, <1>2

\* earliestCheckpoint
LEMMA EarliestIs ==
  ASSUME NEW cs \in SUBSET Ckpt
  PROVE  LET c == earliestCheckpoint(cs) IN c \in cs \/ c = NoCkpt
<1>1. CASE cs = {}  BY <1>1 DEF earliestCheckpoint
<1>2. CASE cs # {}
  <2> DEFINE U == {c.ord : c \in cs}
  <2>1. \A c \in cs : c.ord \in Nat  BY Constants DEF Ckpt, Row
  <2>2. U \in SUBSET Nat /\ U # {}  BY <1>2, <2>1
  <2>3. PICK m \in U : \A k \in U : m <= k  BY <2>2, Least
  <2>4. \E c \in cs : \A d \in cs : c.ord <= d.ord  BY <2>3
  <2> QED BY <1>2, <2>4 DEF earliestCheckpoint
<1> QED BY <1>1, <1>2

\* A batch is the pending rows with the lowest rowids, and not empty while rows are pending.
LEMMA BatchIs ==
  ASSUME LogOK, inst \in InstRec(next)
  PROVE  /\ Batch \subseteq Pending /\ Pending \subseteq log
         /\ Batch = {} => Pending = {}
         /\ Batch # {} =>
              /\ BatchEnd \in 0..(next - 1)
              /\ \A e \in Pending : e.r <= BatchEnd => e \in Batch
              /\ \A e \in log : e.r > BatchEnd => e \in Pending
              /\ First \in Row /\ First \in {e.o : e \in Batch} /\ \A e \in Batch : First <= e.o
<1>1. /\ next \in Nat /\ next > 0 /\ inst.lastRowid \in Nat /\ FOLD_BATCH \in Nat /\ FOLD_BATCH > 0
      /\ \A e \in log : e.r \in 1..(next - 1) /\ e.r \in Nat /\ e.o \in Row /\ e.o \in Nat
  BY HotRows, Constants DEF LogOK, InstRec
<1>2. Batch \subseteq Pending /\ Pending \subseteq log  BY DEF Batch, Pending
<1> DEFINE low(e) == {f \in Pending : f.r < e.r}
<1>3. \A e \in Pending : IsFiniteSet(low(e)) /\ Cardinality(low(e)) \in Nat
  <2>1. \A e \in Pending : low(e) \in SUBSET log  BY <1>2
  <2>2. IsFiniteSet(log)  BY DEF LogOK
  <2> QED BY <2>1, <2>2, FS_Subset, FS_CardinalityType
<1>4. Batch = {e \in Pending : Cardinality(low(e)) < FOLD_BATCH}  BY DEF Batch
<1>5. ASSUME Pending # {} PROVE Batch # {}
  <2> DEFINE U == {e.r : e \in Pending}
  <2>1. U \in SUBSET Nat /\ U # {}  BY <1>1, <1>2, <1>5
  <2>2. PICK m \in U : \A k \in U : m <= k  BY <2>1, Least
  <2>3. PICK e \in Pending : e.r = m  BY <2>2
  <2>4. low(e) = {}
    <3>1. \A f \in Pending : f.r \in Nat /\ m <= f.r /\ m \in Nat  BY <1>1, <1>2, <2>1, <2>2
    <3> QED BY <2>3, <3>1
  <2>5. Cardinality(low(e)) = 0  BY <2>4, FS_EmptySet
  <2> HIDE DEF low
  <2>6. Cardinality(low(e)) < FOLD_BATCH  BY <1>1, <2>5
  <2> QED BY <1>4, <2>6
<1>6. ASSUME NEW b \in Batch, NEW e \in Pending, e.r <= b.r PROVE e \in Batch
  <2>1. b \in Pending /\ Cardinality(low(b)) < FOLD_BATCH  BY <1>4
  <2>2. low(e) \in SUBSET low(b)
    <3>1. \A f \in Pending : f.r \in Nat  BY <1>1, <1>2
    <3>2. e.r \in Nat /\ b.r \in Nat  BY <2>1, <3>1
    <3>3. \A f \in Pending : f.r < e.r => f.r < b.r  BY <1>6, <3>1, <3>2
    <3> QED BY <3>3
  <2>3. Cardinality(low(e)) <= Cardinality(low(b))  BY <1>3, <2>1, <2>2, FS_Subset
  <2>4. Cardinality(low(e)) \in Nat /\ Cardinality(low(b)) \in Nat  BY <1>3, <2>1
  <2> HIDE DEF low
  <2>5. Cardinality(low(e)) < FOLD_BATCH  BY <1>1, <2>1, <2>3, <2>4
  <2> QED BY <1>4, <2>5
<1>7. ASSUME Batch # {}
      PROVE  /\ BatchEnd \in 0..(next - 1)
             /\ \A e \in Pending : e.r <= BatchEnd => e \in Batch
             /\ \A e \in log : e.r > BatchEnd => e \in Pending
             /\ First \in Row /\ First \in {e.o : e \in Batch} /\ \A e \in Batch : First <= e.o
  <2> DEFINE U == {e.r : e \in Batch}
             V == {e.o : e \in Batch}
  <2>1. \A e \in Batch : e \in log /\ e \in Pending /\ e.r > inst.lastRowid  BY <1>2 DEF Pending
  <2>2. U \in SUBSET (1..(next - 1)) /\ U # {} /\ next - 1 \in Nat  BY <1>1, <1>7, <2>1
  <2>3. Max(U) \in U  BY <2>2, MaxIn
  <2>4. PICK b \in Batch : BatchEnd = b.r  BY <2>3 DEF BatchEnd
  <2>5. b.r \in 1..(next - 1) /\ b.r \in Nat /\ b.r > inst.lastRowid  BY <1>1, <2>1
  <2>6. \A e \in Pending : e.r <= BatchEnd => e \in Batch  BY <1>6, <2>4
  <2>7. \A e \in log : e.r > BatchEnd => e \in Pending
    <3> TAKE e \in log
    <3> HAVE e.r > BatchEnd
    <3>1. e.r > inst.lastRowid  BY <1>1, <2>4, <2>5
    <3> QED BY <3>1 DEF Pending
  <2>8. V \in SUBSET Nat /\ V # {} /\ V \subseteq Row  BY <1>1, <1>7, <2>1
  <2> HIDE DEF V
  <2>9. \E x \in V : \A y \in V : x <= y  BY <2>8, Least
  <2>10. First = CHOOSE x \in V : \A y \in V : x <= y  BY DEF First, Min, V
  <2>11. First \in V /\ \A y \in V : First <= y  BY <2>9, <2>10
  <2>12. \A e \in Batch : e.o \in V  BY DEF V
  <2>13. BatchEnd \in 0..(next - 1)  BY <1>1, <2>4, <2>5
  <2> QED BY <2>6, <2>7, <2>8, <2>11, <2>12, <2>13 DEF V
<1> QED BY <1>2, <1>5, <1>7

--------------------------------------------------------------------------------
(* What a fold leaves *)

Known == Hot \cup cold \cup gone

\* A checkpoint that a fold of s from x to y stored.
Stored(x, s, y, e) ==
  /\ e \in Ckpt /\ Upto(e.state, e.ord) /\ x.ord < e.ord /\ e.ord <= y.ord
  /\ Range(e.state) = Range(x.state) \cup {o \in Range(s) : o <= e.ord}

FoldGives(x, s, d, y) ==
  /\ y \in FoldState /\ Upto(y.state, y.ord) /\ Range(y.state) = Range(x.state) \cup Range(s)
  /\ x.ord <= y.ord
  /\ \A e \in y.ckpts : e \in x.ckpts \/ Stored(x, s, y, e)
  /\ ~delta => y.table = x.table /\ y.mirror = x.mirror
  /\ d /\ x.table = rows(x.state) => y.table = rows(y.state)

\* A fold of known rows.
LEMMA FoldResult ==
  ASSUME LogOK, NEW x, NEW s, Foldable(x, s), Range(x.state) \subseteq Known, Range(s) \subseteq Known,
         NEW d \in BOOLEAN, d => delta
  PROVE  FoldGives(x, s, d, FoldRows(x, s, d))
<1> DEFINE y == FoldRows(x, s, d)
           n == Len(s)
<1>1. FoldedTo(x, s, d, n, y)  BY FoldOK DEF LogOK
<1> HIDE DEF y
<1>2. /\ s \in Seq(Row) /\ n \in Nat /\ DOMAIN s = 1..n /\ Row \subseteq Nat
      /\ x.ord \in Nat /\ x.state \in Seq(Row)
  BY HotRows DEF Foldable, FoldState
<1>3. {s[i] : i \in 1..n} = Range(s)  BY <1>2 DEF Range
<1>4. y \in FoldState /\ Increasing(y.state) /\ Range(y.state) = Range(x.state) \cup Range(s)
  BY <1>1, <1>3 DEF FoldedTo
<1>5. y.ord = IF n = 0 THEN x.ord ELSE s[n]  BY <1>1 DEF FoldedTo
<1>6. \A o \in Range(s) : o \in Row /\ o \in Nat /\ x.ord < o /\ o <= y.ord
  <2> TAKE o \in Range(s)
  <2>1. PICK i \in 1..n : o = s[i]  BY <1>2 DEF Range
  <2>2. n \in 1..n /\ n # 0 /\ s[n] \in Row /\ s[i] \in Row  BY <1>2
  <2>3. y.ord = s[n]  BY <1>5, <2>2
  <2>4. i < n => s[i] < s[n]  BY <2>2 DEF Foldable, Increasing
  <2>5. i = n \/ i < n  BY ONLY n \in Nat, i \in 1..n
  <2>6. s[i] \in Nat /\ s[n] \in Nat  BY <1>2, <2>2
  <2>7. o <= y.ord  BY <2>1, <2>3, <2>4, <2>5, <2>6
  <2>8. x.ord < o  BY DEF Foldable
  <2> QED BY <2>1, <2>2, <2>6, <2>7, <2>8
<1>7. x.ord <= y.ord
  <2>1. CASE n = 0  BY <1>2, <1>5, <2>1
  <2>2. CASE n # 0
    <3>1. s[n] \in Range(s)  BY <1>2, <2>2 DEF Range
    <3>2. x.ord < s[n] /\ s[n] \in Nat  BY <1>6, <3>1
    <3> QED BY <1>2, <1>5, <2>2, <3>2
  <2> QED BY <2>1, <2>2
<1>8. \A p \in Range(x.state) : p \in Row /\ p \in Nat /\ p <= x.ord
  <2>1. \A p \in Range(x.state) : p \in Row  BY <1>2 DEF Range
  <2>2. \A p \in Range(x.state) : p <= x.ord  BY DEF Foldable
  <2> QED BY <1>2, <2>1, <2>2
<1>9. y.ord \in Nat  BY <1>4, Constants DEF FoldState
<1>10. Upto(y.state, y.ord)
  <2>1. \A p \in Range(x.state) : p <= y.ord  BY <1>2, <1>7, <1>8, <1>9
  <2> QED BY <1>4, <1>6, <2>1 DEF Upto, Known
<1>11. ASSUME NEW e, Made(x, s, e) PROVE Stored(x, s, y, e)
  <2>1. e \in Ckpt /\ e.ord \in Range(s) /\ Increasing(e.state)
        /\ Range(e.state) = Range(x.state) \cup {o \in Range(s) : o <= e.ord}
    BY <1>11 DEF Made
  <2>2. x.ord < e.ord /\ e.ord <= y.ord /\ e.ord \in Nat  BY <1>6, <2>1
  <2>3. \A p \in Range(x.state) : p <= e.ord  BY <1>2, <1>8, <2>2
  <2>4. Upto(e.state, e.ord)  BY <2>1, <2>3 DEF Upto, Known
  <2> QED BY <2>1, <2>2, <2>4 DEF Stored
<1>12. \A e \in y.ckpts : e \in x.ckpts \/ Stored(x, s, y, e)  BY <1>1, <1>11 DEF FoldedTo
<1>13. /\ ~delta => y.table = x.table /\ y.mirror = x.mirror
       /\ d /\ x.table = rows(x.state) => y.table = rows(y.state)
  BY <1>1 DEF FoldedTo
<1>14. FoldGives(x, s, d, y)  BY <1>4, <1>7, <1>10, <1>12, <1>13 DEF FoldGives
<1> QED BY <1>14 DEF y

\* A checkpoint, or the reducer's init.
Base(c) == c.ord \in 0..MaxOrder /\ c.state \in Seq(Row) /\ Upto(c.state, c.ord)

\* Whatever a refold starts from is one of them.
LEMMA BaseIs ==
  ASSUME FoldsOK, NEW c, c \in ckpts \/ c = NoCkpt
  PROVE  Base(c)
<1>1. CASE c \in ckpts
  <2>1. c \in Ckpt /\ Upto(c.state, c.ord)  BY <1>1 DEF FoldsOK
  <2> QED BY <2>1, Constants DEF Base, Ckpt, Row
<1>2. CASE c = NoCkpt
  <2>1. c.ord = 0 /\ c.state = << >>  BY <1>2 DEF NoCkpt
  <2>2. 0 \in 0..MaxOrder  BY Constants
  <2> QED BY <2>1, <2>2, NoRows DEF Base, Upto
<1> QED BY <1>1, <1>2

\* A fold from it can start.
LEMMA StartOK ==
  ASSUME LogOK, FoldsOK, TablesOK, NEW c, Base(c), NEW cs \in SUBSET ckpts,
         NEW s \in Seq(Row), Increasing(s), \A o \in Range(s) : o \in Hot /\ c.ord < o
  PROVE  LET x == Start(c, cs) IN
         /\ x.state = c.state /\ x.ord = c.ord /\ x.ckpts = cs /\ x.table = table /\ x.mirror = mirror
         /\ Foldable(x, s) /\ Range(x.state) \subseteq Known /\ Range(s) \subseteq Known
<1> DEFINE x == Start(c, cs)
<1>1. x = Rec(c.state, c.ord, 0, cs, table, mirror, alarm)  BY DEF Start, Rec
<1>2. /\ x.state = c.state /\ x.ord = c.ord /\ x.ckpts = cs /\ x.table = table /\ x.mirror = mirror
  BY <1>1 DEF Rec
<1>3. 0 \in 0..(CHECKPOINT_EVERY - 1)  BY Constants
<1>4. cs \in SUBSET Ckpt  BY DEF FoldsOK
<1>5. x \in FoldState  BY <1>1, <1>3, <1>4, RecType DEF Base, TablesOK, LogOK
<1> HIDE DEF x
<1>6. Foldable(x, s)  BY <1>2, <1>5 DEF Foldable, Base, Upto
<1>7. Range(x.state) \subseteq Known /\ Range(s) \subseteq Known  BY <1>2 DEF Known, Base, Upto
<1> QED BY <1>2, <1>6, <1>7 DEF x

--------------------------------------------------------------------------------
(* Steps that refold *)

\* The instance takes over what was folded.
Takes(i, y) == [i EXCEPT !.state = y.state, !.ord = y.ord, !.since = y.since]

\* It keeps its other fields, and its type.
LEMMA InstFolded ==
  ASSUME NEW n, NEW i \in InstRec(n), NEW y \in FoldState, NEW z, z = Takes(i, y)
  PROVE  /\ z \in InstRec(n) /\ z.state = y.state /\ z.ord = y.ord /\ z.lastRowid = i.lastRowid
         /\ z.faulted = i.faulted /\ z.scheduled = i.scheduled /\ z.running = i.running
<1>1. y.state \in Seq(Row) /\ y.ord \in 0..MaxOrder /\ y.since \in 0..(CHECKPOINT_EVERY - 1)
  BY DEF FoldState
<1>2. z \in InstRec(n)  BY <1>1 DEF InstRec, Takes
<1>3. z.state = y.state /\ z.ord = y.ord /\ z.lastRowid = i.lastRowid  BY DEF InstRec, Takes
<1>4. z.faulted = i.faulted /\ z.scheduled = i.scheduled /\ z.running = i.running
  BY DEF InstRec, Takes
<1> QED BY <1>2, <1>3, <1>4

\* The log and what was made of it are as before.
LEMMA SameLog ==
  ASSUME UNCHANGED <<log, next, cold, gone, cert, delta>>
  PROVE  /\ Hot' = Hot /\ cold' = cold /\ gone' = gone /\ cert' = cert /\ delta' = delta /\ next' = next
         /\ \A s, n : Upto(s, n)' <=> Upto(s, n)
<1>1. Hot' = Hot  BY DEF Hot
<1> QED BY <1>1 DEF Upto

\* A refold from c, with the checkpoints cs kept, of the rows s, the rows rest
\* being kept from the view.
LEMMA RefoldInv ==
  ASSUME Inv, UNCHANGED <<log, next, cold, gone, cert, delta>>, thin \subseteq thin',
         NEW c, Base(c), NEW cs \in SUBSET ckpts,
         \A e \in cs : /\ e.ord <= c.ord
                       /\ \A o \in Shown : o <= e.ord => o \in Range(e.state) \cup Missed(c) \cup thin',
         NEW s \in Seq(Row), Increasing(s), \A o \in Range(s) : o \in Hot /\ c.ord < o,
         NEW rest \in SUBSET Hot, \A o \in Hot : c.ord < o => o \in Range(s) \cup rest,
         NEW y, FoldGives(Start(c, cs), s, FALSE, y),
         NEW i \in InstRec(next), i.running \/ \A e \in log : e.r <= i.lastRowid,
         inst' = Takes(i, y),
         ckpts' = y.ckpts, hidden' = hidden \cup Missed(c) \cup rest,
         table' \in Tables, mirror' \in Tables, alarm' \in BOOLEAN,
         i.faulted \/ (table' = rows(y.state) /\ mirror' = table')
  PROVE  Inv'
<1> DEFINE x == Start(c, cs)
<1>1. LogOK /\ FoldsOK /\ Reached /\ TablesOK  BY DEF Inv
<1>2. x.state = c.state /\ x.ord = c.ord /\ x.ckpts = cs  BY <1>1, StartOK
<1> HIDE DEF x
<1>3. /\ y \in FoldState /\ Upto(y.state, y.ord) /\ Range(y.state) = Range(c.state) \cup Range(s)
      /\ c.ord <= y.ord
      /\ \A e \in y.ckpts : e \in cs \/ Stored(x, s, y, e)
  BY <1>2 DEF FoldGives, x
<1>4. /\ Hot' = Hot /\ cold' = cold /\ gone' = gone /\ cert' = cert /\ delta' = delta /\ next' = next
      /\ \A t, n : Upto(t, n)' <=> Upto(t, n)
  BY SameLog
<1>5. /\ inst' \in InstRec(next) /\ inst'.state = y.state /\ inst'.ord = y.ord
      /\ inst'.lastRowid = i.lastRowid /\ inst'.faulted = i.faulted /\ inst'.running = i.running
  BY <1>3, InstFolded
<1>6. Hot \subseteq Row /\ cold \subseteq Row /\ Row \subseteq Nat /\ hidden \subseteq Row
  BY <1>1, HotRows DEF LogOK
<1>7. Missed(c) \subseteq Row  BY <1>6 DEF Missed
<1>8. LogOK'
  <2>1. hidden' \subseteq Row  BY <1>6, <1>7
  <2> QED BY <1>1, <1>4, <2>1 DEF LogOK
<1>9. ASSUME NEW e, Stored(x, s, y, e)
      PROVE  /\ e \in Ckpt /\ Upto(e.state, e.ord) /\ e.ord <= y.ord
             /\ \A o \in Hot \cup cold : o <= e.ord => o \in Range(e.state) \cup hidden'
  <2>1. /\ e \in Ckpt /\ Upto(e.state, e.ord) /\ e.ord <= y.ord
        /\ Range(e.state) = Range(c.state) \cup {o \in Range(s) : o <= e.ord}
    BY <1>2, <1>9 DEF Stored
  <2>2. ASSUME NEW o \in Hot \cup cold, o <= e.ord PROVE o \in Range(e.state) \cup hidden'
    <3>1. CASE o \in Hot /\ c.ord < o  BY <2>1, <2>2, <3>1
    <3>2. CASE ~(o \in Hot /\ c.ord < o)
      <4>1. o \in cold \/ (o \in Hot /\ o <= c.ord)  BY <1>6, <3>2 DEF Base
      <4> QED BY <2>1, <4>1 DEF Missed
    <3> QED BY <3>1, <3>2
  <2> QED BY <2>1, <2>2
<1>10. FoldsOK'
  <2>1. \A e \in ckpts : e \in Ckpt /\ Upto(e.state, e.ord)  BY <1>1 DEF FoldsOK
  <2>2. \A e \in ckpts' : e \in Ckpt /\ Upto(e.state, e.ord)  BY <1>3, <1>9, <2>1
  <2>3. \A e \in ckpts' : Upto(e.state, e.ord)'
    <3> TAKE e \in ckpts'
    <3> QED BY <1>4, <2>2 DEF Upto
  <2>4. Upto(inst.state, inst.ord)'
    <3>1. Upto(y.state, y.ord)  BY <1>3
    <3> QED BY <1>4, <1>5, <3>1 DEF Upto
  <2>5. inst' \in InstRec(next')  BY <1>4, <1>5
  <2> QED BY <2>2, <2>3, <2>4, <2>5 DEF FoldsOK
<1>11. ASSUME NEW o \in Hot \cup cold PROVE o \in Range(inst'.state) \cup hidden'
  <2>1. CASE o \in Hot /\ c.ord < o  BY <1>3, <1>5, <2>1
  <2>2. CASE ~(o \in Hot /\ c.ord < o)
    <3>1. o \in cold \/ (o \in Hot /\ o <= c.ord)  BY <1>6, <2>2 DEF Base
    <3> QED BY <1>3, <1>5, <3>1 DEF Missed
  <2> QED BY <2>1, <2>2
<1>12. Reached'  BY <1>4, <1>11 DEF Reached, Shown
<1>13. Shown' = Shown \ (Missed(c) \cup rest)  BY <1>4 DEF Shown
<1>14. Kept'
  <2> SUFFICES ASSUME NEW e \in ckpts', NEW o \in (Shown \ thin)', o <= e.ord
               PROVE  o \in Range(e.state)
    BY DEF Kept
  <2>1. o \in Hot \cup cold /\ o \in Shown /\ o \notin hidden' /\ o \notin thin' /\ o \notin Missed(c)
    BY <1>4, <1>13 DEF Shown
  <2>2. CASE e \in cs  BY <2>1, <2>2
  <2>3. CASE Stored(x, s, y, e)  BY <1>9, <2>1, <2>3
  <2> QED BY <1>3, <2>2, <2>3
<1>15. Ahead'
  <2> SUFFICES ASSUME NEW e \in ckpts' PROVE ~(e.ord > inst'.ord)  BY DEF Ahead
  <2>1. e.ord <= y.ord
    <3>1. CASE e \in cs
      <4>1. e.ord <= c.ord /\ c.ord <= y.ord  BY <1>3, <3>1
      <4>2. e.ord \in Nat  BY <1>1, <1>6, <3>1 DEF FoldsOK, Ckpt
      <4>3. c.ord \in Nat /\ y.ord \in Nat  BY <1>3, Constants DEF Base, FoldState
      <4> QED BY <4>1, <4>2, <4>3
    <3>2. CASE Stored(x, s, y, e)  BY <1>9, <3>2
    <3> QED BY <1>3, <3>1, <3>2
  <2>2. e.ord \in Nat /\ y.ord \in Nat
    <3>1. e \in Ckpt  BY <1>10 DEF FoldsOK
    <3>2. e.ord \in Row  BY <3>1 DEF Ckpt
    <3>3. y.ord \in 0..MaxOrder  BY <1>3 DEF FoldState
    <3>4. e.ord \in Nat  BY <1>6, <3>2
    <3>5. y.ord \in Nat  BY <3>3, Constants
    <3> QED BY <3>4, <3>5
  <2> QED BY <1>5, <2>1, <2>2
<1>16. TablesOK'
  <2>1. ~i.faulted => table' = rows(inst'.state) /\ mirror' = table'  BY <1>5
  <2> QED BY <1>5, <2>1 DEF TablesOK, TablesAgree, TableIsRows, MirrorIsTable
<1>17. NoLostWakeup'
  <2>1. CASE i.running  BY <1>5, <2>1 DEF NoLostWakeup
  <2>2. CASE \A e \in log : e.r <= i.lastRowid
    <3>1. Pending' = {e \in log : e.r > i.lastRowid}  BY <1>5 DEF Pending
    <3>2. \A e \in log : e.r \in Nat /\ i.lastRowid \in Nat  BY <1>1 DEF LogOK, InstRec
    <3>3. Pending' = {}  BY <2>2, <3>1, <3>2
    <3> QED BY <3>3 DEF NoLostWakeup
  <2> QED BY <2>1, <2>2
<1> QED BY <1>8, <1>10, <1>12, <1>14, <1>15, <1>16, <1>17 DEF Inv

\* refoldFrom, done or failed after n rows.
LEMMA RefoldFromInv ==
  ASSUME Inv, UNCHANGED <<log, next, cold, gone, cert, delta>>, thin \subseteq thin',
         NEW c, Base(c), NEW cs \in SUBSET ckpts,
         \A e \in cs : /\ e.ord <= c.ord
                       /\ \A o \in Shown : o <= e.ord => o \in Range(e.state) \cup Missed(c) \cup thin',
         NEW i \in InstRec(next), i.running \/ \A e \in log : e.r <= i.lastRowid,
         NEW j \in InstRec(next), j.running \/ \A e \in log : e.r <= j.lastRowid,
         NEW ks, refoldFrom(c, cs, i, j, ks)
  PROVE  Inv'
<1> DEFINE s == After(log, c.ord)
           x == Start(c, cs)
<1>1. LogOK /\ FoldsOK /\ TablesOK  BY DEF Inv
<1>2. s \in Seq(Row) /\ Increasing(s) /\ Range(s) = {o \in Hot : c.ord < o}
  BY <1>1, AfterIs DEF Base
<1>3. \/ /\ Becomes(refolded(Fold(x, s)), i)
         /\ hidden' = hidden \cup Missed(c)
      \/ \E n \in 0..Len(s) :
           /\ Becomes(Fold(x, SubSeq(s, 1, n)), fault(j))
           /\ hidden' = hidden \cup Missed(c) \cup Range(SubSeq(s, n + 1, Len(s)))
  BY DEF refoldFrom
<1> HIDE DEF s, x
<1>4. ASSUME NEW t \in Seq(Row), Increasing(t), \A o \in Range(t) : o \in Hot /\ c.ord < o
      PROVE  FoldGives(x, t, FALSE, Fold(x, t))
  <2>1. Foldable(x, t) /\ Range(x.state) \subseteq Known /\ Range(t) \subseteq Known
    BY <1>1, <1>4, StartOK DEF x
  <2> QED BY <1>1, <2>1, FoldResult DEF Fold
<1>5. CASE /\ Becomes(refolded(Fold(x, s)), i)
           /\ hidden' = hidden \cup Missed(c)
  <2> DEFINE y == Fold(x, s)
             z == refolded(y)
  <2>1. FoldGives(x, s, FALSE, y)  BY <1>2, <1>4
  <2> HIDE DEF y
  <2>2. y \in FoldState  BY <2>1 DEF FoldGives
  <2>3. /\ z.state = y.state /\ z.ord = y.ord /\ z.since = y.since /\ z.ckpts = y.ckpts
        /\ z.alarm = y.alarm /\ z.table = rows(y.state) /\ z.mirror = rows(y.state)
    BY <2>2 DEF refolded, FoldState
  <2> HIDE DEF z
  <2>4. /\ inst' = [i EXCEPT !.state = z.state, !.ord = z.ord, !.since = z.since]
        /\ ckpts' = z.ckpts /\ table' = z.table /\ mirror' = z.mirror /\ alarm' = z.alarm
    BY <1>5 DEF Becomes, y, z
  <2>5. inst' = Takes(i, y)  BY <2>3, <2>4 DEF Takes
  <2>6. y.state \in Seq(Row) /\ y.alarm \in BOOLEAN  BY <2>2 DEF FoldState
  <2>7. table' \in Tables /\ mirror' \in Tables /\ alarm' \in BOOLEAN
    BY <2>3, <2>4, <2>6, RowsType DEF Tables
  <2>8. table' = rows(y.state) /\ mirror' = table' /\ ckpts' = y.ckpts  BY <2>3, <2>4
  <2>9. hidden' = hidden \cup Missed(c) \cup {} /\ {} \in SUBSET Hot  BY <1>5
  <2>10. \A o \in Hot : c.ord < o => o \in Range(s) \cup {}  BY <1>2
  <2>11. \A o \in Range(s) : o \in Hot /\ c.ord < o  BY <1>2
  <2>12. FoldGives(Start(c, cs), s, FALSE, y)  BY <2>1 DEF x
  <2> QED BY <1>2, <2>5, <2>7, <2>8, <2>9, <2>10, <2>11, <2>12, RefoldInv
<1>6. ASSUME NEW n \in 0..Len(s), Becomes(Fold(x, SubSeq(s, 1, n)), fault(j)),
             hidden' = hidden \cup Missed(c) \cup Range(SubSeq(s, n + 1, Len(s)))
      PROVE  Inv'
  <2> DEFINE t == SubSeq(s, 1, n)
             rest == Range(SubSeq(s, n + 1, Len(s)))
             y == Fold(x, t)
             k == fault(j)
  <2>1. t \in Seq(Row) /\ Increasing(t) /\ Range(t) \subseteq Range(s) /\ Range(s) = Range(t) \cup rest
    BY <1>2, CutRows
  <2>2. \A o \in Range(t) : o \in Hot /\ c.ord < o  BY <1>2, <2>1
  <2>3. rest \in SUBSET Hot /\ \A o \in Hot : c.ord < o => o \in Range(t) \cup rest  BY <1>2, <2>1
  <2> HIDE DEF t, rest
  <2>4. FoldGives(x, t, FALSE, y)  BY <1>4, <2>1, <2>2
  <2>5. Becomes(y, k)  BY <1>6 DEF t
  <2> HIDE DEF y
  <2>6. /\ k \in InstRec(next) /\ k.faulted = TRUE /\ k.running = j.running
        /\ k.lastRowid = j.lastRowid
    BY DEF fault, InstRec
  <2> HIDE DEF k
  <2>7. y \in FoldState  BY <2>4 DEF FoldGives
  <2>8. /\ inst' = Takes(k, y) /\ ckpts' = y.ckpts
        /\ table' = y.table /\ mirror' = y.mirror /\ alarm' = y.alarm
    BY <2>5 DEF Becomes, Takes
  <2>9. table' \in Tables /\ mirror' \in Tables /\ alarm' \in BOOLEAN  BY <2>7, <2>8 DEF FoldState
  <2>10. hidden' = hidden \cup Missed(c) \cup rest  BY <1>6 DEF rest
  <2>11. FoldGives(Start(c, cs), t, FALSE, y)  BY <2>4 DEF x
  <2>12. k.running \/ \A e \in log : e.r <= k.lastRowid  BY <2>6
  <2>13. k.faulted  BY <2>6
  <2> QED BY <2>1, <2>2, <2>3, <2>6, <2>8, <2>9, <2>10, <2>11, <2>12, <2>13, RefoldInv
<1> QED BY <1>3, <1>5, <1>6

\* A late row: the view is refolded from the checkpoint before it.
LEMMA RecomputeInv == Inv /\ recompute => Inv'
<1> SUFFICES ASSUME Inv, recompute PROVE Inv'  OBVIOUS
<1> DEFINE c == checkpointBefore(ckpts, First)
           i == [inst EXCEPT !.lastRowid = BatchEnd]
<1>1. LogOK /\ FoldsOK  BY DEF Inv
<1>2. Batch # {} /\ inst.running /\ refoldFrom(c, kept(c), i, i, {})
      /\ UNCHANGED <<log, next, cold, gone, cert, delta, thin>>
  BY DEF recompute
<1>3. inst \in InstRec(next) /\ ckpts \in SUBSET Ckpt  BY <1>1 DEF FoldsOK
<1>4. BatchEnd \in 0..(next - 1) /\ First \in Row /\ First \in Nat  BY <1>1, <1>2, <1>3, BatchIs, HotRows
<1>5. i \in InstRec(next) /\ i.running  BY <1>2, <1>3, <1>4 DEF InstRec
<1>6. c \in ckpts \/ c = NoCkpt  BY <1>3, <1>4, BeforeIs
<1> HIDE DEF c, i
<1>7. Base(c)  BY <1>1, <1>6, BaseIs
<1>8. kept(c) \in SUBSET ckpts /\ \A e \in kept(c) : e = c  BY DEF kept
<1>9. \A e \in kept(c) : /\ e.ord <= c.ord
                         /\ \A o \in Shown : o <= e.ord => o \in Range(e.state) \cup Missed(c) \cup thin'
  <2>1. c.ord <= c.ord  BY <1>7 DEF Base
  <2>2. \A o \in Shown : o <= c.ord => o \in Range(c.state) \cup Missed(c)  BY DEF Shown, Missed
  <2> QED BY <1>8, <2>1, <2>2
<1> QED BY <1>2, <1>5, <1>7, <1>8, <1>9, RefoldFromInv

\* rebuild refolds from the earliest checkpoint.
LEMMA RebuildInv == Inv /\ rebuild => Inv'
<1> SUFFICES ASSUME Inv, rebuild PROVE Inv'  OBVIOUS
<1> DEFINE c == earliestCheckpoint(ckpts)
           i == rebuilt(inst)
<1>1. LogOK /\ FoldsOK  BY DEF Inv
<1>2. refoldFrom(c, kept(c), i, i, {"rebuild"}) /\ UNCHANGED <<log, next, cold, gone, cert, delta, thin>>
  BY DEF rebuild
<1>3. inst \in InstRec(next) /\ ckpts \in SUBSET Ckpt  BY <1>1 DEF FoldsOK
<1>4. MaxRowid \in 0..(next - 1) /\ \A e \in log : e.r <= MaxRowid  BY <1>1, MaxRowidIs
<1>5. i \in InstRec(next) /\ i.lastRowid = MaxRowid  BY <1>3, <1>4 DEF rebuilt, InstRec
<1>6. c \in ckpts \/ c = NoCkpt  BY <1>3, EarliestIs
<1> HIDE DEF c, i
<1>7. Base(c)  BY <1>1, <1>6, BaseIs
<1>8. kept(c) \in SUBSET ckpts /\ \A e \in kept(c) : e = c  BY DEF kept
<1>9. \A e \in kept(c) : /\ e.ord <= c.ord
                         /\ \A o \in Shown : o <= e.ord => o \in Range(e.state) \cup Missed(c) \cup thin'
  <2>1. c.ord <= c.ord  BY <1>7 DEF Base
  <2>2. \A o \in Shown : o <= c.ord => o \in Range(c.state) \cup Missed(c)  BY DEF Shown, Missed
  <2> QED BY <1>8, <2>1, <2>2
<1>10. \A e \in log : e.r <= i.lastRowid  BY <1>4, <1>5
<1> QED BY <1>2, <1>5, <1>7, <1>8, <1>9, <1>10, RefoldFromInv

\* register and restore, after a restart, with a new version or a torn recompute.
LEMMA OpensInv ==
  ASSUME Inv, NEW cs \in SUBSET ckpts, NEW k, Opens(cs, k)
  PROVE  Inv'
<1> DEFINE c == checkpointBefore(cs, MaxOrder + 1)
           i == schedule(Opened)
           j == Opened
<1>1. LogOK /\ FoldsOK /\ Reached /\ Kept  BY DEF Inv
<1>2. refoldFrom(c, cs, i, j, {k}) /\ thin' = thin \cup Skipped(cs)
      /\ UNCHANGED <<log, next, cold, gone, cert, delta>>
  BY DEF Opens
<1>3. ckpts \in SUBSET Ckpt /\ cs \in SUBSET Ckpt  BY <1>1 DEF FoldsOK
<1>4. MaxRowid \in 0..(next - 1) /\ \A e \in log : e.r <= MaxRowid  BY <1>1, MaxRowidIs
<1>5. /\ j \in InstRec(next) /\ j.lastRowid = MaxRowid
      /\ i \in InstRec(next) /\ i.lastRowid = MaxRowid
  <2>1. 0 \in 0..MaxOrder /\ 0 \in 0..(CHECKPOINT_EVERY - 1)  BY Constants
  <2>2. j \in InstRec(next) /\ j.lastRowid = MaxRowid  BY <1>4, <2>1, NoRows DEF Opened, InstRec
  <2> HIDE DEF j
  <2>3. i = j \/ i = [j EXCEPT !.scheduled = TRUE]  BY DEF schedule, j
  <2>4. [j EXCEPT !.scheduled = TRUE] \in InstRec(next)
        /\ [j EXCEPT !.scheduled = TRUE].lastRowid = MaxRowid
    BY <2>2 DEF InstRec
  <2> QED BY <2>2, <2>3, <2>4
<1>6. /\ c \in cs \/ c = NoCkpt
      /\ \A e \in cs : e.ord <= c.ord
  <2>1. \A e \in cs : e.ord < MaxOrder + 1
    <3>1. \A e \in cs : e.ord \in Row  BY <1>3 DEF Ckpt
    <3> QED BY <3>1, Constants DEF Row
  <2>2. MaxOrder + 1 \in Nat  BY Constants
  <2> QED BY <1>3, <2>1, <2>2, BeforeIs
<1> HIDE DEF c, i, j
<1>7. Base(c)  BY <1>1, <1>6, BaseIs
<1>8. ASSUME NEW e \in cs, NEW o \in Shown, o <= e.ord
      PROVE  o \in Range(e.state) \cup thin'
  <2>1. CASE o \in Range(inst.state)
    <3>1. e \in ckpts /\ (o \notin thin => o \in Range(e.state))  BY <1>1, <1>8, <2>1 DEF Kept
    <3> QED BY <1>2, <3>1
  <2>2. CASE o \in Waiting
    <3>1. o \in {p \in {f.o : f \in Pending} : p <= e.ord}  BY <1>8, <2>2 DEF Waiting
    <3>2. o \notin Range(e.state) => o \in Skipped(cs)  BY <3>1 DEF Skipped
    <3> QED BY <1>2, <3>2
  <2> QED BY <1>1, <2>1, <2>2 DEF Reached
<1>9. \A e \in cs : /\ e.ord <= c.ord
                    /\ \A o \in Shown : o <= e.ord => o \in Range(e.state) \cup Missed(c) \cup thin'
  BY <1>6, <1>8
<1>10. (\A e \in log : e.r <= i.lastRowid) /\ (\A e \in log : e.r <= j.lastRowid)  BY <1>4, <1>5
<1>11. thin \subseteq thin'  BY <1>2
<1> QED BY <1>2, <1>5, <1>7, <1>9, <1>10, <1>11, RefoldFromInv

\* The three ways the view is registered again.
LEMMA RestartInv == Inv /\ (restart \/ upgrade \/ torn) => Inv'
<1>1. Inv /\ restart => Inv'
  <2>1. ckpts \in SUBSET ckpts  OBVIOUS
  <2> QED BY <2>1, OpensInv DEF restart
<1>2. {} \in SUBSET ckpts  OBVIOUS
<1>3. Inv /\ upgrade => Inv'  BY <1>2, OpensInv DEF upgrade
<1>4. Inv /\ torn => Inv'  BY <1>2, OpensInv DEF torn
<1> QED BY <1>1, <1>3, <1>4

--------------------------------------------------------------------------------
(* Steps that fold or only schedule *)

\* Nothing but the timer's flags changes.
LEMMA FlagsInv ==
  ASSUME Inv, NoLostWakeup', inst' \in InstRec(next),
         inst'.state = inst.state, inst'.ord = inst.ord, inst'.lastRowid = inst.lastRowid,
         inst.faulted => inst'.faulted,
         UNCHANGED <<log, next, cold, gone, cert, ckpts, table, mirror, delta, alarm, hidden, thin>>
  PROVE  Inv'
<1>1. LogOK /\ FoldsOK /\ Reached /\ Kept /\ Ahead /\ TablesOK  BY DEF Inv
<1>2. /\ Hot' = Hot /\ cold' = cold /\ gone' = gone /\ cert' = cert /\ delta' = delta /\ next' = next
      /\ \A s, n : Upto(s, n)' <=> Upto(s, n)
  BY SameLog
<1>3. Pending' = Pending /\ Waiting' = Waiting /\ Shown' = Shown  BY <1>2 DEF Pending, Waiting, Shown
<1>4. LogOK'  BY <1>1, <1>2 DEF LogOK
<1>5. FoldsOK'
  <2>1. Upto(inst.state, inst.ord)'  BY <1>1, <1>2 DEF FoldsOK, Upto
  <2>2. \A c \in ckpts' : Upto(c.state, c.ord)'  BY <1>1, <1>2 DEF FoldsOK, Upto
  <2>3. ckpts' \subseteq Ckpt /\ inst' \in InstRec(next')  BY <1>1 DEF FoldsOK
  <2> QED BY <2>1, <2>2, <2>3 DEF FoldsOK
<1>6. Reached'  BY <1>1, <1>3 DEF Reached
<1>7. Kept'  BY <1>1, <1>3 DEF Kept
<1>8. Ahead'  BY <1>1, <1>2 DEF Ahead
<1>9. TablesOK'  BY <1>1 DEF TablesOK, TablesAgree, TableIsRows, MirrorIsTable
<1> QED BY <1>4, <1>5, <1>6, <1>7, <1>8, <1>9 DEF Inv

\* The timer fires.
LEMMA MaterializeInv == Inv /\ materialize => Inv'
<1> SUFFICES ASSUME Inv, materialize PROVE Inv'  OBVIOUS
<1>1. inst \in InstRec(next) /\ inst' = [inst EXCEPT !.scheduled = FALSE, !.running = ~inst.faulted]
  BY DEF Inv, FoldsOK, materialize
<1>2. /\ inst' \in InstRec(next) /\ inst'.running = ~inst.faulted /\ inst'.faulted = inst.faulted
      /\ inst'.state = inst.state /\ inst'.ord = inst.ord /\ inst'.lastRowid = inst.lastRowid
  BY <1>1 DEF InstRec
<1>3. inst.faulted \in BOOLEAN  BY <1>1 DEF InstRec
<1>4. NoLostWakeup'  BY <1>2, <1>3 DEF NoLostWakeup
<1> QED BY <1>2, <1>4, FlagsInv DEF materialize

\* The pass ends when nothing is pending.
LEMMA SettledInv == Inv /\ settled => Inv'
<1> SUFFICES ASSUME Inv, settled PROVE Inv'  OBVIOUS
<1>1. LogOK /\ inst \in InstRec(next) /\ inst' = [inst EXCEPT !.running = FALSE] /\ Batch = {}
  BY DEF Inv, FoldsOK, settled
<1>2. /\ inst' \in InstRec(next) /\ inst'.faulted = inst.faulted
      /\ inst'.state = inst.state /\ inst'.ord = inst.ord /\ inst'.lastRowid = inst.lastRowid
  BY <1>1 DEF InstRec
<1>3. Pending = {}  BY <1>1, BatchIs
<1>4. Pending' = {}  BY <1>2, <1>3 DEF Pending, settled
<1>5. NoLostWakeup'  BY <1>4 DEF NoLostWakeup
<1> QED BY <1>2, <1>5, FlagsInv DEF settled

\* The folded rows t of the log come after the state's, and no row is passed over.
LEMMA FoldInv ==
  ASSUME Inv, UNCHANGED <<log, next, cold, gone, cert, delta, hidden, thin>>,
         NEW t \in Seq(Row), \A o \in Range(t) : o \in Hot /\ inst.ord < o,
         NEW y, FoldGives(Current, t, delta, y),
         NEW i \in InstRec(next), i.running \/ i.faulted, inst' = Takes(i, y),
         \A e \in Pending : e.r > i.lastRowid \/ e.o \in Range(t),
         ckpts' = ckpts \/ ckpts' = y.ckpts,
         table' \in Tables, mirror' \in Tables, alarm' \in BOOLEAN,
         i.faulted \/ (table' = rows(y.state) /\ (~delta => mirror' = table'))
  PROVE  Inv'
<1>1. LogOK /\ FoldsOK /\ Reached /\ Kept /\ Ahead  BY DEF Inv
<1>2. Current.state = inst.state /\ Current.ord = inst.ord /\ Current.ckpts = ckpts
  BY DEF Current, Start
<1>3. /\ y \in FoldState /\ Upto(y.state, y.ord) /\ Range(y.state) = Range(inst.state) \cup Range(t)
      /\ inst.ord <= y.ord
      /\ \A e \in y.ckpts : e \in ckpts \/ Stored(Current, t, y, e)
  BY <1>2 DEF FoldGives
<1>4. /\ Hot' = Hot /\ cold' = cold /\ gone' = gone /\ cert' = cert /\ delta' = delta /\ next' = next
      /\ \A s, n : Upto(s, n)' <=> Upto(s, n)
  BY SameLog
<1>5. /\ inst' \in InstRec(next) /\ inst'.state = y.state /\ inst'.ord = y.ord
      /\ inst'.lastRowid = i.lastRowid /\ inst'.faulted = i.faulted /\ inst'.running = i.running
  BY <1>3, InstFolded
<1>6. Hot \subseteq Row /\ cold \subseteq Row /\ Row \subseteq Nat  BY <1>1, HotRows
<1>7. Shown' = Shown /\ thin' = thin  BY <1>4 DEF Shown
<1>8. ASSUME NEW e, Stored(Current, t, y, e)
      PROVE  /\ e \in Ckpt /\ Upto(e.state, e.ord) /\ e.ord <= y.ord
             /\ Range(e.state) = Range(inst.state) \cup {o \in Range(t) : o <= e.ord}
  BY <1>2, <1>8 DEF Stored
<1>9. \A e \in ckpts' : e \in ckpts \/ Stored(Current, t, y, e)  BY <1>3
<1>10. inst.ord \in Nat /\ y.ord \in Nat /\ \A e \in ckpts : e.ord \in Nat
  <2>1. inst.ord \in Nat  BY <1>1, Constants DEF FoldsOK, InstRec
  <2>2. y.ord \in Nat  BY <1>3, Constants DEF FoldState
  <2>3. \A e \in ckpts : e.ord \in Row  BY <1>1 DEF FoldsOK, Ckpt
  <2> QED BY <1>6, <2>1, <2>2, <2>3
<1>11. LogOK'  BY <1>1, <1>4 DEF LogOK
<1>12. FoldsOK'
  <2>1. \A e \in ckpts : e \in Ckpt /\ Upto(e.state, e.ord)  BY <1>1 DEF FoldsOK
  <2>2. \A e \in ckpts' : e \in Ckpt /\ Upto(e.state, e.ord)  BY <1>8, <1>9, <2>1
  <2>3. \A e \in ckpts' : Upto(e.state, e.ord)'
    <3> TAKE e \in ckpts'
    <3> QED BY <1>4, <2>2 DEF Upto
  <2>4. Upto(inst.state, inst.ord)'
    <3>1. Upto(y.state, y.ord)  BY <1>3
    <3> QED BY <1>4, <1>5, <3>1 DEF Upto
  <2>5. inst' \in InstRec(next')  BY <1>4, <1>5
  <2> QED BY <2>2, <2>3, <2>4, <2>5 DEF FoldsOK
<1>13. Reached'
  <2> SUFFICES ASSUME NEW o \in Shown PROVE o \in Range(y.state) \cup Waiting'
    BY <1>5, <1>7 DEF Reached
  <2>1. CASE o \in Range(inst.state)  BY <1>3, <2>1
  <2>2. CASE o \in Waiting
    <3>1. PICK e \in Pending : e.o = o  BY <2>2 DEF Waiting
    <3>2. CASE e.o \in Range(t)  BY <1>3, <3>1, <3>2
    <3>3. CASE e.r > i.lastRowid
      <4>1. e \in Pending'  BY <1>5, <3>3 DEF Pending
      <4> QED BY <3>1, <4>1 DEF Waiting
    <3> QED BY <3>2, <3>3
  <2> QED BY <1>1, <2>1, <2>2 DEF Reached
<1>14. Kept'
  <2> SUFFICES ASSUME NEW e \in ckpts', NEW o \in Shown \ thin, o \in Range(y.state), o <= e.ord
               PROVE  o \in Range(e.state)
    BY <1>5, <1>7 DEF Kept
  <2>1. o \in Hot \cup cold /\ o \in Row /\ o \in Nat  BY <1>6 DEF Shown
  <2>2. CASE e \in ckpts /\ o \in Range(inst.state)  BY <1>1, <2>2 DEF Kept
  <2>3. CASE e \in ckpts /\ o \in Range(t)
    <3>1. o \in Hot /\ inst.ord < o  BY <2>3
    <3>2. e.ord > inst.ord /\ e.ord \in Nat  BY <1>10, <2>1, <2>3, <3>1
    <3>3. cert /\ ((o <= Cut => o \in Cover) => o \in Range(e.state) \cup thin)
      <4>1. o \in 1..e.ord  BY <2>1, <3>2 DEF Row
      <4> QED BY <1>1, <2>3, <3>2, <4>1 DEF Ahead
    <3>4. o <= Cut => o \in Cover  BY <1>1, <3>1, <3>3 DEF LogOK
    <3> QED BY <3>3, <3>4
  <2>4. CASE Stored(Current, t, y, e)  BY <1>3, <1>8, <2>4
  <2> QED BY <1>3, <1>9, <2>2, <2>3, <2>4
<1>15. Ahead'
  <2> SUFFICES ASSUME NEW e \in ckpts', e.ord > y.ord
               PROVE  cert /\ \A o \in 1..e.ord : (o <= Cut => o \in Cover) => o \in Range(e.state) \cup thin
    BY <1>4, <1>5, <1>7 DEF Ahead
  <2>1. e \in ckpts
    <3>1. CASE Stored(Current, t, y, e)
      <4>1. e.ord <= y.ord /\ e.ord \in Row  BY <1>8, <3>1 DEF Ckpt
      <4>2. e.ord \in Nat  BY <1>6, <4>1
      <4> QED BY <1>10, <4>1, <4>2
    <3> QED BY <1>9, <3>1
  <2>2. e.ord > inst.ord  BY <1>3, <1>10, <2>1
  <2> QED BY <1>1, <2>1, <2>2 DEF Ahead
<1>16. TablesOK'
  <2>1. ~i.faulted => table' = rows(inst'.state) /\ (~delta => mirror' = table')  BY <1>5
  <2> QED BY <1>4, <1>5, <2>1 DEF TablesOK, TablesAgree, TableIsRows, MirrorIsTable
<1>17. NoLostWakeup'  BY <1>5 DEF NoLostWakeup
<1> QED BY <1>11, <1>12, <1>13, <1>14, <1>15, <1>16, <1>17 DEF Inv

\* A batch that is not late can be folded into the state, or its first rows.
LEMMA BatchFolds ==
  ASSUME Inv, Batch # {}, ~Late
  PROVE  LET s == Sorted({e.o : e \in Batch}) IN
         /\ s \in Seq(Row) /\ Increasing(s) /\ Range(s) = {e.o : e \in Batch}
         /\ \A o \in Range(s) : o \in Hot /\ inst.ord < o
         /\ \A t \in Seq(Row) : Increasing(t) /\ Range(t) \subseteq Range(s) =>
              FoldGives(Current, t, delta, FoldDelta(Current, t))
<1> DEFINE S == {e.o : e \in Batch}
           s == Sorted(S)
<1>1. LogOK /\ FoldsOK /\ TablesOK  BY DEF Inv
<1>2. inst \in InstRec(next) /\ Upto(inst.state, inst.ord)  BY <1>1 DEF FoldsOK
<1>3. /\ Batch \subseteq log /\ First \in Row /\ \A e \in Batch : First <= e.o
  BY <1>1, <1>2, BatchIs
<1>4. Row \subseteq Nat /\ Hot \subseteq Row  BY <1>1, HotRows
<1>5. S \subseteq Hot  BY <1>3 DEF Hot
<1>6. S \in SUBSET Row  BY <1>4, <1>5
<1>7. \A o \in S : inst.ord < o
  <2> TAKE o \in S
  <2>1. First <= o /\ First \in Nat /\ o \in Nat  BY <1>3, <1>4, <1>6
  <2>2. inst.ord \in Nat  BY <1>2, Constants DEF InstRec
  <2>3. ~(First <= inst.ord)  BY DEF Late
  <2> QED BY ONLY <2>1, <2>2, <2>3
<1> HIDE DEF S
<1>8. s \in Seq(S) /\ Increasing(s) /\ Range(s) = S  BY <1>6, SortedIs
<1>9. s \in Seq(Row)  BY <1>6, <1>8
<1> HIDE DEF s
<1>10. Current = Rec(inst.state, inst.ord, inst.since, ckpts, table, mirror, alarm)
  BY DEF Current, Start, Rec
<1>11. Current \in FoldState
  <2>1. inst.state \in Seq(Row) /\ inst.ord \in 0..MaxOrder /\ inst.since \in 0..(CHECKPOINT_EVERY - 1)
    BY <1>2 DEF InstRec
  <2>2. ckpts \in SUBSET Ckpt  BY <1>1 DEF FoldsOK
  <2>3. table \in Tables /\ mirror \in Tables /\ alarm \in BOOLEAN  BY <1>1 DEF TablesOK, LogOK
  <2> QED BY <1>10, <2>1, <2>2, <2>3, RecType
<1>12. Current.state = inst.state /\ Current.ord = inst.ord  BY <1>10 DEF Rec
<1>13. ASSUME NEW t \in Seq(Row), Increasing(t), Range(t) \subseteq Range(s)
       PROVE  FoldGives(Current, t, delta, FoldDelta(Current, t))
  <2>1. \A o \in Range(t) : inst.ord < o  BY <1>7, <1>8, <1>13
  <2>2. Foldable(Current, t)  BY <1>2, <1>11, <1>12, <1>13, <2>1 DEF Foldable, Upto
  <2>3. Range(Current.state) \subseteq Known  BY <1>2, <1>12 DEF Upto, Known
  <2>4. Range(t) \subseteq Known  BY <1>5, <1>8, <1>13 DEF Known
  <2>5. delta \in BOOLEAN  BY <1>1 DEF LogOK
  <2> QED BY <1>1, <2>2, <2>3, <2>4, <2>5, FoldResult DEF FoldDelta
<1> QED BY <1>5, <1>7, <1>8, <1>9, <1>13 DEF s, S

\* A subscriber's copy stays a table and, without a delta, stays the view's.
LEMMA PatchedIs ==
  ASSUME NEW x \in FoldState, NEW s \in Seq(Row), table \in Tables
  PROVE  /\ Patched(x, s) \in Tables
         /\ ~delta /\ x.mirror = table => Patched(x, s) = rows(x.state)
<1>1. x.mirror \in Tables /\ rows(x.state) \in Tables  BY RowsType DEF FoldState, Tables
<1>2. CASE delta
  <2> DEFINE I(k) == {i \in 1..Len(s) : Effect[s[i]].key = k /\ ~Effect[s[i]].del}
             put(k) == SelectLastInSeq(s, LAMBDA o : Effect[o].key = k /\ ~Effect[o].del)
             del(k) == \E o \in Range(s) : Effect[o].key = k /\ Effect[o].del
  <2>1. \A k \in Key : put(k) = IF I(k) # {} THEN Max(I(k)) ELSE 0  BY DEF SelectLastInSeq
  <2>2. \A k \in Key : put(k) = 0 \/ put(k) \in 1..Len(s)
    <3> TAKE k \in Key
    <3>1. I(k) \in SUBSET (1..Len(s)) /\ Len(s) \in Nat  OBVIOUS
    <3>2. I(k) # {} => Max(I(k)) \in I(k)  BY <3>1, MaxIn
    <3> QED BY <2>1, <3>1, <3>2
  <2>3. Patched(x, s) =
          [k \in Key |-> IF del(k) THEN 0 ELSE IF put(k) = 0 THEN x.mirror[k] ELSE s[put(k)]]
    BY <1>2 DEF Patched
  <2> HIDE DEF put, del, I
  <2>4. \A i \in 1..Len(s) : s[i] \in Row  OBVIOUS
  <2>5. \A k \in Key : x.mirror[k] \in 0..MaxOrder  BY <1>1 DEF Tables
  <2>6. 0 \in 0..MaxOrder /\ Row \subseteq 0..MaxOrder  BY Constants DEF Row
  <2>7. \A k \in Key :
          (IF del(k) THEN 0 ELSE IF put(k) = 0 THEN x.mirror[k] ELSE s[put(k)]) \in 0..MaxOrder
    BY <2>2, <2>4, <2>5, <2>6
  <2> QED BY <1>2, <2>3, <2>7 DEF Tables
<1>3. CASE ~delta
  <2>1. Patched(x, s) =
          [k \in Key |-> IF rows(x.state)[k] = table[k] THEN x.mirror[k] ELSE rows(x.state)[k]]
    BY <1>3 DEF Patched
  <2>2. \A k \in Key : x.mirror[k] \in 0..MaxOrder /\ rows(x.state)[k] \in 0..MaxOrder
    BY <1>1 DEF Tables
  <2>3. Patched(x, s) \in Tables  BY <2>1, <2>2 DEF Tables
  <2>4. ASSUME x.mirror = table PROVE Patched(x, s) = rows(x.state)
    <3>1. \A k \in Key : Patched(x, s)[k] = rows(x.state)[k]  BY <2>1, <2>4
    <3> QED BY <1>1, <2>3, <3>1 DEF Tables
  <2> QED BY <2>3, <2>4
<1> QED BY <1>2, <1>3

\* A batch is folded.
LEMMA FoldBatchInv == Inv /\ foldBatch => Inv'
<1> SUFFICES ASSUME Inv, foldBatch PROVE Inv'  OBVIOUS
<1> DEFINE s == Sorted({e.o : e \in Batch})
           y == FoldDelta(Current, s)
           i == [inst EXCEPT !.lastRowid = BatchEnd]
           z == [y EXCEPT !.table = synced(y), !.mirror = Patched(y, s)]
<1>1. LogOK /\ FoldsOK /\ TablesOK  BY DEF Inv
<1>2. inst.running /\ Batch # {} /\ ~Late /\ Becomes(z, i)
      /\ UNCHANGED <<log, next, cold, gone, cert, delta, hidden, thin>>
  BY DEF foldBatch
<1>3. /\ s \in Seq(Row) /\ Increasing(s) /\ Range(s) = {e.o : e \in Batch}
      /\ \A o \in Range(s) : o \in Hot /\ inst.ord < o
  BY <1>2, BatchFolds
<1>4. FoldGives(Current, s, delta, y)
  <2>1. Range(s) \subseteq Range(s)  OBVIOUS
  <2> QED BY <1>2, <1>3, <2>1, BatchFolds
<1>5. inst \in InstRec(next)  BY <1>1 DEF FoldsOK
<1>6. BatchEnd \in 0..(next - 1) /\ \A e \in Pending : e.r <= BatchEnd => e \in Batch
      /\ Pending \subseteq log
  BY <1>1, <1>2, <1>5, BatchIs
<1>7. i \in InstRec(next) /\ i.running /\ i.lastRowid = BatchEnd /\ i.faulted = inst.faulted
  BY <1>2, <1>5, <1>6 DEF InstRec
<1> HIDE DEF i, s, y
<1>8. y \in FoldState  BY <1>4 DEF FoldGives
<1>9. /\ z.state = y.state /\ z.ord = y.ord /\ z.since = y.since /\ z.ckpts = y.ckpts
      /\ z.alarm = y.alarm /\ z.table = synced(y) /\ z.mirror = Patched(y, s)
  BY <1>8 DEF FoldState
<1> HIDE DEF z
<1>10. /\ inst' = Takes(i, y) /\ ckpts' = y.ckpts /\ table' = synced(y)
       /\ mirror' = Patched(y, s) /\ alarm' = y.alarm
  BY <1>2, <1>9 DEF Becomes, Takes
<1>11. \A e \in Pending : e.r > i.lastRowid \/ e.o \in Range(s)
  <2> TAKE e \in Pending
  <2>1. e.r \in Nat /\ BatchEnd \in Nat
    <3>1. e \in log  BY DEF Pending
    <3>2. e \in [r : 1..(next - 1), o : Row] /\ next \in Nat  BY <1>1, <3>1 DEF LogOK
    <3>3. e.r \in 1..(next - 1)  BY ONLY <3>2
    <3>4. e.r \in Nat  BY ONLY <3>2, <3>3
    <3>5. BatchEnd \in Nat
      <4>1. BatchEnd \in 0..(next - 1)  BY <1>6
      <4> QED BY ONLY <3>2, <4>1
    <3> QED BY <3>4, <3>5
  <2>2. e.r > BatchEnd \/ e.r <= BatchEnd  BY ONLY <2>1
  <2> QED BY <1>3, <1>6, <1>7, <2>2
<1>12. table \in Tables /\ rows(y.state) \in Tables /\ y.table \in Tables /\ y.alarm \in BOOLEAN
  BY <1>1, <1>8, RowsType DEF TablesOK, Tables, FoldState
<1>13. table' \in Tables /\ mirror' \in Tables /\ alarm' \in BOOLEAN
  BY <1>3, <1>8, <1>10, <1>12, PatchedIs DEF synced
<1>14. Current.table = table /\ Current.mirror = mirror /\ Current.state = inst.state
  BY DEF Current, Start
<1>15. ASSUME ~inst.faulted PROVE table' = rows(y.state) /\ (~delta => mirror' = table')
  <2>1. table = rows(inst.state) /\ (~delta => mirror = table)
    BY <1>1, <1>15 DEF TablesOK, TablesAgree, TableIsRows, MirrorIsTable
  <2>2. delta => y.table = rows(y.state)  BY <1>4, <1>14, <2>1 DEF FoldGives
  <2>3. synced(y) = rows(y.state)  BY <2>2 DEF synced
  <2>4. ~delta => y.mirror = table  BY <1>4, <1>14, <2>1 DEF FoldGives
  <2>5. ~delta => Patched(y, s) = rows(y.state)  BY <1>3, <1>8, <1>12, <2>4, PatchedIs
  <2> QED BY <1>10, <2>3, <2>5
<1>16. i.faulted \/ (table' = rows(y.state) /\ (~delta => mirror' = table'))
  <2>1. i.faulted \/ ~inst.faulted  BY <1>7
  <2> QED BY <1>15, <2>1
<1> QED BY <1>2, <1>3, <1>4, <1>7, <1>10, <1>11, <1>13, <1>16, FoldInv

\* Folding a batch throws.
LEMMA FoldFailsInv == Inv /\ foldFails => Inv'
<1> SUFFICES ASSUME Inv, foldFails PROVE Inv'  OBVIOUS
<1> DEFINE s == Sorted({e.o : e \in Batch})
           i == [inst EXCEPT !.faulted = TRUE, !.running = FALSE]
<1>1. LogOK /\ FoldsOK /\ TablesOK  BY DEF Inv
<1>2. Batch # {} /\ ~Late /\ UNCHANGED <<log, next, cold, gone, cert, delta, hidden, thin>>
  BY DEF foldFails
<1>3. PICK n \in 0..Len(s) :
        Becomes([FoldDelta(Current, SubSeq(s, 1, n)) EXCEPT !.ckpts = ckpts, !.table = table], i)
  BY DEF foldFails
<1>4. /\ s \in Seq(Row) /\ Increasing(s)
      /\ \A o \in Range(s) : o \in Hot /\ inst.ord < o
  BY <1>2, BatchFolds
<1> DEFINE t == SubSeq(s, 1, n)
           y == FoldDelta(Current, t)
           z == [y EXCEPT !.ckpts = ckpts, !.table = table]
<1>5. t \in Seq(Row) /\ Increasing(t) /\ Range(t) \subseteq Range(s)  BY <1>4, CutRows
<1>6. FoldGives(Current, t, delta, y)  BY <1>2, <1>5, BatchFolds
<1>7. Becomes(z, i)  BY <1>3
<1>8. inst \in InstRec(next)  BY <1>1 DEF FoldsOK
<1>9. i \in InstRec(next) /\ i.faulted /\ i.lastRowid = inst.lastRowid  BY <1>8 DEF InstRec
<1>10. \A o \in Range(t) : o \in Hot /\ inst.ord < o  BY <1>4, <1>5
<1> HIDE DEF i, s, t, y
<1>11. y \in FoldState  BY <1>6 DEF FoldGives
<1>12. /\ z.state = y.state /\ z.ord = y.ord /\ z.since = y.since /\ z.ckpts = ckpts
       /\ z.alarm = y.alarm /\ z.table = table /\ z.mirror = y.mirror
  BY <1>11 DEF FoldState
<1> HIDE DEF z
<1>13. /\ inst' = Takes(i, y) /\ ckpts' = ckpts /\ table' = table
       /\ mirror' = y.mirror /\ alarm' = y.alarm
  BY <1>7, <1>12 DEF Becomes, Takes
<1>14. table' \in Tables /\ mirror' \in Tables /\ alarm' \in BOOLEAN
  BY <1>1, <1>11, <1>13 DEF TablesOK, FoldState
<1>15. \A e \in Pending : e.r > i.lastRowid  BY <1>9 DEF Pending
<1> QED BY <1>2, <1>5, <1>6, <1>9, <1>10, <1>13, <1>14, <1>15, FoldInv

--------------------------------------------------------------------------------
(* Steps of the log *)

\* schedule sets the timer, unless the view is faulted.
LEMMA ScheduleIs ==
  ASSUME NEW n, NEW i \in InstRec(n)
  PROVE  /\ schedule(i) \in InstRec(n) /\ schedule(i).state = i.state /\ schedule(i).ord = i.ord
         /\ schedule(i).lastRowid = i.lastRowid /\ schedule(i).faulted = i.faulted
         /\ schedule(i).scheduled \/ schedule(i).faulted
<1>1. CASE i.faulted  BY <1>1 DEF schedule
<1>2. CASE ~i.faulted
  <2> DEFINE j == [i EXCEPT !.scheduled = TRUE]
  <2>1. schedule(i) = j  BY <1>2 DEF schedule
  <2>2. /\ j \in InstRec(n) /\ j.state = i.state /\ j.ord = i.ord
        /\ j.lastRowid = i.lastRowid /\ j.faulted = i.faulted /\ j.scheduled = TRUE
    BY DEF InstRec
  <2> QED BY <2>1, <2>2
<1> QED BY <1>1, <1>2

\* What was known stays known.
LEMMA MoreKnown ==
  ASSUME Known \subseteq Known'
  PROVE  \A s, n : Upto(s, n) => Upto(s, n)'
BY DEF Known, Upto

\* A row is flushed.
LEMMA ApplyInv ==
  ASSUME Inv, NEW o \in Row, apply(o)
  PROVE  Inv'
<1> DEFINE n == [r |-> next, o |-> o]
<1>1. LogOK /\ FoldsOK /\ Reached /\ Kept /\ Ahead /\ TablesOK  BY DEF Inv
<1>2. /\ o \notin Hot \cup cold \cup gone /\ (cert => o > Cut \/ o \in Cover)
      /\ log' = log \cup {n} /\ next' = next + 1 /\ inst' = schedule(inst)
      /\ UNCHANGED <<cold, gone, cert, ckpts, table, mirror, delta, alarm, hidden, thin>>
  BY DEF apply
<1>3. n.r = next /\ n.o = o  OBVIOUS
<1> HIDE DEF n
<1>4. Hot' = Hot \cup {o}  BY <1>2, <1>3 DEF Hot
<1>5. next \in Nat /\ next > 0 /\ inst \in InstRec(next) /\ o \in Nat /\ Cut \in Nat
  BY <1>1, HotRows, Constants DEF LogOK, FoldsOK
<1>6. LogOK'
  <2>1. IsFiniteSet(log')  BY <1>1, <1>2, FS_AddElement DEF LogOK
  <2>2. log' \subseteq [r : 1..(next' - 1), o : Row]
    <3>1. n \in [r : 1..next, o : Row]  BY <1>5 DEF n
    <3>2. next' - 1 = next  BY <1>2, <1>5
    <3>3. 1..(next - 1) \subseteq 1..next  BY <1>5
    <3>4. log \subseteq [r : 1..next, o : Row]  BY <1>1, <3>3 DEF LogOK
    <3> QED BY <1>2, <3>1, <3>2, <3>4
  <2>3. cert' => \A p \in Hot' : p <= Cut => p \in Cover
    <3>1. cert => (o <= Cut => o \in Cover)  BY <1>2, <1>5
    <3> QED BY <1>1, <1>2, <1>4, <3>1 DEF LogOK
  <2>4. next' \in Nat \ {0}  BY <1>2, <1>5
  <2> QED BY <1>1, <1>2, <2>1, <2>2, <2>3, <2>4 DEF LogOK
<1>7. inst' \in InstRec(next) /\ inst' \in InstRec(next')
  <2>1. inst' \in InstRec(next)  BY <1>2, <1>5, ScheduleIs
  <2>2. 0..(next - 1) \subseteq 0..(next' - 1)  BY <1>2, <1>5
  <2>3. InstRec(next) \subseteq InstRec(next')  BY <2>2 DEF InstRec
  <2> QED BY <2>1, <2>3
<1>8. /\ inst'.state = inst.state /\ inst'.ord = inst.ord /\ inst'.lastRowid = inst.lastRowid
      /\ inst'.faulted = inst.faulted /\ (inst'.scheduled \/ inst'.faulted)
  BY <1>2, <1>5, ScheduleIs
<1>9. FoldsOK'
  <2>1. Known \subseteq Known'  BY <1>2, <1>4 DEF Known
  <2>2. \A s, k : Upto(s, k) => Upto(s, k)'  BY <2>1, MoreKnown
  <2>3. \A c \in ckpts' : Upto(c.state, c.ord)'
    <3>1. \A c \in ckpts : Upto(c.state, c.ord)  BY <1>1 DEF FoldsOK
    <3> QED BY <1>2, <2>2, <3>1 DEF Upto
  <2>4. Upto(inst.state, inst.ord)'
    <3>1. Upto(inst.state, inst.ord)  BY <1>1 DEF FoldsOK
    <3> QED BY <1>8, <2>2, <3>1 DEF Upto
  <2> QED BY <1>1, <1>2, <1>7, <2>3, <2>4 DEF FoldsOK
<1>10. o \in Waiting' /\ Waiting \subseteq Waiting'
  <2>1. next > inst.lastRowid  BY <1>5 DEF InstRec
  <2>2. n \in Pending' /\ Pending \subseteq Pending'  BY <1>2, <1>3, <1>8, <2>1 DEF Pending
  <2> QED BY <1>3, <2>2 DEF Waiting
<1>11. Shown' \subseteq Shown \cup {o}  BY <1>2, <1>4 DEF Shown
<1>12. Reached'  BY <1>1, <1>8, <1>10, <1>11 DEF Reached
<1>13. Kept'
  <2>1. o \notin Range(inst.state)  BY <1>1, <1>2 DEF FoldsOK, Upto
  <2> QED BY <1>1, <1>2, <1>8, <1>11, <2>1 DEF Kept
<1>14. Ahead'  BY <1>1, <1>2, <1>8 DEF Ahead
<1>15. TablesOK'  BY <1>1, <1>2, <1>8 DEF TablesOK, TablesAgree, TableIsRows, MirrorIsTable
<1>16. NoLostWakeup'  BY <1>8 DEF NoLostWakeup
<1> QED BY <1>6, <1>9, <1>12, <1>13, <1>14, <1>15, <1>16 DEF Inv

\* Covered rows are archived.
LEMMA ArchiveInv ==
  ASSUME Inv, NEW m, archive(m)
  PROVE  Inv'
<1> DEFINE moved == {e \in log : e.o \in Cover /\ e.r <= m}
<1>1. LogOK /\ FoldsOK /\ Reached /\ Kept /\ Ahead /\ TablesOK /\ NoLostWakeup  BY DEF Inv
<1>2. /\ cert /\ log' = log \ moved /\ cold' = cold \cup {e.o : e \in moved}
      /\ hidden' = hidden \cup ({e.o : e \in {f \in moved : f.r > inst.lastRowid}} \ Range(inst.state))
      /\ UNCHANGED <<next, gone, cert, ckpts, inst, table, mirror, delta, alarm, thin>>
  BY DEF archive
<1>3. moved \subseteq log /\ \A e \in moved : e.o \in Cover  OBVIOUS
<1> HIDE DEF moved
<1>4. Hot' \subseteq Hot  BY <1>2 DEF Hot
<1>5. Hot' \cup cold' = Hot \cup cold  BY <1>2, <1>3 DEF Hot
<1>6. LogOK'
  <2>1. IsFiniteSet(log')  BY <1>1, <1>2, FS_Subset DEF LogOK
  <2>2. log' \subseteq [r : 1..(next' - 1), o : Row]  BY <1>1, <1>2 DEF LogOK
  <2>3. cold' \subseteq Cover  BY <1>1, <1>2, <1>3 DEF LogOK
  <2>4. hidden' \subseteq Row
    <3>1. \A e \in moved : e.o \in Row  BY <1>1, <1>3, HotRows
    <3> QED BY <1>1, <1>2, <3>1 DEF LogOK
  <2>5. cert' => \A p \in Hot' : p <= Cut => p \in Cover  BY <1>1, <1>2, <1>4 DEF LogOK
  <2> QED BY <1>1, <1>2, <2>1, <2>2, <2>3, <2>4, <2>5 DEF LogOK
<1>7. FoldsOK'
  <2>1. \A s, k : Upto(s, k) => Upto(s, k)'  BY <1>2, <1>5 DEF Upto
  <2>2. \A c \in ckpts' : Upto(c.state, c.ord)'
    <3>1. \A c \in ckpts : Upto(c.state, c.ord)  BY <1>1 DEF FoldsOK
    <3> QED BY <1>2, <2>1, <3>1 DEF Upto
  <2>3. Upto(inst.state, inst.ord)'
    <3>1. Upto(inst.state, inst.ord)  BY <1>1 DEF FoldsOK
    <3> QED BY <1>2, <2>1, <3>1 DEF Upto
  <2> QED BY <1>1, <1>2, <2>2, <2>3 DEF FoldsOK
<1>8. Shown' \subseteq Shown /\ \A o \in Shown' : o \notin hidden'  BY <1>2, <1>5 DEF Shown
<1>9. Reached'
  <2> SUFFICES ASSUME NEW o \in Shown' PROVE o \in Range(inst.state) \cup Waiting'
    BY <1>2 DEF Reached
  <2>1. CASE o \in Range(inst.state)  BY <2>1
  <2>2. CASE o \notin Range(inst.state)
    <3>1. o \in Waiting  BY <1>1, <1>8, <2>2 DEF Reached
    <3>2. PICK e \in log : e.o = o /\ e.r > inst.lastRowid  BY <3>1 DEF Waiting, Pending
    <3>3. e \notin moved
      <4>1. e \in moved => o \in hidden'  BY <1>2, <2>2, <3>2
      <4> QED BY <1>8, <4>1
    <3>4. e \in Pending'  BY <1>2, <3>2, <3>3 DEF Pending
    <3> QED BY <3>2, <3>4 DEF Waiting
  <2> QED BY <2>1, <2>2
<1>10. Kept'  BY <1>1, <1>2, <1>8 DEF Kept
<1>11. Ahead'  BY <1>1, <1>2 DEF Ahead
<1>12. TablesOK'  BY <1>1, <1>2 DEF TablesOK, TablesAgree, TableIsRows, MirrorIsTable
<1>13. NoLostWakeup'  BY <1>1, <1>2 DEF NoLostWakeup, Pending
<1> QED BY <1>6, <1>7, <1>9, <1>10, <1>11, <1>12, <1>13 DEF Inv

\* A snapshot is adopted.
LEMMA InstallInv ==
  ASSUME Inv, NEW has \in BOOLEAN, installState(has)
  PROVE  Inv'
<1> DEFINE s == IF has THEN Sorted(Cover) ELSE << >>
           k == [ord |-> Cut, state |-> s]
           i == [inst EXCEPT !.state = s, !.ord = Cut, !.since = 0, !.faulted = FALSE, !.lastRowid = MaxRowid]
           lost == UNION {(1..c.ord) \ Range(c.state) : c \in ckpts}
<1>1. LogOK /\ FoldsOK  BY DEF Inv
<1>2. /\ cert /\ ~(Cover \subseteq Hot \cup cold)
      /\ ckpts' = Puts(ckpts, k) /\ inst' = i
      /\ table' = rows(s) /\ mirror' = rows(s)
      /\ hidden' = hidden \cup {o \in Hot : o > Cut} \cup (Cover \ Range(s))
      /\ thin' = thin \cup lost
      /\ cold' = cold \cup (Cover \ Hot)
      /\ UNCHANGED <<log, next, gone, cert, delta, alarm>>
  BY DEF installState
<1>3. Hot \subseteq Row /\ cold \subseteq Row /\ Cover \in SUBSET Row /\ Row \subseteq Nat
  BY <1>1, HotRows
<1>4. Cut \in Row
  <2>1. PICK o \in Cover : TRUE  BY <1>2
  <2>2. o \in 1..Cut /\ Cut \in 0..MaxOrder /\ MaxOrder \in Nat  BY Constants
  <2> QED BY <2>2 DEF Row
<1>5. s \in Seq(Row) /\ Increasing(s) /\ Range(s) \subseteq Cover
  <2>1. CASE has
    <3>1. Sorted(Cover) \in Seq(Cover)  BY <1>3, SortedIs
    <3>2. Sorted(Cover) \in Seq(Row)
      <4> DEFINE q == Sorted(Cover)
      <4>1. q \in Seq(Cover) /\ Cover \in SUBSET Row  BY <1>3, <3>1
      <4> HIDE DEF q
      <4>2. q \in Seq(Row)  BY ONLY <4>1
      <4> QED BY <4>2 DEF q
    <3>3. Increasing(Sorted(Cover)) /\ Range(Sorted(Cover)) = Cover  BY <1>3, SortedIs
    <3> QED BY <2>1, <3>2, <3>3
  <2>2. CASE ~has  BY <2>2, NoRows
  <2> QED BY <2>1, <2>2
<1>6. \A o \in Cover : o <= Cut  BY Constants
<1>7. k \in Ckpt /\ k.ord = Cut /\ k.state = s  BY <1>4, <1>5 DEF Ckpt
<1>8. ckpts' = {d \in ckpts : d.ord # Cut} \cup {k}  BY <1>2, <1>7 DEF Puts
<1>9. inst \in InstRec(next) /\ MaxRowid \in 0..(next - 1) /\ \A e \in log : e.r <= MaxRowid
  BY <1>1, MaxRowidIs DEF FoldsOK
<1>10. i \in InstRec(next) /\ i.state = s /\ i.ord = Cut /\ i.lastRowid = MaxRowid /\ i.faulted = FALSE
  <2>1. Cut \in 0..MaxOrder /\ 0 \in 0..(CHECKPOINT_EVERY - 1)  BY Constants
  <2> QED BY <1>5, <1>9, <2>1 DEF InstRec
<1> HIDE DEF s, k, i, lost
<1>11. Hot' = Hot /\ Hot' \cup cold' = Hot \cup cold \cup Cover  BY <1>2 DEF Hot
<1>12. LogOK'
  <2>1. hidden' \subseteq Row  BY <1>1, <1>2, <1>3 DEF LogOK
  <2>2. cold' \subseteq Cover  BY <1>1, <1>2 DEF LogOK
  <2> QED BY <1>1, <1>2, <1>11, <2>1, <2>2 DEF LogOK
<1>13. FoldsOK'
  <2>1. Known \subseteq Known'  BY <1>2, <1>11 DEF Known
  <2>2. \A t, n : Upto(t, n) => Upto(t, n)'  BY <2>1, MoreKnown
  <2>3. Upto(s, Cut)'  BY <1>5, <1>6, <1>11 DEF Upto
  <2>4. \A c \in ckpts : c \in Ckpt /\ Upto(c.state, c.ord)  BY <1>1 DEF FoldsOK
  <2>5. \A c \in ckpts' : Upto(c.state, c.ord)'
    <3> TAKE c \in ckpts'
    <3>1. CASE c \in ckpts  BY <2>2, <2>4, <3>1 DEF Upto
    <3>2. CASE c = k  BY <1>7, <2>3, <3>2 DEF Upto
    <3> QED BY <1>8, <3>1, <3>2
  <2>6. Upto(inst.state, inst.ord)'  BY <1>2, <1>10, <2>3 DEF Upto
  <2>7. ckpts' \subseteq Ckpt  BY <1>7, <1>8, <2>4
  <2>8. inst' \in InstRec(next')  BY <1>2, <1>10
  <2> QED BY <2>5, <2>6, <2>7, <2>8 DEF FoldsOK
<1>14. Reached'
  <2> SUFFICES ASSUME NEW o \in Shown' PROVE o \in Range(s)  BY <1>2, <1>10 DEF Reached
  <2>1. o \in Hot \cup cold \cup Cover /\ o \notin hidden'  BY <1>11 DEF Shown
  <2>2. o \in Nat /\ Cut \in Nat  BY <1>3, <1>4, <2>1
  <2>3. o \in Cover
    <3>1. CASE o \in Hot
      <4>1. ~(o > Cut)  BY <1>2, <2>1, <3>1
      <4> QED BY <1>1, <1>2, <2>2, <3>1, <4>1 DEF LogOK
    <3>2. CASE o \in cold  BY <1>1, <3>2 DEF LogOK
    <3> QED BY <2>1, <3>1, <3>2
  <2> QED BY <1>2, <2>1, <2>3
<1>15. ASSUME NEW c \in ckpts, NEW o \in 1..c.ord PROVE o \in Range(c.state) \cup thin'
  <2>1. o \notin Range(c.state) => o \in lost  BY DEF lost
  <2> QED BY <1>2, <2>1
<1>16. Kept'
  <2> SUFFICES ASSUME NEW c \in ckpts', NEW o \in (Shown \ thin)', o \in Range(inst'.state), o <= c.ord
               PROVE  o \in Range(c.state)
    BY DEF Kept
  <2>1. CASE c = k  BY <1>2, <1>7, <1>10, <2>1
  <2>2. CASE c \in ckpts
    <3>1. o \in Row /\ c.ord \in Row
      <4>1. o \in Row  BY <1>3, <1>11 DEF Shown
      <4>2. c \in Ckpt  BY <1>1, <2>2 DEF FoldsOK
      <4> QED BY <4>1, <4>2 DEF Ckpt
    <3>2. o \in 1..c.ord  BY <3>1, Constants DEF Row
    <3> QED BY <1>15, <2>2, <3>2
  <2> QED BY <1>8, <2>1, <2>2
<1>17. Ahead'
  <2> SUFFICES ASSUME NEW c \in ckpts', c.ord > Cut, NEW o \in 1..c.ord
               PROVE  o \in Range(c.state) \cup thin'
    BY <1>2, <1>10 DEF Ahead
  <2>1. c # k  BY <1>3, <1>4, <1>7
  <2> QED BY <1>8, <1>15, <2>1
<1>18. TablesOK'
  <2>1. rows(s) \in Tables  BY <1>5, RowsType DEF Tables
  <2> QED BY <1>2, <1>10, <2>1 DEF TablesOK, TablesAgree, TableIsRows, MirrorIsTable
<1>19. NoLostWakeup'
  <2>1. Pending' = {e \in log : e.r > MaxRowid}  BY <1>2, <1>10 DEF Pending
  <2>2. \A e \in log : e.r \in Nat /\ MaxRowid \in Nat  BY <1>1, <1>9 DEF LogOK
  <2>3. Pending' = {}  BY <1>9, <2>1, <2>2
  <2> QED BY <2>3 DEF NoLostWakeup
<1> QED BY <1>12, <1>13, <1>14, <1>16, <1>17, <1>18, <1>19 DEF Inv

\* The certificate quarantines the rows it does not cover.
LEMMA CertLog ==
  ASSUME Inv, ~cert, cert' = TRUE, log' = {e \in log : e.o <= Cut => e.o \in Cover},
         gone' = {e.o : e \in log \ log'}, UNCHANGED <<next, cold, delta, alarm, hidden>>,
         inst'.lastRowid = inst.lastRowid
  PROVE  /\ LogOK' /\ Hot' = {o \in Hot : o <= Cut => o \in Cover} /\ cold' = {} /\ cold = {}
         /\ Known' = Known /\ Shown' = {o \in Shown : o \in Hot'}
         /\ \A o \in Waiting : o \in Hot' => o \in Waiting'
<1>1. LogOK /\ cold = {} /\ gone = {}  BY DEF Inv, LogOK
<1>2. Hot' = {o \in Hot : o <= Cut => o \in Cover}  BY DEF Hot
<1>3. Known' = Known  BY <1>1 DEF Known, Hot
<1>4. Shown' = {o \in Shown : o \in Hot'}  BY <1>1, <1>2 DEF Shown
<1>5. ASSUME NEW o \in Waiting, o \in Hot' PROVE o \in Waiting'
  <2>1. PICK e \in log : e.o = o /\ e.r > inst.lastRowid  BY DEF Waiting, Pending
  <2>2. e \in log'  BY <1>2, <1>5, <2>1
  <2>3. e \in Pending'  BY <2>1, <2>2 DEF Pending
  <2> QED BY <2>1, <2>3 DEF Waiting
<1>6. LogOK'
  <2>1. log' \subseteq log  OBVIOUS
  <2>2. IsFiniteSet(log')  BY <1>1, <2>1, FS_Subset DEF LogOK
  <2>3. log' \subseteq [r : 1..(next' - 1), o : Row]  BY <1>1, <2>1 DEF LogOK
  <2>4. gone' \subseteq Row
    <3>1. \A e \in log : e.o \in Row  BY <1>1 DEF LogOK
    <3> QED BY <3>1
  <2> QED BY <1>1, <1>2, <2>2, <2>3, <2>4 DEF LogOK
<1> QED BY <1>1, <1>2, <1>3, <1>4, <1>5, <1>6

\* What the certificate's step leaves true of a view whose checkpoints it does not touch.
LEMMA CertParts ==
  ASSUME Inv, ~cert, cert' = TRUE, log' = {e \in log : e.o <= Cut => e.o \in Cover},
         gone' = {e.o : e \in log \ log'},
         UNCHANGED <<next, cold, delta, alarm, hidden, table, mirror>>,
         inst' \in InstRec(next), inst'.state = inst.state, inst'.ord = inst.ord,
         inst'.lastRowid = inst.lastRowid, inst.faulted => inst'.faulted, thin \subseteq thin',
         inst'.scheduled \/ inst'.faulted
  PROVE  /\ LogOK' /\ Reached' /\ TablesOK' /\ NoLostWakeup'
         /\ \A c \in ckpts : /\ c \in Ckpt /\ Upto(c.state, c.ord)' /\ ~(c.ord > inst.ord)
                             /\ \A o \in (Shown \ thin)' :
                                  o \in Range(inst.state) /\ o <= c.ord => o \in Range(c.state)
         /\ Upto(inst.state, inst.ord)' /\ next' = next
<1>1. FoldsOK /\ Reached /\ Kept /\ Ahead /\ TablesOK  BY DEF Inv
<1>2. /\ LogOK' /\ Known' = Known /\ Shown' = {o \in Shown : o \in Hot'}
      /\ \A o \in Waiting : o \in Hot' => o \in Waiting'
  BY CertLog
<1>3. \A s, n : Upto(s, n) => Upto(s, n)'  BY <1>2, MoreKnown
<1>4. Reached'  BY <1>1, <1>2 DEF Reached
<1>5. TablesOK'  BY <1>1 DEF TablesOK, TablesAgree, TableIsRows, MirrorIsTable
<1>6. NoLostWakeup'  BY DEF NoLostWakeup
<1>7. ASSUME NEW c \in ckpts
      PROVE  /\ c \in Ckpt /\ Upto(c.state, c.ord)' /\ ~(c.ord > inst.ord)
             /\ \A o \in (Shown \ thin)' :
                  o \in Range(inst.state) /\ o <= c.ord => o \in Range(c.state)
  <2>1. c \in Ckpt /\ Upto(c.state, c.ord)  BY <1>1 DEF FoldsOK
  <2>2. Upto(c.state, c.ord)'  BY <1>3, <2>1 DEF Upto
  <2>3. ~(c.ord > inst.ord)  BY <1>1 DEF Ahead
  <2> QED BY <1>1, <1>2, <2>1, <2>2, <2>3 DEF Kept
<1>8. Upto(inst.state, inst.ord)'
  <2>1. Upto(inst.state, inst.ord)  BY <1>1 DEF FoldsOK
  <2> QED BY <1>3, <2>1 DEF Upto
<1> QED BY <1>2, <1>4, <1>5, <1>6, <1>7, <1>8

\* The checkpoints are not touched at all.
LEMMA CertInv ==
  ASSUME Inv, ~cert, cert' = TRUE, log' = {e \in log : e.o <= Cut => e.o \in Cover},
         gone' = {e.o : e \in log \ log'},
         UNCHANGED <<next, cold, delta, alarm, hidden, table, mirror>>,
         inst' \in InstRec(next), inst'.state = inst.state, inst'.ord = inst.ord,
         inst'.lastRowid = inst.lastRowid, inst.faulted => inst'.faulted, UNCHANGED <<ckpts, thin>>,
         inst'.scheduled \/ inst'.faulted
  PROVE  Inv'
<1>1. /\ LogOK' /\ Reached' /\ TablesOK' /\ NoLostWakeup'
      /\ \A c \in ckpts : /\ c \in Ckpt /\ Upto(c.state, c.ord)' /\ ~(c.ord > inst.ord)
                          /\ \A o \in (Shown \ thin)' :
                               o \in Range(inst.state) /\ o <= c.ord => o \in Range(c.state)
      /\ Upto(inst.state, inst.ord)' /\ next' = next
  BY CertParts
<1>2. FoldsOK'
  <2>1. \A c \in ckpts' : Upto(c.state, c.ord)'  BY <1>1 DEF Upto
  <2>2. ckpts' \subseteq Ckpt /\ inst' \in InstRec(next')  BY <1>1
  <2> QED BY <1>1, <2>1, <2>2 DEF FoldsOK
<1>3. Kept'  BY <1>1 DEF Kept
<1>4. Ahead'  BY <1>1 DEF Ahead
<1> QED BY <1>1, <1>2, <1>3, <1>4 DEF Inv

\* Rebasing throws.
LEMMA RebaseFailsInv == Inv /\ rebaseFails => Inv'
<1> SUFFICES ASSUME Inv, rebaseFails PROVE Inv'  OBVIOUS
<1>1. /\ ~cert /\ cert' = TRUE /\ log' = {e \in log : e.o <= Cut => e.o \in Cover}
      /\ gone' = {e.o : e \in log \ log'} /\ inst' = fault(schedule(inst))
      /\ UNCHANGED <<next, cold, delta, alarm, hidden, table, mirror, ckpts, thin>>
  BY DEF rebaseFails
<1>2. inst \in InstRec(next)  BY DEF Inv, FoldsOK
<1> DEFINE j == schedule(inst)
<1>3. j \in InstRec(next) /\ j.state = inst.state /\ j.ord = inst.ord /\ j.lastRowid = inst.lastRowid
  BY <1>2, ScheduleIs
<1>4. inst' = fault(j)  BY <1>1
<1> HIDE DEF j
<1>5. /\ inst' \in InstRec(next) /\ inst'.state = j.state /\ inst'.ord = j.ord
      /\ inst'.lastRowid = j.lastRowid /\ inst'.faulted = TRUE
  BY <1>3, <1>4 DEF fault, InstRec
<1> QED BY <1>1, <1>3, <1>5, CertInv

\* The checkpoint at the cut has every covered row of the log but the ones that
\* its base has missed.
LEMMA RebasedIs ==
  ASSUME Inv, ~cert, Cut > 0, NEW l \in SUBSET log,
         NEW c, c = checkpointBefore(ckpts, Cut + 1), NEW s, s = stateAt(l, Cut)
  PROVE  /\ Cut \in Row /\ s \in Seq(Row) /\ Increasing(s)
         /\ \A o \in Range(s) : o <= Cut /\ (o \in Range(c.state) \/ o \in {e.o : e \in l})
         /\ \A o \in {e.o : e \in l} : o <= Cut => o \in Range(s) \cup Missed(c)
         /\ Base(c)
<1> DEFINE S == Orders(l, c.ord, Cut)
<1>1. LogOK /\ FoldsOK  BY DEF Inv
<1>2. Cut \in Nat /\ Cut \in Row /\ Cut + 1 \in Nat  BY Constants DEF Row
<1>3. ckpts \in SUBSET Ckpt  BY <1>1 DEF FoldsOK
<1>4. (c \in ckpts /\ c.ord < Cut + 1) \/ c = NoCkpt  BY <1>2, <1>3, BeforeIs
<1>5. Base(c)  BY <1>1, <1>4, BaseIs
<1>6. c.ord \in Nat /\ c.ord <= Cut
  <2>1. c.ord \in Nat  BY <1>5, Constants DEF Base
  <2>2. c = NoCkpt => c.ord = 0  BY DEF NoCkpt
  <2> QED BY <1>2, <1>4, <2>1, <2>2
<1>7. Hot \subseteq Row /\ cold \subseteq Row /\ Row \subseteq Nat  BY <1>1, HotRows
<1>8. S \in SUBSET Row /\ S = {o \in {e.o : e \in l} : c.ord < o /\ o <= Cut}
  BY <1>1, <1>2, <1>6, OrdersAre
<1>9. s = c.state \o Sorted(S)  BY DEF stateAt
<1>10. {e.o : e \in l} \subseteq Hot  BY DEF Hot
<1> HIDE DEF S
<1> DEFINE q == Sorted(S)
<1>11. q \in Seq(S) /\ Increasing(q) /\ Range(q) = S  BY <1>8, SortedIs
<1> HIDE DEF q
<1>12. q \in Seq(Row)
  <2>1. q \in Seq(S) /\ S \in SUBSET Row  BY <1>8, <1>11
  <2> QED BY ONLY <2>1
<1>13. c.state \in Seq(Row) /\ Increasing(c.state) /\ \A p \in Range(c.state) : p <= c.ord
  BY <1>5 DEF Base, Upto
<1>14. \A p \in Range(c.state) : p \in Nat
  <2>1. \A p \in Range(c.state) : p \in Row  BY <1>13 DEF Range
  <2> QED BY <1>7, <2>1
<1>15. \A p \in Range(c.state), o \in Range(q) : p < o
  <2> TAKE p \in Range(c.state), o \in Range(q)
  <2>1. p <= c.ord /\ c.ord < o /\ p \in Nat  BY <1>8, <1>11, <1>13, <1>14
  <2>2. o \in Nat  BY <1>7, <1>8, <1>11
  <2> QED BY ONLY <2>1, <2>2, <1>6
<1>16. s \in Seq(Row) /\ Increasing(s) /\ Range(s) = Range(c.state) \cup S
  <2>1. s = c.state \o q  BY <1>9 DEF q
  <2> QED BY <1>11, <1>12, <1>13, <1>15, <2>1, CatRows
<1>17. \A o \in Range(s) : o <= Cut /\ (o \in Range(c.state) \/ o \in {e.o : e \in l})
  <2> TAKE o \in Range(s)
  <2>1. CASE o \in Range(c.state)
    <3>1. o <= c.ord /\ o \in Nat  BY <1>13, <1>14, <2>1
    <3>2. o <= Cut  BY ONLY <3>1, <1>2, <1>6
    <3> QED BY <2>1, <3>2
  <2>2. CASE o \in S  BY <1>8, <2>2
  <2> QED BY <1>16, <2>1, <2>2
<1>18. ASSUME NEW o \in {e.o : e \in l}, o <= Cut PROVE o \in Range(s) \cup Missed(c)
  <2>1. o \in Nat /\ o \in Hot  BY <1>7, <1>10
  <2>2. CASE c.ord < o  BY <1>8, <1>16, <1>18, <2>2
  <2>3. CASE o <= c.ord
    <3>1. o \in Range(c.state) \cup Missed(c)  BY <2>1, <2>3 DEF Missed
    <3> QED BY <1>16, <3>1
  <2>4. c.ord < o \/ o <= c.ord  BY ONLY <1>6, <2>1
  <2> QED BY <2>2, <2>3, <2>4
<1> QED BY <1>2, <1>5, <1>16, <1>17, <1>18

\* The certificate is accepted.
LEMMA AcceptCertInv == Inv /\ acceptCert => Inv'
<1> SUFFICES ASSUME Inv, acceptCert PROVE Inv'  OBVIOUS
<1> DEFINE l == {e \in log : e.o <= Cut => e.o \in Cover}
           c == checkpointBefore(ckpts, Cut + 1)
<1> PICK s : s = stateAt(l, Cut)  OBVIOUS
<1> DEFINE k == [ord |-> Cut, state |-> s]
<1>1. /\ Cut > 0 /\ ~cert /\ cert' = TRUE /\ log' = l
      /\ gone' = {e.o : e \in log \ log'} /\ inst' = schedule(inst)
      /\ UNCHANGED <<next, cold, delta, alarm, hidden, table, mirror>>
  BY DEF acceptCert
<1>2. \/ inst.faulted /\ UNCHANGED <<ckpts, thin>>
      \/ /\ ckpts' = rebased(l)
         /\ thin' = thin \cup (Cover \ Hot) \cup Missed(c)
  BY DEF acceptCert
<1>3. inst \in InstRec(next)  BY DEF Inv, FoldsOK
<1>4. /\ inst' \in InstRec(next) /\ inst'.state = inst.state /\ inst'.ord = inst.ord
      /\ inst'.lastRowid = inst.lastRowid /\ inst'.faulted = inst.faulted
      /\ inst'.scheduled \/ inst'.faulted
  BY <1>1, <1>3, ScheduleIs
<1>5. CASE UNCHANGED <<ckpts, thin>>  BY <1>1, <1>4, <1>5, CertInv
<1>6. CASE /\ ckpts' = rebased(l)
           /\ thin' = thin \cup (Cover \ Hot) \cup Missed(c)
  <2>1. /\ LogOK' /\ Reached' /\ TablesOK' /\ NoLostWakeup'
        /\ \A e \in ckpts : /\ e \in Ckpt /\ Upto(e.state, e.ord)' /\ ~(e.ord > inst.ord)
                            /\ \A o \in (Shown \ thin)' :
                                 o \in Range(inst.state) /\ o <= e.ord => o \in Range(e.state)
        /\ Upto(inst.state, inst.ord)' /\ next' = next
    BY <1>1, <1>4, <1>6, CertParts
  <2>2. /\ Hot' = {o \in Hot : o <= Cut => o \in Cover} /\ cold' = {} /\ Known' = Known
    BY <1>1, <1>4, CertLog
  <2>3. l \in SUBSET log /\ Hot' = {e.o : e \in l}  BY <1>1 DEF Hot
  <2>4. /\ Cut \in Row /\ s \in Seq(Row) /\ Increasing(s)
        /\ \A o \in Range(s) : o <= Cut /\ (o \in Range(c.state) \/ o \in Hot')
        /\ \A o \in Hot' : o <= Cut => o \in Range(s) \cup Missed(c)
        /\ Base(c)
    BY <1>1, <2>3, RebasedIs
  <2>5. \A e \in ckpts' : e \in ckpts \/ e = k  BY <1>6 DEF rebased, Puts
  <2>6. k.ord = Cut /\ k.state = s /\ k \in Ckpt  BY <2>4 DEF Ckpt
  <2> HIDE DEF l, c, k
  <2>7. Upto(s, Cut)'
    <3>1. \A o \in Range(s) : o \in Known'
      <4>1. \A o \in Range(c.state) : o \in Known  BY <2>4 DEF Base, Upto, Known
      <4> QED BY <2>2, <2>4, <4>1 DEF Known
    <3> QED BY <2>4, <3>1 DEF Upto, Known
  <2>8. FoldsOK'
    <3>1. \A e \in ckpts' : Upto(e.state, e.ord)'
      <4> TAKE e \in ckpts'
      <4>1. CASE e \in ckpts  BY <2>1, <4>1
      <4>2. CASE e = k  BY <2>6, <2>7, <4>2 DEF Upto
      <4> QED BY <2>5, <4>1, <4>2
    <3>2. ckpts' \subseteq Ckpt  BY <2>1, <2>5, <2>6
    <3>3. inst' \in InstRec(next')  BY <1>4, <2>1
    <3>4. Upto(inst.state, inst.ord)'  BY <2>1
    <3> QED BY <3>1, <3>2, <3>3, <3>4 DEF FoldsOK
  <2>9. Kept'
    <3> SUFFICES ASSUME NEW e \in ckpts', NEW o \in (Shown \ thin)', o \in Range(inst.state), o <= e.ord
                 PROVE  o \in Range(e.state)
      BY <1>4 DEF Kept
    <3>1. CASE e \in ckpts  BY <2>1, <3>1
    <3>2. CASE e = k
      <4>1. o \in Hot' /\ o \notin thin' /\ o <= Cut  BY <2>2, <2>6, <3>2 DEF Shown
      <4> QED BY <1>6, <2>4, <2>6, <3>2, <4>1
    <3> QED BY <2>5, <3>1, <3>2
  <2>10. Ahead'
    <3> SUFFICES ASSUME NEW e \in ckpts', e.ord > inst.ord, NEW o \in 1..e.ord, o <= Cut => o \in Cover
                 PROVE  o \in Range(e.state) \cup thin'
      BY <1>1, <1>4 DEF Ahead
    <3>1. e = k  BY <2>1, <2>5
    <3>2. o <= Cut /\ o \in Cover  BY <2>6, <3>1
    <3>3. CASE o \in Hot
      <4>1. o \in Hot'  BY <2>2, <3>2, <3>3
      <4> QED BY <1>6, <2>4, <2>6, <3>1, <3>2, <4>1
    <3>4. CASE o \notin Hot  BY <1>6, <3>2, <3>4
    <3> QED BY <3>3, <3>4
  <2> QED BY <2>1, <2>8, <2>9, <2>10 DEF Inv
<1> QED BY <1>2, <1>5, <1>6

--------------------------------------------------------------------------------
(* The theorems *)

\* The invariant holds at first.
LEMMA InitInv == Init => Inv
<1> SUFFICES ASSUME Init PROVE Inv  OBVIOUS
<1> DEFINE i == [state |-> << >>, ord |-> 0, since |-> 0, lastRowid |-> 0,
                 faulted |-> FALSE, scheduled |-> FALSE, running |-> FALSE]
<1>1. /\ log = {} /\ next = 1 /\ cold = {} /\ gone = {} /\ cert = FALSE /\ ckpts = {}
      /\ inst = schedule(i) /\ table = rows(<< >>) /\ mirror = table
      /\ delta \in Delta /\ alarm = FALSE /\ hidden = {} /\ thin = {}
  BY DEF Init
<1>2. i \in InstRec(1) /\ i.state = << >>
  <2>1. 0 \in 0..MaxOrder /\ 0 \in 0..(CHECKPOINT_EVERY - 1) /\ 0 \in 0..(1 - 1)  BY Constants
  <2> QED BY <2>1, NoRows DEF InstRec
<1> HIDE DEF i
<1>3. inst \in InstRec(1) /\ inst.state = << >>  BY <1>1, <1>2, ScheduleIs
<1>4. Hot = {} /\ Pending = {}  BY <1>1 DEF Hot, Pending
<1>5. LogOK
  <2>1. IsFiniteSet({}) /\ delta \in BOOLEAN  BY <1>1, Constants, FS_EmptySet
  <2>2. IsFiniteSet(log) /\ next \in Nat \ {0} /\ log \subseteq [r : 1..(next - 1), o : Row]
    BY <1>1, <2>1
  <2>3. cert \in BOOLEAN /\ delta \in BOOLEAN /\ alarm \in BOOLEAN  BY <1>1, <2>1
  <2>4. cold \subseteq Cover /\ gone \subseteq Row /\ hidden \subseteq Row  BY <1>1
  <2> QED BY <1>1, <2>2, <2>3, <2>4 DEF LogOK
<1>6. FoldsOK  BY <1>1, <1>3, NoRows DEF FoldsOK, Upto
<1>7. Reached /\ Kept /\ Ahead /\ NoLostWakeup
  BY <1>1, <1>4 DEF Reached, Shown, Kept, Ahead, NoLostWakeup
<1>8. TablesOK
  <2>1. rows(<< >>) \in Tables  BY NoRows, RowsType DEF Tables
  <2> QED BY <1>1, <1>3, <2>1 DEF TablesOK, TablesAgree, TableIsRows, MirrorIsTable
<1> QED BY <1>5, <1>6, <1>7, <1>8 DEF Inv

\* Every step keeps it.
LEMMA NextInv == Inv /\ [Next]_vars => Inv'
<1> SUFFICES ASSUME Inv, [Next]_vars PROVE Inv'  OBVIOUS
<1>1. CASE materialize \/ settled \/ recompute \/ foldBatch \/ foldFails
  BY <1>1, MaterializeInv, SettledInv, RecomputeInv, FoldBatchInv, FoldFailsInv
<1>2. CASE rebuild \/ restart \/ upgrade \/ torn  BY <1>2, RebuildInv, RestartInv
<1>3. CASE \E o \in Row : apply(o)  BY <1>3, ApplyInv
<1>4. CASE acceptCert \/ rebaseFails  BY <1>4, AcceptCertInv, RebaseFailsInv
<1>5. CASE \E m \in 1..MaxRowid : archive(m)  BY <1>5, ArchiveInv
<1>6. CASE \E has \in BOOLEAN : installState(has)  BY <1>6, InstallInv
<1>7. CASE UNCHANGED vars
  <2>1. NoLostWakeup'  BY <1>7 DEF vars, Inv, NoLostWakeup, Pending
  <2>2. inst' \in InstRec(next)  BY <1>7 DEF vars, Inv, FoldsOK
  <2> QED BY <1>7, <2>1, <2>2, FlagsInv DEF vars
<1> QED BY <1>1, <1>2, <1>3, <1>4, <1>5, <1>6, <1>7 DEF Next

\* What the invariant says of types.
LEMMA InvType == Inv => TypeOK
<1> SUFFICES ASSUME Inv PROVE TypeOK  OBVIOUS
<1>1. LogOK /\ FoldsOK /\ TablesOK  BY DEF Inv
<1>2. \A e \in log : e.r \in 1..(next - 1) /\ e.o \in Row  BY <1>1 DEF LogOK
<1>3. cold \cup gone \cup hidden \subseteq Row  BY <1>1, HotRows DEF LogOK
<1>4. \A c \in ckpts : c.ord \in Row /\ c.state \in Seq(Row)  BY <1>1 DEF FoldsOK, Ckpt
<1>5. /\ inst.state \in Seq(Row) /\ inst.ord \in 0..MaxOrder /\ inst.lastRowid \in 0..(next - 1)
      /\ inst.since \in 0..(CHECKPOINT_EVERY - 1)
  BY <1>1 DEF FoldsOK, InstRec
<1>6. table \in [Key -> 0..MaxOrder] /\ mirror \in [Key -> 0..MaxOrder]  BY <1>1 DEF TablesOK, Tables
<1> QED BY <1>2, <1>3, <1>4, <1>5, <1>6 DEF TypeOK

\* ... and of checkpoints.
LEMMA InvCheckpoints == Inv => CheckpointsSound
<1> SUFFICES ASSUME Inv, NEW c \in ckpts
             PROVE  /\ Increasing(c.state) /\ \A o \in Range(c.state) : o <= c.ord
                    /\ {o \in Shown \ thin : o <= c.ord /\ \A e \in Pending : e.o # o} \subseteq Range(c.state)
  BY DEF CheckpointsSound
<1>1. FoldsOK /\ Reached /\ Kept  BY DEF Inv
<1>2. Increasing(c.state) /\ \A o \in Range(c.state) : o <= c.ord  BY <1>1 DEF FoldsOK, Upto
<1>3. ASSUME NEW o \in Shown \ thin, o <= c.ord, \A e \in Pending : e.o # o PROVE o \in Range(c.state)
  <2>1. o \notin Waiting  BY <1>3 DEF Waiting
  <2>2. o \in Range(inst.state)  BY <1>1, <2>1 DEF Reached
  <2> QED BY <1>1, <1>3, <2>2 DEF Kept
<1> QED BY <1>2, <1>3

\* The invariant is one of the specification.
THEOREM Invariant == Spec => []Inv
<1>1. Init => Inv  BY InitInv
<1>2. Inv /\ [Next]_vars => Inv'  BY NextInv
<1> QED BY <1>1, <1>2, PTL DEF Spec

\* views.ts 310-460: whatever rows arrive, in whatever order, and whatever fold,
\* refold or rebase fails or is cut short, a pending row has its timer and a stored
\* checkpoint is the fold of the rows up to its order that the view has seen.
THEOREM Folds == Spec => []FoldSound
<1>1. Inv => FoldSound  BY InvType, InvCheckpoints DEF Inv, FoldSound
<1> QED BY <1>1, Invariant, PTL

\* views.ts 333-407: a view at rest has folded every row it has to show, once, in
\* canonical order, and no row that was never in the log.
THEOREM FoldComplete == Spec => []ViewIsFold
<1>1. Inv => ViewIsFold
  <2> SUFFICES ASSUME Inv PROVE ViewIsFold  OBVIOUS
  <2>1. Upto(inst.state, inst.ord) /\ Reached  BY DEF Inv, FoldsOK
  <2>2. Pending = {} => Waiting = {}  BY DEF Waiting
  <2> QED BY <2>1, <2>2 DEF ViewIsFold, Upto, Reached
<1> QED BY <1>1, Invariant, PTL

\* views.ts 475-578: the table is rows() of the folded state unless the view is
\* faulted and, without a delta, so is what a subscriber makes of the change events.
THEOREM Agree == Spec => []TablesAgree
<1>1. Inv => TablesAgree  BY DEF Inv, TablesOK
<1> QED BY <1>1, Invariant, PTL
================================================================================
