---------------------------- MODULE RulesProofs ----------------------------
(***************************************************************************)
(* Proofs of Rules, for any files, workflows, hosts, filters and columns   *)
(* that meet its assumptions, and the lemmas about the operators of        *)
(* Workflows, EncodePlan and Filters that LibraryProofs needs as well.     *)
(*                                                                         *)
(* The operators count and choose: a stream is addressed by how many come  *)
(* before it, a workflow is the first of those that fit, a sort puts an    *)
(* item where its rank says.  All of it rests on one fact: in a finite     *)
(* totally ordered set, the number of those before an element is a         *)
(* bijection onto 0, 1, ... (the Standing lemmas).                         *)
(***************************************************************************)
EXTENDS Rules, FiniteSetTheorems, FunctionTheorems, SequenceTheorems, TLAPS

-----------------------------------------------------------------------------
(* Finite total orders, given as sets of pairs *)

(* R is a strict total order of S. *)
IsOrder(R, S) ==
  /\ \A x \in S : <<x, x>> \notin R
  /\ \A x, y, z \in S : <<x, y>> \in R /\ <<y, z>> \in R => <<x, z>> \in R
  /\ \A x, y \in S : x # y => <<x, y>> \in R \/ <<y, x>> \in R

(* How many elements of S come before x. *)
Standing(x, R, S) == Cardinality({y \in S : <<y, x>> \in R})

(* An element does not come before itself, so its standing is below the size
   of the set. *)
LEMMA StandingType ==
  ASSUME NEW S, IsFiniteSet(S), NEW R, IsOrder(R, S), NEW x \in S
  PROVE  Standing(x, R, S) \in 0 .. Cardinality(S) - 1
<1> DEFINE T == {y \in S : <<y, x>> \in R}
<1>1. T \subseteq S /\ x \notin T
  BY DEF IsOrder
<1>2. IsFiniteSet(T) /\ Cardinality(T) <= Cardinality(S) /\ Cardinality(T) # Cardinality(S)
  BY <1>1, FS_Subset
<1>3. Cardinality(T) \in Nat /\ Cardinality(S) \in Nat
  BY <1>2, FS_CardinalityType
<1> QED
  BY <1>2, <1>3 DEF Standing

(* What comes before x comes before everything after x, and x does too. *)
LEMMA StandingGrows ==
  ASSUME NEW S, IsFiniteSet(S), NEW R, IsOrder(R, S),
         NEW x \in S, NEW y \in S, <<x, y>> \in R
  PROVE  Standing(x, R, S) < Standing(y, R, S)
<1> DEFINE T == {z \in S : <<z, x>> \in R}
           U == {z \in S : <<z, y>> \in R}
<1>1. T \subseteq U /\ x \in U /\ x \notin T
  BY DEF IsOrder
<1>2. IsFiniteSet(U)
  BY FS_Subset
<1>3. IsFiniteSet(T) /\ Cardinality(T) <= Cardinality(U) /\ Cardinality(T) # Cardinality(U)
  BY <1>1, <1>2, FS_Subset
<1>4. Cardinality(T) \in Nat /\ Cardinality(U) \in Nat
  BY <1>2, <1>3, FS_CardinalityType
<1> QED
  BY <1>3, <1>4 DEF Standing

(* Standings are in the order of the elements, and no two are the same. *)
LEMMA StandingOrders ==
  ASSUME NEW S, IsFiniteSet(S), NEW R, IsOrder(R, S), NEW x \in S, NEW y \in S
  PROVE  /\ <<x, y>> \in R <=> Standing(x, R, S) < Standing(y, R, S)
         /\ Standing(x, R, S) = Standing(y, R, S) => x = y
<1>1. Standing(x, R, S) \in Int /\ Standing(y, R, S) \in Int
  BY StandingType
<1>2. CASE x = y
  BY <1>1, <1>2 DEF IsOrder
<1>3. CASE <<x, y>> \in R
  BY <1>1, <1>3, StandingGrows
<1>4. CASE <<y, x>> \in R
  <2>1. Standing(y, R, S) < Standing(x, R, S)
    BY <1>4, StandingGrows
  <2>2. <<x, y>> \notin R
    BY <1>4 DEF IsOrder
  <2> QED
    BY <1>1, <2>1, <2>2
<1> QED
  BY <1>2, <1>3, <1>4 DEF IsOrder

(* An injection between finite sets of one size is onto: every standing is
   taken. *)
LEMMA StandingTaken ==
  ASSUME NEW S, IsFiniteSet(S), NEW R, IsOrder(R, S), NEW n \in 0 .. Cardinality(S) - 1
  PROVE  \E x \in S : Standing(x, R, S) = n
<1> DEFINE c == Cardinality(S)
           T == 0 .. c - 1
           f == [x \in S |-> Standing(x, R, S)]
<1>1. c \in Nat
  BY FS_CardinalityType
<1>2. IsFiniteSet(T) /\ Cardinality(T) = c
  BY <1>1, FS_Interval
<1>3. f \in [S -> T]
  BY StandingType
<1>4. \A x, y \in S : f[x] = f[y] => x = y
  BY StandingOrders
<1>5. f \in Injection(S, T)
  BY <1>3, <1>4 DEF Injection, IsInjective
<1>6. f \in Surjection(S, T)
  BY <1>2, <1>5, FS_Injection
<1> QED
  BY <1>6 DEF Surjection

-----------------------------------------------------------------------------
(* The order of numbers. *)

(* The order of numbers, as a set of pairs. *)
Upwards(S) == {p \in S \X S : p[1] < p[2]}

(* It is total, and Ordinal is the standing in it. *)
LEMMA UpwardsOrder ==
  ASSUME NEW S \in SUBSET Int
  PROVE  /\ IsOrder(Upwards(S), S)
         /\ \A x \in S : Standing(x, Upwards(S), S) = Ordinal(x, S)
<1>1. \A x, y \in S : <<x, y>> \in Upwards(S) <=> x < y
  BY DEF Upwards
<1>2. IsOrder(Upwards(S), S)
  BY <1>1 DEF IsOrder
<1>3. ASSUME NEW x \in S
      PROVE  {y \in S : <<y, x>> \in Upwards(S)} = {y \in S : y < x}
  BY <1>1
<1> QED
  BY <1>2, <1>3 DEF Standing, Ordinal

(* Ordinal numbers the elements of a finite set of integers from 0. *)
LEMMA OrdinalFacts ==
  ASSUME NEW S \in SUBSET Int, IsFiniteSet(S)
  PROVE  /\ \A i \in S : Ordinal(i, S) \in 0 .. Cardinality(S) - 1
         /\ \A i, j \in S : i < j <=> Ordinal(i, S) < Ordinal(j, S)
         /\ \A i, j \in S : Ordinal(i, S) = Ordinal(j, S) => i = j
         /\ \A n \in 0 .. Cardinality(S) - 1 : \E i \in S : Ordinal(i, S) = n
<1> DEFINE R == Upwards(S)
<1>1. IsOrder(R, S) /\ \A x \in S : Standing(x, R, S) = Ordinal(x, S)
  BY UpwardsOrder
<1>2. \A x, y \in S : <<x, y>> \in R <=> x < y
  BY DEF Upwards
<1> HIDE DEF R
<1>3. ASSUME NEW x \in S, NEW y \in S
      PROVE  /\ <<x, y>> \in R <=> Ordinal(x, S) < Ordinal(y, S)
             /\ Ordinal(x, S) = Ordinal(y, S) => x = y
  <2>1. /\ <<x, y>> \in R <=> Standing(x, R, S) < Standing(y, R, S)
        /\ Standing(x, R, S) = Standing(y, R, S) => x = y
    BY <1>1, StandingOrders
  <2> QED
    BY <1>1, <2>1
<1>4. \A x \in S : Ordinal(x, S) \in 0 .. Cardinality(S) - 1
  BY <1>1, StandingType
<1>5. ASSUME NEW n \in 0 .. Cardinality(S) - 1
      PROVE  \E i \in S : Ordinal(i, S) = n
  <2>1. \E i \in S : Standing(i, R, S) = n
    BY <1>1, StandingTaken
  <2> QED
    BY <1>1, <2>1
<1> QED
  BY <1>2, <1>3, <1>4, <1>5

(* Nth undoes Ordinal. *)
LEMMA NthFacts ==
  ASSUME NEW S \in SUBSET Int, IsFiniteSet(S)
  PROVE  /\ \A n \in 0 .. Cardinality(S) - 1 : Nth(S, n) \in S /\ Ordinal(Nth(S, n), S) = n
         /\ \A i \in S : Nth(S, Ordinal(i, S)) = i
<1>1. \A n \in 0 .. Cardinality(S) - 1 : Nth(S, n) \in S /\ Ordinal(Nth(S, n), S) = n
  BY OrdinalFacts DEF Nth
<1>2. ASSUME NEW i \in S PROVE Nth(S, Ordinal(i, S)) = i
  <2> DEFINE n == Ordinal(i, S)
  <2>1. n \in 0 .. Cardinality(S) - 1
    BY OrdinalFacts
  <2>2. Nth(S, n) \in S /\ Ordinal(Nth(S, n), S) = Ordinal(i, S)
    BY <1>1, <2>1
  <2> QED
    BY <2>2, OrdinalFacts
<1> QED
  BY <1>1, <1>2

(* A finite set of integers that is not empty has a least element, ... *)
LEMMA LeastFacts ==
  ASSUME NEW S \in SUBSET Int, IsFiniteSet(S), S # {}
  PROVE  Least(S) \in S /\ \A j \in S : Least(S) <= j
<1>1. Cardinality(S) \in Nat /\ Cardinality(S) # 0
  BY FS_CardinalityType, FS_EmptySet
<1>2. PICK i \in S : Ordinal(i, S) = 0
  BY <1>1, OrdinalFacts
<1>3. \A j \in S : i <= j
  BY <1>2, OrdinalFacts
<1> QED
  BY <1>3 DEF Least

(* ... and a greatest. *)
LEMMA GreatestFacts ==
  ASSUME NEW S \in SUBSET Int, IsFiniteSet(S), S # {}
  PROVE  Greatest(S) \in S /\ \A j \in S : j <= Greatest(S)
<1>1. Cardinality(S) \in Nat /\ Cardinality(S) # 0
  BY FS_CardinalityType, FS_EmptySet
<1>2. PICK i \in S : Ordinal(i, S) = Cardinality(S) - 1
  BY <1>1, OrdinalFacts
<1>3. \A j \in S : j <= i
  BY <1>1, <1>2, OrdinalFacts
<1> QED
  BY <1>3 DEF Greatest

(* The positions of an interval from 1 are their own order. *)
LEMMA OrdinalOfInterval ==
  ASSUME NEW k \in Nat, NEW i \in 1 .. k
  PROVE  Ordinal(i, 1 .. k) = i - 1
<1>1. {j \in 1 .. k : j < i} = 1 .. i - 1
  OBVIOUS
<1>2. Cardinality(1 .. i - 1) = i - 1
  BY FS_Interval
<1> QED
  BY <1>1, <1>2 DEF Ordinal

(* So the n-th of them is n, ... *)
LEMMA NthOfInterval ==
  ASSUME NEW k \in Nat, NEW i \in 1 .. k
  PROVE  Nth(1 .. k, i - 1) = i
<1>1. IsFiniteSet(1 .. k)
  BY FS_Interval
<1> QED
  BY <1>1, OrdinalOfInterval, NthFacts

(* ... and all values of a sequence in their order are the sequence. *)
LEMMA InOrderAll ==
  ASSUME NEW f, NEW k \in Nat, DOMAIN f = 1 .. k
  PROVE  InOrder(f, DOMAIN f) = [n \in 1 .. k |-> f[n]]
<1>1. Cardinality(1 .. k) = k
  BY FS_Interval
<1> QED
  BY <1>1, NthOfInterval DEF InOrder

(* InOrder has the value of each key, at the place the key has among them. *)
LEMMA InOrderFacts ==
  ASSUME NEW f, NEW S \in SUBSET Int, IsFiniteSet(S)
  PROVE  /\ Cardinality(S) \in Nat
         /\ DOMAIN InOrder(f, S) = 1 .. Cardinality(S)
         /\ \A i \in S : /\ Ordinal(i, S) + 1 \in DOMAIN InOrder(f, S)
                         /\ InOrder(f, S)[Ordinal(i, S) + 1] = f[i]
         /\ \A n \in DOMAIN InOrder(f, S) : /\ Nth(S, n - 1) \in S
                                            /\ InOrder(f, S)[n] = f[Nth(S, n - 1)]
<1>1. Cardinality(S) \in Nat
  BY FS_CardinalityType
<1>2. DOMAIN InOrder(f, S) = 1 .. Cardinality(S)
  BY DEF InOrder
<1>3. ASSUME NEW n \in 1 .. Cardinality(S)
      PROVE  Nth(S, n - 1) \in S /\ InOrder(f, S)[n] = f[Nth(S, n - 1)]
  <2>1. n - 1 \in 0 .. Cardinality(S) - 1
    BY <1>1
  <2> QED
    BY <2>1, NthFacts DEF InOrder
<1>4. ASSUME NEW i \in S
      PROVE  /\ Ordinal(i, S) + 1 \in 1 .. Cardinality(S)
             /\ InOrder(f, S)[Ordinal(i, S) + 1] = f[i]
  <2>1. Ordinal(i, S) \in 0 .. Cardinality(S) - 1 /\ Nth(S, Ordinal(i, S)) = i
    BY OrdinalFacts, NthFacts
  <2>2. Ordinal(i, S) + 1 \in 1 .. Cardinality(S) /\ Ordinal(i, S) + 1 - 1 = Ordinal(i, S)
    BY <1>1, <2>1
  <2> QED
    BY <2>1, <2>2 DEF InOrder
<1> QED
  BY <1>1, <1>2, <1>3, <1>4

(* It is a sequence of as many values as there are keys. *)
LEMMA InOrderIsSeq ==
  ASSUME NEW f, NEW S \in SUBSET Int, IsFiniteSet(S),
         NEW T, \A i \in S : f[i] \in T
  PROVE  InOrder(f, S) \in Seq(T) /\ Len(InOrder(f, S)) = Cardinality(S)
<1>1. InOrder(f, S) \in [1 .. Cardinality(S) -> T] /\ Cardinality(S) \in Nat
  <2>1. ASSUME NEW n \in 1 .. Cardinality(S) PROVE f[Nth(S, n - 1)] \in T
    BY <2>1, InOrderFacts
  <2> QED
    BY <2>1, InOrderFacts DEF InOrder
<1> QED
  BY <1>1

-----------------------------------------------------------------------------
(* Sorting *)

(* What Python's sort with the key of apply_sort compares: full values before
   empty ones, in the direction asked for, then in the order they came. *)
LEMMA GoesBeforeMeaning ==
  ASSUME NEW items, NEW reverse \in BOOLEAN, NEW m \in Int, NEW n \in Int,
         items[m] \in Int, items[n] \in Int
  PROVE  GoesBefore(items, reverse, m, n) <=>
           \/ items[m] # 0 /\ items[n] = 0
           \/ /\ items[m] = 0 <=> items[n] = 0
              /\ IF reverse THEN items[n] < items[m] ELSE items[m] < items[n]
           \/ items[m] = items[n] /\ m < n
<1> DEFINE k == SortKey(items[m], reverse)
           l == SortKey(items[n], reverse)
<1>1. /\ k.late <=> (items[m] = 0 <=> ~reverse)
      /\ l.late <=> (items[n] = 0 <=> ~reverse)
      /\ k.value = items[m] /\ l.value = items[n]
  BY DEF SortKey
<1>2. /\ KeyLess(k, l) <=> \/ ~k.late /\ l.late
                           \/ (k.late <=> l.late) /\ k.value < l.value
      /\ KeyLess(l, k) <=> \/ ~l.late /\ k.late
                           \/ (l.late <=> k.late) /\ l.value < k.value
  BY DEF KeyLess
<1>3. GoesBefore(items, reverse, m, n) <=>
        \/ IF reverse THEN KeyLess(l, k) ELSE KeyLess(k, l)
        \/ ~KeyLess(k, l) /\ ~KeyLess(l, k) /\ m < n
  BY DEF GoesBefore
<1> HIDE DEF k, l
<1> QED
  BY <1>1, <1>2, <1>3

(* The order in which apply_sort puts the places of a column. *)
SortOrder(items, reverse) ==
  {p \in (DOMAIN items) \X (DOMAIN items) :
     p[1] # p[2] /\ GoesBefore(items, reverse, p[1], p[2])}

(* It is total, and Place is the standing in it, from 1. *)
LEMMA SortOrderIsOrder ==
  ASSUME NEW items \in Seq(Int), NEW reverse \in BOOLEAN
  PROVE  /\ IsOrder(SortOrder(items, reverse), DOMAIN items)
         /\ \A n \in DOMAIN items :
              Place(items, reverse, n) = 1 + Standing(n, SortOrder(items, reverse), DOMAIN items)
<1> DEFINE D == DOMAIN items
           R == SortOrder(items, reverse)
<1>1. D \subseteq Int /\ \A n \in D : items[n] \in Int
  OBVIOUS
<1>2. \A m, n \in D : <<m, n>> \in R <=> m # n /\ GoesBefore(items, reverse, m, n)
  BY DEF SortOrder
<1>3. ASSUME NEW m \in D, NEW n \in D
      PROVE  <<m, n>> \in R <=>
               /\ m # n
               /\ \/ items[m] # 0 /\ items[n] = 0
                  \/ /\ items[m] = 0 <=> items[n] = 0
                     /\ IF reverse THEN items[n] < items[m] ELSE items[m] < items[n]
                  \/ items[m] = items[n] /\ m < n
  BY <1>1, <1>2, GoesBeforeMeaning
<1>4. ASSUME NEW n \in D
      PROVE  Place(items, reverse, n) = 1 + Standing(n, R, D)
  <2>1. {m \in D : m # n /\ GoesBefore(items, reverse, m, n)} = {m \in D : <<m, n>> \in R}
    BY <1>2
  <2> QED
    BY <2>1 DEF Place, Standing
<1> HIDE DEF R
<1>5. IsOrder(R, D)
  <2>1. \A x \in D : <<x, x>> \notin R
    BY <1>3
  <2>2. ASSUME NEW x \in D, NEW y \in D, x # y PROVE <<x, y>> \in R \/ <<y, x>> \in R
    <3>1. x \in Int /\ y \in Int /\ items[x] \in Int /\ items[y] \in Int
      BY <1>1
    <3>2. x < y \/ y < x
      BY <2>2, <3>1
    <3> QED
      BY <1>3, <3>1, <3>2
  <2>3. ASSUME NEW x \in D, NEW y \in D, NEW z \in D, <<x, y>> \in R, <<y, z>> \in R
        PROVE  <<x, z>> \in R
    BY <1>1, <1>3, <2>3
  <2> QED
    BY <2>1, <2>2, <2>3 DEF IsOrder
<1> QED
  BY <1>4, <1>5 DEF R

(* Every column of integers is sorted with its empty values last. *)
LEMMA SortsWell ==
  ASSUME NEW items \in Seq(Int), NEW reverse \in BOOLEAN
  PROVE  SortedWell(items, reverse)
<1> DEFINE D == DOMAIN items
           R == SortOrder(items, reverse)
           At(p) == CHOOSE n \in D : Place(items, reverse, n) = p
           s == ApplySort(items, reverse)
<1>1. D = 1 .. Len(items) /\ Len(items) \in Nat /\ \A n \in D : items[n] \in Int
  OBVIOUS
<1>2. IsFiniteSet(D) /\ Cardinality(D) = Len(items)
  BY <1>1, FS_Interval
<1>3. IsOrder(R, D) /\ \A n \in D : Place(items, reverse, n) = 1 + Standing(n, R, D)
  BY SortOrderIsOrder
<1>4. ASSUME NEW p \in D
      PROVE  At(p) \in D /\ Standing(At(p), R, D) = p - 1
  <2>1. p - 1 \in 0 .. Cardinality(D) - 1
    BY <1>1, <1>2
  <2>2. PICK n \in D : Standing(n, R, D) = p - 1
    BY <1>2, <1>3, <2>1, StandingTaken
  <2>3. Place(items, reverse, n) = p
    BY <1>1, <1>3, <2>2
  <2>4. At(p) \in D /\ Place(items, reverse, At(p)) = p
    BY <2>3
  <2>5. Standing(At(p), R, D) \in Int
    BY <1>2, <1>3, <2>4, StandingType
  <2> QED
    BY <1>1, <1>3, <2>4, <2>5
<1>5. DOMAIN s = D /\ \A p \in D : s[p] = items[At(p)]
  BY DEF ApplySort
<1>6. \A m, n \in D : <<m, n>> \in R => m # n /\ GoesBefore(items, reverse, m, n)
  BY DEF SortOrder
<1>7. ASSUME NEW m \in D, NEW n \in D, m < n
      PROVE  /\ s[m] = 0 => s[n] = 0
             /\ s[m] # 0 /\ s[n] # 0 => IF reverse THEN s[m] >= s[n] ELSE s[m] <= s[n]
  <2> DEFINE a == At(m)
             b == At(n)
  <2>1. /\ a \in D /\ Standing(a, R, D) = m - 1
        /\ b \in D /\ Standing(b, R, D) = n - 1
    BY <1>4
  <2> HIDE DEF a, b, R
  <2>2. <<a, b>> \in R
    <3>1. Standing(a, R, D) < Standing(b, R, D)
      BY <1>1, <1>7, <2>1
    <3> QED
      BY <1>2, <1>3, <2>1, <3>1, StandingOrders
  <2>3. GoesBefore(items, reverse, a, b)
    BY <1>6, <2>1, <2>2
  <2>4. s[m] = items[a] /\ s[n] = items[b]
    BY <1>5 DEF a, b
  <2>5. a \in Int /\ b \in Int /\ items[a] \in Int /\ items[b] \in Int
    BY <1>1, <2>1
  <2>6. \/ items[a] # 0 /\ items[b] = 0
        \/ /\ items[a] = 0 <=> items[b] = 0
           /\ IF reverse THEN items[b] < items[a] ELSE items[a] < items[b]
        \/ items[a] = items[b] /\ a < b
    BY <2>3, <2>5, GoesBeforeMeaning
  <2> QED
    BY <2>4, <2>5, <2>6
<1> QED
  BY <1>5, <1>7 DEF SortedWell

(* The input is one of those asked for, or none yet. *)
LEMMA InputType == RulesSpec => [](input = NoInput \/ input \in Inputs)
<1> DEFINE Inv == input = NoInput \/ input \in Inputs
<1>1. input = NoInput => Inv
  OBVIOUS
<1>2. Inv /\ [Ask]_input => Inv'
  BY DEF Ask
<1> QED
  BY <1>1, <1>2, PTL DEF RulesSpec

(* apply_sort puts the items that have no value last in both directions and
   the others in order, for columns of any length. *)
THEOREM EmptiesLastHolds == RulesSpec => []EmptiesLast
<1>1. ASSUME input = NoInput \/ input \in Inputs PROVE EmptiesLast
  <2>1. CASE input.of = "items"
    <3>1. input.items \in Columns /\ input.reverse \in BOOLEAN
      BY <1>1, <2>1 DEF NoInput, Inputs
    <3>2. input.items \in Seq(Int)
      BY <3>1, ColumnsAssumption DEF IsSeq
    <3> QED
      BY <3>1, <3>2, SortsWell DEF EmptiesLast
  <2> QED
    BY <2>1 DEF EmptiesLast
<1> QED
  BY <1>1, InputType, PTL

-----------------------------------------------------------------------------
(* Names of codecs *)

(* What ffprobe calls the codec that a workflow targets. *)
OwnNames(t) ==
  CASE t = "hevc" -> {"hevc", "h265"} [] t = "h264" -> {"h264", "avc"} [] t = "av1" -> {"av1"}

(* expand_codec_aliases, name by name. *)
LEMMA AliasesOfNames ==
  /\ \A c \in {"hevc", "h265", "x265"} : ExpandCodecAliases(c) = {"hevc", "h265", "x265"}
  /\ \A c \in {"avc", "h264", "x264"} : ExpandCodecAliases(c) = {"avc", "h264", "x264"}
  /\ \A c \in {"vvc", "h266", "x266"} : ExpandCodecAliases(c) = {"vvc", "h266", "x266"}
  /\ \A c : c \notin {"", "hevc", "h265", "x265", "avc", "h264", "x264", "vvc", "h266", "x266"}
              => ExpandCodecAliases(c) = {c}
<1>1. DOMAIN CodecAliases =
        {"hevc", "h265", "x265", "avc", "h264", "x264", "vvc", "h266", "x266"}
  BY DEF CodecAliases, CodecFamilies
<1>2. ASSUME NEW c \in {"hevc", "h265", "x265"}
      PROVE  CodecAliases[c] = {"hevc", "h265", "x265"}
  <2>1. \A names \in CodecFamilies : c \in names <=> names = {"hevc", "h265", "x265"}
    BY DEF CodecFamilies
  <2>2. {"hevc", "h265", "x265"} \in CodecFamilies
    BY DEF CodecFamilies
  <2> QED
    BY <1>1, <2>1, <2>2 DEF CodecAliases
<1>3. ASSUME NEW c \in {"avc", "h264", "x264"}
      PROVE  CodecAliases[c] = {"avc", "h264", "x264"}
  <2>1. \A names \in CodecFamilies : c \in names <=> names = {"avc", "h264", "x264"}
    BY DEF CodecFamilies
  <2>2. {"avc", "h264", "x264"} \in CodecFamilies
    BY DEF CodecFamilies
  <2> QED
    BY <1>1, <2>1, <2>2 DEF CodecAliases
<1>4. ASSUME NEW c \in {"vvc", "h266", "x266"}
      PROVE  CodecAliases[c] = {"vvc", "h266", "x266"}
  <2>1. \A names \in CodecFamilies : c \in names <=> names = {"vvc", "h266", "x266"}
    BY DEF CodecFamilies
  <2>2. {"vvc", "h266", "x266"} \in CodecFamilies
    BY DEF CodecFamilies
  <2> QED
    BY <1>1, <2>1, <2>2 DEF CodecAliases
<1> QED
  BY <1>1, <1>2, <1>3, <1>4 DEF ExpandCodecAliases

(* The first table of a codec's names is that of policy.py, ... *)
LEMMA EquivalentNames ==
  ASSUME NEW t \in {"hevc", "h264", "av1"}, NEW c
  PROVE  CodecsEquivalent(c, t) <=> c \in OwnNames(t)
BY DEF CodecsEquivalent, CodecEquivalents, OwnNames

(* ... the second that of the filters, ... *)
LEMMA AliasNames ==
  ASSUME NEW t \in {"hevc", "h264", "av1"}, NEW c, c \notin {"", "x264", "x265"}
  PROVE  t \in ExpandCodecAliases(c) <=> c \in OwnNames(t)
<1>1. CASE c \in {"hevc", "h265"}
  BY <1>1, AliasesOfNames DEF OwnNames
<1>2. CASE c \in {"avc", "h264"}
  BY <1>2, AliasesOfNames DEF OwnNames
<1>3. CASE c \in {"vvc", "h266", "x266"}
  BY <1>3, AliasesOfNames DEF OwnNames
<1>4. CASE c \notin {"hevc", "h265", "avc", "h264", "vvc", "h266", "x266"}
  <2>1. ExpandCodecAliases(c) = {c}
    BY <1>4, AliasesOfNames
  <2> QED
    BY <1>4, <2>1 DEF OwnNames
<1> QED
  BY <1>1, <1>2, <1>3, <1>4

(* ... the third that of the charts: all agree on the targets. *)
LEMMA LabelNames ==
  ASSUME NEW t \in {"hevc", "h264", "av1"}, NEW c,
         c \notin {"", "x264", "x265", "HEVC (H.265)", "H.264", "VVC (H.266)", "MPEG-2"}
  PROVE  CanonicalCodec(c) = CanonicalCodec(t) <=> c \in OwnNames(t)
<1>1. DOMAIN CodecCanonical = {"mpeg2video", "mpeg2", "hevc", "h265", "x265", "avc", "h264",
                               "x264", "vvc", "h266", "x266"}
  BY DEF CodecCanonical, CodecFamilies
<1>2. /\ CanonicalCodec("hevc") = "HEVC (H.265)"
      /\ CanonicalCodec("h264") = "H.264"
      /\ CanonicalCodec("av1") = "av1"
  BY <1>1 DEF CanonicalCodec, CodecCanonical
<1>3. CASE c \notin DOMAIN CodecCanonical
  <2>1. CanonicalCodec(c) = c
    BY <1>3 DEF CanonicalCodec
  <2> QED
    BY <1>1, <1>2, <1>3, <2>1 DEF OwnNames
<1>4. CASE c \in {"hevc", "h265"}
  BY <1>1, <1>2, <1>4 DEF CanonicalCodec, CodecCanonical, OwnNames
<1>5. CASE c \in {"avc", "h264"}
  BY <1>1, <1>2, <1>5 DEF CanonicalCodec, CodecCanonical, OwnNames
<1>6. CASE c \in {"vvc", "h266", "x266"}
  BY <1>1, <1>2, <1>6 DEF CanonicalCodec, CodecCanonical, OwnNames
<1>7. CASE c \in {"mpeg2video", "mpeg2"}
  BY <1>1, <1>2, <1>7 DEF CanonicalCodec, CodecCanonical, OwnNames
<1> QED
  BY <1>1, <1>3, <1>4, <1>5, <1>6, <1>7

(* All the names of one codec have one label. *)
LEMMA LabelOfAliases ==
  ASSUME NEW c, c \notin {"", "HEVC (H.265)", "H.264", "VVC (H.266)", "MPEG-2"}
  PROVE  /\ \A d \in ExpandCodecAliases(c) : CanonicalCodec(d) = CanonicalCodec(c)
         /\ ExpandCodecAliases(c) # {}
<1>1. DOMAIN CodecCanonical = {"mpeg2video", "mpeg2", "hevc", "h265", "x265", "avc", "h264",
                               "x264", "vvc", "h266", "x266"}
  BY DEF CodecCanonical, CodecFamilies
<1>2. CASE c \in {"hevc", "h265", "x265"}
  <2>1. \A d \in {"hevc", "h265", "x265"} : CanonicalCodec(d) = "HEVC (H.265)"
    BY <1>1 DEF CanonicalCodec, CodecCanonical
  <2> QED
    BY <1>2, <2>1, AliasesOfNames
<1>3. CASE c \in {"avc", "h264", "x264"}
  <2>1. \A d \in {"avc", "h264", "x264"} : CanonicalCodec(d) = "H.264"
    BY <1>1 DEF CanonicalCodec, CodecCanonical
  <2> QED
    BY <1>3, <2>1, AliasesOfNames
<1>4. CASE c \in {"vvc", "h266", "x266"}
  <2>1. \A d \in {"vvc", "h266", "x266"} : CanonicalCodec(d) = "VVC (H.266)"
    BY <1>1 DEF CanonicalCodec, CodecCanonical
  <2> QED
    BY <1>4, <2>1, AliasesOfNames
<1>5. CASE c \notin {"hevc", "h265", "x265", "avc", "h264", "x264", "vvc", "h266", "x266"}
  <2>1. ExpandCodecAliases(c) = {c}
    BY <1>5, AliasesOfNames
  <2> QED
    BY <2>1
<1> QED
  BY <1>2, <1>3, <1>4, <1>5

(* One entity counts once under the label that all its names share. *)
LEMMA CountOfOne ==
  ASSUME NEW names, NEW c, NEW label,
         \A d \in names : CanonicalCodec(d) = CanonicalCodec(c), names # {}
  PROVE  CodecCount(<<names>>, label) = IF label = CanonicalCodec(c) THEN 1 ELSE 0
<1> DEFINE S == {e \in DOMAIN <<names>> : \E d \in <<names>>[e] : CanonicalCodec(d) = label}
<1>1. DOMAIN <<names>> = {1}
  OBVIOUS
<1>2. <<names>>[1] = names
  OBVIOUS
<1>3. S = IF label = CanonicalCodec(c) THEN {1} ELSE {}
  BY <1>1, <1>2
<1> QED
  BY <1>3, FS_Singleton, FS_EmptySet DEF CodecCount

(* So a file is counted once, whatever names it is stored under. *)
LEMMA CountsOnce ==
  ASSUME NEW c, c \notin {"", "HEVC (H.265)", "H.264", "VVC (H.266)", "MPEG-2"}, NEW label
  PROVE  CodecCount(<<ExpandCodecAliases(c)>>, label) =
           IF label = CanonicalCodec(c) THEN 1 ELSE 0
BY LabelOfAliases, CountOfOne

(* For every codec that ffprobe may name and every target of a workflow, the
   policy, the filters and the charts agree on whether the two are one. *)
THEOREM AliasTablesAgreeHolds == RulesSpec => []AliasTablesAgree
<1>1. ASSUME input = NoInput \/ input \in Inputs PROVE AliasTablesAgree
  <2>1. CASE input.of = "codecs"
    <3> DEFINE c == input.codec
               t == input.target
    <3>1. c \in CodecNames /\ t \in VideoTargets \ {"copy"}
      BY <1>1, <2>1 DEF NoInput, Inputs
    <3>2. c \notin {"", "x264", "x265", "HEVC (H.265)", "H.264", "VVC (H.266)", "MPEG-2"}
      BY <3>1, CodecsAssumption
    <3>3. t \in {"hevc", "h264", "av1"}
      BY <3>1 DEF VideoTargets
    <3> HIDE DEF c, t
    <3>4. CodecsEquivalent(c, t) <=> t \in ExpandCodecAliases(c)
      BY <3>2, <3>3, EquivalentNames, AliasNames
    <3>5. CodecsEquivalent(c, t) <=> CanonicalCodec(c) = CanonicalCodec(t)
      BY <3>2, <3>3, EquivalentNames, LabelNames
    <3>6. \A label : CodecCount(<<ExpandCodecAliases(c)>>, label) =
                       IF label = CanonicalCodec(c) THEN 1 ELSE 0
      BY <3>2, CountsOnce
    <3>7. TablesAgree(c, t)
      BY <3>4, <3>5, <3>6 DEF TablesAgree
    <3> QED
      BY <2>1, <3>7 DEF AliasTablesAgree, c, t
  <2> QED
    BY <2>1 DEF AliasTablesAgree
<1> QED
  BY <1>1, InputType, PTL

-----------------------------------------------------------------------------
(* The arguments of a stream *)

(* The places of the streams of a file. *)
LEMMA ProbeFacts ==
  ASSUME NEW probe, IsProbe(probe)
  PROVE  /\ DOMAIN probe.streams = 1 .. Len(probe.streams) /\ Len(probe.streams) \in Nat
         /\ IsFiniteSet(DOMAIN probe.streams) /\ DOMAIN probe.streams \in SUBSET Int
         /\ RealVideos(probe) \in SUBSET Int /\ IsFiniteSet(RealVideos(probe))
         /\ Audios(probe) \in SUBSET Int /\ IsFiniteSet(Audios(probe))
         /\ RealVideos(probe) \subseteq DOMAIN probe.streams
         /\ Audios(probe) \subseteq DOMAIN probe.streams
<1>1. DOMAIN probe.streams = 1 .. Len(probe.streams) /\ Len(probe.streams) \in Nat
  BY DEF IsProbe, IsSeq
<1>2. IsFiniteSet(DOMAIN probe.streams) /\ DOMAIN probe.streams \in SUBSET Int
  BY <1>1, FS_Interval
<1>3. RealVideos(probe) \subseteq DOMAIN probe.streams /\ Audios(probe) \subseteq DOMAIN probe.streams
  BY DEF RealVideos, Audios
<1>4. IsFiniteSet(RealVideos(probe)) /\ IsFiniteSet(Audios(probe))
  BY <1>2, <1>3, FS_Subset
<1>5. RealVideos(probe) \in SUBSET Int /\ Audios(probe) \in SUBSET Int
  BY <1>2, <1>3
<1> QED
  BY <1>1, <1>2, <1>3, <1>4, <1>5

(* The index in the input by which ffmpeg is told of a video is the index of
   that video in the output, if no cover art comes before it. *)
LEMMA ArgIndexOfVideo ==
  ASSUME NEW probe, IsProbe(probe), ArtComesLast(probe), NEW i \in RealVideos(probe)
  PROVE  ArgIndex(probe, i) = Ordinal(i, RealVideos(probe))
<1> DEFINE streams == probe.streams
<1>1. DOMAIN streams = 1 .. Len(streams) /\ Len(streams) \in Nat
  BY ProbeFacts
<1>2. i \in DOMAIN streams /\ streams[i].type = "video" /\ ~streams[i].pic
  BY DEF RealVideos, IsRealVideo
<1>3. ASSUME NEW j \in DOMAIN streams, j < i
      PROVE  streams[j].type = "video" <=> IsRealVideo(streams[j])
  <2>1. streams[j].type = "video" => ~streams[j].pic
    BY <1>1, <1>2, <1>3 DEF ArtComesLast, IsRealVideo
  <2> QED
    BY <2>1 DEF IsRealVideo
<1>4. {j \in 1 .. i - 1 : streams[j].type = streams[i].type} =
        {j \in RealVideos(probe) : j < i}
  BY <1>1, <1>2, <1>3 DEF RealVideos
<1> QED
  BY <1>4 DEF ArgIndex, TypeIndex, Ordinal

(* So it is for audio, in any file. *)
LEMMA ArgIndexOfAudio ==
  ASSUME NEW probe, IsProbe(probe), NEW i \in Audios(probe)
  PROVE  ArgIndex(probe, i) = Ordinal(i, Audios(probe))
<1> DEFINE streams == probe.streams
<1>1. DOMAIN streams = 1 .. Len(streams) /\ Len(streams) \in Nat
  BY ProbeFacts
<1>2. i \in DOMAIN streams /\ streams[i].type = "audio"
  BY DEF Audios
<1>3. {j \in 1 .. i - 1 : streams[j].type = streams[i].type} = {j \in Audios(probe) : j < i}
  BY <1>1, <1>2 DEF Audios
<1> QED
  BY <1>3 DEF ArgIndex, TypeIndex, Ordinal

(* The families that can decode. *)
LEMMA HwaccelDomain ==
  /\ DOMAIN HwaccelFamily = {"vaapi", "nvenc", "qsv"}
  /\ \A f \in DOMAIN HwaccelFamily : HwaccelFamily[f] # "memory"
  /\ HwaccelFamily["vaapi"] = "vaapi"
BY DEF HwaccelFamily

(* The frames of the one video of a file are where its encoder reads them. *)
LEMMA FramesReachEncoder ==
  ASSUME NEW probe, IsProbe(probe), ArtComesLast(probe),
         Cardinality(RealVideos(probe)) = 1, NEW match, NEW host
  PROVE  FramesReach(probe, match, host)
<1> DEFINE plan == Evaluate(probe, match)
           base == DetectBest(host)
           encoder == ActualEncoder(plan, base)
           args == BuildArgs(probe, plan, base)
           recoded == VideoReencodes(probe, plan)
           fullGpu == recoded # {} /\ CanHwDecode(probe, plan, encoder)
<1>1. /\ args.frames = IF fullGpu THEN HwaccelFamily[encoder.family] ELSE "memory"
      /\ args.upload = IF recoded # {} /\ NeedsUpload(encoder, fullGpu)
                       THEN {ArgIndex(probe, Least(recoded))} ELSE {}
  BY DEF BuildArgs
<1> HIDE DEF plan, encoder, args
<1>2. ASSUME NEW i \in recoded
      PROVE  /\ encoder.family = "vaapi" =>
                  (args.frames = "vaapi") # (Ordinal(i, RealVideos(probe)) \in args.upload)
             /\ encoder.family \notin DOMAIN HwaccelFamily =>
                  args.frames = "memory" /\ args.upload = {}
             /\ args.frames # "memory" =>
                  probe.streams[i].codec \in HwDecodable[args.frames]
  <2>1. PICK v : RealVideos(probe) = {v}
    BY ProbeFacts, FS_Singleton
  <2>2. recoded = {i} /\ i \in RealVideos(probe)
    BY <1>2, <2>1 DEF VideoReencodes
  <2>3. Least(recoded) = i
    <3>1. i \in Int
      BY <2>2, ProbeFacts
    <3> QED
      BY <2>2, <3>1 DEF Least
  <2>4. ArgIndex(probe, i) = Ordinal(i, RealVideos(probe))
    BY <2>2, ArgIndexOfVideo
  <2>5. CASE fullGpu
    <3>1. /\ encoder.family \in DOMAIN HwaccelFamily
          /\ args.frames = HwaccelFamily[encoder.family]
          /\ probe.streams[i].codec \in HwDecodable[args.frames]
      BY <1>1, <2>3, <2>5 DEF CanHwDecode
    <3>2. args.upload = {}
      BY <1>1, <2>5 DEF NeedsUpload
    <3> QED
      BY <3>1, <3>2, HwaccelDomain
  <2>6. CASE ~fullGpu
    <3>1. args.frames = "memory"
      BY <1>1, <2>6
    <3>2. encoder.family = "vaapi" => Ordinal(i, RealVideos(probe)) \in args.upload
      BY <1>1, <2>2, <2>3, <2>4, <2>6 DEF NeedsUpload
    <3>3. encoder.family # "vaapi" => args.upload = {}
      BY <1>1 DEF NeedsUpload
    <3> QED
      BY <3>1, <3>2, <3>3, HwaccelDomain
  <2> QED
    BY <2>5, <2>6
<1> QED
  BY <1>2 DEF FramesReach, plan, encoder, args

(* build_ffmpeg_args uploads the frames of a file's one video exactly if they
   are decoded in system memory and read on the GPU, on any host. *)
THEOREM FramesMatchHolds == RulesSpec => []FramesMatch
<1>1. ASSUME input = NoInput \/ input \in Inputs PROVE FramesMatch
  <2>1. ASSUME input.of = "plan" /\ Cardinality(RealVideos(input.probe)) = 1
                 /\ ArtComesLast(input.probe),
               NEW host \in Hosts
        PROVE  FramesReach(input.probe, input.match, host)
    <3>1. input.probe \in Probes
      BY <1>1, <2>1 DEF NoInput, Inputs
    <3>2. IsProbe(input.probe)
      BY <3>1, FilesAssumption
    <3> QED
      BY <2>1, <3>2, FramesReachEncoder
  <2> QED
    BY <2>1 DEF FramesMatch
<1> QED
  BY <1>1, InputType, PTL

-----------------------------------------------------------------------------
(* What ffmpeg writes *)

(* Which streams are encoded again. *)
(* What the policy decides for a video. *)
LEMMA ActionForVideo ==
  ASSUME NEW s, IsRealVideo(s), NEW match
  PROVE  /\ ActionFor(s, match) \in {"copy", "reencode"}
         /\ ActionFor(s, match) = "reencode" <=>
              match.video # "copy" /\ ~CodecsEquivalent(s.codec, match.video)
BY DEF ActionFor, IsRealVideo

(* Which streams are encoded again. *)
LEMMA ReencodedFacts ==
  ASSUME NEW probe, NEW match
  PROVE  /\ Reencoded(Evaluate(probe, match)) =
              {i \in DOMAIN probe.streams : ActionFor(probe.streams[i], match) = "reencode"}
         /\ \A i \in RealVideos(probe) : i \in Reencoded(Evaluate(probe, match)) <=>
              match.video # "copy" /\ ~CodecsEquivalent(probe.streams[i].codec, match.video)
         /\ \A i \in Audios(probe) : i \in Reencoded(Evaluate(probe, match)) <=>
              match.audio \notin {"copy", probe.streams[i].codec}
<1>1. Reencoded(Evaluate(probe, match)) =
        {i \in DOMAIN probe.streams : ActionFor(probe.streams[i], match) = "reencode"}
  BY DEF Reencoded, Evaluate
<1>2. ASSUME NEW s, IsRealVideo(s)
      PROVE  ActionFor(s, match) = "reencode" <=>
               match.video # "copy" /\ ~CodecsEquivalent(s.codec, match.video)
  BY <1>2, ActionForVideo
<1>3. ASSUME NEW s, s.type = "audio"
      PROVE  ActionFor(s, match) = "reencode" <=> match.audio \notin {"copy", s.codec}
  BY <1>3 DEF ActionFor, IsRealVideo
<1> QED
  BY <1>1, <1>2, <1>3 DEF RealVideos, Audios

(* The encoder chosen for a target is one of those that the table has for it. *)
LEMMA EncoderOfTarget ==
  ASSUME NEW t \in {"hevc", "h264", "av1"}, NEW base
  PROVE  \E f \in DOMAIN EncoderName[t] : EncoderForCodec(t, base).name = EncoderName[t][f]
<1>1. t \in DOMAIN EncoderName /\ "cpu" \in DOMAIN EncoderName[t]
  BY DEF EncoderName
<1>2. PICK f \in DOMAIN EncoderName[t] :
        EncoderForCodec(t, base) = [name |-> EncoderName[t][f], family |-> f]
  BY <1>1 DEF EncoderForCodec
<1> QED
  BY <1>2

(* No encoder is listed under two targets, so each produces its target. *)
LEMMA EncodersDiffer ==
  ASSUME NEW t \in DOMAIN EncoderName, NEW f \in DOMAIN EncoderName[t]
  PROVE  /\ EncoderName[t][f] # "copy"
         /\ Produces(EncoderName[t][f]) = t
<1>1. DOMAIN EncoderName = {"hevc", "h264", "av1"}
  BY DEF EncoderName
<1>2. /\ DOMAIN EncoderName["hevc"] = {"nvenc", "vaapi", "qsv", "amf", "cpu"}
      /\ DOMAIN EncoderName["h264"] = {"nvenc", "vaapi", "qsv", "amf", "cpu"}
      /\ DOMAIN EncoderName["av1"] = {"nvenc", "vaapi", "qsv", "cpu"}
  BY DEF EncoderName
<1> DEFINE Names(c) == {EncoderName[c][g] : g \in DOMAIN EncoderName[c]}
<1>3. /\ Names("hevc") = {"hevc_nvenc", "hevc_vaapi", "hevc_qsv", "hevc_amf", "libx265"}
      /\ Names("h264") = {"h264_nvenc", "h264_vaapi", "h264_qsv", "h264_amf", "libx264"}
      /\ Names("av1") = {"av1_nvenc", "av1_vaapi", "av1_qsv", "libsvtav1"}
  BY <1>2 DEF EncoderName
<1>4. \A c, d \in DOMAIN EncoderName : \A e \in Names(c) : e \in Names(d) => c = d
  BY <1>1, <1>3
<1>5. EncoderName[t][f] # "copy" /\ EncoderName[t][f] \in Names(t)
  BY <1>1, <1>3
<1>6. \A c \in DOMAIN EncoderName :
        (\E g \in DOMAIN EncoderName[c] : EncoderName[c][g] = EncoderName[t][f]) <=> c = t
  BY <1>4, <1>5
<1> QED
  BY <1>5, <1>6 DEF Produces

(* The arguments of the videos, of any file, by any workflow. *)
LEMMA VideoArgs ==
  ASSUME NEW probe, NEW match, NEW base, match.video \in VideoTargets
  PROVE  LET args == BuildArgs(probe, Evaluate(probe, match), base)
         IN \A n \in DOMAIN args.video :
              args.video[n] = "copy" \/ Produces(args.video[n]) \in {"hevc", "h264", "av1"}
<1> DEFINE plan == Evaluate(probe, match)
           args == BuildArgs(probe, plan, base)
           V == RealVideos(probe)
           encoder == ActualEncoder(plan, base)
           Of(n) == CHOOSE i \in V : ArgIndex(probe, i) = n
<1>1. args.video = [n \in {ArgIndex(probe, i) : i \in V} |->
                      IF Of(n) \in Reencoded(plan) THEN encoder.name ELSE "copy"]
  BY DEF BuildArgs
<1>2. ASSUME NEW n \in DOMAIN args.video, Of(n) \in Reencoded(plan)
      PROVE  Produces(encoder.name) \in {"hevc", "h264", "av1"}
  <2>1. Of(n) \in V
    BY <1>1
  <2>2. match.video # "copy"
    BY <1>2, <2>1, ReencodedFacts
  <2>3. match.video \in {"hevc", "h264", "av1"}
    BY <2>2 DEF VideoTargets
  <2>4. encoder = EncoderForCodec(match.video, base)
    BY <2>2 DEF ActualEncoder, Evaluate
  <2>5. PICK f \in DOMAIN EncoderName[match.video] : encoder.name = EncoderName[match.video][f]
    BY <2>3, <2>4, EncoderOfTarget
  <2>6. match.video \in DOMAIN EncoderName
    BY <2>3 DEF EncoderName
  <2> QED
    BY <2>3, <2>5, <2>6, EncodersDiffer
<1> HIDE DEF args, encoder
<1> QED
  BY <1>1, <1>2 DEF args

(* A sequence over a set is one over its values. *)
LEMMA SeqOfValues ==
  ASSUME NEW T, NEW seq \in Seq(T)
  PROVE  IsSeq(seq) /\ \A i \in DOMAIN seq : seq[i] \in T
<1>1. seq \in [1 .. Len(seq) -> T] /\ Len(seq) \in Nat /\ DOMAIN seq = 1 .. Len(seq)
  OBVIOUS
<1>2. seq \in [1 .. Len(seq) -> Values(seq)]
  BY <1>1 DEF Values
<1> QED
  BY <1>1, <1>2 DEF IsSeq

(* The streams that are neither video nor audio. *)
OutputRest(probe) ==
  {i \in DOMAIN probe.streams : probe.streams[i].type \notin {"video", "audio"}}

(* What the streams of an output are made of. *)
OutputStreams(probe, args) ==
  {Written(probe.streams[i], args, Ordinal(i, RealVideos(probe))) : i \in RealVideos(probe)}
    \cup {Written(probe.streams[i], args, Ordinal(i, Audios(probe))) : i \in Audios(probe)}
    \cup {probe.streams[i] : i \in OutputRest(probe)}

(* The streams of one type, as they are written. *)
LEMMA KeptIsSeq ==
  ASSUME NEW probe, NEW args, NEW S \in SUBSET Int, IsFiniteSet(S), NEW T,
         \A i \in S : Written(probe.streams[i], args, Ordinal(i, S)) \in T
  PROVE  [n \in 1 .. Cardinality(S) |-> Written(probe.streams[Nth(S, n - 1)], args, n - 1)]
           \in Seq(T)
<1>1. Cardinality(S) \in Nat
  BY FS_CardinalityType
<1>2. ASSUME NEW n \in 1 .. Cardinality(S)
      PROVE  Written(probe.streams[Nth(S, n - 1)], args, n - 1) \in T
  <2>1. n - 1 \in 0 .. Cardinality(S) - 1
    BY <1>1
  <2>2. Nth(S, n - 1) \in S /\ Ordinal(Nth(S, n - 1), S) = n - 1
    BY <2>1, NthFacts
  <2> QED
    BY <2>2
<1> DEFINE f == [n \in 1 .. Cardinality(S) |-> Written(probe.streams[Nth(S, n - 1)], args, n - 1)]
<1>3. f \in [1 .. Cardinality(S) -> T]
  BY <1>2
<1> HIDE DEF f
<1>4. f \in Seq(T)
  BY <1>1, <1>3
<1> QED
  BY <1>4 DEF f

(* An output has no other streams. *)
LEMMA OutputFacts ==
  ASSUME NEW probe, IsProbe(probe), NEW args
  PROVE  /\ DOMAIN Output(probe, args) = {"format", "suffix", "streams"}
         /\ Output(probe, args).streams \in Seq(OutputStreams(probe, args))
<1> DEFINE V == RealVideos(probe)
           A == Audios(probe)
           T == OutputStreams(probe, args)
           Kept(S) == [n \in 1 .. Cardinality(S) |->
                         Written(probe.streams[Nth(S, n - 1)], args, n - 1)]
           rest == InOrder(probe.streams, OutputRest(probe))
<1>1. Output(probe, args) = [probe EXCEPT !.streams = Kept(V) \o Kept(A) \o rest]
  BY DEF Output, OutputRest
<1>2. Kept(V) \in Seq(T) /\ Kept(A) \in Seq(T)
  <2>1. /\ \A i \in V : Written(probe.streams[i], args, Ordinal(i, V)) \in T
        /\ \A i \in A : Written(probe.streams[i], args, Ordinal(i, A)) \in T
    BY DEF OutputStreams
  <2> QED
    BY <2>1, KeptIsSeq, ProbeFacts
<1>3. rest \in Seq(T)
  <2>1. OutputRest(probe) \in SUBSET Int /\ IsFiniteSet(OutputRest(probe))
    BY ProbeFacts, FS_Subset DEF OutputRest
  <2>2. \A i \in OutputRest(probe) : probe.streams[i] \in T
    BY DEF OutputStreams
  <2> QED
    BY <2>1, <2>2, InOrderIsSeq
<1> HIDE DEF Kept, T, V, A, rest
<1>4. Kept(V) \o Kept(A) \o rest \in Seq(T)
  BY <1>2, <1>3
<1>5. DOMAIN probe = {"format", "suffix", "streams"}
  BY DEF IsProbe
<1> QED
  BY <1>1, <1>4, <1>5 DEF T

(* Writing a stream changes its codec at most, ... *)
LEMMA WrittenStream ==
  ASSUME NEW s, IsStream(s), NEW args, NEW n
  PROVE  /\ IsStream(Written(s, args, n))
         /\ Written(s, args, n).type = s.type
         /\ Written(s, args, n).pic = s.pic
<1>1. ASSUME NEW c
      PROVE  /\ IsStream([s EXCEPT !.codec = c])
             /\ [s EXCEPT !.codec = c].type = s.type
             /\ [s EXCEPT !.codec = c].pic = s.pic
  BY DEF IsStream
<1> DEFINE told == IF s.type = "video" THEN args.video ELSE args.audio
<1>2. \/ Written(s, args, n) = s
      \/ \E c : Written(s, args, n) = [s EXCEPT !.codec = c]
  BY DEF Written
<1> QED
  BY <1>1, <1>2

(* The codecs of the videos in an output. *)
(* ... that of a video to what its encoder produces, ... *)
LEMMA WrittenVideo ==
  ASSUME NEW s, IsStream(s), s.type = "video", NEW args, NEW n
  PROVE  Written(s, args, n).codec =
           IF n \notin DOMAIN args.video THEN "h264"
           ELSE IF args.video[n] = "copy" THEN s.codec ELSE Produces(args.video[n])
BY DEF Written, IsStream, DefaultCodec

(* ... that of a sound to the name of its encoder. *)
LEMMA WrittenAudio ==
  ASSUME NEW s, IsStream(s), s.type = "audio", NEW args, NEW n, n \in DOMAIN args.audio
  PROVE  Written(s, args, n).codec = IF args.audio[n] = "copy" THEN s.codec ELSE args.audio[n]
BY DEF Written, IsStream

(* An output is a file again. *)
LEMMA OutputIsProbe ==
  ASSUME NEW probe, IsProbe(probe), NEW args
  PROVE  IsProbe(Output(probe, args))
<1> DEFINE out == Output(probe, args)
<1>1. IsSeq(out.streams) /\ \A m \in DOMAIN out.streams : out.streams[m] \in OutputStreams(probe, args)
  BY OutputFacts, SeqOfValues
<1>2. \A i \in DOMAIN probe.streams : IsStream(probe.streams[i])
  BY DEF IsProbe
<1>3. \A s \in OutputStreams(probe, args) : IsStream(s)
  BY <1>2, ProbeFacts, WrittenStream DEF OutputStreams, OutputRest
<1> QED
  BY <1>1, <1>3, OutputFacts DEF IsProbe

(* A video is told to be encoded exactly if the plan has it so, ... *)
LEMMA ArgsOfVideo ==
  ASSUME NEW probe, IsProbe(probe), ArtComesLast(probe), NEW plan, NEW base,
         NEW i \in RealVideos(probe)
  PROVE  LET args == BuildArgs(probe, plan, base)
             n    == Ordinal(i, RealVideos(probe))
         IN /\ n \in DOMAIN args.video
            /\ args.video[n] = IF i \in Reencoded(plan)
                               THEN ActualEncoder(plan, base).name ELSE "copy"
<1> DEFINE args == BuildArgs(probe, plan, base)
           V == RealVideos(probe)
           n == Ordinal(i, V)
           Of(k) == CHOOSE j \in V : ArgIndex(probe, j) = k
<1>1. args.video = [k \in {ArgIndex(probe, j) : j \in V} |->
                      IF Of(k) \in Reencoded(plan) THEN ActualEncoder(plan, base).name ELSE "copy"]
  BY DEF BuildArgs
<1>2. \A j \in V : ArgIndex(probe, j) = Ordinal(j, V)
  BY ArgIndexOfVideo
<1>3. \A j \in V : ArgIndex(probe, j) = n => j = i
  BY <1>2, OrdinalFacts, ProbeFacts
<1>4. Of(n) = i /\ n \in {ArgIndex(probe, j) : j \in V}
  BY <1>2, <1>3
<1> HIDE DEF args, n, Of
<1>5. n \in DOMAIN args.video /\
      args.video[n] = IF i \in Reencoded(plan) THEN ActualEncoder(plan, base).name ELSE "copy"
  BY <1>1, <1>4
<1> QED
  BY <1>5 DEF args, n

(* ... and so is a sound. *)
LEMMA ArgsOfAudio ==
  ASSUME NEW probe, IsProbe(probe), NEW plan, NEW base, NEW i \in Audios(probe)
  PROVE  LET args == BuildArgs(probe, plan, base)
             n    == Ordinal(i, Audios(probe))
         IN /\ n \in DOMAIN args.audio
            /\ args.audio[n] = IF i \in Reencoded(plan) THEN plan.audio ELSE "copy"
<1> DEFINE args == BuildArgs(probe, plan, base)
           A == Audios(probe)
           n == Ordinal(i, A)
           Of(k) == CHOOSE j \in A : ArgIndex(probe, j) = k
<1>1. args.audio = [k \in {ArgIndex(probe, j) : j \in A} |->
                      IF Of(k) \in Reencoded(plan) THEN plan.audio ELSE "copy"]
  BY DEF BuildArgs
<1>2. \A j \in A : ArgIndex(probe, j) = Ordinal(j, A)
  BY ArgIndexOfAudio
<1>3. \A j \in A : ArgIndex(probe, j) = n => j = i
  BY <1>2, OrdinalFacts, ProbeFacts
<1>4. Of(n) = i /\ n \in {ArgIndex(probe, j) : j \in A}
  BY <1>2, <1>3
<1> HIDE DEF args, n, Of
<1>5. n \in DOMAIN args.audio /\
      args.audio[n] = IF i \in Reencoded(plan) THEN plan.audio ELSE "copy"
  BY <1>1, <1>4
<1> QED
  BY <1>5 DEF args, n

(* Each stream of the output suits the workflow: a video because its encoder
   produces the target or the policy took it for one already, a sound alike. *)
LEMMA ConversionConverges ==
  ASSUME NEW probe, IsProbe(probe), ArtComesLast(probe), NEW match, NEW host,
         match.video \in VideoTargets
  PROVE  Converges(probe, match, host)
<1> DEFINE plan == Evaluate(probe, match)
           base == DetectBest(host)
           args == BuildArgs(probe, plan, base)
           out == Output(probe, args)
           V == RealVideos(probe)
           A == Audios(probe)
<1>1. /\ IsProbe(out) /\ DOMAIN out.streams = 1 .. Len(out.streams)
      /\ \A m \in DOMAIN out.streams : out.streams[m] \in OutputStreams(probe, args)
  BY OutputIsProbe, ProbeFacts, OutputFacts, SeqOfValues
<1>2. plan.video = match.video /\ plan.audio = match.audio
  BY DEF Evaluate
<1> HIDE DEF plan, args, out
<1>3. ASSUME NEW i \in V
      PROVE  ActionFor(Written(probe.streams[i], args, Ordinal(i, V)), match) = "copy"
  <2> DEFINE s == probe.streams[i]
             n == Ordinal(i, V)
             w == Written(s, args, n)
  <2>1. IsStream(s) /\ IsRealVideo(s) /\ s.type = "video"
    BY ProbeFacts DEF RealVideos, IsRealVideo, IsProbe
  <2>2. IsRealVideo(w)
    BY <2>1, WrittenStream DEF IsRealVideo
  <2>3. n \in DOMAIN args.video /\
        args.video[n] = IF i \in Reencoded(plan) THEN ActualEncoder(plan, base).name ELSE "copy"
    BY ArgsOfVideo DEF args
  <2>4. i \in Reencoded(plan) <=> match.video # "copy" /\ ~CodecsEquivalent(s.codec, match.video)
    BY ReencodedFacts DEF plan
  <2>5. w.codec = IF args.video[n] = "copy" THEN s.codec ELSE Produces(args.video[n])
    BY <2>1, <2>3, WrittenVideo
  <2> HIDE DEF n, w, s
  <2>6. CASE i \in Reencoded(plan)
    <3>1. match.video \in {"hevc", "h264", "av1"}
      BY <2>4, <2>6 DEF VideoTargets
    <3>2. match.video \in DOMAIN EncoderName
      BY <3>1 DEF EncoderName
    <3>3. ActualEncoder(plan, base) = EncoderForCodec(match.video, base)
      BY <1>2, <3>1 DEF ActualEncoder
    <3>4. PICK f \in DOMAIN EncoderName[match.video] :
            ActualEncoder(plan, base).name = EncoderName[match.video][f]
      BY <3>1, <3>3, EncoderOfTarget
    <3>5. w.codec = match.video
      BY <2>3, <2>5, <2>6, <3>2, <3>4, EncodersDiffer
    <3>6. CodecsEquivalent(w.codec, match.video)
      BY <3>5 DEF CodecsEquivalent
    <3> QED
      BY <2>2, <3>6, ActionForVideo DEF w, s, n
  <2>7. CASE i \notin Reencoded(plan)
    <3>1. w.codec = s.codec
      BY <2>3, <2>5, <2>7
    <3>2. match.video = "copy" \/ CodecsEquivalent(w.codec, match.video)
      BY <2>4, <2>7, <3>1
    <3> QED
      BY <2>2, <3>2, ActionForVideo DEF w, s, n
  <2> QED
    BY <2>6, <2>7
<1>4. ASSUME NEW i \in A
      PROVE  ActionFor(Written(probe.streams[i], args, Ordinal(i, A)), match) = "copy"
  <2> DEFINE s == probe.streams[i]
             n == Ordinal(i, A)
             w == Written(s, args, n)
  <2>1. IsStream(s) /\ s.type = "audio"
    BY ProbeFacts DEF Audios, IsProbe
  <2>2. w.type = "audio" /\ ~IsRealVideo(w)
    BY <2>1, WrittenStream DEF IsRealVideo
  <2>3. n \in DOMAIN args.audio /\
        args.audio[n] = IF i \in Reencoded(plan) THEN plan.audio ELSE "copy"
    BY ArgsOfAudio DEF args
  <2>4. i \in Reencoded(plan) <=> match.audio \notin {"copy", s.codec}
    BY ReencodedFacts DEF plan
  <2>5. w.codec = IF args.audio[n] = "copy" THEN s.codec ELSE args.audio[n]
    BY <2>1, <2>3, WrittenAudio
  <2> HIDE DEF n, w, s
  <2>6. match.audio \in {"copy", w.codec}
    BY <1>2, <2>3, <2>4, <2>5
  <2> QED
    BY <2>2, <2>6 DEF ActionFor, w, s, n
<1>5. ASSUME NEW i \in OutputRest(probe)
      PROVE  ActionFor(probe.streams[i], match) = "copy"
  BY DEF OutputRest, ActionFor, IsRealVideo
<1>6. \A m \in DOMAIN out.streams : ActionFor(out.streams[m], match) = "copy"
  BY <1>1, <1>3, <1>4, <1>5 DEF OutputStreams
<1>7. Reencoded(Evaluate(out, match)) = {}
  BY <1>6, ReencodedFacts
<1> QED
  BY <1>7 DEF Converges, Convert, NeedsConversion, plan, args, out

(* A file converted as a workflow asks needs no second conversion by it: for
   every file whose cover art comes last, every target and every host. *)
THEOREM PlanConvergesHolds == RulesSpec => []PlanConverges
<1>1. ASSUME input = NoInput \/ input \in Inputs PROVE PlanConverges
  <2>1. ASSUME input.of = "plan" /\ ArtComesLast(input.probe), NEW host \in Hosts
        PROVE  Converges(input.probe, input.match, host)
    <3>1. input.probe \in Probes /\ input.match \in Targets
      BY <1>1, <2>1 DEF NoInput, Inputs
    <3>2. IsProbe(input.probe) /\ input.match.video \in VideoTargets
      BY <3>1, FilesAssumption
    <3> QED
      BY <2>1, <3>2, ConversionConverges
  <2> QED
    BY <2>1 DEF PlanConverges
<1> QED
  BY <1>1, InputType, PTL

-----------------------------------------------------------------------------
(* Saved clauses *)

(* Nothing is dropped from conditions that are all known. *)
LEMMA ConditionsKept ==
  ASSUME NEW row, IsSeq(row.conditions), "conditions" \in DOMAIN row,
         \A i \in DOMAIN row.conditions : IsKnownClause(row.conditions[i])
  PROVE  CleanWorkflow(row).conditions
           = [i \in DOMAIN row.conditions |-> CleanClause(row.conditions[i])]
<1> DEFINE seq == row.conditions
           S == {i \in DOMAIN seq : IsKnownClause(seq[i])}
           known == InOrder(seq, S)
<1>1. S = DOMAIN seq
  OBVIOUS
<1>2. seq \in [1 .. Len(seq) -> Values(seq)] /\ Len(seq) \in Nat /\ DOMAIN seq = 1 .. Len(seq)
  BY DEF IsSeq
<1>3. known = [n \in 1 .. Len(seq) |-> seq[n]]
  BY <1>1, <1>2, InOrderAll
<1>4. known = seq
  BY <1>2, <1>3
<1>5. CleanWorkflow(row) = [row EXCEPT !.conditions = [i \in DOMAIN known |-> CleanClause(known[i])]]
  BY DEF CleanWorkflow
<1> HIDE DEF known, seq
<1> QED
  BY <1>4, <1>5 DEF seq

(* Wrapping a value asks the same, if it is a list or has no commas. *)
LEMMA StoredAsMeant ==
  ASSUME NEW c, IsClause(c), Storable(c), NEW attrs
  PROVE  /\ EvaluateClause(attrs, CleanClause(c)) <=> EvaluateClause(attrs, c)
         /\ CleanClause(c).or = c.or
<1> DEFINE d == CleanClause(c)
<1>1. /\ d.field = c.field /\ d.op = c.op /\ d.value = c.value /\ d.or = c.or
      /\ d.list = TRUE /\ c.list \in BOOLEAN
  BY DEF CleanClause, IsClause
<1> HIDE DEF d
<1>2. CASE c.field \in NumberFields
  BY <1>1, <1>2 DEF EvaluateClause, d
<1>3. CASE c.field \notin NumberFields
  <2>1. NormalizeTargets(d) = Values(c.value)
    BY <1>1 DEF NormalizeTargets
  <2>2. NormalizeTargets(c) = Values(c.value)
    <3>1. CASE c.list
      BY <3>1 DEF NormalizeTargets
    <3>2. CASE ~c.list
      <4>1. \A text \in Values(c.value) : text = <<text[1]>>
        BY <1>3, <3>2 DEF Storable, IsName
      <4>2. \A text \in Values(c.value) : Values(text) = {text[1]}
        <5> SUFFICES ASSUME NEW text \in Values(c.value) PROVE Values(text) = {text[1]}
          OBVIOUS
        <5>1. \A x : Values(<<x>>) = {x}
          BY DEF Values
        <5>2. Values(<<text[1]>>) = {text[1]}
          BY <5>1
        <5> QED
          BY <4>1, <5>2
      <4>3. UNION {Values(text) : text \in Values(c.value)} = {text[1] : text \in Values(c.value)}
        BY <4>2
      <4>4. {<<name>> : name \in {text[1] : text \in Values(c.value)}} = Values(c.value)
        BY <4>1
      <4> QED
        BY <3>2, <4>3, <4>4 DEF NormalizeTargets
    <3> QED
      BY <3>1, <3>2
  <2> QED
    BY <1>1, <1>3, <2>1, <2>2 DEF EvaluateClause, d
<1> QED
  BY <1>1, <1>2, <1>3 DEF d

(* So the conditions as a whole match the same files. *)
LEMMA SavedMatchesAlike ==
  ASSUME NEW conditions, IsSeq(conditions),
         \A i \in DOMAIN conditions : IsClause(conditions[i]) /\ Storable(conditions[i]),
         NEW attrs
  PROVE  Matches(attrs, [i \in DOMAIN conditions |-> CleanClause(conditions[i])])
           <=> Matches(attrs, conditions)
<1> DEFINE saved == [i \in DOMAIN conditions |-> CleanClause(conditions[i])]
<1>1. conditions \in Seq(Values(conditions)) /\ DOMAIN conditions = 1 .. Len(conditions)
      /\ Len(conditions) \in Nat
  BY DEF IsSeq
<1>2. /\ DOMAIN saved = DOMAIN conditions
      /\ \A i \in DOMAIN conditions : saved[i] = CleanClause(conditions[i])
  OBVIOUS
<1> HIDE DEF saved
<1>3. /\ \A i \in DOMAIN conditions : saved[i].or = conditions[i].or
      /\ \A i \in DOMAIN conditions :
           EvaluateClause(attrs, saved[i]) <=> EvaluateClause(attrs, conditions[i])
  BY <1>2, StoredAsMeant
<1>4. Len(saved) = Len(conditions)
  BY <1>1, <1>2 DEF saved
<1>5. saved = <<>> <=> conditions = <<>>
  <2>1. saved = <<>> => DOMAIN saved = {}
    OBVIOUS
  <2>2. conditions = <<>> <=> DOMAIN conditions = {}
    BY <1>1
  <2>3. DOMAIN conditions = {} => saved = <<>>
    BY <1>2 DEF saved
  <2> QED
    BY <1>2, <2>1, <2>2, <2>3
<1>6. ASSUME NEW i \in DOMAIN conditions
      PROVE  AndGroup(saved, i) = AndGroup(conditions, i)
  <2>1. \A j \in i .. Len(conditions) : \A k \in i + 1 .. j : k \in DOMAIN conditions
    BY <1>1
  <2> QED
    BY <1>3, <1>4, <2>1 DEF AndGroup
<1>7. \A i \in DOMAIN conditions : AndGroup(conditions, i) \subseteq DOMAIN conditions
  BY <1>1 DEF AndGroup
<1>8. Matches(attrs, saved) <=> Matches(attrs, conditions)
  BY <1>2, <1>3, <1>5, <1>6, <1>7 DEF Matches
<1> QED
  BY <1>8 DEF saved

(* A filter shows an item that passes all its clauses. *)
LEMMA FilterShows ==
  ASSUME NEW item, NEW clauses
  PROVE  ApplyFilter(<<item>>, [kind |-> "custom", clauses |-> clauses]) # <<>>
           <=> EvaluateCustom(item, clauses)
<1> DEFINE spec == [kind |-> "custom", clauses |-> clauses]
           items == <<item>>
           S == {n \in DOMAIN items : EvaluateCustom(items[n], clauses)}
<1>1. ApplyFilter(items, spec) = InOrder(items, S)
  BY DEF ApplyFilter
<1>2. DOMAIN items = {1}
  OBVIOUS
<1>3. items[1] = item
  OBVIOUS
<1> HIDE DEF items, spec
<1>4. S \in SUBSET Int /\ IsFiniteSet(S)
  <2>1. IsFiniteSet({1}) /\ S \in SUBSET {1}
    BY <1>2, FS_Singleton
  <2> QED
    BY <2>1, FS_Subset
<1>5. InOrder(items, S) \in Seq({items[i] : i \in S}) /\ Len(InOrder(items, S)) = Cardinality(S)
  BY <1>4, InOrderIsSeq
<1>6. InOrder(items, S) = <<>> <=> Cardinality(S) = 0
  BY <1>5
<1>7. Cardinality(S) = 0 <=> S = {}
  BY <1>4, FS_EmptySet
<1>8. S = {} <=> ~EvaluateCustom(item, clauses)
  BY <1>2, <1>3
<1> QED
  BY <1>1, <1>6, <1>7, <1>8 DEF items, spec

(* A clause that is not known asks nothing. *)
LEMMA UnknownAsksNothing ==
  ASSUME NEW item, NEW c, ~IsKnownFilterClause(c)
  PROVE  FilterClause(item, c)
BY DEF IsKnownFilterClause, FilterClause, CustomOps, WorkflowOps

(* So the clauses that saving drops are not missed. *)
LEMMA CleanFilterAlike ==
  ASSUME NEW clauses, IsSeq(clauses), NEW item
  PROVE  EvaluateCustom(item, CleanFilter(clauses)) <=> EvaluateCustom(item, clauses)
<1> DEFINE S == {n \in DOMAIN clauses : IsKnownFilterClause(clauses[n])}
<1>1. DOMAIN clauses = 1 .. Len(clauses) /\ Len(clauses) \in Nat
  BY DEF IsSeq
<1>2. IsFiniteSet(DOMAIN clauses)
  BY <1>1, FS_Interval
<1>3. S \in SUBSET Int /\ IsFiniteSet(S)
  BY <1>1, <1>2, FS_Subset
<1>4. CleanFilter(clauses) = InOrder(clauses, S)
  BY DEF CleanFilter
<1>5. ASSUME EvaluateCustom(item, clauses), NEW n \in DOMAIN InOrder(clauses, S)
      PROVE  FilterClause(item, InOrder(clauses, S)[n])
  <2>1. Nth(S, n - 1) \in S /\ InOrder(clauses, S)[n] = clauses[Nth(S, n - 1)]
    BY <1>3, <1>5, InOrderFacts
  <2> QED
    BY <1>5, <2>1 DEF EvaluateCustom
<1>6. ASSUME EvaluateCustom(item, InOrder(clauses, S)), NEW i \in DOMAIN clauses
      PROVE  FilterClause(item, clauses[i])
  <2>1. CASE i \in S
    <3>1. /\ Ordinal(i, S) + 1 \in DOMAIN InOrder(clauses, S)
          /\ InOrder(clauses, S)[Ordinal(i, S) + 1] = clauses[i]
      BY <1>3, <2>1, InOrderFacts
    <3> QED
      BY <1>6, <3>1 DEF EvaluateCustom
  <2>2. CASE i \notin S
    BY <1>6, <2>2, UnknownAsksNothing
  <2> QED
    BY <2>1, <2>2
<1> QED
  BY <1>4, <1>5, <1>6 DEF EvaluateCustom

-----------------------------------------------------------------------------
(* Tables of workflows *)

(* The order in which the workflows of a table are tried. *)
TableOrder(table) ==
  {p \in (DOMAIN table) \X (DOMAIN table) : Precedes(table, p[1], p[2])}

(* Priorities are integers, keys are positive. *)
LEMMA TableFacts ==
  ASSUME NEW table, IsTable(table)
  PROVE  /\ DOMAIN table \in SUBSET Int /\ IsFiniteSet(DOMAIN table)
         /\ \A v, w \in DOMAIN table : Precedes(table, v, w) <=>
              \/ table[v].priority < table[w].priority
              \/ table[v].priority = table[w].priority /\ v < w
         /\ \A w \in DOMAIN table : table[w].priority \in Int /\ w \in Nat \ {0}
BY DEF IsTable, IsRow, Precedes

(* Priority, then key: the order is total. *)
LEMMA TableOrderIsOrder ==
  ASSUME NEW table, IsTable(table), NEW S \in SUBSET DOMAIN table
  PROVE  IsOrder(TableOrder(table), S)
<1> DEFINE D == DOMAIN table
           R == TableOrder(table)
<1>1. \A v, w \in D : <<v, w>> \in R <=> Precedes(table, v, w)
  BY DEF TableOrder
<1>2. \A v, w \in D : <<v, w>> \in R <=>
        \/ table[v].priority < table[w].priority
        \/ table[v].priority = table[w].priority /\ v < w
  BY <1>1, TableFacts
<1>3. \A w \in S : w \in D /\ w \in Int /\ table[w].priority \in Int
  BY TableFacts
<1> HIDE DEF R
<1>4. ASSUME NEW x \in S PROVE <<x, x>> \notin R
  BY <1>2, <1>3
<1>5. ASSUME NEW x \in S, NEW y \in S, x # y PROVE <<x, y>> \in R \/ <<y, x>> \in R
  BY <1>2, <1>3, <1>5
<1>6. ASSUME NEW x \in S, NEW y \in S, NEW z \in S, <<x, y>> \in R, <<y, z>> \in R
      PROVE  <<x, z>> \in R
  BY <1>2, <1>3, <1>6
<1>7. IsOrder(R, S)
  BY <1>4, <1>5, <1>6 DEF IsOrder
<1> QED
  BY <1>7 DEF R

(* No two workflows come before each other. *)
LEMMA PrecedesOnce ==
  ASSUME NEW table, IsTable(table), NEW v \in DOMAIN table, NEW w \in DOMAIN table,
         Precedes(table, v, w)
  PROVE  ~Precedes(table, w, v)
BY TableFacts

(* There is a first among any of them, ... *)
LEMMA FirstFacts ==
  ASSUME NEW table, IsTable(table), NEW S \in SUBSET DOMAIN table, S # {}
  PROVE  /\ First(table, S) \in S
         /\ \A v \in S \ {First(table, S)} : Precedes(table, First(table, S), v)
<1> DEFINE R == TableOrder(table)
<1>1. IsOrder(R, S) /\ IsFiniteSet(S)
  BY TableOrderIsOrder, TableFacts, FS_Subset
<1>2. Cardinality(S) \in Nat /\ Cardinality(S) # 0
  BY <1>1, FS_CardinalityType, FS_EmptySet
<1>3. 0 \in 0 .. Cardinality(S) - 1
  BY <1>2
<1>4. PICK w \in S : Standing(w, R, S) = 0
  BY <1>1, <1>3, StandingTaken
<1>5. ASSUME NEW v \in S \ {w} PROVE Precedes(table, w, v)
  <2>1. Standing(v, R, S) \in 0 .. Cardinality(S) - 1
    BY <1>1, StandingType
  <2>2. Standing(v, R, S) # 0
    BY <1>1, <1>4, StandingOrders
  <2>3. Standing(w, R, S) < Standing(v, R, S)
    BY <1>2, <1>4, <2>1, <2>2
  <2>4. <<w, v>> \in R
    BY <1>1, <2>3, StandingOrders
  <2> QED
    BY <2>4 DEF TableOrder
<1> QED
  BY <1>4, <1>5 DEF First

(* ... and only one. *)
LEMMA FirstIs ==
  ASSUME NEW table, IsTable(table), NEW S \in SUBSET DOMAIN table, NEW w \in S,
         \A v \in S \ {w} : Precedes(table, w, v)
  PROVE  First(table, S) = w
<1> DEFINE x == First(table, S)
<1>1. x \in S /\ \A v \in S \ {x} : Precedes(table, x, v)
  BY FirstFacts
<1> HIDE DEF x
<1>2. ASSUME x # w PROVE FALSE
  <2>1. Precedes(table, w, x) /\ Precedes(table, x, w)
    BY <1>1, <1>2
  <2> QED
    BY <1>1, <2>1, PrecedesOnce
<1> QED
  BY <1>2 DEF x

(* The order of an export: a bijection between places and keys. *)
LEMMA ExportFacts ==
  ASSUME NEW table, IsTable(table)
  PROVE  LET c == Cardinality(DOMAIN table)
             e == ExportOrder(table)
         IN /\ c \in Nat
            /\ DOMAIN e = 1 .. c
            /\ \A n \in 1 .. c : e[n] \in DOMAIN table /\ Rank(table, e[n]) = n
            /\ \A w \in DOMAIN table : Rank(table, w) \in 1 .. c /\ e[Rank(table, w)] = w
            /\ \A m, n \in 1 .. c : m < n <=> Precedes(table, e[m], e[n])
<1> DEFINE D == DOMAIN table
           c == Cardinality(D)
           R == TableOrder(table)
           e == ExportOrder(table)
<1>1. IsOrder(R, D) /\ IsFiniteSet(D) /\ c \in Nat
  BY TableOrderIsOrder, TableFacts, FS_CardinalityType
<1>2. \A v, w \in D : <<v, w>> \in R <=> Precedes(table, v, w)
  BY DEF TableOrder
<1>3. ASSUME NEW w \in D PROVE Rank(table, w) = 1 + Standing(w, R, D)
  <2>1. {v \in D : Precedes(table, v, w)} = {v \in D : <<v, w>> \in R}
    BY <1>2
  <2> QED
    BY <2>1 DEF Rank, Standing
<1>4. ASSUME NEW w \in D PROVE Rank(table, w) \in 1 .. c
  <2>1. Standing(w, R, D) \in 0 .. c - 1
    BY <1>1, StandingType
  <2> QED
    BY <1>1, <1>3, <2>1
<1>5. DOMAIN e = 1 .. c
  BY DEF ExportOrder
<1>6. ASSUME NEW n \in 1 .. c PROVE e[n] \in D /\ Rank(table, e[n]) = n
  <2>1. n - 1 \in 0 .. c - 1
    BY <1>1
  <2>2. PICK w \in D : Standing(w, R, D) = n - 1
    BY <1>1, <2>1, StandingTaken
  <2>3. Rank(table, w) = n
    BY <1>1, <1>3, <2>2
  <2>4. e[n] = CHOOSE x \in D : Rank(table, x) = n
    BY <1>6 DEF ExportOrder
  <2> QED
    BY <2>3, <2>4
<1>7. ASSUME NEW v \in D, NEW w \in D
      PROVE  /\ Rank(table, v) = Rank(table, w) => v = w
             /\ Rank(table, v) < Rank(table, w) <=> Precedes(table, v, w)
  <2>1. Standing(v, R, D) \in 0 .. c - 1 /\ Standing(w, R, D) \in 0 .. c - 1
    BY <1>1, StandingType
  <2>2. /\ <<v, w>> \in R <=> Standing(v, R, D) < Standing(w, R, D)
        /\ Standing(v, R, D) = Standing(w, R, D) => v = w
    BY <1>1, StandingOrders
  <2> QED
    BY <1>1, <1>2, <1>3, <2>1, <2>2
<1> HIDE DEF e, R, c
<1>8. ASSUME NEW w \in D PROVE e[Rank(table, w)] = w
  BY <1>4, <1>6, <1>7
<1>9. ASSUME NEW m \in 1 .. c, NEW n \in 1 .. c PROVE m < n <=> Precedes(table, e[m], e[n])
  BY <1>6, <1>7
<1> QED
  BY <1>1, <1>4, <1>5, <1>6, <1>8, <1>9 DEF e, c

(* An import keeps the rows and the order in which they are tried. *)
LEMMA ImportFacts ==
  ASSUME NEW table, IsTable(table)
  PROVE  LET t == ImportRows(table)
             c == Cardinality(DOMAIN table)
             e == ExportOrder(table)
         IN /\ IsTable(t)
            /\ DOMAIN t = 1 .. c
            /\ \A n \in 1 .. c : t[n] = table[e[n]]
            /\ \A m, n \in 1 .. c : Precedes(t, m, n) <=> Precedes(table, e[m], e[n])
<1> DEFINE t == ImportRows(table)
           c == Cardinality(DOMAIN table)
           e == ExportOrder(table)
<1>1. /\ c \in Nat
      /\ DOMAIN e = 1 .. c
      /\ \A n \in 1 .. c : e[n] \in DOMAIN table
      /\ \A m, n \in 1 .. c : m < n <=> Precedes(table, e[m], e[n])
  BY ExportFacts
<1>2. DOMAIN t = 1 .. c /\ \A n \in 1 .. c : t[n] = table[e[n]]
  BY <1>1 DEF ImportRows
<1> HIDE DEF t, c, e
<1>3. IsTable(t)
  <2>1. IsFiniteSet(1 .. c)
    BY <1>1, FS_Interval
  <2>2. \A w \in DOMAIN table : IsRow(table[w])
    BY DEF IsTable
  <2> QED
    BY <1>1, <1>2, <2>1, <2>2 DEF IsTable
<1>4. ASSUME NEW m \in 1 .. c, NEW n \in 1 .. c
      PROVE  Precedes(t, m, n) <=> Precedes(table, e[m], e[n])
  <2>1. Precedes(t, m, n) <=> \/ t[m].priority < t[n].priority
                              \/ t[m].priority = t[n].priority /\ m < n
    BY <1>2, <1>3, TableFacts
  <2>2. t[m] = table[e[m]] /\ t[n] = table[e[n]] /\ e[m] \in DOMAIN table /\ e[n] \in DOMAIN table
    BY <1>1, <1>2
  <2>3. t[m].priority \in Int /\ t[n].priority \in Int
    BY <2>2, TableFacts
  <2>4. Precedes(table, e[m], e[n]) <=> \/ t[m].priority < t[n].priority
                                        \/ t[m].priority = t[n].priority /\ e[m] < e[n]
    BY <2>2, TableFacts
  <2>5. m < n <=> Precedes(table, e[m], e[n])
    BY <1>1
  <2> HIDE DEF IsTable
  <2> QED
    BY <2>1, <2>3, <2>4, <2>5
<1> QED
  BY <1>2, <1>3, <1>4 DEF t, c, e

(* The active workflows that a file matches. *)
Fits(probe, table) ==
  {w \in ActiveIn(table) : Matches(FileAttributes(probe), table[w].conditions)}

(* So it keeps the choice, and what the chosen workflow says. *)
LEMMA ImportPicks ==
  ASSUME NEW table, IsTable(table), NEW probe
  PROVE  LET before == PickWorkflow(probe, table)
             after  == PickWorkflow(probe, ImportRows(table))
         IN /\ ChosenAlike(probe, table)
            /\ after.video = before.video /\ after.audio = before.audio
<1> DEFINE t == ImportRows(table)
           c == Cardinality(DOMAIN table)
           e == ExportOrder(table)
           F == Fits(probe, table)
           G == Fits(probe, t)
           before == PickWorkflow(probe, table)
           after == PickWorkflow(probe, t)
           w == First(table, F)
           r == Rank(table, w)
<1>1. /\ IsTable(t) /\ DOMAIN t = 1 .. c
      /\ \A n \in 1 .. c : t[n] = table[e[n]]
      /\ \A m, n \in 1 .. c : Precedes(t, m, n) <=> Precedes(table, e[m], e[n])
  BY ImportFacts
<1>2. /\ \A n \in 1 .. c : e[n] \in DOMAIN table /\ Rank(table, e[n]) = n
      /\ \A x \in DOMAIN table : Rank(table, x) \in 1 .. c /\ e[Rank(table, x)] = x
  BY ExportFacts
<1>3. /\ before = IF F = {} THEN NoMatch ELSE WfToMatch(table, w)
      /\ after = IF G = {} THEN NoMatch ELSE WfToMatch(t, First(t, G))
  BY DEF PickWorkflow, Fits
<1>4. F \subseteq DOMAIN table /\ G \subseteq DOMAIN t
  BY DEF Fits, ActiveIn
<1>5. \A n \in 1 .. c : n \in G <=> e[n] \in F
  BY <1>1, <1>2 DEF Fits, ActiveIn
<1> HIDE DEF t, e, F, G, before, after, c
<1>6. CASE F = {}
  <2>1. G = {}
    BY <1>1, <1>4, <1>5, <1>6
  <2>2. before = NoMatch /\ after = NoMatch
    BY <1>3, <1>6, <2>1
  <2> QED
    BY <2>2 DEF ChosenAlike, NoMatch, before, after, t
<1>7. CASE F # {}
  <2>1. w \in F /\ \A v \in F \ {w} : Precedes(table, w, v)
    BY <1>4, <1>7, FirstFacts
  <2> HIDE DEF w
  <2>2. w \in DOMAIN table /\ r \in 1 .. c /\ e[r] = w /\ r \in G
    BY <1>2, <1>4, <1>5, <2>1
  <2> HIDE DEF r
  <2>3. ASSUME NEW n \in G \ {r} PROVE Precedes(t, r, n)
    <3>1. n \in 1 .. c /\ e[n] \in F
      BY <1>1, <1>4, <1>5
    <3>2. e[n] # w
      BY <1>2, <2>2, <3>1 DEF r
    <3> QED
      BY <1>1, <2>1, <2>2, <3>1, <3>2
  <2>4. First(t, G) = r
    BY <1>1, <1>4, <2>2, <2>3, FirstIs
  <2>5. before = WfToMatch(table, w) /\ after = WfToMatch(t, r)
    BY <1>3, <1>7, <2>2, <2>4
  <2>6. t[r] = table[w]
    BY <1>1, <2>2
  <2>7. /\ before.id = w /\ after.id = r
        /\ after.video = before.video /\ after.audio = before.audio
    BY <2>5, <2>6 DEF WfToMatch
  <2>8. w # 0 /\ r # 0
    BY <1>1, <2>2, TableFacts
  <2> QED
    BY <2>6, <2>7, <2>8 DEF ChosenAlike, before, after, t, r
<1> QED
  BY <1>6, <1>7

(* Saving conditions of any clauses that storing keeps, saving a filter, and
   taking and reading in a backup keep what they find and choose, for all
   inputs. *)
THEOREM RoundTripsKeepMeaningHolds == RulesSpec => []RoundTripsKeepMeaning
<1>1. ASSUME input = NoInput \/ input \in Inputs PROVE RoundTripsKeepMeaning
  <2>1. ASSUME input.of = "clauses",
               \A i \in DOMAIN input.conditions : Storable(input.conditions[i])
        PROVE  SavedAlike(input.conditions)
    <3> DEFINE row == [enabled |-> TRUE, priority |-> 1, conditions |-> input.conditions,
                       video |-> "hevc", audio |-> "copy"]
    <3>1. input.conditions \in Conditions
      BY <1>1, <2>1 DEF NoInput, Inputs
    <3>2. IsSeq(row.conditions) /\ \A i \in DOMAIN row.conditions : IsClause(row.conditions[i])
      BY <3>1, TablesAssumption
    <3>3. CleanWorkflow(row).conditions
            = [i \in DOMAIN row.conditions |-> CleanClause(row.conditions[i])]
      BY <2>1, <3>2, ConditionsKept DEF Storable
    <3>4. \A attrs : Matches(attrs, CleanWorkflow(row).conditions)
                       <=> Matches(attrs, input.conditions)
      BY <2>1, <3>2, <3>3, SavedMatchesAlike
    <3> QED
      BY <3>4 DEF SavedAlike
  <2>2. ASSUME input.of = "filter" PROVE Shown(CleanFilter(input.clauses)) = Shown(input.clauses)
    <3>1. input.clauses \in FilterLists
      BY <1>1, <2>2 DEF NoInput, Inputs
    <3>2. IsSeq(input.clauses)
      BY <3>1, TablesAssumption
    <3>3. \A clauses : Shown(clauses) = {item \in GridItems : EvaluateCustom(item, clauses)}
      BY FilterShows DEF Shown
    <3>4. \A item : EvaluateCustom(item, CleanFilter(input.clauses))
                      <=> EvaluateCustom(item, input.clauses)
      BY <3>2, CleanFilterAlike
    <3> QED
      BY <3>3, <3>4
  <2>3. ASSUME input.of = "table", NEW probe \in Subjects
        PROVE  ChosenAlike(probe, input.table)
    <3>1. input.table \in Tables
      BY <1>1, <2>3 DEF NoInput, Inputs
    <3>2. IsTable(input.table)
      BY <3>1, TablesAssumption
    <3> QED
      BY <3>2, ImportPicks
  <2> QED
    BY <2>1, <2>2, <2>3 DEF RoundTripsKeepMeaning
<1> QED
  BY <1>1, InputType, PTL
=============================================================================
