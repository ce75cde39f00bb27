---------------------------- MODULE NumberFacts ------------------------------
(***************************************************************************)
(* What several proofs rest on.  A nonempty set of numbers has a smallest  *)
(* element, so that a step from each number to the next leads to all of    *)
(* them, and so that a first value and a step for each number define a     *)
(* function: that is how recursive functions are reasoned about here.  The *)
(* list of a finite set names each of its elements once, and two lists put *)
(* together hold what each of them holds, and so does a list of lists.     *)
(***************************************************************************)
EXTENDS Sorted, SequencesExt, SequenceTheorems, FiniteSetTheorems, WellFoundedInduction, TLAPS

\* A nonempty set of numbers has a smallest element.
LEMMA Least ==
    ASSUME NEW T \in SUBSET Nat, T # {}
    PROVE  \E x \in T : \A y \in T : ~(y < x)
<1>1. PICK x \in T : \A y \in T : ~(<<y, x>> \in OpToRel(<, Nat))
  BY WFMin, NatLessThanWellFounded, Zenon
<1>2. \A y \in T : y < x => <<y, x>> \in OpToRel(<, Nat)
  BY DEF OpToRel
<1> QED
  BY <1>1, <1>2

\* The same, with the order as it is mostly used.
LEMMA Lowest ==
    ASSUME NEW S \in SUBSET Nat, S # {}
    PROVE  \E x \in S : \A y \in S : x <= y
<1>1. PICK x \in S : \A y \in S : ~(y < x)
  BY Least
<1> QED
  BY <1>1

\* The largest of a nonempty set of positions.
LEMMA Highest ==
    ASSUME NEW n \in Nat, NEW S \in SUBSET (1..n), S # {}
    PROVE  Max(S) \in S /\ \A y \in S : y <= Max(S)
<1> DEFINE T == {n - x : x \in S}
<1>1. T \in SUBSET Nat /\ T # {}
  <2>1. \A x \in S : n - x \in Nat
    OBVIOUS
  <2>2. PICK x \in S : TRUE
    OBVIOUS
  <2> QED
    BY <2>1, <2>2
<1>2. PICK t \in T : \A y \in T : t <= y
  <2> HIDE DEF T
  <2> QED
    BY <1>1, Lowest
<1>3. PICK x \in S : t = n - x
  OBVIOUS
<1>4. \A y \in S : x >= y
  <2> SUFFICES ASSUME NEW y \in S
               PROVE  x >= y
    OBVIOUS
  <2>1. n - x <= n - y
    BY <1>2, <1>3
  <2> QED
    BY <2>1
<1>5. Max(S) \in S /\ \A y \in S : Max(S) >= y
  <2> HIDE DEF T
  <2> QED
    BY <1>3, <1>4 DEF Max
<1> QED
  BY <1>5

\* A set that holds 0 and with each number the next holds all up to any bound.
LEMMA Induction ==
    ASSUME NEW N \in Nat, NEW T, 0 \in T, \A n \in 0..(N - 1) : n \in T => n + 1 \in T
    PROVE  \A n \in 0..N : n \in T
<1> SUFFICES ASSUME {n \in 0..N : n \notin T} # {}
             PROVE  FALSE
  OBVIOUS
<1>1. PICK x \in {n \in 0..N : n \notin T} : \A y \in {n \in 0..N : n \notin T} : ~(y < x)
  <2>1. {n \in 0..N : n \notin T} \in SUBSET Nat
    OBVIOUS
  <2> QED
    BY <2>1, Least
<1>2. x \in 0..N /\ x \notin T /\ x # 0
  OBVIOUS
<1>3. x - 1 \in 0..(N - 1) /\ x - 1 < x /\ x - 1 \in 0..N /\ (x - 1) + 1 = x
  BY <1>2
<1> QED
  BY <1>1, <1>2, <1>3

Steps(f, base, step, N) == f[0] = base /\ \A n \in 1..N : f[n] = step[n][f[n - 1]]

\* A function is defined by its first value and its steps.
LEMMA Recursion ==
    ASSUME NEW S, NEW base \in S, NEW N \in Nat, NEW step \in [1..N -> [S -> S]]
    PROVE  \E f \in [0..N -> S] : Steps(f, base, step, N)
<1> DEFINE T == {k \in 0..N : \E f \in [0..k -> S] : Steps(f, base, step, k)}
<1>1. 0 \in T
  <2>1. [n \in 0..0 |-> base] \in [0..0 -> S] /\ Steps([n \in 0..0 |-> base], base, step, 0)
    BY DEF Steps
  <2> QED
    BY <2>1
<1>2. ASSUME NEW k \in 0..(N - 1), k \in T
      PROVE  k + 1 \in T
  <2>1. PICK f \in [0..k -> S] : Steps(f, base, step, k)
    BY <1>2
  <2> DEFINE g == [n \in 0..(k + 1) |-> IF n = k + 1 THEN step[n][f[k]] ELSE f[n]]
  <2>2. f[k] \in S /\ step[k + 1] \in [S -> S]
    OBVIOUS
  <2>3. g \in [0..(k + 1) -> S]
    BY <2>2
  <2>4. ASSUME NEW n \in 1..(k + 1)
        PROVE  g[n] = step[n][g[n - 1]]
    <3>1. CASE n = k + 1
      BY <3>1
    <3>2. CASE n \in 1..k
      <4>1. f[n] = step[n][f[n - 1]]
        BY <3>2, <2>1 DEF Steps
      <4>2. g[n] = f[n] /\ g[n - 1] = f[n - 1]
        BY <3>2
      <4> QED
        BY <4>1, <4>2
    <3> QED
      BY <3>1, <3>2
  <2>5. Steps(g, base, step, k + 1)
    BY <2>1, <2>4 DEF Steps
  <2>6. k + 1 \in 0..N
    OBVIOUS
  <2> QED
    BY <2>3, <2>5, <2>6
<1>3. N \in T
  <2> HIDE DEF T
  <2>1. \A n \in 0..N : n \in T
    BY <1>1, <1>2, Induction
  <2> QED
    BY <2>1
<1> QED
  BY <1>3, Zenon

-----------------------------------------------------------------------------
(* The list of a finite set of numbers. *)

Rank(S, p) == Cardinality({q \in S : q < p})

\* The rank of an element is below the size, and grows with the element.
LEMMA RankFacts ==
    ASSUME NEW S \in SUBSET Nat, IsFiniteSet(S), NEW p \in S
    PROVE  /\ Rank(S, p) \in Nat /\ Rank(S, p) < Cardinality(S)
           /\ Cardinality({q \in S : q <= p}) = Rank(S, p) + 1
           /\ \A r \in S : p < r => Rank(S, p) < Rank(S, r)
<1> DEFINE Below(x) == {q \in S : q < x}
           Upto == {q \in S : q <= p}
<1>1. \A x : Below(x) \in SUBSET S
  OBVIOUS
<1>2. \A x : IsFiniteSet(Below(x)) /\ Cardinality(Below(x)) \in Nat
  BY <1>1, FS_Subset, FS_CardinalityType
<1>3. Upto = Below(p) \cup {p} /\ p \notin Below(p) /\ Upto \in SUBSET S
  <2>1. ~(p < p) /\ \A q \in S : q <= p <=> q < p \/ q = p
    OBVIOUS
  <2> QED
    BY <2>1
<1>4. Cardinality(Upto) = Cardinality(Below(p)) + 1 /\ Cardinality(S) \in Nat
  <2> HIDE DEF Below, Upto
  <2> QED
    BY <1>2, <1>3, FS_AddElement, FS_CardinalityType
<1>5. Cardinality(Upto) <= Cardinality(S)
  <2> HIDE DEF Upto
  <2> QED
    BY <1>3, FS_Subset
<1>6. ASSUME NEW r \in S, p < r
      PROVE  Cardinality(Upto) <= Cardinality(Below(r))
  <2>1. Upto \in SUBSET Below(r)
    <3>1. \A q \in S : q <= p => q < r
      BY <1>6
    <3> QED
      BY <3>1
  <2> HIDE DEF Upto, Below
  <2> QED
    BY <1>2, <2>1, FS_Subset
<1>7. \A x : Rank(S, x) = Cardinality(Below(x))
  BY DEF Rank
<1>8. Rank(S, p) \in Nat /\ Rank(S, p) < Cardinality(S) /\ Cardinality(Upto) = Rank(S, p) + 1
  <2> HIDE DEF Upto, Below
  <2> QED
    BY <1>2, <1>4, <1>5, <1>7
<1>9. ASSUME NEW r \in S, p < r
      PROVE  Rank(S, p) < Rank(S, r)
  <2>1. Cardinality(Upto) <= Cardinality(Below(r))
    BY <1>6, <1>9
  <2> HIDE DEF Upto, Below
  <2> QED
    BY <1>2, <1>7, <1>8, <2>1
<1> QED
  BY <1>8, <1>9

\* Each number below the cardinality is the rank of an element.
LEMMA RankExists ==
    ASSUME NEW S \in SUBSET Nat, IsFiniteSet(S)
    PROVE  \A n \in 0..(Cardinality(S) - 1) : \E p \in S : Rank(S, p) = n
<1> DEFINE last == Cardinality(S) - 1
           T == {n \in 0..last : \E p \in S : Rank(S, p) = n}
<1>1. Cardinality(S) \in Nat
  BY FS_CardinalityType
<1> SUFFICES ASSUME Cardinality(S) # 0
             PROVE  \A n \in 0..last : n \in T
  BY <1>1
<1>2. last \in Nat /\ S # {}
  BY <1>1, FS_EmptySet
<1>3. 0 \in T
  <2>1. PICK p \in S : \A y \in S : ~(y < p)
    BY <1>2, Least
  <2>2. {q \in S : q < p} = {}
    BY <2>1
  <2>3. Rank(S, p) = 0
    BY <2>2, FS_EmptySet DEF Rank
  <2> QED
    BY <1>2, <2>3
<1>4. ASSUME NEW n \in 0..(last - 1), n \in T
      PROVE  n + 1 \in T
  <2>1. PICK p \in S : Rank(S, p) = n
    BY <1>4
  <2>2. Cardinality({q \in S : q <= p}) = n + 1
    BY <2>1, RankFacts
  <2> DEFINE Above == {q \in S : p < q}
  <2>3. Above # {}
    <3>1. n + 1 # Cardinality(S)
      BY <1>1
    <3>2. {q \in S : q <= p} # S
      BY <2>2, <3>1
    <3>3. \A q \in S : q <= p \/ p < q
      OBVIOUS
    <3> QED
      BY <3>2, <3>3
  <2>4. PICK r \in Above : \A y \in Above : ~(y < r)
    <3>1. Above \in SUBSET Nat
      OBVIOUS
    <3> HIDE DEF Above
    <3> QED
      BY <2>3, <3>1, Least
  <2>5. {q \in S : q < r} = {q \in S : q <= p}
    <3>1. ASSUME NEW q \in S
          PROVE  q < r <=> q <= p
      <4>1. q \in Nat /\ p \in Nat /\ r \in Nat /\ p < r
        BY <2>4
      <4>2. p < q => ~(q < r)
        BY <2>4
      <4> QED
        BY <4>1, <4>2
    <3> QED
      BY <3>1
  <2>6. r \in S /\ Rank(S, r) = n + 1
    BY <2>2, <2>5 DEF Rank
  <2>7. n + 1 \in 0..last
    BY <1>2
  <2> QED
    BY <2>6, <2>7
<1>5. \A n \in 0..last : n \in T
  <2> HIDE DEF T, last
  <2> QED
    BY <1>2, <1>3, <1>4, Induction
<1> QED
  BY <1>5

\* The list of a finite set names each of its elements, and none twice.
LEMMA InOrderFacts ==
    ASSUME NEW S \in SUBSET Nat, IsFiniteSet(S)
    PROVE  /\ Cardinality(S) \in Nat
           /\ DOMAIN InOrder(S) = 1..Cardinality(S)
           /\ InOrder(S) \in [1..Cardinality(S) -> S]
           /\ \A p \in S : \E i \in 1..Cardinality(S) : InOrder(S)[i] = p
           /\ \A i, j \in 1..Cardinality(S) : InOrder(S)[i] = InOrder(S)[j] => i = j
<1> DEFINE c == Cardinality(S)
<1>1. c \in Nat
  BY FS_CardinalityType
<1>2. InOrder(S) = [i \in 1..c |-> CHOOSE p \in S : Rank(S, p) = i - 1]
  BY DEF InOrder, Rank
<1> HIDE DEF c
<1>3. ASSUME NEW i \in 1..c
      PROVE  InOrder(S)[i] \in S /\ Rank(S, InOrder(S)[i]) = i - 1
  <2>1. i - 1 \in 0..(c - 1)
    BY <1>1
  <2>2. \E p \in S : Rank(S, p) = i - 1
    BY <2>1, RankExists DEF c
  <2>3. InOrder(S)[i] = CHOOSE p \in S : Rank(S, p) = i - 1
    BY <1>2
  <2> QED
    BY <2>2, <2>3
<1>4. ASSUME NEW p \in S
      PROVE  \E i \in 1..c : InOrder(S)[i] = p
  <2>1. Rank(S, p) \in Nat /\ Rank(S, p) < c
    BY RankFacts DEF c
  <2> DEFINE i == Rank(S, p) + 1
  <2>2. i \in 1..c /\ i - 1 = Rank(S, p)
    BY <1>1, <2>1
  <2> HIDE DEF i
  <2>3. InOrder(S)[i] \in S /\ Rank(S, InOrder(S)[i]) = Rank(S, p)
    BY <1>3, <2>2
  <2>4. ASSUME NEW q \in S, Rank(S, q) = Rank(S, p)
        PROVE  q = p
    <3>1. /\ q < p => Rank(S, q) < Rank(S, p)
          /\ p < q => Rank(S, p) < Rank(S, q)
      BY RankFacts, Zenon
    <3>2. q \in Nat /\ p \in Nat
      OBVIOUS
    <3> QED
      BY <2>1, <2>4, <3>1, <3>2
  <2>5. InOrder(S)[i] = p
    BY <2>3, <2>4
  <2> QED
    BY <2>2, <2>5
<1>5. ASSUME NEW i \in 1..c, NEW j \in 1..c, InOrder(S)[i] = InOrder(S)[j]
      PROVE  i = j
  BY <1>1, <1>3, <1>5
<1>6. InOrder(S) \in [1..c -> S] /\ DOMAIN InOrder(S) = 1..c
  BY <1>2, <1>3
<1> QED
  BY <1>1, <1>4, <1>5, <1>6 DEF c

\* The list of what a finite set of positions stands for.
List(S, f) == [i \in DOMAIN InOrder(S) |-> f[InOrder(S)[i]]]

\* It holds what its positions stand for, and nothing else.
LEMMA Listed ==
    ASSUME NEW S \in SUBSET Nat, IsFiniteSet(S), NEW T, NEW f \in [S -> T]
    PROVE  /\ List(S, f) \in Seq(T)
           /\ \A i \in 1..Len(List(S, f)) : \E p \in S : List(S, f)[i] = f[p]
           /\ \A p \in S : \E i \in 1..Len(List(S, f)) : List(S, f)[i] = f[p]
<1> DEFINE c == Cardinality(S)
           list == List(S, f)
<1>1. /\ c \in Nat /\ DOMAIN InOrder(S) = 1..c
      /\ \A i \in 1..c : InOrder(S)[i] \in S
      /\ \A p \in S : \E i \in 1..c : InOrder(S)[i] = p
  BY InOrderFacts
<1> HIDE DEF c
<1>2. list = [i \in 1..c |-> f[InOrder(S)[i]]]
  BY <1>1 DEF List
<1> HIDE DEF list
<1>3. list \in [1..c -> T]
  BY <1>1, <1>2
<1>4. list \in Seq(T) /\ Len(list) = c
  <2>1. list \in Seq(T)
    BY <1>1, <1>3
  <2> QED
    BY <1>1, <1>3, <2>1, LenProperties
<1>5. \A i \in 1..c : list[i] = f[InOrder(S)[i]]
  BY <1>2
<1>6. \A i \in 1..Len(list) : \E p \in S : list[i] = f[p]
  BY <1>1, <1>4, <1>5
<1>7. \A p \in S : \E i \in 1..Len(list) : list[i] = f[p]
  BY <1>1, <1>4, <1>5
<1> QED
  BY <1>4, <1>6, <1>7 DEF list

\* Two lists put together.
LEMMA Joined ==
    ASSUME NEW S, NEW s \in Seq(S), NEW t \in Seq(S)
    PROVE  /\ s \o t \in Seq(S) /\ Len(s \o t) = Len(s) + Len(t)
           /\ Len(s) \in Nat /\ Len(t) \in Nat
           /\ \A i \in 1..Len(s) : (s \o t)[i] = s[i]
           /\ \A i \in 1..Len(t) : (s \o t)[Len(s) + i] = t[i]
           /\ \A i \in 1..Len(s \o t) : (i \in 1..Len(s) /\ (s \o t)[i] = s[i])
                                        \/ (i - Len(s) \in 1..Len(t) /\ (s \o t)[i] = t[i - Len(s)])
<1>1. /\ s \o t \in Seq(S) /\ Len(s \o t) = Len(s) + Len(t)
      /\ \A i \in 1..Len(s) + Len(t) : (s \o t)[i] = IF i <= Len(s) THEN s[i] ELSE t[i - Len(s)]
  BY ConcatProperties
<1>2. Len(s) \in Nat /\ Len(t) \in Nat
  BY LenProperties
<1>3. ASSUME NEW i \in 1..Len(t)
      PROVE  (s \o t)[Len(s) + i] = t[i]
  <2>1. Len(s) + i \in 1..Len(s) + Len(t) /\ ~(Len(s) + i <= Len(s)) /\ Len(s) + i - Len(s) = i
    BY <1>2
  <2> QED
    BY <1>1, <2>1
<1>4. ASSUME NEW i \in 1..Len(s) + Len(t)
      PROVE  (i \in 1..Len(s) /\ (s \o t)[i] = s[i])
             \/ (i - Len(s) \in 1..Len(t) /\ (s \o t)[i] = t[i - Len(s)])
  <2>1. i <= Len(s) => i \in 1..Len(s)
    BY <1>2
  <2>2. ~(i <= Len(s)) => i - Len(s) \in 1..Len(t)
    BY <1>2
  <2> QED
    BY <1>1, <2>1, <2>2
<1> QED
  BY <1>1, <1>2, <1>3, <1>4

-----------------------------------------------------------------------------
(* Lists. *)

\* A sequence, of whatever it holds.
IsList(q) == \E S : q \in Seq(S)

\* A list, and what is left when its head is taken.
LEMMA ListFacts ==
    ASSUME NEW q, IsList(q)
    PROVE  /\ Len(q) \in Nat /\ DOMAIN q = 1..Len(q)
           /\ q = <<>> <=> Len(q) = 0
           /\ q # <<>> =>
                 /\ IsList(Tail(q)) /\ Len(Tail(q)) = Len(q) - 1
                 /\ Head(q) = q[1] /\ 1 \in DOMAIN q
                 /\ \A n \in 1..(Len(q) - 1) : Tail(q)[n] = q[n + 1]
<1>1. PICK S : q \in Seq(S)
  BY DEF IsList
<1>2. Len(q) \in Nat /\ DOMAIN q = 1..Len(q) /\ (q = <<>> <=> Len(q) = 0)
  BY <1>1, LenProperties, EmptySeq
<1>3. ASSUME q # <<>>
      PROVE  /\ Tail(q) \in Seq(S) /\ Len(Tail(q)) = Len(q) - 1
             /\ Head(q) = q[1] /\ 1 \in DOMAIN q
             /\ \A n \in 1..(Len(q) - 1) : Tail(q)[n] = q[n + 1]
  BY <1>1, <1>2, <1>3, HeadTailProperties
<1> QED
  BY <1>2, <1>3 DEF IsList

\* Two lists put together hold what each of them holds.
LEMMA ListsJoined ==
    ASSUME NEW q, NEW r, IsList(q), IsList(r)
    PROVE  /\ IsList(q \o r) /\ Len(q \o r) = Len(q) + Len(r)
           /\ \A n \in 1..Len(q) : (q \o r)[n] = q[n]
           /\ \A n \in 1..Len(r) : (q \o r)[Len(q) + n] = r[n]
           /\ Range(q \o r) = Range(q) \cup Range(r)
<1>1. PICK S : q \in Seq(S)
  BY DEF IsList
<1>2. PICK T : r \in Seq(T)
  BY DEF IsList
<1>3. q \in Seq(S \cup T) /\ r \in Seq(S \cup T)
  <2>1. \A n \in 1..Len(q) : q[n] \in S \cup T
    BY <1>1
  <2>2. \A n \in 1..Len(r) : r[n] \in S \cup T
    BY <1>2
  <2> QED
    BY <1>1, <1>2, <2>1, <2>2
<1>4. /\ q \o r \in Seq(S \cup T) /\ Len(q \o r) = Len(q) + Len(r)
      /\ Len(q) \in Nat /\ Len(r) \in Nat
      /\ \A n \in 1..Len(q) : (q \o r)[n] = q[n]
      /\ \A n \in 1..Len(r) : (q \o r)[Len(q) + n] = r[n]
      /\ \A n \in 1..Len(q \o r) : (n \in 1..Len(q) /\ (q \o r)[n] = q[n])
                                   \/ (n - Len(q) \in 1..Len(r) /\ (q \o r)[n] = r[n - Len(q)])
  <2> HIDE <1>1, <1>2
  <2> QED
    BY <1>3, Joined
<1>5. DOMAIN q = 1..Len(q) /\ DOMAIN r = 1..Len(r) /\ DOMAIN (q \o r) = 1..Len(q \o r)
  BY <1>1, <1>2, <1>4
<1>6. Range(q \o r) \subseteq Range(q) \cup Range(r)
  BY <1>4, <1>5 DEF Range
<1>7. Range(q) \subseteq Range(q \o r)
  <2>1. \A n \in 1..Len(q) : n \in 1..Len(q \o r)
    BY <1>4
  <2> QED
    BY <2>1, <1>4, <1>5 DEF Range
<1>8. Range(r) \subseteq Range(q \o r)
  <2>1. ASSUME NEW n \in DOMAIN r
        PROVE  r[n] \in Range(q \o r)
    <3>1. Len(q) + n \in DOMAIN (q \o r) /\ r[n] = (q \o r)[Len(q) + n]
      BY <1>4, <1>5
    <3> QED
      BY <3>1 DEF Range
  <2> QED
    BY <2>1 DEF Range
<1> QED
  BY <1>4, <1>6, <1>7, <1>8 DEF IsList

\* A function over the first numbers is a list.
LEMMA ListOfFunction ==
    ASSUME NEW N \in Nat, NEW f, f = [n \in 1..N |-> f[n]]
    PROVE  IsList(f) /\ Len(f) = N
<1>1. f \in Seq({f[n] : n \in 1..N})
  <2>1. f \in [1..N -> {f[n] : n \in 1..N}]
    OBVIOUS
  <2> QED
    BY <2>1
<1>2. DOMAIN f = 1..N
  OBVIOUS
<1> QED
  BY <1>1, <1>2, LenProperties DEF IsList

\* The list of nothing.
LEMMA EmptyList == IsList(<<>>) /\ Range(<<>>) = {} /\ DOMAIN <<>> = {}
BY DEF IsList, Range

\* A list of one.
LEMMA ListOfOne ==
    ASSUME NEW x
    PROVE  IsList(<<x>>) /\ Range(<<x>>) = {x} /\ Len(<<x>>) = 1 /\ <<x>>[1] = x
<1>1. <<x>> \in Seq({x}) /\ DOMAIN <<x>> = {1} /\ <<x>>[1] = x /\ Len(<<x>>) = 1
  OBVIOUS
<1> QED
  BY <1>1 DEF IsList, Range

-----------------------------------------------------------------------------
(* Sequences put together. *)

\* Two elements of the first k sequences, taken from different places.
Apart(ss, k, x, y) ==
    \E b, h \in 1..k : \E i \in DOMAIN ss[b], j \in DOMAIN ss[h] :
        x = ss[b][i] /\ y = ss[h][j] /\ (b # h \/ i # j)

Drawn(ss, k, x) == \E b \in 1..k : \E i \in DOMAIN ss[b] : x = ss[b][i]

\* flat is made of the elements of the first k sequences, each taken, and once.
MadeOf(flat, ss, k) ==
    /\ \A b \in 1..k : \A i \in DOMAIN ss[b] : \E d \in DOMAIN flat : flat[d] = ss[b][i]
    /\ \A d \in DOMAIN flat : Drawn(ss, k, flat[d])
    /\ \A d, e \in DOMAIN flat : d # e => Apart(ss, k, flat[d], flat[e])

\* One sequence more.
LEMMA MadeOfMore ==
    ASSUME NEW S, NEW L \in Nat, NEW ss \in [1..L -> Seq(S)], NEW k \in 1..(L - 1),
           NEW flat \in Seq(S), MadeOf(flat, ss, k)
    PROVE  flat \o ss[k + 1] \in Seq(S) /\ MadeOf(flat \o ss[k + 1], ss, k + 1)
<1> DEFINE last == ss[k + 1]
           all  == flat \o last
           m    == Len(flat)
<1>1. /\ k + 1 \in 1..L /\ last \in Seq(S) /\ m \in Nat /\ Len(last) \in Nat
      /\ DOMAIN last = 1..Len(last) /\ DOMAIN flat = 1..m
      /\ k + 1 \in 1..(k + 1) /\ \A b \in 1..k : b \in 1..(k + 1) /\ b # k + 1
  OBVIOUS
<1>2. /\ all \in Seq(S) /\ DOMAIN all = 1..(m + Len(last))
      /\ \A d \in 1..m : all[d] = flat[d]
      /\ \A d \in DOMAIN all : d \notin 1..m => d - m \in DOMAIN last /\ all[d] = last[d - m]
  BY <1>1
<1> HIDE DEF all, m
<1>3. ASSUME NEW b \in 1..(k + 1), NEW h \in 1..(k + 1), NEW i \in DOMAIN ss[b],
             NEW j \in DOMAIN ss[h], b # h \/ i # j
      PROVE  Apart(ss, k + 1, ss[b][i], ss[h][j])
  BY <1>3 DEF Apart
<1>4. ASSUME NEW x, NEW y, Apart(ss, k, x, y)
      PROVE  Apart(ss, k + 1, x, y)
  <2>1. PICK b \in 1..k, h \in 1..k : \E i \in DOMAIN ss[b], j \in DOMAIN ss[h] :
            x = ss[b][i] /\ y = ss[h][j] /\ (b # h \/ i # j)
    BY <1>4 DEF Apart
  <2>2. PICK i \in DOMAIN ss[b], j \in DOMAIN ss[h] :
            x = ss[b][i] /\ y = ss[h][j] /\ (b # h \/ i # j)
    BY <2>1
  <2> QED
    BY <2>2, <1>1, <1>3
<1>5. ASSUME NEW x, Drawn(ss, k, x), NEW j \in DOMAIN last
      PROVE  Apart(ss, k + 1, x, last[j]) /\ Apart(ss, k + 1, last[j], x)
  <2>1. PICK b \in 1..k : \E i \in DOMAIN ss[b] : x = ss[b][i]
    BY <1>5 DEF Drawn
  <2>2. PICK i \in DOMAIN ss[b] : x = ss[b][i]
    BY <2>1
  <2> QED
    BY <2>2, <1>1, <1>3
<1>6. ASSUME NEW i \in DOMAIN last, NEW j \in DOMAIN last, i # j
      PROVE  Apart(ss, k + 1, last[i], last[j])
  BY <1>6, <1>1, <1>3
<1>7. ASSUME NEW d \in DOMAIN all
      PROVE  Drawn(ss, k + 1, all[d])
  <2>1. CASE d \in 1..m
    <3>1. Drawn(ss, k, flat[d])
      BY <2>1, <1>1 DEF MadeOf
    <3>2. PICK b \in 1..k : \E i \in DOMAIN ss[b] : flat[d] = ss[b][i]
      BY <3>1 DEF Drawn
    <3> QED
      BY <3>2, <2>1, <1>1, <1>2 DEF Drawn
  <2>2. CASE d \notin 1..m
    BY <2>2, <1>1, <1>2 DEF Drawn
  <2> QED
    BY <2>1, <2>2
<1>8. ASSUME NEW d \in DOMAIN all, NEW e \in DOMAIN all, d # e
      PROVE  Apart(ss, k + 1, all[d], all[e])
  <2>1. \A c \in 1..m : Drawn(ss, k, flat[c])
    BY <1>1 DEF MadeOf
  <2>2. CASE d \in 1..m /\ e \in 1..m
    <3>1. Apart(ss, k, flat[d], flat[e])
      BY <1>8, <2>2, <1>1 DEF MadeOf
    <3> QED
      BY <3>1, <2>2, <1>2, <1>4
  <2>3. CASE d \in 1..m /\ e \notin 1..m
    BY <2>1, <2>3, <1>2, <1>5
  <2>4. CASE d \notin 1..m /\ e \in 1..m
    BY <2>1, <2>4, <1>2, <1>5
  <2>5. CASE d \notin 1..m /\ e \notin 1..m
    <3>1. DOMAIN all \subseteq Int /\ m \in Int
      BY <1>1, <1>2
    <3>2. d - m # e - m
      BY <3>1, <1>8
    <3> QED
      BY <3>2, <2>5, <1>2, <1>6
  <2> QED
    BY <2>2, <2>3, <2>4, <2>5
<1>9. ASSUME NEW b \in 1..(k + 1), NEW i \in DOMAIN ss[b]
      PROVE  \E d \in DOMAIN all : all[d] = ss[b][i]
  <2>1. CASE b = k + 1
    <3>1. m + i \in DOMAIN all /\ m + i \notin 1..m /\ (m + i) - m = i
      BY <1>1, <1>2, <2>1
    <3> QED
      BY <3>1, <1>2, <2>1
  <2>2. CASE b # k + 1
    <3>1. b \in 1..k
      BY <2>2
    <3>2. PICK d \in DOMAIN flat : flat[d] = ss[b][i]
      BY <3>1 DEF MadeOf
    <3>3. d \in 1..m /\ d \in DOMAIN all
      BY <1>1, <1>2
    <3> QED
      BY <3>2, <3>3, <1>2
  <2> QED
    BY <2>1, <2>2
<1> QED
  BY <1>2, <1>7, <1>8, <1>9 DEF all, MadeOf

IsFlat(ss, f) ==
    f = [i \in 1..Len(ss) |-> IF i = 1 THEN ss[i] ELSE f[i - 1] \o ss[i]]

\* There is a concatenation of the sequences.
LEMMA FlatExists ==
    ASSUME NEW S, NEW L \in Nat, L # 0, NEW ss \in [1..L -> Seq(S)], Len(ss) = L
    PROVE  \E f : IsFlat(ss, f)
<1> DEFINE N == L - 1
           step == [n \in 1..N |-> [s \in Seq(S) |-> s \o ss[n + 1]]]
<1>1. N \in Nat /\ ss[1] \in Seq(S) /\ step \in [1..N -> [Seq(S) -> Seq(S)]]
  <2>1. ASSUME NEW n \in 1..N, NEW s \in Seq(S)
        PROVE  s \o ss[n + 1] \in Seq(S)
    <3>1. ss[n + 1] \in Seq(S)
      OBVIOUS
    <3> QED
      BY <3>1
  <2> QED
    BY <2>1
<1>2. PICK g \in [0..N -> Seq(S)] : Steps(g, ss[1], step, N)
  <2> HIDE DEF step, N
  <2> QED
    BY <1>1, Recursion, Zenon
<1> DEFINE f == [i \in 1..L |-> g[i - 1]]
<1>3. ASSUME NEW i \in 1..L
      PROVE  f[i] = IF i = 1 THEN ss[i] ELSE f[i - 1] \o ss[i]
  <2>1. CASE i = 1
    BY <2>1, <1>2 DEF Steps
  <2>2. CASE i # 1
    <3>1. i - 1 \in 1..N /\ i - 1 \in 1..L /\ (i - 1) + 1 = i /\ (i - 1) - 1 \in 0..N
      BY <2>2
    <3>2. g[i - 1] = step[i - 1][g[(i - 1) - 1]]
      BY <3>1, <1>2 DEF Steps
    <3>3. f[i - 1] = g[(i - 1) - 1] /\ f[i] = g[i - 1] /\ g[(i - 1) - 1] \in Seq(S)
      BY <3>1
    <3>4. step[i - 1][g[(i - 1) - 1]] = g[(i - 1) - 1] \o ss[(i - 1) + 1]
      BY <3>1, <3>3
    <3> QED
      BY <3>1, <3>2, <3>3, <3>4, <2>2
  <2> QED
    BY <2>1, <2>2
<1>4. IsFlat(ss, f)
  <2> HIDE DEF step, N
  <2>1. f = [i \in 1..L |-> f[i]]
    OBVIOUS
  <2> QED
    BY <2>1, <1>3 DEF IsFlat
<1> QED
  BY <1>4

\* What FlattenSeq does: each element of the result is one of the sequences', taken once.
LEMMA Flattened ==
    ASSUME NEW S, NEW L \in Nat, NEW ss \in [1..L -> Seq(S)]
    PROVE  /\ FlattenSeq(ss) \in Seq(S)
           /\ MadeOf(FlattenSeq(ss), ss, L)
<1>1. Len(ss) = L
  <2>1. ss \in Seq(Seq(S)) /\ DOMAIN ss = 1..L
    OBVIOUS
  <2> QED
    BY <2>1, LenProperties
<1>2. CASE L = 0
  <2>1. FlattenSeq(ss) = ss /\ DOMAIN ss = {} /\ ss = <<>>
    BY <1>1, <1>2 DEF FlattenSeq
  <2> QED
    BY <2>1 DEF MadeOf
<1>3. CASE L # 0
  <2> DEFINE flatten[i \in 1..Len(ss)] == IF i = 1 THEN ss[i] ELSE flatten[i - 1] \o ss[i]
  <2>1. FlattenSeq(ss) = flatten[Len(ss)]
    BY <1>1, <1>3 DEF FlattenSeq
  <2>2. IsFlat(ss, flatten)
    <3>1. flatten = CHOOSE f : IsFlat(ss, f)
      BY DEF IsFlat
    <3> QED
      BY <3>1, <1>1, <1>3, FlatExists, Zenon
  <2> HIDE DEF flatten
  <2> DEFINE Good(n) == flatten[n + 1] \in Seq(S) /\ MadeOf(flatten[n + 1], ss, n + 1)
             N == L - 1
             T == {n \in 0..N : Good(n)}
  <2>3. N \in Nat /\ N + 1 = L
    BY <1>3
  <2>4. 0 \in T
    <3>1. flatten[1] = ss[1] /\ ss[1] \in Seq(S) /\ 1 \in 1..1
      BY <2>2, <1>1, <1>3 DEF IsFlat
    <3>2. ASSUME NEW d \in DOMAIN ss[1], NEW e \in DOMAIN ss[1], d # e
          PROVE  Apart(ss, 1, ss[1][d], ss[1][e])
      BY <3>1, <3>2 DEF Apart
    <3>3. ASSUME NEW d \in DOMAIN ss[1]
          PROVE  Drawn(ss, 1, ss[1][d])
      BY <3>1 DEF Drawn
    <3>4. MadeOf(ss[1], ss, 1)
      BY <3>2, <3>3 DEF MadeOf
    <3> QED
      BY <3>1, <3>4, <2>3
  <2>5. ASSUME NEW n \in 0..(N - 1), n \in T
        PROVE  n + 1 \in T
    <3>1. /\ (n + 1) + 1 \in 1..L /\ (n + 1) + 1 # 1 /\ ((n + 1) + 1) - 1 = n + 1
          /\ n + 1 \in 1..(L - 1) /\ n + 1 \in 0..N
      BY <2>3
    <3>2. flatten[(n + 1) + 1] = flatten[n + 1] \o ss[(n + 1) + 1]
      BY <3>1, <2>2, <1>1 DEF IsFlat
    <3>3. Good(n)
      BY <2>5
    <3>4. Good(n + 1)
      <4>1. flatten[n + 1] \o ss[(n + 1) + 1] \in Seq(S)
            /\ MadeOf(flatten[n + 1] \o ss[(n + 1) + 1], ss, (n + 1) + 1)
        <5> HIDE DEF T, N
        <5>1. n + 1 \in 1..(L - 1) /\ flatten[n + 1] \in Seq(S) /\ MadeOf(flatten[n + 1], ss, n + 1)
          BY <3>1, <3>3, Zenon
        <5> QED
          BY <5>1, <1>1, MadeOfMore, Zenon
      <4> QED
        BY <3>2, <4>1, Zenon
    <3> QED
      BY <3>1, <3>4
  <2>6. \A n \in 0..N : n \in T
    <3> HIDE DEF T
    <3> QED
      BY <2>3, <2>4, <2>5, Induction
  <2>7. Good(N)
    <3>1. N \in T
      <4> HIDE DEF T
      <4>1. N \in 0..N
        BY <2>3
      <4> QED
        BY <4>1, <2>6
    <3> QED
      BY <3>1
  <2> QED
    BY <1>1, <2>1, <2>3, <2>7
<1> QED
  BY <1>2, <1>3
=============================================================================
