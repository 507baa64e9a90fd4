---------------------------- MODULE Library_proofs ----------------------------
(***************************************************************************)
(* What a reader is told, for any notes, links, audiences and scopes.      *)
(***************************************************************************)
EXTENDS Library, FiniteSetTheorems, WellFoundedInduction, TLAPS

-----------------------------------------------------------------------------
(* Numbers, places and lists. *)

\* What holds of the first number, and of the next of each it holds of, holds of all.
LEMMA AllNumbers ==
  ASSUME NEW S, 0 \in S, \A n \in Nat : n \in S => n + 1 \in S
  PROVE  Nat \subseteq S
<1> SUFFICES ASSUME Nat \ S # {} PROVE FALSE
  OBVIOUS
<1>1. PICK x \in Nat \ S : \A y \in Nat \ S : ~ (<<y, x>> \in OpToRel(<, Nat))
  BY NatLessThanWellFounded, WFMin
<1>2. \A y \in Nat \ S : ~ (y < x)
  BY <1>1, Zenon DEF OpToRel
<1>3. x # 0 /\ x - 1 \in Nat /\ x - 1 < x
  OBVIOUS
<1>4. x - 1 \in S
  BY <1>2, <1>3
<1>5. (x - 1) + 1 \in S
  BY <1>3, <1>4
<1> QED
  BY <1>5

\* When no two of a finite set have as many before them, each number of them has its own.
LEMMA EachRankIsTaken ==
  ASSUME NEW S, IsFiniteSet(S), NEW rank \in [S -> 0 .. Cardinality(S) - 1],
         \A x, y \in S : rank[x] = rank[y] => x = y
  PROVE  \A k \in 0 .. Cardinality(S) - 1 : \E x \in S : rank[x] = k
<1> DEFINE T == 0 .. Cardinality(S) - 1
<1>1. Cardinality(S) \in Nat
  BY FS_CardinalityType
<1>2. IsFiniteSet(T) /\ Cardinality(T) = Cardinality(S)
  BY <1>1, FS_Interval
<1>3. rank \in Injection(S, T)
  BY DEF Injection, IsInjective
<1>4. rank \in Surjection(S, T)
  BY <1>2, <1>3, FS_Injection
<1> QED
  BY <1>4 DEF Surjection

\* A total order, by its pairs, and how many come before one.
InOrder(S, R) ==
  /\ \A x \in S : <<x, x>> \notin R
  /\ \A x, y \in S : x # y => <<x, y>> \in R \/ <<y, x>> \in R
  /\ \A x, y, z \in S : <<x, y>> \in R /\ <<y, z>> \in R => <<x, z>> \in R

Before(S, R, x) == Cardinality({y \in S : <<y, x>> \in R})

\* Each number of them has its own, and the numbers are in the order of the set.
Ranked(S, R) ==
  /\ Cardinality(S) \in Nat
  /\ \A x \in S : Before(S, R, x) \in 0 .. Cardinality(S) - 1
  /\ \A i \in 1 .. Cardinality(S) : \E x \in S : Before(S, R, x) = i - 1
  /\ \A x, y \in S : <<x, y>> \in R <=> Before(S, R, x) < Before(S, R, y)
  /\ \A x, y \in S : Before(S, R, x) = Before(S, R, y) => x = y

\* In a finite set in order, the n-th is there for each n.
LEMMA EachIsNth ==
  ASSUME NEW S, IsFiniteSet(S), NEW R, InOrder(S, R)
  PROVE  Ranked(S, R)
<1> DEFINE Under(x) == {y \in S : <<y, x>> \in R}
           rank == [x \in S |-> Cardinality(Under(x))]
<1>1. Cardinality(S) \in Nat
  BY FS_CardinalityType
<1>2. ASSUME NEW U \in SUBSET S
      PROVE  IsFiniteSet(U) /\ Cardinality(U) \in Nat /\ Cardinality(U) <= Cardinality(S)
             /\ (Cardinality(U) = Cardinality(S) => U = S)
  BY FS_Subset, FS_CardinalityType
<1>3. ASSUME NEW x \in S PROVE Cardinality(Under(x)) \in 0 .. Cardinality(S) - 1
  <2>1. Under(x) \in SUBSET S /\ x \notin Under(x)
    BY DEF InOrder
  <2> HIDE DEF Under
  <2>2. Cardinality(Under(x)) # Cardinality(S)
    BY <2>1, <1>2
  <2>3. Cardinality(Under(x)) \in Nat /\ Cardinality(Under(x)) <= Cardinality(S)
    BY <2>1, <1>2
  <2> QED
    BY <1>1, <2>2, <2>3
<1>4. ASSUME NEW x \in S, NEW y \in S, <<x, y>> \in R
      PROVE  Cardinality(Under(x)) < Cardinality(Under(y))
  <2>1. Under(x) \in SUBSET Under(y) /\ x \in Under(y) /\ x \notin Under(x)
    BY <1>4 DEF InOrder
  <2>2. IsFiniteSet(Under(y)) /\ Cardinality(Under(y)) \in Nat /\ Cardinality(Under(x)) \in Nat
    BY <1>2
  <2>3. Cardinality(Under(x)) <= Cardinality(Under(y)) /\ Cardinality(Under(y)) # Cardinality(Under(x))
    BY <2>1, <2>2, FS_Subset
  <2> QED
    BY <2>2, <2>3
<1> HIDE DEF Under
<1>5. rank \in [S -> 0 .. Cardinality(S) - 1]
  BY <1>3
<1>6. ASSUME NEW x \in S, NEW y \in S, ~ (Cardinality(Under(x)) < Cardinality(Under(y))), x # y
      PROVE  <<y, x>> \in R /\ Cardinality(Under(y)) < Cardinality(Under(x))
  BY <1>4, <1>6 DEF InOrder
<1>7. ASSUME NEW x \in S, NEW y \in S, Cardinality(Under(x)) = Cardinality(Under(y))
      PROVE  x = y
  <2>1. Cardinality(Under(x)) \in Nat /\ Cardinality(Under(y)) \in Nat
    BY <1>3
  <2>2. ~ (Cardinality(Under(x)) < Cardinality(Under(y))) /\ ~ (Cardinality(Under(y)) < Cardinality(Under(x)))
    BY <1>7, <2>1
  <2> QED
    BY <1>6, <2>2
<1>8. ASSUME NEW x \in S, NEW y \in S, Cardinality(Under(x)) < Cardinality(Under(y))
      PROVE  <<x, y>> \in R
  <2>1. Cardinality(Under(x)) \in Nat /\ Cardinality(Under(y)) \in Nat
    BY <1>3
  <2> QED
    BY <1>6, <1>8, <2>1
<1>9. \A k \in 0 .. Cardinality(S) - 1 : \E x \in S : rank[x] = k
  <2>1. \A x, y \in S : rank[x] = rank[y] => x = y
    BY <1>7
  <2> HIDE DEF rank
  <2> QED
    BY <1>5, <2>1, EachRankIsTaken
<1>10. \A i \in 1 .. Cardinality(S) : \E x \in S : Cardinality(Under(x)) = i - 1
  BY <1>1, <1>9
<1>11. \A x \in S : Before(S, R, x) = Cardinality(Under(x))
  BY DEF Under, Before
<1>12. \A x \in S : Before(S, R, x) \in 0 .. Cardinality(S) - 1
  BY <1>3, <1>11
<1>13. \A i \in 1 .. Cardinality(S) : \E x \in S : Before(S, R, x) = i - 1
  BY <1>10, <1>11
<1>14. \A x, y \in S : <<x, y>> \in R <=> Before(S, R, x) < Before(S, R, y)
  BY <1>4, <1>8, <1>11
<1>15. \A x, y \in S : Before(S, R, x) = Before(S, R, y) => x = y
  BY <1>7, <1>11
<1> HIDE DEF rank
<1> QED
  BY <1>1, <1>12, <1>13, <1>14, <1>15 DEF Ranked

\* So of a finite set of numbers.
Lower(S, p) == Cardinality({q \in S : q < p})

Numbered(S) ==
  /\ Cardinality(S) \in Nat
  /\ \A p \in S : Lower(S, p) \in 0 .. Cardinality(S) - 1
  /\ \A i \in 1 .. Cardinality(S) : \E p \in S : Lower(S, p) = i - 1
  /\ \A p, o \in S : p < o => Lower(S, p) < Lower(S, o)

LEMMA EachNumberIsNth ==
  ASSUME NEW S \in SUBSET Int, IsFiniteSet(S)
  PROVE  Numbered(S)
<1> DEFINE R == {e \in S \X S : e[1] < e[2]}
<1>1. \A x, y \in S : <<x, y>> \in R <=> x < y
  OBVIOUS
<1> HIDE DEF R
<1>2. InOrder(S, R)
  BY <1>1 DEF InOrder
<1>3. \A x \in S : Before(S, R, x) = Lower(S, x)
  <2>1. \A x \in S : {y \in S : <<y, x>> \in R} = {q \in S : q < x}
    BY <1>1
  <2> QED
    BY <2>1 DEF Before, Lower
<1>4. Ranked(S, R)
  BY <1>2, EachIsNth
<1>5. \A p \in S : Lower(S, p) \in 0 .. Cardinality(S) - 1
  BY <1>3, <1>4 DEF Ranked
<1>6. \A i \in 1 .. Cardinality(S) : \E p \in S : Lower(S, p) = i - 1
  BY <1>3, <1>4 DEF Ranked
<1>7. ASSUME NEW p \in S, NEW o \in S, p < o PROVE Lower(S, p) < Lower(S, o)
  <2>1. <<p, o>> \in R
    BY <1>1, <1>7
  <2>2. Before(S, R, p) < Before(S, R, o)
    BY <1>4, <2>1 DEF Ranked
  <2>3. Before(S, R, p) = Lower(S, p) /\ Before(S, R, o) = Lower(S, o)
    BY <1>3
  <2> QED
    BY <2>2, <2>3
<1>8. Cardinality(S) \in Nat
  BY <1>4 DEF Ranked
<1> QED
  BY <1>5, <1>6, <1>7, <1>8 DEF Numbered

\* A finite set of numbers that has one has a greatest.
LEMMA GreatestIsThere ==
  ASSUME NEW S \in SUBSET Int, IsFiniteSet(S), S # {}
  PROVE  \E m \in S : \A x \in S : x <= m
<1> DEFINE N == Cardinality(S)
<1>1. Numbered(S) /\ N # 0
  BY EachNumberIsNth, FS_EmptySet
<1>2. N \in 1 .. N
  BY <1>1 DEF Numbered
<1> HIDE DEF N
<1>3. PICK m \in S : Lower(S, m) = N - 1
  BY <1>1, <1>2 DEF Numbered, N
<1>4. \A x \in S : Lower(S, x) \in 0 .. N - 1
  BY <1>1 DEF Numbered, N
<1>5. \A x \in S : ~ (m < x)
  BY <1>1, <1>2, <1>3, <1>4 DEF Numbered
<1> QED
  BY <1>5

\* Where what is kept of a list comes from: each place once, in their order.
KeptFrom(list, places, at) ==
  /\ at \in [1 .. Cardinality(places) -> places]
  /\ \A p \in places : \E i \in 1 .. Cardinality(places) : at[i] = p
  /\ \A i, j \in 1 .. Cardinality(places) : at[i] < at[j] => i < j
  /\ Kept(list, places) = [i \in 1 .. Cardinality(places) |-> list[at[i]]]

LEMMA KeptInOrder ==
  ASSUME NEW list, NEW n \in Nat, NEW places \in SUBSET (1 .. n)
  PROVE  Cardinality(places) \in Nat /\ \E at : KeptFrom(list, places, at)
<1> DEFINE Nth(i) == CHOOSE p \in places : Lower(places, p) = i - 1
           N == Cardinality(places)
           at == [i \in 1 .. N |-> Nth(i)]
<1>1. places \in SUBSET Int /\ IsFiniteSet(places)
  <2>1. IsFiniteSet(1 .. n)
    BY FS_Interval
  <2>2. IsFiniteSet(places)
    BY <2>1, FS_Subset
  <2>3. \A p \in places : p \in Int
    OBVIOUS
  <2> QED
    BY <2>2, <2>3
<1>2. /\ N \in Nat
      /\ \A p \in places : Lower(places, p) \in 0 .. N - 1
      /\ \A i \in 1 .. N : \E p \in places : Lower(places, p) = i - 1
      /\ \A p, o \in places : p < o => Lower(places, p) < Lower(places, o)
  <2>1. Numbered(places)
    BY <1>1, EachNumberIsNth
  <2> QED
    BY <2>1 DEF Numbered
<1>3. Kept(list, places) = [i \in 1 .. N |-> list[Nth(i)]]
  BY DEF Kept, Lower
<1>4. \A i \in 1 .. N : Nth(i) \in places /\ Lower(places, Nth(i)) = i - 1
  BY <1>2
<1> HIDE DEF N, Nth
<1>5. \A i \in 1 .. N : at[i] \in places /\ Lower(places, at[i]) = i - 1
  BY <1>4
<1>6. at \in [1 .. N -> places] /\ Kept(list, places) = [i \in 1 .. N |-> list[at[i]]]
  BY <1>3, <1>4
<1> HIDE DEF at
<1>7. ASSUME NEW p \in places PROVE \E i \in 1 .. N : at[i] = p
  <2>1. PICK i \in 1 .. N : i = Lower(places, p) + 1
    BY <1>2
  <2>2. Lower(places, p) \in Int /\ i - 1 = Lower(places, p)
    BY <1>2, <2>1
  <2>3. PICK o \in places : o = at[i] /\ Lower(places, o) = Lower(places, p)
    BY <1>5, <2>2
  <2>4. ~ (o < p) /\ ~ (p < o)
    BY <1>2, <2>2, <2>3
  <2>5. o \in Int /\ p \in Int
    BY <1>1
  <2> QED
    BY <2>3, <2>4, <2>5
<1>8. ASSUME NEW i \in 1 .. N, NEW j \in 1 .. N, at[i] < at[j] PROVE i < j
  <2>1. Lower(places, at[i]) < Lower(places, at[j])
    BY <1>2, <1>5, <1>8
  <2> QED
    BY <1>2, <1>5, <2>1
<1>9. KeptFrom(list, places, at)
  BY <1>6, <1>7, <1>8 DEF KeptFrom, N
<1> QED
  BY <1>2, <1>9 DEF N

\* So what is kept of a list is what is at those places.
LEMMA KeptIsThere ==
  ASSUME NEW list, NEW n \in Nat, NEW places \in SUBSET (1 .. n)
  PROVE  /\ Kept(list, places) \in Seq({list[p] : p \in places})
         /\ Range(Kept(list, places)) = {list[p] : p \in places}
<1> DEFINE N == Cardinality(places)
           U == {list[p] : p \in places}
<1>1. N \in Nat /\ \E at : KeptFrom(list, places, at)
  BY KeptInOrder
<1>2. PICK at : KeptFrom(list, places, at)
  BY <1>1
<1>3. /\ \A i \in 1 .. N : at[i] \in places
      /\ \A p \in places : \E i \in 1 .. N : at[i] = p
      /\ Kept(list, places) = [i \in 1 .. N |-> list[at[i]]]
  BY <1>2 DEF KeptFrom
<1> HIDE DEF N
<1>4. \A i \in 1 .. N : list[at[i]] \in U
  BY <1>3
<1>5. {list[at[i]] : i \in 1 .. N} = U
  <2>1. \A x \in U : \E i \in 1 .. N : x = list[at[i]]
    BY <1>3
  <2> HIDE DEF U
  <2> QED
    BY <1>4, <2>1
<1> HIDE DEF U
<1>6. Kept(list, places) \in Seq(U)
  BY <1>1, <1>3, <1>4
<1>7. Range(Kept(list, places)) = {list[at[i]] : i \in 1 .. N}
  BY <1>3 DEF Range
<1> QED
  BY <1>5, <1>6, <1>7 DEF U
-----------------------------------------------------------------------------
(* Hops. *)

\* The function `Reached` is made from.
IsWithin(f, edges, names, n) ==
  f = [d \in 0 .. n |-> IF d = 0 THEN names ELSE Beside(edges, f[d - 1])]

\* It is a recursion with a solution,
LEMMA WithinExists ==
  ASSUME NEW edges, NEW names
  PROVE  \A n \in Nat : \E f : IsWithin(f, edges, names, n)
<1> DEFINE S == {n \in Nat : \E f : IsWithin(f, edges, names, n)}
<1>1. 0 \in S
  <2>1. IsWithin([d \in 0 .. 0 |-> names], edges, names, 0)
    BY DEF IsWithin
  <2> QED
    BY <2>1
<1>2. ASSUME NEW n \in Nat, n \in S PROVE n + 1 \in S
  <2>1. PICK f : IsWithin(f, edges, names, n)
    BY <1>2
  <2> DEFINE h == [d \in 0 .. n + 1 |-> IF d \in 0 .. n THEN f[d] ELSE Beside(edges, f[n])]
  <2>2. /\ \A d \in 0 .. n : h[d] = f[d]
        /\ \A d \in 0 .. n : f[d] = IF d = 0 THEN names ELSE Beside(edges, f[d - 1])
        /\ h[n + 1] = Beside(edges, f[n])
        /\ h = [d \in 0 .. n + 1 |-> h[d]]
    BY <2>1 DEF IsWithin
  <2> HIDE DEF h
  <2>3. \A d \in 0 .. n + 1 : h[d] = IF d = 0 THEN names ELSE Beside(edges, h[d - 1])
    <3> SUFFICES ASSUME NEW d \in 0 .. n + 1
                 PROVE  h[d] = IF d = 0 THEN names ELSE Beside(edges, h[d - 1])
      OBVIOUS
    <3>1. CASE d = 0
      BY <2>2, <3>1
    <3>2. CASE d \in 1 .. n
      <4>0. d \in 0 .. n /\ d - 1 \in 0 .. n /\ d # 0
        BY <3>2
      <4>1. h[d - 1] = f[d - 1] /\ h[d] = f[d] /\ f[d] = Beside(edges, f[d - 1])
        BY <2>2, <4>0
      <4> QED
        BY <3>2, <4>1
    <3>3. CASE d = n + 1
      <4>0. n \in 0 .. n /\ d - 1 = n /\ d # 0
        BY <3>3
      <4>1. h[n] = f[n] /\ h[n + 1] = Beside(edges, f[n])
        BY <2>2, <4>0
      <4> QED
        BY <3>3, <4>0, <4>1
    <3> QED
      BY <3>1, <3>2, <3>3
  <2>4. IsWithin(h, edges, names, n + 1)
    BY <2>2, <2>3 DEF IsWithin
  <2> QED
    BY <2>4
<1> HIDE DEF S
<1>3. Nat \subseteq S
  BY <1>1, <1>2, AllNumbers
<1> QED
  BY <1>3 DEF S

\* and with one only.
LEMMA WithinUnique ==
  ASSUME NEW edges, NEW names, NEW n \in Nat, NEW m \in Nat, n <= m,
         NEW f, IsWithin(f, edges, names, n), NEW h, IsWithin(h, edges, names, m)
  PROVE  f[n] = h[n]
<1> DEFINE S == {d \in Nat : d \in 0 .. n => f[d] = h[d]}
<1>1. /\ \A d \in 0 .. n : f[d] = IF d = 0 THEN names ELSE Beside(edges, f[d - 1])
      /\ \A d \in 0 .. n : h[d] = IF d = 0 THEN names ELSE Beside(edges, h[d - 1])
  BY DEF IsWithin
<1>2. 0 \in S
  BY <1>1
<1>3. ASSUME NEW d \in Nat, d \in S PROVE d + 1 \in S
  <2> SUFFICES ASSUME d + 1 \in 0 .. n PROVE f[d + 1] = h[d + 1]
    OBVIOUS
  <2>1. f[d + 1] = Beside(edges, f[(d + 1) - 1]) /\ h[d + 1] = Beside(edges, h[(d + 1) - 1])
    BY <1>1
  <2>2. (d + 1) - 1 = d /\ f[d] = h[d]
    BY <1>3
  <2> QED
    BY <2>1, <2>2
<1> HIDE DEF S
<1>4. Nat \subseteq S
  BY <1>2, <1>3, AllNumbers
<1> QED
  BY <1>4 DEF S

\* One hop more is one hop from what is reached.
LEMMA ReachedStep ==
  ASSUME NEW edges, NEW names
  PROVE  /\ Reached(edges, names, 0) = names
         /\ \A n \in Nat : Reached(edges, names, n + 1) = Beside(edges, Reached(edges, names, n))
<1>1. \A n \in Nat : \E f : IsWithin(f, edges, names, n) /\ Reached(edges, names, n) = f[n]
  <2> SUFFICES ASSUME NEW n \in Nat
               PROVE  \E f : IsWithin(f, edges, names, n) /\ Reached(edges, names, n) = f[n]
    OBVIOUS
  <2> DEFINE f == CHOOSE f : IsWithin(f, edges, names, n)
  <2>1. Reached(edges, names, n) = f[n]
    BY DEF Reached, IsWithin
  <2>2. IsWithin(f, edges, names, n)
    BY WithinExists
  <2> QED
    BY <2>1, <2>2
<1>2. Reached(edges, names, 0) = names
  BY <1>1 DEF IsWithin
<1>3. ASSUME NEW n \in Nat
      PROVE  Reached(edges, names, n + 1) = Beside(edges, Reached(edges, names, n))
  <2>1. PICK f : IsWithin(f, edges, names, n) /\ Reached(edges, names, n) = f[n]
    BY <1>1
  <2>2. PICK h : IsWithin(h, edges, names, n + 1) /\ Reached(edges, names, n + 1) = h[n + 1]
    BY <1>1
  <2>3. h[n + 1] = Beside(edges, h[(n + 1) - 1]) /\ (n + 1) - 1 = n
    BY <2>2 DEF IsWithin
  <2>4. f[n] = h[n]
    BY <2>1, <2>2, WithinUnique
  <2> QED
    BY <2>1, <2>2, <2>3, <2>4
<1> QED
  BY <1>2, <1>3

\* Hops lead to the ends of edges.
LEMMA ReachedAreEnds ==
  ASSUME NEW edges, NEW names, NEW depth \in Nat
  PROVE  Reached(edges, names, depth) \subseteq names \cup {e.from : e \in edges} \cup {e.to : e \in edges}
<1> DEFINE U == names \cup {e.from : e \in edges} \cup {e.to : e \in edges}
           S == {n \in Nat : Reached(edges, names, n) \subseteq U}
<1>1. 0 \in S
  BY ReachedStep
<1>2. ASSUME NEW n \in Nat, n \in S PROVE n + 1 \in S
  BY <1>2, ReachedStep DEF Beside
<1> HIDE DEF S
<1>3. Nat \subseteq S
  BY <1>1, <1>2, AllNumbers
<1> QED
  BY <1>3 DEF S
-----------------------------------------------------------------------------
(* Scores and hits. *)

LEMMA CountTo == ASSUME NEW n \in Nat PROVE IsFiniteSet(1 .. n) /\ Cardinality(1 .. n) = n
BY FS_Interval

\* Where each place of a list goes when it is sorted: the places best first, equals as they were.
Best(names, score, at) ==
  /\ at \in [1 .. Len(names) -> 1 .. Len(names)]
  /\ \A i \in 1 .. Len(names) : \E r \in 1 .. Len(names) : at[r] = i
  /\ \A r, s \in 1 .. Len(names) : r < s =>
       \/ score[names[at[r]]] > score[names[at[s]]]
       \/ score[names[at[r]]] = score[names[at[s]]] /\ at[r] < at[s]

SortedBy(names, score, at) ==
  Best(names, score, at) /\ Sorted(names, score) = [r \in 1 .. Len(names) |-> names[at[r]]]

\* The notes of a list are scored.
Scored(names, score) == \A i \in 1 .. Len(names) : score[names[i]] \in Int

LEMMA SortedIsBest ==
  ASSUME NEW T, NEW names \in Seq(T), NEW score, Scored(names, score)
  PROVE  \E at : SortedBy(names, score, at)
<1> DEFINE n == Len(names)
           v(i) == score[names[i]]
           points == {<<i, v(i)>> : i \in 1 .. n}
           Over(p, q) == p[2] > q[2] \/ (p[2] = q[2] /\ p[1] < q[1])
           R == {e \in points \X points : Over(e[1], e[2])}
           Nth(r) == CHOOSE q \in points : Cardinality({p \in points : Over(p, q)}) = r - 1
           place == [r \in 1 .. n |-> Nth(r)[1]]
<1>1. n \in Nat /\ DOMAIN names = 1 .. n
  OBVIOUS
<1>2. Sorted(names, score) = [r \in 1 .. n |-> names[Nth(r)[1]]]
  BY <1>1 DEF Sorted
<1>3. \A p \in points : p[1] \in 1 .. n /\ p[2] = v(p[1]) /\ p[2] \in Int /\ p = <<p[1], p[2]>>
  BY DEF Scored
<1>4. IsFiniteSet(points) /\ Cardinality(points) = n
  <2> DEFINE f == [i \in 1 .. n |-> <<i, v(i)>>]
  <2>1. IsFiniteSet(1 .. n) /\ Cardinality(1 .. n) = n
    BY <1>1, CountTo
  <2>2. f \in Surjection(1 .. n, points)
    BY DEF Surjection
  <2>3. f \in Injection(1 .. n, points)
    BY DEF Injection, IsInjective
  <2> HIDE DEF f, points
  <2> QED
    BY <2>1, <2>2, <2>3, FS_Surjection
<1>5. \A p, q \in points : <<p, q>> \in R <=> Over(p, q)
  OBVIOUS
<1>6. InOrder(points, R)
  <2>1. \A p, q \in points : p # q => p[1] # q[1]
    BY <1>3
  <2> HIDE DEF points, R, v
  <2>2. \A p, q \in points : p # q => Over(p, q) \/ Over(q, p)
    BY <2>1, <1>3
  <2>3. \A p, q, o \in points : Over(p, q) /\ Over(q, o) => Over(p, o)
    BY <1>3
  <2>4. \A p \in points : ~ Over(p, p)
    BY <1>3
  <2> HIDE DEF Over
  <2> QED
    BY <1>5, <2>2, <2>3, <2>4 DEF InOrder
<1>7. \A q \in points : Cardinality({p \in points : Over(p, q)}) = Before(points, R, q)
  <2> SUFFICES ASSUME NEW q \in points
               PROVE  Cardinality({p \in points : Over(p, q)}) = Before(points, R, q)
    OBVIOUS
  <2> HIDE DEF points, R, Over
  <2>1. {p \in points : Over(p, q)} = {p \in points : <<p, q>> \in R}
    BY <1>5
  <2> QED
    BY <2>1 DEF Before
<1> HIDE DEF points, R, Over, v
<1>8. /\ \A q \in points : Before(points, R, q) \in 0 .. n - 1
      /\ \A r \in 1 .. n : \E q \in points : Before(points, R, q) = r - 1
      /\ \A p, q \in points : <<p, q>> \in R <=> Before(points, R, p) < Before(points, R, q)
      /\ \A p, q \in points : Before(points, R, p) = Before(points, R, q) => p = q
  <2>1. Ranked(points, R)
    BY <1>4, <1>6, EachIsNth
  <2> QED
    BY <1>4, <2>1 DEF Ranked
<1>9. \A r \in 1 .. n : Nth(r) \in points /\ Before(points, R, Nth(r)) = r - 1
  <2> SUFFICES ASSUME NEW r \in 1 .. n PROVE Nth(r) \in points /\ Before(points, R, Nth(r)) = r - 1
    OBVIOUS
  <2>1. \E q \in points : Cardinality({p \in points : Over(p, q)}) = r - 1
    BY <1>7, <1>8
  <2>2. Nth(r) \in points /\ Cardinality({p \in points : Over(p, Nth(r))}) = r - 1
    BY <2>1
  <2> QED
    BY <2>2, <1>7
<1> HIDE DEF Nth
<1>10. place \in [1 .. n -> 1 .. n]
  BY <1>3, <1>9
<1>11. ASSUME NEW i \in 1 .. n PROVE \E r \in 1 .. n : place[r] = i
  <2>0. <<i, v(i)>> \in points
    BY DEF points
  <2>1. PICK q \in points : q[1] = i
    BY <2>0
  <2>2. PICK r \in 1 .. n : r = Before(points, R, q) + 1
    BY <1>1, <1>8
  <2>3. Before(points, R, Nth(r)) = Before(points, R, q)
    BY <1>8, <1>9, <2>2
  <2>4. Nth(r) = q
    BY <1>8, <1>9, <2>3
  <2> QED
    BY <2>1, <2>4
<1>12. ASSUME NEW r \in 1 .. n, NEW s \in 1 .. n, r < s
       PROVE  \/ v(place[r]) > v(place[s])
              \/ v(place[r]) = v(place[s]) /\ place[r] < place[s]
  <2>1. Before(points, R, Nth(r)) < Before(points, R, Nth(s))
    BY <1>9, <1>12
  <2>2. Over(Nth(r), Nth(s))
    BY <1>5, <1>8, <1>9, <2>1
  <2>3. Nth(r)[2] = v(place[r]) /\ Nth(s)[2] = v(place[s]) /\ Nth(r)[1] = place[r] /\ Nth(s)[1] = place[s]
    BY <1>3, <1>9
  <2> QED
    BY <2>2, <2>3 DEF Over
<1>13. Sorted(names, score) = [r \in 1 .. n |-> names[place[r]]]
  BY <1>2
<1> HIDE DEF place
<1>14. Best(names, score, place)
  BY <1>10, <1>11, <1>12 DEF Best, v
<1> QED
  BY <1>13, <1>14 DEF SortedBy

\* Sorting keeps what is there.
LEMMA SortedIsThere ==
  ASSUME NEW T, NEW names \in Seq(T), NEW score, Scored(names, score)
  PROVE  /\ Sorted(names, score) \in Seq(T) /\ Len(Sorted(names, score)) = Len(names)
         /\ Range(Sorted(names, score)) = Range(names)
<1>1. PICK at : SortedBy(names, score, at)
  BY SortedIsBest
<1> DEFINE s == Sorted(names, score)
<1>2. Len(names) \in Nat /\ DOMAIN names = 1 .. Len(names) /\ \A i \in 1 .. Len(names) : names[i] \in T
  OBVIOUS
<1>3. /\ at \in [1 .. Len(names) -> 1 .. Len(names)]
      /\ \A i \in 1 .. Len(names) : \E r \in 1 .. Len(names) : at[r] = i
  BY <1>1 DEF SortedBy, Best
<1>4. /\ DOMAIN s = 1 .. Len(names) /\ \A r \in 1 .. Len(names) : s[r] = names[at[r]]
      /\ s = [r \in 1 .. Len(names) |-> s[r]]
  BY <1>1 DEF SortedBy
<1> HIDE DEF s
<1>5. s \in Seq(T) /\ Len(s) = Len(names)
  BY <1>2, <1>3, <1>4
<1>6. Range(s) = Range(names)
  <2>1. Range(s) = {names[at[q]] : q \in 1 .. Len(names)}
    BY <1>4 DEF Range
  <2>2. Range(names) = {names[i] : i \in 1 .. Len(names)}
    BY <1>2 DEF Range
  <2>3. {names[at[q]] : q \in 1 .. Len(names)} = {names[i] : i \in 1 .. Len(names)}
    BY <1>3
  <2> QED
    BY <2>1, <2>2, <2>3
<1> QED
  BY <1>5, <1>6 DEF s

\* A prefix is of what is there.
LEMMA PrefixIsThere ==
  ASSUME NEW T, NEW list \in Seq(T), NEW k \in Nat
  PROVE  /\ Prefix(list, k) \in Seq(T)
         /\ Range(Prefix(list, k)) \subseteq Range(list)
         /\ Len(Prefix(list, k)) <= Len(list)
         /\ \A i \in 1 .. Len(Prefix(list, k)) : i \in 1 .. Len(list) /\ Prefix(list, k)[i] = list[i]
         /\ \A i \in 1 .. Len(list) : i <= k => i \in 1 .. Len(Prefix(list, k))
<1> DEFINE m == IF k < Len(list) THEN k ELSE Len(list)
           s == SubSeq(list, 1, m)
<1>1. m \in Nat /\ m <= Len(list) /\ Len(list) \in Nat /\ (m = k \/ m = Len(list))
      /\ (\A i \in 1 .. Len(list) : i <= k => i <= m)
  OBVIOUS
<1> HIDE DEF m
<1>2. s \in Seq(T) /\ Len(s) = m /\ \A i \in 1 .. m : s[i] = list[i]
  BY <1>1
<1>3. Prefix(list, k) = s
  BY DEF Prefix, m
<1> HIDE DEF s
<1>4. Range(s) \subseteq Range(list)
  BY <1>1, <1>2 DEF Range
<1> QED
  BY <1>1, <1>2, <1>3, <1>4

\* Hits are of a set of names when what is ranked is, and is scored.
HitsOf(hits, S) ==
  /\ hits.order \in Seq(S)
  /\ \A i \in 1 .. Len(hits.order) :
       hits.order[i] \in DOMAIN hits.score /\ hits.score[hits.order[i]] \in Int

LEMMA RankedAreHits ==
  ASSUME NEW S, NEW names \in Seq(S), NEW score,
         \A x \in Range(names) : x \in DOMAIN score /\ score[x] \in Int
  PROVE  HitsOf(Hits(names, score), S)
<1>1. \A i \in 1 .. Len(names) : names[i] \in Range(names)
  BY DEF Range
<1>2. Scored(names, score)
  BY <1>1 DEF Scored
<1> DEFINE sorted == Sorted(names, score)
<1>3. sorted \in Seq(S) /\ Range(sorted) = Range(names)
  BY <1>2, SortedIsThere
<1> HIDE DEF sorted
<1>4. \A i \in 1 .. Len(sorted) : sorted[i] \in Range(names)
  <2>1. \A i \in 1 .. Len(sorted) : sorted[i] \in Range(sorted)
    BY <1>3 DEF Range
  <2> QED
    BY <1>3, <2>1
<1>5. Hits(names, score) = [order |-> sorted, score |-> score]
  BY DEF Hits, sorted
<1> QED
  BY <1>3, <1>4, <1>5 DEF HitsOf

\* A cut of the hits, and the hits by their weighed scores.
Cut(hits, n) == [order |-> Prefix(hits.order, n), score |-> hits.score]

Reordered(list, hits, k) ==
  Prefix(Sorted(hits.order,
                [name \in DOMAIN hits.score |-> hits.score[name] * Weight(StatusOf(list, name))]), k)

\* No note is demoted.
Whole(list) == \A i \in Places(list) : Weight(list[i].status) = 4

LEMMA StatusAwareIs ==
  ASSUME NEW list, NEW hits, NEW k
  PROVE  StatusAware(list, hits, k) =
           IF Whole(list) THEN Prefix(hits.order, k) ELSE Reordered(list, Cut(hits, Pulled(k)), k)
BY DEF StatusAware, Whole, Reordered, Cut

LEMMA PulledIsNat ==
  ASSUME NEW k \in Nat
  PROVE  Pulled(k) \in Nat
<1>1. Times \in Nat /\ AtLeast \in Nat /\ AtMost \in Nat
  BY DepthsAssumption
<1>2. Times * k \in Nat
  BY <1>1
<1> QED
  BY <1>1, <1>2 DEF Pulled

LEMMA CutsAreHits ==
  ASSUME NEW S, NEW hits, HitsOf(hits, S), NEW n \in Nat
  PROVE  HitsOf(Cut(hits, n), S) /\ Range(Cut(hits, n).order) \subseteq Range(hits.order)
<1> DEFINE s == Prefix(hits.order, n)
<1>1. hits.order \in Seq(S)
  BY DEF HitsOf
<1>2. /\ s \in Seq(S) /\ Range(s) \subseteq Range(hits.order)
      /\ \A i \in 1 .. Len(s) : i \in 1 .. Len(hits.order) /\ s[i] = hits.order[i]
  BY <1>1, PrefixIsThere
<1>3. Cut(hits, n).order = s /\ Cut(hits, n).score = hits.score
  BY DEF Cut
<1> HIDE DEF s
<1> QED
  BY <1>2, <1>3 DEF HitsOf

\* What is sorted again was ranked.
LEMMA ReorderedAreRanked ==
  ASSUME NEW S, NEW list, NEW hits, HitsOf(hits, S), NEW k \in Nat
  PROVE  Range(Reordered(list, hits, k)) \subseteq Range(hits.order)
<1> DEFINE weight(name) == Weight(StatusOf(list, name))
           scaled == [name \in DOMAIN hits.score |-> hits.score[name] * weight(name)]
           sorted == Sorted(hits.order, scaled)
<1>1. \A name : weight(name) \in Int
  BY DEF Weight
<1> HIDE DEF weight
<1>2. Scored(hits.order, scaled)
  BY <1>1 DEF HitsOf, Scored
<1> HIDE DEF scaled
<1>3. sorted \in Seq(S) /\ Range(sorted) = Range(hits.order)
  BY <1>2, SortedIsThere DEF HitsOf
<1> HIDE DEF sorted
<1>4. Range(Prefix(sorted, k)) \subseteq Range(sorted)
  BY <1>3, PrefixIsThere
<1>5. Reordered(list, hits, k) = Prefix(sorted, k)
  BY DEF Reordered, sorted, scaled, weight
<1> QED
  BY <1>3, <1>4, <1>5

\* What is shown was ranked.
LEMMA ShownAreRanked ==
  ASSUME NEW S, NEW list, NEW hits, HitsOf(hits, S), NEW k \in Nat
  PROVE  Range(StatusAware(list, hits, k)) \subseteq Range(hits.order)
<1>1. Range(Prefix(hits.order, k)) \subseteq Range(hits.order)
  BY PrefixIsThere DEF HitsOf
<1> DEFINE cut == Cut(hits, Pulled(k))
<1>2. HitsOf(cut, S) /\ Range(cut.order) \subseteq Range(hits.order)
  BY PulledIsNat, CutsAreHits
<1> HIDE DEF cut
<1>3. Range(Reordered(list, cut, k)) \subseteq Range(cut.order)
  BY <1>2, ReorderedAreRanked
<1> QED
  BY <1>1, <1>2, <1>3, StatusAwareIs DEF cut

LEMMA ShownAreHits ==
  ASSUME NEW S, NEW list, NEW hits, HitsOf(hits, S), NEW k \in Nat
  PROVE  Range(StatusAware(list, hits, k)) \subseteq S
<1>1. hits.order \in Seq(S)
  BY DEF HitsOf
<1>2. Range(hits.order) \subseteq S
  BY <1>1 DEF Range
<1> QED
  BY <1>2, ShownAreRanked

\* The common denominator is a number.
IsProduct(f, n) == f = [d \in 0 .. n |-> IF d = 0 THEN 1 ELSE (RrfK + d) * f[d - 1]]

LEMMA ProductExists == \A n \in Nat : \E f : IsProduct(f, n)
<1> DEFINE S == {n \in Nat : \E f : IsProduct(f, n)}
<1>1. 0 \in S
  <2>1. IsProduct([d \in 0 .. 0 |-> 1], 0)
    BY DEF IsProduct
  <2> QED
    BY <2>1
<1>2. ASSUME NEW n \in Nat, n \in S PROVE n + 1 \in S
  <2>1. PICK f : IsProduct(f, n)
    BY <1>2
  <2> DEFINE h == [d \in 0 .. n + 1 |-> IF d \in 0 .. n THEN f[d] ELSE (RrfK + (n + 1)) * f[n]]
  <2>2. /\ \A d \in 0 .. n : h[d] = f[d]
        /\ \A d \in 0 .. n : f[d] = IF d = 0 THEN 1 ELSE (RrfK + d) * f[d - 1]
        /\ h[n + 1] = (RrfK + (n + 1)) * f[n]
        /\ h = [d \in 0 .. n + 1 |-> h[d]]
    BY <2>1 DEF IsProduct
  <2> HIDE DEF h
  <2>3. \A d \in 0 .. n + 1 : h[d] = IF d = 0 THEN 1 ELSE (RrfK + d) * h[d - 1]
    <3> SUFFICES ASSUME NEW d \in 0 .. n + 1
                 PROVE  h[d] = IF d = 0 THEN 1 ELSE (RrfK + d) * h[d - 1]
      OBVIOUS
    <3>1. CASE d = 0
      BY <2>2, <3>1
    <3>2. CASE d \in 1 .. n
      <4>1. d \in 0 .. n /\ d - 1 \in 0 .. n /\ d # 0
        BY <3>2
      <4>2. h[d - 1] = f[d - 1] /\ h[d] = f[d] /\ f[d] = (RrfK + d) * f[d - 1]
        BY <2>2, <4>1
      <4> QED
        BY <4>1, <4>2
    <3>3. CASE d = n + 1
      <4>1. n \in 0 .. n /\ d - 1 = n /\ d # 0
        BY <3>3
      <4>2. h[n] = f[n]
        BY <2>2, <4>1
      <4> QED
        BY <2>2, <3>3, <4>1, <4>2
    <3> QED
      BY <3>1, <3>2, <3>3
  <2>4. IsProduct(h, n + 1)
    BY <2>2, <2>3 DEF IsProduct
  <2> QED
    BY <2>4
<1> HIDE DEF S
<1>3. Nat \subseteq S
  BY <1>1, <1>2, AllNumbers
<1> QED
  BY <1>3 DEF S

LEMMA DenominatorIsNat == Denominator \in Nat \ {0}
<1> DEFINE f == CHOOSE f : IsProduct(f, Longest)
           S == {d \in Nat : d \in 0 .. Longest => f[d] \in Nat \ {0}}
<1>1. Denominator = f[Longest]
  BY DEF Denominator, IsProduct
<1>2. IsProduct(f, Longest)
  BY ProductExists, BoundsAssumption
<1> HIDE DEF f
<1>3. \A d \in 0 .. Longest : f[d] = IF d = 0 THEN 1 ELSE (RrfK + d) * f[d - 1]
  BY <1>2 DEF IsProduct
<1>4. 0 \in S
  BY <1>3
<1>5. ASSUME NEW d \in Nat, d \in S PROVE d + 1 \in S
  <2> SUFFICES ASSUME d + 1 \in 0 .. Longest PROVE f[d + 1] \in Nat \ {0}
    OBVIOUS
  <2>1. f[d] \in Nat \ {0} /\ (d + 1) - 1 = d
    BY <1>5, BoundsAssumption
  <2>2. f[d + 1] = (RrfK + (d + 1)) * f[d]
    BY <1>3, <2>1
  <2>3. RrfK + (d + 1) \in Nat \ {0}
    BY BoundsAssumption
  <2>4. \A x, y \in Nat \ {0} : x * y \in Nat \ {0}
    OBVIOUS
  <2> QED
    BY <2>1, <2>2, <2>3, <2>4
<1> HIDE DEF S
<1>6. Nat \subseteq S
  BY <1>4, <1>5, AllNumbers
<1> QED
  BY <1>1, <1>6, BoundsAssumption DEF S
-----------------------------------------------------------------------------
(* What a reader's view has. *)

NamesOf(list) == {n.name : n \in Range(list)}
Readable(list, scope) == {list[i] : i \in {i \in Places(list) : CanRead(scope, list[i])}}

LEMMA GraphNodes ==
  ASSUME NEW T, NEW list \in Seq(T)
  PROVE  /\ Graph(list).nodes = NamesOf(list) /\ Graph(list).edges = Edges(list)
         /\ Range(list) = {list[i] : i \in Places(list)}
         /\ IsFiniteSet(Graph(list).nodes)
<1>1. DOMAIN list = Places(list) /\ Places(list) = 1 .. Len(list) /\ Len(list) \in Nat
  BY DEF Places
<1>2. Range(list) = {list[i] : i \in Places(list)}
  BY <1>1 DEF Range
<1>3. Graph(list).nodes = {list[i].name : i \in Places(list)} /\ Graph(list).edges = Edges(list)
  BY DEF Graph
<1>4. IsFiniteSet({list[i].name : i \in Places(list)})
  <2> DEFINE f == [i \in Places(list) |-> list[i].name]
             T2 == {list[i].name : i \in Places(list)}
  <2>1. f \in Surjection(Places(list), T2)
    BY DEF Surjection
  <2>2. IsFiniteSet(Places(list))
    BY <1>1, CountTo
  <2> HIDE DEF f, T2
  <2>3. IsFiniteSet(T2)
    BY <2>1, <2>2, FS_Surjection
  <2> QED
    BY <2>3 DEF T2
<1> QED
  BY <1>2, <1>3, <1>4 DEF NamesOf

LEMMA VisibleNotes ==
  ASSUME NEW T, NEW list \in Seq(T), NEW scope
  PROVE  /\ Visible(list, scope) \in Seq(T)
         /\ Range(Visible(list, scope)) = Readable(list, scope)
<1> DEFINE places == {i \in Places(list) : CanRead(scope, list[i])}
<1>1. Len(list) \in Nat /\ places \in SUBSET (1 .. Len(list)) /\ \A i \in places : list[i] \in T
  BY DEF Places
<1>2. Visible(list, scope) = Kept(list, places)
  BY DEF Visible
<1>3. Readable(list, scope) = {list[p] : p \in places}
  BY DEF Readable
<1> HIDE DEF places
<1> DEFINE kept == Kept(list, places)
<1>4. kept \in Seq({list[p] : p \in places}) /\ Range(kept) = {list[p] : p \in places}
  BY <1>1, KeptIsThere
<1> HIDE DEF kept
<1>5. kept \in Seq(T)
  <2> DEFINE U == {list[p] : p \in places}
  <2>1. U \subseteq T
    BY <1>1
  <2>2. kept \in Seq(U)
    BY <1>4
  <2> HIDE DEF U
  <2> QED
    BY <2>1, <2>2
<1> QED
  BY <1>2, <1>3, <1>4, <1>5 DEF kept

\* The names that exist only for others.
Hidden(list, scope) == Graph(list).nodes \ Graph(Visible(list, scope)).nodes

LEMMA ViewHidesNames ==
  ASSUME NEW T, NEW list \in Seq(T), NEW scope
  PROVE  /\ View(list, scope).notes = Visible(list, scope)
         /\ View(list, scope).notes \in Seq(T)
         /\ View(list, scope).graph.nodes = NamesOf(Visible(list, scope))
         /\ View(list, scope).graph.nodes = Graph(Visible(list, scope)).nodes
         /\ IsFiniteSet(View(list, scope).graph.nodes)
         /\ View(list, scope).graph.edges =
              {e \in Edges(Visible(list, scope)) : e.from \notin Hidden(list, scope) /\ e.to \notin Hidden(list, scope)}
<1> DEFINE shown == Visible(list, scope)
           hidden == Graph(list).nodes \ Graph(shown).nodes
<1>1. shown \in Seq(T)
  BY VisibleNotes
<1>2. View(list, scope) =
        [notes |-> shown,
         graph |-> [nodes |-> Graph(shown).nodes,
                    edges |-> {e \in Graph(shown).edges : e.from \notin hidden /\ e.to \notin hidden}]]
  BY DEF View
<1>3. hidden = Hidden(list, scope)
  BY DEF Hidden
<1> HIDE DEF shown, hidden
<1>4. Graph(shown).nodes = NamesOf(shown) /\ Graph(shown).edges = Edges(shown) /\ IsFiniteSet(Graph(shown).nodes)
  BY <1>1, GraphNodes
<1> QED
  BY <1>1, <1>2, <1>3, <1>4 DEF shown
-----------------------------------------------------------------------------
(* What the tools answer. *)

\* Only `brain_curate` may quote a name that is hidden.
Quoted(a) == IF a.tool = "brain_curate" THEN Disputed(a.scope) ELSE {}

\* An answer to a reader without another name that is hidden from him.
Discreet(a) == a.names \cap Hidden(notes, a.scope) \subseteq Quoted(a)

Listed == notes \in Seq(Corpus)

LEMMA NamesOfViewAreDiscreet ==
  ASSUME Listed, NEW a, a.names \subseteq View(notes, a.scope).graph.nodes
  PROVE  Discreet(a)
BY ViewHidesNames DEF Listed, Discreet, Hidden

LEMMA NeighborsAreDiscreet ==
  ASSUME Listed, NEW scope \in Scopes, NEW name, NEW depth \in Nat, BrainNeighbors(scope, name, depth)
  PROVE  Discreet(answer')
<1> DEFINE edges == View(notes, scope).graph.edges
<1>1. answer'.names = Reached(edges, {name}, depth) \ {name} /\ answer'.scope = scope
  BY DEF BrainNeighbors, Answers, Neighbors
<1>2. \A e \in edges : e.from \notin Hidden(notes, scope) /\ e.to \notin Hidden(notes, scope)
  BY ViewHidesNames DEF Listed
<1> HIDE DEF edges
<1>3. Reached(edges, {name}, depth) \subseteq {name} \cup {e.from : e \in edges} \cup {e.to : e \in edges}
  BY ReachedAreEnds
<1> QED
  BY <1>1, <1>2, <1>3 DEF Discreet

LEMMA ListIsDiscreet ==
  ASSUME Listed, NEW scope \in Scopes, NEW limit \in Nat, BrainList(scope, limit)
  PROVE  Discreet(answer')
<1> DEFINE shown == View(notes, scope).notes
<1>1. answer'.names = {n.name : n \in Range(Prefix(shown, limit))} /\ answer'.scope = scope
  BY DEF BrainList, Answers
<1>2. shown \in Seq(Corpus) /\ View(notes, scope).graph.nodes = NamesOf(shown)
  BY ViewHidesNames DEF Listed
<1> HIDE DEF shown
<1>3. Range(Prefix(shown, limit)) \subseteq Range(shown)
  BY <1>2, PrefixIsThere
<1>4. answer'.names \subseteq View(notes, answer'.scope).graph.nodes
  BY <1>1, <1>2, <1>3 DEF NamesOf
<1> QED
  BY <1>4, NamesOfViewAreDiscreet

LEMMA GrepIsDiscreet ==
  ASSUME Listed, NEW scope \in Scopes, NEW limit, BrainGrep(scope, limit)
  PROVE  Discreet(answer')
<1> DEFINE shown == View(notes, scope).notes
<1>1. \E found \in SUBSET Places(shown) :
        answer' = [tool |-> "grep", scope |-> scope, names |-> {shown[i].name : i \in found}]
  BY DEF BrainGrep, Answers
<1>2. shown \in Seq(Corpus) /\ View(notes, scope).graph.nodes = NamesOf(shown)
  BY ViewHidesNames DEF Listed
<1> HIDE DEF shown
<1>3. \A i \in Places(shown) : shown[i].name \in NamesOf(shown)
  BY <1>2, GraphNodes DEF NamesOf
<1>4. answer'.names \subseteq View(notes, answer'.scope).graph.nodes
  BY <1>1, <1>2, <1>3
<1> QED
  BY <1>4, NamesOfViewAreDiscreet

LEMMA ReadIsDiscreet ==
  ASSUME Listed, NEW scope \in Scopes, NEW name, BrainRead(scope, name) \/ BrainReadRaw(scope, name)
  PROVE  Discreet(answer')
<1>1. answer'.names \subseteq View(notes, scope).graph.nodes /\ answer'.scope = scope
  BY DEF BrainRead, BrainReadRaw, Answers
<1> QED
  BY <1>1, NamesOfViewAreDiscreet

LEMMA QuarantineIsDiscreet ==
  ASSUME Listed, NEW scope \in Scopes, NEW limit, BrainQuarantine(scope, limit)
  PROVE  Discreet(answer')
<1>1. answer'.names \subseteq NamesOf(View(notes, scope).notes) /\ answer'.scope = scope
  BY DEF BrainQuarantine, Answers, NamesOf
<1>2. answer'.names \subseteq View(notes, answer'.scope).graph.nodes
  BY <1>1, ViewHidesNames DEF Listed
<1> QED
  BY <1>2, NamesOfViewAreDiscreet

LEMMA GraphIsDiscreet ==
  ASSUME Listed, NEW scope \in Scopes, NEW center, NEW depth \in Nat, NEW limit,
         BrainGraph(scope, center, depth, limit)
  PROVE  Discreet(answer')
<1> DEFINE g == View(notes, scope).graph
           reached == IF center = <<>> THEN g.nodes ELSE {center} \cup Neighbors(g, center, depth)
<1>1. answer'.names \subseteq reached /\ answer'.scope = scope /\ (center = <<>> \/ center \in g.nodes)
  BY DEF BrainGraph, Answers
<1>2. /\ \A e \in g.edges : e.from \notin Hidden(notes, scope) /\ e.to \notin Hidden(notes, scope)
      /\ g.nodes \cap Hidden(notes, scope) = {}
  BY ViewHidesNames DEF Listed, Hidden
<1>3. Reached(g.edges, {center}, depth)
        \subseteq {center} \cup {e.from : e \in g.edges} \cup {e.to : e \in g.edges}
  BY ReachedAreEnds
<1> HIDE DEF g
<1>4. Neighbors(g, center, depth) \cap Hidden(notes, scope) = {}
  BY <1>2, <1>3 DEF Neighbors
<1> QED
  BY <1>1, <1>2, <1>4 DEF Discreet

LEMMA CurateIsDiscreet ==
  ASSUME Listed, NEW scope \in Scopes, BrainCurate(scope)
  PROVE  Discreet(answer')
<1> DEFINE shown == View(notes, scope).notes
           rows == Contradictions(shown)
           pairs == Duplicates(shown)
           disputed == Disputed(scope)
<1>1. /\ answer'.names = {shown[i].name : i \in UNION pairs} \cup UNION {{r.a, r.b} : r \in rows}
      /\ answer'.scope = scope /\ answer'.tool = "brain_curate"
  BY DEF BrainCurate, Answers
<1>2. /\ shown \in Seq(Corpus) /\ View(notes, scope).graph.nodes = NamesOf(shown)
      /\ shown = Visible(notes, scope)
      /\ View(notes, scope).graph.nodes \cap Hidden(notes, scope) = {}
  BY ViewHidesNames DEF Listed, Hidden
<1>d. \A i \in Places(shown) : shown[i].cites["contradicts"] \subseteq disputed
  <2>1. Range(shown) = {shown[i] : i \in Places(shown)}
    BY <1>2, GraphNodes
  <2> QED
    BY <1>2, <2>1 DEF Disputed
<1> HIDE DEF shown, disputed
<1>3. \A i \in Places(shown) : shown[i].name \in NamesOf(shown)
  BY <1>2, GraphNodes DEF NamesOf
<1>4. UNION pairs \subseteq Places(shown)
  BY DEF Duplicates
<1>5. \A name : LastNamed(shown, name) # {} => name \in NamesOf(shown)
  BY <1>3 DEF LastNamed, Named
<1>6. \A r \in rows : r.a \in NamesOf(shown) /\ r.b \in NamesOf(shown) \cup disputed
  <2> SUFFICES ASSUME NEW r \in rows
               PROVE  r.a \in NamesOf(shown) /\ r.b \in NamesOf(shown) \cup disputed
    OBVIOUS
  <2>0. PICK i \in Places(shown) :
          \/ \E b \in shown[i].cites["contradicts"] : r = Row("declared", shown[i].name, b)
          \/ \E b \in shown[i].cites["contradicts"] : r = Row("one-sided", shown[i].name, b)
          \/ \E b \in shown[i].cites["supersedes"] :
               LastNamed(shown, b) # {} /\ r = Row("superseded", shown[i].name, b)
    BY DEF Contradictions
  <2>1. PICK b, kind : r = Row(kind, shown[i].name, b)
                       /\ (b \in shown[i].cites["contradicts"] \/ LastNamed(shown, b) # {})
    BY <2>0
  <2>2. r.a = shown[i].name /\ r.b = b
    BY <2>1 DEF Row
  <2> QED
    BY <1>3, <1>5, <1>d, <2>1, <2>2
<1> HIDE DEF rows, pairs
<1>7. answer'.names \subseteq NamesOf(shown) \cup disputed
  BY <1>1, <1>3, <1>4, <1>6
<1> QED
  BY <1>1, <1>2, <1>7 DEF Discreet, Quoted, disputed
-----------------------------------------------------------------------------
(* What a search answers. *)

LEMMA OrdersAreSequences ==
  ASSUME NEW S, IsFiniteSet(S), NEW s \in Orders(S)
  PROVE  s \in Seq(S)
<1>1. Cardinality(S) \in Nat
  BY FS_CardinalityType
<1> QED
  BY <1>1 DEF Orders

\* Names with the scores of their places are hits.
LEMMA OwnScoresAreHits ==
  ASSUME NEW S, NEW list \in Seq(S), NEW own \in OwnScores(list)
  PROVE  HitsOf(ByOwnScore(list, own), S)
<1> DEFINE at(name) == CHOOSE i \in DOMAIN list : list[i] = name
           score == [name \in Range(list) |-> own[at(name)]]
<1>1. own \in [DOMAIN list -> Scores]
  BY DEF OwnScores
<1>2. \A name \in Range(list) : at(name) \in DOMAIN list
  BY DEF Range
<1> HIDE DEF at
<1>3. \A name \in Range(list) : name \in DOMAIN score /\ score[name] \in Int
  BY <1>1, <1>2, ScoresAssumption
<1>4. ByOwnScore(list, own) = Hits(list, score)
  BY DEF ByOwnScore, at
<1> HIDE DEF score
<1> QED
  BY <1>3, <1>4, RankedAreHits

\* Shares are numbers, so is what a fused name gets.
Weighted(w, items) == [weight |-> w, items |-> items]

LEMMA ShareIsInt ==
  ASSUME NEW T, NEW w \in Nat, NEW items \in Seq(T), NEW name
  PROVE  Share(Weighted(w, items), name) \in Int
<1> DEFINE list == Weighted(w, items)
           at == CHOOSE i \in DOMAIN list.items : list.items[i] = name
<1>1. list.weight = w /\ list.items = items /\ DOMAIN items = 1 .. Len(items) /\ Len(items) \in Nat
  BY DEF Weighted
<1>2. CASE name \notin Range(items)
  BY <1>1, <1>2 DEF Share
<1>3. CASE name \in Range(items)
  <2>1. at \in 1 .. Len(items)
    BY <1>1, <1>3 DEF Range
  <2> HIDE DEF list
  <2>2. Share(list, name) = w * (Denominator \div (RrfK + at))
    BY <1>1, <1>3 DEF Share
  <2> HIDE DEF at
  <2>3. RrfK + at \in Nat \ {0}
    BY <2>1, BoundsAssumption
  <2>4. \A d \in Nat, n \in Nat \ {0} : d \div n \in Int
    OBVIOUS
  <2>5. Denominator \div (RrfK + at) \in Int
    BY <2>3, <2>4, DenominatorIsNat
  <2> QED
    BY <2>2, <2>5 DEF list
<1> QED
  BY <1>2, <1>3

LEMMA MassIsInt ==
  ASSUME NEW T, NEW w \in Nat, NEW items \in Seq(T), NEW u \in Nat, NEW other \in Seq(T), NEW name
  PROVE  Mass(Weighted(w, items), Weighted(u, other), name) \in Int
BY ShareIsInt DEF Mass

LEMMA MetAreThere ==
  ASSUME NEW T, NEW w, NEW items \in Seq(T), NEW u, NEW other \in Seq(T)
  PROVE  Met(Weighted(w, items), Weighted(u, other)) \in Seq(T)
<1> DEFINE new == {i \in DOMAIN other : other[i] \notin Range(items)}
<1>1. Met(Weighted(w, items), Weighted(u, other)) = items \o Kept(other, new)
  BY DEF Met, Weighted
<1>2. new \in SUBSET (1 .. Len(other)) /\ Len(other) \in Nat /\ \A i \in new : other[i] \in T
  OBVIOUS
<1> HIDE DEF new
<1> DEFINE kept == Kept(other, new)
           U == {other[i] : i \in new}
<1>3. kept \in Seq(U)
  BY <1>2, KeptIsThere
<1>4. U \subseteq T
  BY <1>2
<1> HIDE DEF kept, U
<1>5. kept \in Seq(T)
  BY <1>3, <1>4
<1> QED
  BY <1>1, <1>5 DEF kept

\* The fused hits of two lists as they are, and of the two that are cut.
FusedOf(lexical, dense) ==
  LET met == Met(Weighted(1, lexical), Weighted(2, dense))
  IN Hits(met, [name \in Range(met) |-> Mass(Weighted(1, lexical), Weighted(2, dense), name)])

LEMMA FusedAreCut ==
  ASSUME NEW lexical, NEW dense
  PROVE  FusedHits(lexical, dense) = FusedOf(Prefix(lexical, FusedDepth), Prefix(dense, FusedDepth))
BY DEF FusedHits, FusedOf, Weighted

LEMMA FusedAreHits ==
  ASSUME NEW S, NEW lexical \in Seq(S), NEW dense \in Seq(S)
  PROVE  HitsOf(FusedOf(lexical, dense), S)
<1> DEFINE words == Weighted(1, lexical)
           meaning == Weighted(2, dense)
           met == Met(words, meaning)
           score == [name \in Range(met) |-> Mass(words, meaning, name)]
<1>1. FusedOf(lexical, dense) = Hits(met, score)
  BY DEF FusedOf
<1>2. met \in Seq(S)
  BY MetAreThere
<1>3. \A name : Mass(words, meaning, name) \in Int
  BY MassIsInt
<1> HIDE DEF met, words, meaning
<1>4. \A name \in Range(met) : name \in DOMAIN score /\ score[name] \in Int
  BY <1>3
<1> HIDE DEF score
<1> QED
  BY <1>1, <1>2, <1>4, RankedAreHits

\* As many links as a note has, its edges are finitely many.
LEMMA ImagesAreFinite ==
  ASSUME NEW S, IsFiniteSet(S), NEW f, NEW T, T = {f[x] : x \in S}
  PROVE  IsFiniteSet(T)
<1> DEFINE h == [x \in S |-> f[x]]
<1>1. h \in Surjection(S, T)
  BY DEF Surjection
<1> HIDE DEF h
<1> QED
  BY <1>1, FS_Surjection

LinkEdges(list, i) ==
  {[from |-> list[i].name, to |-> Resolve(list, t, list[i].path), kind |-> "wikilink", as |-> t] : t \in list[i].links}
CiteEdges(list, i, kind) ==
  {[from |-> list[i].name, to |-> t, kind |-> kind, as |-> t] : t \in list[i].cites[kind]}
CitesOf(list, i) == {CiteEdges(list, i, kind) : kind \in Kinds}
EdgesOf(list, i) == LinkEdges(list, i) \cup UNION CitesOf(list, i)

LEMMA EdgesAreFinite ==
  ASSUME NEW list \in Seq(Corpus)
  PROVE  IsFiniteSet(Edges(list))
<1>1. \A i \in Places(list) : IsFiniteSet(list[i].links) /\ \A kind \in Kinds : IsFiniteSet(list[i].cites[kind])
  BY CorpusAssumption DEF Places
<1>2. IsFiniteSet(Kinds)
  <2>1. IsFiniteSet({"provenance"})
    BY FS_Singleton
  <2>2. IsFiniteSet({"provenance"} \cup {"supersedes"})
    BY <2>1, FS_AddElement
  <2>3. IsFiniteSet(({"provenance"} \cup {"supersedes"}) \cup {"contradicts"})
    BY <2>2, FS_AddElement
  <2>4. Kinds = ({"provenance"} \cup {"supersedes"}) \cup {"contradicts"}
    BY DEF Kinds
  <2> QED
    BY <2>3, <2>4
<1>3. ASSUME NEW i \in Places(list) PROVE IsFiniteSet(LinkEdges(list, i))
  <2> DEFINE f == [t \in list[i].links |->
                     [from |-> list[i].name, to |-> Resolve(list, t, list[i].path), kind |-> "wikilink", as |-> t]]
  <2>1. LinkEdges(list, i) = {f[t] : t \in list[i].links}
    BY DEF LinkEdges
  <2> HIDE DEF f
  <2> QED
    BY <1>1, <2>1, ImagesAreFinite
<1>4. ASSUME NEW i \in Places(list), NEW kind \in Kinds PROVE IsFiniteSet(CiteEdges(list, i, kind))
  <2> DEFINE f == [t \in list[i].cites[kind] |-> [from |-> list[i].name, to |-> t, kind |-> kind, as |-> t]]
  <2>1. CiteEdges(list, i, kind) = {f[t] : t \in list[i].cites[kind]}
    BY DEF CiteEdges
  <2> HIDE DEF f
  <2> QED
    BY <1>1, <2>1, ImagesAreFinite
<1>5. ASSUME NEW i \in Places(list) PROVE IsFiniteSet(EdgesOf(list, i))
  <2> DEFINE f == [kind \in Kinds |-> CiteEdges(list, i, kind)]
  <2>1. CitesOf(list, i) = {f[kind] : kind \in Kinds}
    BY DEF CitesOf
  <2> HIDE DEF f
  <2>2. IsFiniteSet(CitesOf(list, i))
    BY <1>2, <2>1, ImagesAreFinite
  <2>3. \A S \in CitesOf(list, i) : IsFiniteSet(S)
    BY <1>4 DEF CitesOf
  <2>4. IsFiniteSet(UNION CitesOf(list, i))
    BY <2>2, <2>3, FS_UNION
  <2> QED
    BY <1>3, <2>4, FS_Union DEF EdgesOf
<1> DEFINE all == {EdgesOf(list, i) : i \in Places(list)}
<1>6. IsFiniteSet(all)
  <2> DEFINE f == [i \in Places(list) |-> EdgesOf(list, i)]
  <2>1. all = {f[i] : i \in Places(list)}
    OBVIOUS
  <2>2. IsFiniteSet(Places(list))
    BY CountTo DEF Places
  <2> HIDE DEF f, all
  <2> QED
    BY <2>1, <2>2, ImagesAreFinite
<1>7. \A S \in all : IsFiniteSet(S)
  BY <1>5
<1>8. Edges(list) = UNION all
  BY DEF Edges, EdgesOf, LinkEdges, CitesOf, CiteEdges
<1> HIDE DEF all
<1> QED
  BY <1>6, <1>7, <1>8, FS_UNION

LEMMA DegreeIsNat ==
  ASSUME NEW g, IsFiniteSet(g.edges), NEW name
  PROVE  Degree(g, name) \in Nat
<1>1. ASSUME NEW U \in SUBSET g.edges PROVE Cardinality(U) \in Nat
  BY FS_Subset, FS_CardinalityType
<1> DEFINE out == {e \in Sound(g) : e.from = name}
           in == {e \in Sound(g) : e.to = name}
<1>2. out \in SUBSET g.edges /\ in \in SUBSET g.edges
  BY DEF Sound
<1>3. Degree(g, name) = Cardinality(out) + Cardinality(in)
  BY DEF Degree
<1> HIDE DEF out, in
<1>4. Cardinality(out) \in Nat /\ Cardinality(in) \in Nat
  BY <1>1, <1>2
<1> QED
  BY <1>3, <1>4

LEMMA HybridAreHits ==
  ASSUME NEW S, NEW lexical \in Seq(S), NEW walk \in Seq(S), NEW list,
         NEW g, IsFiniteSet(g.nodes), IsFiniteSet(g.edges)
  PROVE  HitsOf(HybridHits(list, g, lexical, walk), S)
<1> DEFINE words == Weighted(2, Prefix(lexical, HybridDepth))
           graph == Weighted(1, Prefix(walk, HybridDepth))
           met == Met(words, graph)
           degrees == {1} \cup {Degree(g, n) : n \in g.nodes}
           most == CHOOSE m \in degrees : \A d \in degrees : d <= m
           Hub(name) == list[First(Named(list, name))].type \in {"index", "moc"}
           score == [name \in Range(met) |->
                       Mass(words, graph, name) * (IF Hub(name) THEN 2 ELSE 5) * (20 * most + 3 * Degree(g, name))]
<1>1. CASE lexical = <<>>
  <2>1. HybridHits(list, g, lexical, walk) = Hits(<<>>, <<>>)
    BY <1>1 DEF HybridHits
  <2>2. <<>> \in Seq(S) /\ \A x \in Range(<<>>) : x \in DOMAIN <<>> /\ <<>>[x] \in Int
    BY DEF Range
  <2> QED
    BY <2>1, <2>2, RankedAreHits
<1>2. CASE lexical # <<>>
  <2>1. HybridHits(list, g, lexical, walk) = Hits(met, score)
    BY <1>2 DEF HybridHits, Weighted
  <2>0. Prefix(lexical, HybridDepth) \in Seq(S) /\ Prefix(walk, HybridDepth) \in Seq(S)
    BY DepthsAssumption, PrefixIsThere
  <2>2. met \in Seq(S)
    BY <2>0, MetAreThere
  <2>3. \A name : Mass(words, graph, name) \in Int
    BY <2>0, MassIsInt
  <2>4. \A name : Degree(g, name) \in Nat
    BY DegreeIsNat
  <2>5. most \in Int
    <3> DEFINE f == [n \in g.nodes |-> Degree(g, n)]
               T == {Degree(g, n) : n \in g.nodes}
    <3>1. T = {f[n] : n \in g.nodes}
      OBVIOUS
    <3> HIDE DEF f, T
    <3>2. IsFiniteSet(T)
      BY <3>1, ImagesAreFinite
    <3>3. IsFiniteSet(T \cup {1})
      BY <3>2, FS_AddElement
    <3>4. degrees = T \cup {1} /\ degrees \in SUBSET Int /\ degrees # {}
      BY <2>4 DEF T
    <3> HIDE DEF degrees
    <3>5. \E m \in degrees : \A d \in degrees : d <= m
      BY <3>3, <3>4, GreatestIsThere
    <3> QED
      BY <3>4, <3>5
  <2> HIDE DEF met, words, graph, most, Hub
  <2>6. \A x, y \in Int : x * y \in Int
    OBVIOUS
  <2>7. ASSUME NEW name PROVE Mass(words, graph, name) * (IF Hub(name) THEN 2 ELSE 5) * (20 * most + 3 * Degree(g, name)) \in Int
    <3>1. Mass(words, graph, name) * (IF Hub(name) THEN 2 ELSE 5) \in Int
      BY <2>3, <2>6
    <3>2. 20 * most + 3 * Degree(g, name) \in Int
      BY <2>4, <2>5
    <3> QED
      BY <2>6, <3>1, <3>2
  <2>8. \A name \in Range(met) : name \in DOMAIN score /\ score[name] \in Int
    BY <2>7
  <2> HIDE DEF score
  <2> QED
    BY <2>1, <2>2, <2>8, RankedAreHits
<1> QED
  BY <1>1, <1>2

\* A walk does not leave the graph.
LEMMA WalkedAreNodes ==
  ASSUME NEW g, NEW seeds \in SUBSET g.nodes
  PROVE  Walked(g, seeds) \subseteq g.nodes
<1>1. Reached(Sound(g), seeds, Longest)
        \subseteq seeds \cup {e.from : e \in Sound(g)} \cup {e.to : e \in Sound(g)}
  BY ReachedAreEnds, BoundsAssumption
<1> QED
  BY <1>1 DEF Walked, Sound

LEMMA RankersGiveHits ==
  ASSUME NEW S, NEW lexical \in Seq(S), NEW other \in Seq(S),
         NEW view, IsFiniteSet(view.graph.nodes), IsFiniteSet(view.graph.edges),
         NEW ranker \in {"lexical", "dense", "fused", "hybrid"}, NEW own \in Owns(ranker, lexical, other)
  PROVE  HitsOf(HitsBy(ranker, view, lexical, other, own), S)
<1>1. CASE ranker = "lexical"
  BY <1>1, OwnScoresAreHits DEF HitsBy, LexicalHits, Owns
<1>2. CASE ranker = "dense"
  BY <1>2, OwnScoresAreHits DEF HitsBy, DenseHits, Owns
<1>3. CASE ranker = "fused"
  <2>1. Prefix(lexical, FusedDepth) \in Seq(S) /\ Prefix(other, FusedDepth) \in Seq(S)
    BY DepthsAssumption, PrefixIsThere
  <2>2. HitsBy(ranker, view, lexical, other, own) = FusedOf(Prefix(lexical, FusedDepth), Prefix(other, FusedDepth))
    BY <1>3, FusedAreCut DEF HitsBy
  <2> QED
    BY <2>1, <2>2, FusedAreHits
<1>4. CASE ranker = "hybrid"
  BY <1>4, HybridAreHits DEF HitsBy
<1> QED
  BY <1>1, <1>2, <1>3, <1>4

\* The list besides the words is of nodes too.
LEMMA OtherListsAreThere ==
  ASSUME NEW g, IsFiniteSet(g.nodes), NEW lexical \in Seq(g.nodes),
         NEW ranker \in {"lexical", "dense", "fused", "hybrid"}, NEW other \in OtherLists(ranker, g, lexical)
  PROVE  other \in Seq(g.nodes)
<1> DEFINE seeds == Range(Prefix(lexical, Seeds))
           walked == Walked(g, seeds)
           N == g.nodes
<1>0. seeds \in SUBSET g.nodes
  <2>1. Range(Prefix(lexical, Seeds)) \subseteq Range(lexical)
    BY DepthsAssumption, PrefixIsThere
  <2>2. Range(lexical) \subseteq g.nodes
    BY DEF Range
  <2> QED
    BY <2>1, <2>2
<1> HIDE DEF seeds
<1>1. walked \subseteq N /\ IsFiniteSet(walked) /\ IsFiniteSet(N)
  BY <1>0, WalkedAreNodes, FS_Subset
<1>2. other = <<>> \/ other \in Orders(N) \/ other \in Orders(walked)
  BY DEF OtherLists, seeds
<1> HIDE DEF walked, N
<1>3. CASE other \in Orders(N)
  BY <1>1, <1>3, OrdersAreSequences DEF N
<1>4. CASE other \in Orders(walked)
  <2>1. other \in Seq(walked)
    BY <1>1, <1>4, OrdersAreSequences
  <2>2. other \in Seq(N)
    BY <1>1, <2>1
  <2> QED
    BY <2>2 DEF N
<1>5. CASE other = <<>>
  BY <1>5
<1> QED
  BY <1>2, <1>3, <1>4, <1>5

LEMMA SearchIsDiscreet ==
  ASSUME Listed, NEW scope \in Scopes, NEW ranker \in {"lexical", "dense", "fused", "hybrid"}, NEW k \in Nat,
         BrainSearch(scope, ranker, k)
  PROVE  Discreet(answer')
<1> DEFINE view == View(notes, scope)
           g == view.graph
<1>1. PICK matches \in SUBSET g.nodes :
        \E lexical \in Orders(matches) : \E other \in OtherLists(ranker, g, lexical) :
        \E own \in Owns(ranker, lexical, other) :
          answer' = [tool |-> "search", scope |-> scope, ranker |-> ranker, k |-> k, lists |-> <<lexical, other>>, own |-> own,
                     hits |-> StatusAware(view.notes, HitsBy(ranker, view, lexical, other, own), k),
                     names |-> Range(StatusAware(view.notes, HitsBy(ranker, view, lexical, other, own), k))]
  BY DEF BrainSearch, Answers
<1>2. IsFiniteSet(g.nodes) /\ IsFiniteSet(g.edges)
  <2>1. IsFiniteSet(Edges(Visible(notes, scope)))
    BY VisibleNotes, EdgesAreFinite DEF Listed
  <2>2. g.edges \subseteq Edges(Visible(notes, scope))
    BY ViewHidesNames DEF Listed
  <2> QED
    BY <2>1, <2>2, FS_Subset, ViewHidesNames DEF Listed
<1> HIDE DEF view
<1>w. PICK lexical \in Orders(matches) : \E other \in OtherLists(ranker, g, lexical) :
        \E own \in Owns(ranker, lexical, other) :
          /\ answer'.names = Range(StatusAware(view.notes, HitsBy(ranker, view, lexical, other, own), k))
          /\ answer'.scope = scope
  BY <1>1
<1>3. PICK other \in OtherLists(ranker, g, lexical) :
        \E own \in Owns(ranker, lexical, other) :
          /\ answer'.names = Range(StatusAware(view.notes, HitsBy(ranker, view, lexical, other, own), k))
          /\ answer'.scope = scope
  BY <1>w
<1>4. PICK own \in Owns(ranker, lexical, other) :
          /\ answer'.names = Range(StatusAware(view.notes, HitsBy(ranker, view, lexical, other, own), k))
          /\ answer'.scope = scope
  BY <1>3
<1>5. lexical \in Seq(g.nodes)
  <2>1. IsFiniteSet(matches)
    BY <1>2, <1>1, FS_Subset
  <2>2. lexical \in Seq(matches)
    BY <1>3, <2>1, OrdersAreSequences
  <2> QED
    BY <1>1, <2>2
<1>6. other \in Seq(g.nodes)
  BY <1>2, <1>3, <1>5, OtherListsAreThere
<1>7. HitsOf(HitsBy(ranker, view, lexical, other, own), g.nodes)
  BY <1>2, <1>4, <1>5, <1>6, RankersGiveHits
<1>8. answer'.names \subseteq g.nodes
  BY <1>4, <1>7, ShownAreHits
<1> QED
  BY <1>4, <1>8, NamesOfViewAreDiscreet DEF view
-----------------------------------------------------------------------------
(* What the linter reports. *)

LEMMA FirstIsThere ==
  ASSUME NEW n \in Nat, NEW S \in SUBSET (1 .. n), S # {}
  PROVE  First(S) \in S /\ \A j \in S : First(S) <= j
<1> DEFINE N == Cardinality(S)
<1>1. S \in SUBSET Int /\ IsFiniteSet(S)
  <2>1. IsFiniteSet(1 .. n)
    BY CountTo
  <2>2. IsFiniteSet(S)
    BY <2>1, FS_Subset
  <2>3. \A p \in S : p \in Int
    OBVIOUS
  <2> QED
    BY <2>2, <2>3
<1>2. Numbered(S) /\ N # 0
  BY <1>1, EachNumberIsNth, FS_EmptySet
<1>3. 1 \in 1 .. N
  BY <1>2 DEF Numbered
<1> HIDE DEF N
<1>4. PICK m \in S : Lower(S, m) = 1 - 1
  BY <1>2, <1>3 DEF Numbered, N
<1>5. \A j \in S : Lower(S, j) \in 0 .. N - 1
  BY <1>2 DEF Numbered, N
<1>6. \A j \in S : ~ (j < m)
  BY <1>2, <1>3, <1>4, <1>5 DEF Numbered
<1>7. \E i \in S : \A j \in S : i <= j
  BY <1>1, <1>4, <1>6
<1> QED
  BY <1>7 DEF First

\* Each file is one note.
Distinct(list) == \A i, j \in Places(list) : list[i].path = list[j].path => i = j

\* Whom a finding is about.
Reported(list, rule) ==
  CASE rule = "link-unresolved" ->
         {i \in Places(list) : ~ list[i].broken /\ \E t \in list[i].links : Unresolved(list, t, list[i].path)}
    [] rule = "audience-leak" ->
         {i \in Places(list) : ~ list[i].broken /\ list[i].type \in {"index", "moc"} /\ Leaks(list, i) # {}}
    [] rule = "orphan" -> {i \in Places(list) : ~ list[i].broken /\ Orphan(list, Graph(list), i)}

LEMMA FindingsAreReported ==
  ASSUME NEW list, Distinct(list), NEW i \in Places(list),
         NEW rule \in {"link-unresolved", "audience-leak", "orphan"}
  PROVE  Finding(rule, i, list) \in Lint(list) <=> i \in Reported(list, rule)
<1> DEFINE Found(name, S) == {Finding(name, j, list) : j \in S}
           of == Reported(list, rule)
<1>1. \A name, other, j : Finding(name, j, list) = Finding(other, i, list)
        => name = other /\ list[j].path = list[i].path
  <2> SUFFICES ASSUME NEW name, NEW other, NEW j, Finding(name, j, list) = Finding(other, i, list)
               PROVE  name = other /\ list[j].path = list[i].path
    OBVIOUS
  <2>1. Finding(name, j, list).rule = name /\ Finding(name, j, list).path = list[j].path
    BY DEF Finding
  <2>2. Finding(other, i, list).rule = other /\ Finding(other, i, list).path = list[i].path
    BY DEF Finding
  <2> QED
    BY <2>1, <2>2
<1>2. \A name, S : Finding(rule, i, list) \in Found(name, S) => name = rule
  BY <1>1
<1>3. \A S \in SUBSET Places(list) : Finding(rule, i, list) \in Found(rule, S) <=> i \in S
  BY <1>1 DEF Distinct
<1> HIDE DEF Found
<1> DEFINE g == Graph(list)
           broken == {j \in Places(list) : list[j].broken}
           read == Places(list) \ broken
           s1 == {j \in read : Len(list[j].path) > 1 /\ list[j].name # <<Stem(list[j].path)>>}
           s2 == {j \in read : Cardinality(Named(list, list[j].name)) > 1}
           s3 == {j \in read : \E t \in list[j].links : Unresolved(list, t, list[j].path)}
           s4 == {j \in read : Unknown(list, j) # {}}
           s5 == {j \in read : list[j].type \in {"index", "moc"} /\ Leaks(list, j) # {}}
           s6 == {j \in read : Orphan(list, g, j)}
<1>4. Lint(list) = Found("frontmatter-invalid", broken) \cup Found("name-mismatch", s1)
                   \cup Found("duplicate-name", s2) \cup Found("link-unresolved", s3)
                   \cup Found("audience-unknown", s4) \cup Found("audience-leak", s5) \cup Found("orphan", s6)
  BY DEF Lint, Found
<1>5. /\ s3 \in SUBSET Places(list) /\ s5 \in SUBSET Places(list) /\ s6 \in SUBSET Places(list)
      /\ rule = "link-unresolved" => s3 = of
      /\ rule = "audience-leak" => s5 = of
      /\ rule = "orphan" => s6 = of
  BY DEF Reported
<1> HIDE DEF of, broken, s1, s2, s3, s4, s5, s6
<1>6. CASE rule = "link-unresolved"
  BY <1>2, <1>3, <1>4, <1>5, <1>6 DEF of
<1>7. CASE rule = "audience-leak"
  BY <1>2, <1>3, <1>4, <1>5, <1>7 DEF of
<1>8. CASE rule = "orphan"
  BY <1>2, <1>3, <1>4, <1>5, <1>8 DEF of
<1> QED
  BY <1>6, <1>7, <1>8

\* Links of a note whose name is its own are the wikilink edges that leave it.
LEMMA LinksAreEdges ==
  ASSUME NEW list, NEW i \in Places(list), Named(list, list[i].name) = {i}, NEW to
  PROVE  (\E e \in Edges(list) : e.from = list[i].name /\ e.kind = "wikilink" /\ e.to = to)
           <=> \E t \in list[i].links : to = Resolve(list, t, list[i].path)
<1>1. ASSUME NEW t \in list[i].links, to = Resolve(list, t, list[i].path)
      PROVE  \E e \in Edges(list) : e.from = list[i].name /\ e.kind = "wikilink" /\ e.to = to
  <2> DEFINE e == [from |-> list[i].name, to |-> to, kind |-> "wikilink", as |-> t]
  <2>1. e \in Edges(list)
    BY <1>1 DEF Edges
  <2> QED
    BY <2>1
<1>2. ASSUME NEW e \in Edges(list), e.from = list[i].name, e.kind = "wikilink", e.to = to
      PROVE  \E t \in list[i].links : to = Resolve(list, t, list[i].path)
  <2>1. PICK j \in Places(list) :
          \/ \E t \in list[j].links :
               e = [from |-> list[j].name, to |-> Resolve(list, t, list[j].path), kind |-> "wikilink", as |-> t]
          \/ \E kind \in Kinds : \E t \in list[j].cites[kind] :
               e = [from |-> list[j].name, to |-> t, kind |-> kind, as |-> t]
    BY DEF Edges
  <2>2. ASSUME NEW kind \in Kinds, NEW t, e = [from |-> list[j].name, to |-> t, kind |-> kind, as |-> t]
        PROVE  FALSE
    <3>1. e.kind = kind
      BY <2>2
    <3> QED
      BY <1>2, <3>1 DEF Kinds
  <2>3. PICK t \in list[j].links :
          e = [from |-> list[j].name, to |-> Resolve(list, t, list[j].path), kind |-> "wikilink", as |-> t]
    BY <2>1, <2>2
  <2>4. e.from = list[j].name /\ e.to = Resolve(list, t, list[j].path)
    BY <2>3
  <2>5. j = i
    BY <1>2, <2>4 DEF Named
  <2> QED
    BY <1>2, <2>4, <2>5
<1> QED
  BY <1>1, <1>2

LEMMA NodesAreNamed ==
  ASSUME NEW list, NEW name
  PROVE  name \in Graph(list).nodes <=> Named(list, name) # {}
<1>1. Graph(list).nodes = {list[i].name : i \in Places(list)}
  BY DEF Graph
<1> QED
  BY <1>1 DEF Named

LEMMA UnresolvedIsReported ==
  ASSUME NEW list, Distinct(list), NEW i \in Places(list), ~ list[i].broken, Named(list, list[i].name) = {i}
  PROVE  Finding("link-unresolved", i, list) \in Lint(list)
           <=> \E e \in Graph(list).edges : e.from = list[i].name /\ e.kind = "wikilink" /\ e.to \notin Graph(list).nodes
<1>1. Finding("link-unresolved", i, list) \in Lint(list)
        <=> \E t \in list[i].links : Unresolved(list, t, list[i].path)
  BY FindingsAreReported DEF Reported
<1>2. \A t : Unresolved(list, t, list[i].path) <=> Named(list, Resolve(list, t, list[i].path)) = {}
  BY DEF Unresolved, Resolve
<1>3. Graph(list).edges = Edges(list)
  BY DEF Graph
<1>4. \A to : (\E e \in Edges(list) : e.from = list[i].name /\ e.kind = "wikilink" /\ e.to = to)
               <=> \E t \in list[i].links : to = Resolve(list, t, list[i].path)
  BY LinksAreEdges
<1>5. \A name : name \notin Graph(list).nodes <=> Named(list, name) = {}
  BY NodesAreNamed
<1>6. (\E e \in Edges(list) : e.from = list[i].name /\ e.kind = "wikilink" /\ e.to \notin Graph(list).nodes)
        <=> \E t \in list[i].links : Named(list, Resolve(list, t, list[i].path)) = {}
  BY <1>4, <1>5
<1> QED
  BY <1>1, <1>2, <1>3, <1>6

\* Who is one hop from a note.
LEMMA NearIsBeside ==
  ASSUME NEW g, NEW name
  PROVE  Neighbors(g, name, 1) = Beside(g.edges, {name}) \ {name}
<1> DEFINE R(n) == Reached(g.edges, {name}, n)
<1>1. R(0) = {name} /\ \A n \in Nat : R(n + 1) = Beside(g.edges, R(n))
  BY ReachedStep
<1> HIDE DEF R
<1>2. 0 \in Nat /\ 0 + 1 = 1
  OBVIOUS
<1>3. R(1) = Beside(g.edges, {name})
  BY <1>1, <1>2
<1> QED
  BY <1>3 DEF Neighbors, R

LEMMA OrphanIsReported ==
  ASSUME NEW list, Distinct(list), NEW i \in Places(list), ~ list[i].broken
  PROVE  LET near == Neighbors(Graph(list), list[i].name, 1)
         IN /\ Finding("orphan", i, list) \in Lint(list) => near = {}
            /\ near = {} /\ list[i].type \notin {"index", "moc"}
                 /\ (\A e \in Graph(list).edges : {e.from, e.to} # {list[i].name})
               => Finding("orphan", i, list) \in Lint(list)
<1> DEFINE g == Graph(list)
           name == list[i].name
<1>1. Finding("orphan", i, list) \in Lint(list) <=> Orphan(list, g, i)
  BY FindingsAreReported DEF Reported
<1>2. Neighbors(g, name, 1) = Beside(g.edges, {name}) \ {name}
  BY NearIsBeside
<1>3. Orphan(list, g, i)
        <=> (\A e \in g.edges : e.from # name /\ e.to # name) /\ list[i].type \notin {"index", "moc"}
  BY DEF Orphan
<1> HIDE DEF g, name
<1>4. (\A e \in g.edges : e.from # name /\ e.to # name) => Neighbors(g, name, 1) = {}
  BY <1>2 DEF Beside
<1>5. ASSUME Neighbors(g, name, 1) = {}, \A e \in g.edges : {e.from, e.to} # {name}
      PROVE  \A e \in g.edges : e.from # name /\ e.to # name
  <2>1. Beside(g.edges, {name}) \subseteq {name}
    BY <1>2, <1>5
  <2>2. ASSUME NEW e \in g.edges PROVE e.from # name /\ e.to # name
    <3>1. (e.from = name => e.to \in Beside(g.edges, {name})) /\ (e.to = name => e.from \in Beside(g.edges, {name}))
      BY DEF Beside
    <3>2. e.from = name <=> e.to = name
      BY <2>1, <3>1
    <3>3. ~ (e.from = name /\ e.to = name)
      BY <1>5
    <3> QED
      BY <3>2, <3>3
  <2> QED
    BY <2>2
<1> QED
  BY <1>1, <1>3, <1>4, <1>5 DEF g, name

LEMMA LeakIsReported ==
  ASSUME NEW list \in Seq(Corpus), Distinct(list), NEW i \in Places(list), ~ list[i].broken,
         list[i].type \in {"index", "moc"}, NEW label \in Audiences(list[i]) \ {"private", "public"},
         NEW j \in Listing(list, i), list[j] \notin Range(View(list, {label}).notes)
  PROVE  Finding("audience-leak", i, list) \in Lint(list)
<1>1. Range(View(list, {label}).notes) = Readable(list, {label})
  BY ViewHidesNames, VisibleNotes
<1>2. j \in Places(list)
  <2>1. PICK t \in list[i].links \cup list[i].markdown : LET S == Named(list, Resolve(list, t, list[i].path)) IN S # {} /\ j = First(S)
    BY DEF Listing
  <2> DEFINE S == Named(list, Resolve(list, t, list[i].path))
  <2>2. S \in SUBSET (1 .. Len(list)) /\ Len(list) \in Nat /\ Places(list) = 1 .. Len(list)
    BY DEF Named, Places
  <2>3. S # {} /\ j = First(S)
    BY <2>1
  <2> HIDE DEF S
  <2> QED
    BY <2>2, <2>3, FirstIsThere
<1>3. ~ CanRead({label}, list[j])
  BY <1>1, <1>2 DEF Readable
<1>4. label \in Leaks(list, i)
  BY <1>3 DEF Leaks
<1> QED
  BY <1>4, FindingsAreReported DEF Reported
-----------------------------------------------------------------------------
(* What a slice of the graph shows. *)

\* What paths, names and links are.
Words == Seq(Range(Alphabet))

\* Each segment has one place in the alphabet.
LEMMA PositionsDiffer ==
  /\ \A x \in Range(Alphabet) : Position(x) \in Int
  /\ \A x, y \in Range(Alphabet) : Position(x) = Position(y) => x = y
<1>1. \A x \in Range(Alphabet) : \E p \in DOMAIN Alphabet : Alphabet[p] = x
  BY DEF Range
<1>2. \A x \in Range(Alphabet) : Position(x) \in DOMAIN Alphabet /\ Alphabet[Position(x)] = x
  BY <1>1 DEF Position
<1>3. DOMAIN Alphabet \subseteq Int
  BY AlphabetAssumption
<1> QED
  BY <1>2, <1>3

\* Where the second word is seen to come after the first.
Parts(a, b, i) ==
  /\ i \in 1 .. Len(b) /\ i <= Len(a) + 1
  /\ \A j \in 1 .. (i - 1) : a[j] = b[j]
  /\ i > Len(a) \/ Position(a[i]) < Position(b[i])

LEMMA EarlierParts ==
  ASSUME NEW a \in Words, NEW b \in Words
  PROVE  Earlier(a, b) <=> \E i : Parts(a, b, i)
<1>1. DOMAIN b = 1 .. Len(b)
  BY DEF Words
<1> QED
  BY <1>1 DEF Earlier, Parts

LEMMA LettersAreThere ==
  ASSUME NEW a \in Words
  PROVE  Len(a) \in Nat /\ \A i \in 1 .. Len(a) : a[i] \in Range(Alphabet)
BY DEF Words

\* The order of names is one.
LEMMA NoneIsEarlier ==
  ASSUME NEW a \in Words
  PROVE  ~ Earlier(a, a)
<1> SUFFICES ASSUME NEW i, Parts(a, a, i) PROVE FALSE
  BY EarlierParts
<1>1. i \in 1 .. Len(a) /\ Position(a[i]) < Position(a[i])
  BY LettersAreThere DEF Parts
<1>2. Position(a[i]) \in Int
  BY <1>1, LettersAreThere, PositionsDiffer
<1> QED
  BY <1>1, <1>2

LEMMA OneIsEarlier ==
  ASSUME NEW a \in Words, NEW b \in Words, a # b
  PROVE  Earlier(a, b) \/ Earlier(b, a)
<1> DEFINE n == Len(a)
           m == Len(b)
           S == {i \in 1 .. n + 1 : i > n \/ i > m \/ a[i] # b[i]}
           i == First(S)
<1>1. n \in Nat /\ m \in Nat /\ n + 1 \in Nat
  BY LettersAreThere
<1>2. S \in SUBSET (1 .. n + 1) /\ n + 1 \in S
  BY <1>1
<1>3. i \in S /\ \A j \in S : i <= j
  <2> HIDE DEF S
  <2> QED
    BY <1>1, <1>2, FirstIsThere
<1> HIDE DEF i
<1>4. i \in 1 .. n + 1 /\ (i > n \/ i > m \/ a[i] # b[i])
  BY <1>3
<1>5. \A j \in 1 .. (i - 1) : j <= n /\ j <= m /\ a[j] = b[j]
  <2> SUFFICES ASSUME NEW j \in 1 .. (i - 1) PROVE j <= n /\ j <= m /\ a[j] = b[j]
    OBVIOUS
  <2>1. j \in 1 .. n + 1 /\ j < i
    BY <1>1, <1>4
  <2>2. j \notin S
    BY <1>1, <1>3, <1>4, <2>1
  <2> QED
    BY <1>1, <2>1, <2>2
<1>6. i <= m + 1
  <2>1. CASE i = 1
    BY <1>1, <2>1
  <2>2. CASE i # 1
    <3>1. i - 1 \in 1 .. (i - 1)
      BY <1>1, <1>4, <2>2
    <3>2. i - 1 <= m
      BY <1>5, <3>1
    <3> QED
      BY <1>1, <1>4, <3>2
  <2> QED
    BY <2>1, <2>2
<1> HIDE DEF S, n, m
<1>7. CASE i > n /\ i > m
  <2>1. n = i - 1 /\ m = i - 1
    BY <1>1, <1>4, <1>6, <1>7
  <2>2. a \in [1 .. n -> Range(Alphabet)] /\ b \in [1 .. m -> Range(Alphabet)]
    BY DEF Words, n, m
  <2>3. a = b
    BY <1>5, <2>1, <2>2
  <2> QED
    BY <2>3
<1>8. CASE i > n /\ ~ (i > m)
  <2>1. Parts(a, b, i)
    BY <1>1, <1>4, <1>5, <1>8 DEF Parts, n, m
  <2> QED
    BY <2>1, EarlierParts
<1>9. CASE ~ (i > n) /\ i > m
  <2>1. Parts(b, a, i)
    BY <1>1, <1>4, <1>5, <1>6, <1>9 DEF Parts, n, m
  <2> QED
    BY <2>1, EarlierParts
<1>10. CASE ~ (i > n) /\ ~ (i > m)
  <2>1. a[i] # b[i] /\ i \in 1 .. n /\ i \in 1 .. m
    BY <1>1, <1>4, <1>10
  <2>2. a[i] \in Range(Alphabet) /\ b[i] \in Range(Alphabet)
    BY <2>1, LettersAreThere DEF n, m
  <2>3. Position(a[i]) < Position(b[i]) \/ Position(b[i]) < Position(a[i])
    <3>1. Position(a[i]) \in Int /\ Position(b[i]) \in Int /\ Position(a[i]) # Position(b[i])
      BY <2>1, <2>2, PositionsDiffer
    <3> QED
      BY <3>1
  <2>4. Parts(a, b, i) \/ Parts(b, a, i)
    BY <1>1, <1>4, <1>5, <1>6, <2>1, <2>3 DEF Parts, n, m
  <2> QED
    BY <2>4, EarlierParts
<1> QED
  BY <1>7, <1>8, <1>9, <1>10

LEMMA EarlierThanBoth ==
  ASSUME NEW a \in Words, NEW b \in Words, NEW c \in Words, Earlier(a, b), Earlier(b, c)
  PROVE  Earlier(a, c)
<1>1. PICK i : Parts(a, b, i)
  BY EarlierParts
<1>2. PICK j : Parts(b, c, j)
  BY EarlierParts
<1>3. /\ i \in Nat /\ i >= 1 /\ i <= Len(b) /\ i <= Len(a) + 1 /\ (i > Len(a) \/ Position(a[i]) < Position(b[i]))
      /\ \A k \in 1 .. (i - 1) : a[k] = b[k]
      /\ j \in Nat /\ j >= 1 /\ j <= Len(c) /\ j <= Len(b) + 1 /\ (j > Len(b) \/ Position(b[j]) < Position(c[j]))
      /\ \A k \in 1 .. (j - 1) : b[k] = c[k]
      /\ Len(a) \in Nat /\ Len(b) \in Nat /\ Len(c) \in Nat
  BY <1>1, <1>2, LettersAreThere DEF Parts
<1>4. CASE i < j
  <2>1. i \in 1 .. (j - 1) /\ i \in 1 .. Len(c)
    BY <1>3, <1>4
  <2>2. b[i] = c[i]
    BY <1>3, <2>1
  <2>3. \A k \in 1 .. (i - 1) : a[k] = c[k]
    <3>1. \A k \in 1 .. (i - 1) : k \in 1 .. (j - 1)
      BY <1>3, <1>4
    <3> QED
      BY <1>3, <3>1
  <2>4. Parts(a, c, i)
    BY <1>3, <2>1, <2>2, <2>3 DEF Parts
  <2> QED
    BY <2>4, EarlierParts
<1>5. CASE i = j
  <2>1. Position(b[i]) < Position(c[i]) /\ i \in 1 .. Len(c) /\ i \in 1 .. Len(b)
    BY <1>3, <1>5
  <2>2. \A k \in 1 .. (i - 1) : a[k] = c[k]
    BY <1>3, <1>5
  <2>3. i > Len(a) \/ Position(a[i]) < Position(c[i])
    <3> SUFFICES ASSUME ~ (i > Len(a)) PROVE Position(a[i]) < Position(c[i])
      OBVIOUS
    <3>1. i \in 1 .. Len(a) /\ Position(a[i]) < Position(b[i])
      BY <1>3
    <3>2. Position(a[i]) \in Int /\ Position(b[i]) \in Int /\ Position(c[i]) \in Int
      BY <2>1, <3>1, LettersAreThere, PositionsDiffer
    <3> QED
      BY <2>1, <3>1, <3>2
  <2>4. Parts(a, c, i)
    BY <1>3, <2>1, <2>2, <2>3 DEF Parts
  <2> QED
    BY <2>4, EarlierParts
<1>6. CASE j < i
  <2>1. j \in 1 .. (i - 1) /\ j <= Len(b) /\ j \in 1 .. Len(c) /\ j <= Len(a) + 1
    BY <1>3, <1>6
  <2>2. a[j] = b[j] /\ Position(b[j]) < Position(c[j])
    BY <1>3, <2>1
  <2>3. \A k \in 1 .. (j - 1) : a[k] = c[k]
    <3>1. \A k \in 1 .. (j - 1) : k \in 1 .. (i - 1)
      BY <1>3, <1>6
    <3> QED
      BY <1>3, <3>1
  <2>4. Parts(a, c, j)
    BY <2>1, <2>2, <2>3 DEF Parts
  <2> QED
    BY <2>4, EarlierParts
<1>7. i < j \/ i = j \/ j < i
  BY <1>3
<1> QED
  BY <1>4, <1>5, <1>6, <1>7

\* What a graph names is spelled.
LEMMA NodesAreWords ==
  ASSUME NEW list \in Seq(Corpus)
  PROVE  \A i \in Places(list) : list[i].name \in Words
BY AlphabetAssumption DEF Places, Words

LEMMA LinksLeadToWords ==
  ASSUME NEW list \in Seq(Corpus), NEW target \in Words, NEW from
  PROVE  Resolve(list, target, from) \in Words
<1> DEFINE here  == At(list, Normal(Folder(from) \o target))
           root  == At(list, Normal(target))
           twins == Stemmed(list, Stem(target))
           near  == {i \in twins : Folder(list[i].path) = Folder(from)}
<1>1. Len(list) \in Nat /\ Places(list) = 1 .. Len(list)
  BY DEF Places
<1>2. ASSUME NEW S \in SUBSET Places(list), S # {} PROVE list[First(S)].name \in Words
  BY <1>1, <1>2, FirstIsThere, NodesAreWords
<1>3. /\ here \in SUBSET Places(list) /\ root \in SUBSET Places(list)
      /\ twins \in SUBSET Places(list) /\ near \in SUBSET Places(list)
  BY DEF At, Stemmed
<1>4. \/ Resolve(list, target, from) = target
      \/ here # {} /\ Resolve(list, target, from) = list[First(here)].name
      \/ root # {} /\ Resolve(list, target, from) = list[First(root)].name
      \/ Cardinality(twins) = 1 /\ Resolve(list, target, from) = list[First(twins)].name
      \/ Cardinality(near) = 1 /\ Resolve(list, target, from) = list[First(near)].name
  BY DEF Resolve
<1> HIDE DEF here, root, twins, near
<1>0. \A S : Cardinality(S) = 1 => S # {}
  <2>1. Cardinality({}) = 0
    BY FS_EmptySet
  <2>2. \A S : S = {} => Cardinality(S) = 0
    BY <2>1, Zenon
  <2>3. \A S : Cardinality(S) = 1 => Cardinality(S) # 0
    OBVIOUS
  <2> QED
    BY <2>2, <2>3, Zenon
<1>5. Cardinality(twins) = 1 => twins # {}
  BY <1>0
<1>6. Cardinality(near) = 1 => near # {}
  BY <1>0
<1> QED
  BY <1>2, <1>3, <1>4, <1>5, <1>6

LEMMA EdgesJoinWords ==
  ASSUME NEW list \in Seq(Corpus), NEW e \in Edges(list)
  PROVE  e.from \in Words /\ e.to \in Words
<1>1. PICK i \in Places(list) :
        \/ \E t \in list[i].links :
             e = [from |-> list[i].name, to |-> Resolve(list, t, list[i].path), kind |-> "wikilink", as |-> t]
        \/ \E kind \in Kinds : \E t \in list[i].cites[kind] :
             e = [from |-> list[i].name, to |-> t, kind |-> kind, as |-> t]
  BY DEF Edges
<1>2. list[i] \in Corpus /\ list[i].name \in Words
  BY NodesAreWords DEF Places
<1>3. list[i].links \subseteq Words /\ \A kind \in Kinds : list[i].cites[kind] \subseteq Words
  <2>1. list[i].links \cup UNION {list[i].cites[kind] : kind \in Kinds} \subseteq Words
    BY <1>2, AlphabetAssumption DEF Words
  <2> QED
    BY <2>1
<1>4. CASE \E t \in list[i].links :
             e = [from |-> list[i].name, to |-> Resolve(list, t, list[i].path), kind |-> "wikilink", as |-> t]
  <2>1. PICK t \in list[i].links :
             e = [from |-> list[i].name, to |-> Resolve(list, t, list[i].path), kind |-> "wikilink", as |-> t]
    BY <1>4
  <2>2. Resolve(list, t, list[i].path) \in Words
    BY <1>3, LinksLeadToWords
  <2>3. e.from = list[i].name /\ e.to = Resolve(list, t, list[i].path)
    BY <2>1
  <2> QED
    BY <1>2, <2>2, <2>3
<1>5. CASE \E kind \in Kinds : \E t \in list[i].cites[kind] :
             e = [from |-> list[i].name, to |-> t, kind |-> kind, as |-> t]
  <2>1. PICK kind \in Kinds : \E t \in list[i].cites[kind] :
             e = [from |-> list[i].name, to |-> t, kind |-> kind, as |-> t]
    BY <1>5
  <2>2. e.from = list[i].name /\ e.to \in list[i].cites[kind]
    BY <2>1
  <2> QED
    BY <1>2, <1>3, <2>2
<1> QED
  BY <1>1, <1>4, <1>5

\* The pairs of a set, the first ahead of the second.
AheadIn(g, center, S) == {p \in S \X S : Ahead(g, center, p[1], p[2])}

LEMMA AheadIsAnOrder ==
  ASSUME NEW g, NEW center, NEW S \in SUBSET Words, \A n \in S : LinkCount(g, n) \in Nat
  PROVE  InOrder(S, AheadIn(g, center, S))
<1> DEFINE More(a, b) == LinkCount(g, a) > LinkCount(g, b) \/ (LinkCount(g, a) = LinkCount(g, b) /\ Earlier(a, b))
           R == AheadIn(g, center, S)
<1>1. \A a, b \in S : <<a, b>> \in R <=> b # center /\ (a = center \/ More(a, b))
  BY DEF AheadIn, Ahead
<1>2. \A a \in S : ~ More(a, a)
  BY NoneIsEarlier
<1>3. \A a, b \in S : a # b => More(a, b) \/ More(b, a)
  BY OneIsEarlier
<1>4. ASSUME NEW a \in S, NEW b \in S, NEW c \in S, More(a, b), More(b, c) PROVE More(a, c)
  <2>1. Earlier(a, b) /\ Earlier(b, c) => Earlier(a, c)
    BY EarlierThanBoth
  <2> HIDE DEF R
  <2> QED
    BY <1>4, <2>1
<1> HIDE DEF R, More
<1>5. \A a \in S : <<a, a>> \notin R
  BY <1>1, <1>2
<1>6. \A a, b \in S : a # b => <<a, b>> \in R \/ <<b, a>> \in R
  BY <1>1, <1>3
<1>7. \A a, b, c \in S : <<a, b>> \in R /\ <<b, c>> \in R => <<a, c>> \in R
  BY <1>1, <1>4
<1> QED
  BY <1>5, <1>6, <1>7 DEF InOrder, R

\* The first of a set in order, as many as the limit.
FirstOf(S, R, limit) == {x \in S : Before(S, R, x) < limit}

LEMMA CutIsFull ==
  ASSUME NEW S, IsFiniteSet(S), NEW R, InOrder(S, R), NEW limit \in Nat
  PROVE  /\ Cardinality(FirstOf(S, R, limit)) <= limit
         /\ FirstOf(S, R, limit) # S => Cardinality(FirstOf(S, R, limit)) = limit
         /\ Cardinality(FirstOf(S, R, limit)) < Cardinality(S) <=> FirstOf(S, R, limit) # S
         /\ \A x \in FirstOf(S, R, limit), y \in S \ FirstOf(S, R, limit) : <<x, y>> \in R
<1> DEFINE C == FirstOf(S, R, limit)
           T == 0 .. limit - 1
           f == [x \in C |-> Before(S, R, x)]
<1>1. Ranked(S, R)
  BY EachIsNth
<1>2. /\ Cardinality(S) \in Nat
      /\ \A x \in S : Before(S, R, x) \in 0 .. Cardinality(S) - 1
      /\ \A i \in 1 .. Cardinality(S) : \E x \in S : Before(S, R, x) = i - 1
      /\ \A x, y \in S : <<x, y>> \in R <=> Before(S, R, x) < Before(S, R, y)
      /\ \A x, y \in S : Before(S, R, x) = Before(S, R, y) => x = y
  BY <1>1 DEF Ranked
<1>3. C \in SUBSET S /\ \A x \in S : x \in C <=> Before(S, R, x) < limit
  BY DEF FirstOf
<1>4. IsFiniteSet(T) /\ Cardinality(T) = limit
  <2>1. limit - 1 \in Int /\ 0 \in Int
    OBVIOUS
  <2>2. IsFiniteSet(T) /\ Cardinality(T) = IF 0 > limit - 1 THEN 0 ELSE (limit - 1) - 0 + 1
    BY <2>1, FS_Interval
  <2> HIDE DEF T
  <2> QED
    BY <2>2
<1> HIDE DEF C
<1>5. f \in Injection(C, T)
  <2>1. \A x \in C : Before(S, R, x) \in T
    BY <1>2, <1>3
  <2>2. \A x, y \in C : Before(S, R, x) = Before(S, R, y) => x = y
    BY <1>2, <1>3
  <2> HIDE DEF T
  <2> QED
    BY <2>1, <2>2 DEF Injection, IsInjective
<1>6. IsFiniteSet(C) /\ Cardinality(C) \in Nat /\ Cardinality(C) <= limit
      /\ (f \in Surjection(C, T) => Cardinality(C) = limit)
  BY <1>4, <1>5, FS_Injection, FS_CardinalityType
<1>7. ASSUME C # S PROVE Cardinality(C) = limit
  <2>1. PICK y \in S : y \notin C
    BY <1>3, <1>7
  <2>2. ~ (Before(S, R, y) < limit) /\ Before(S, R, y) \in 0 .. Cardinality(S) - 1
    BY <1>2, <1>3, <2>1
  <2>3. ASSUME NEW k \in T PROVE \E x \in C : Before(S, R, x) = k
    <3>1. k + 1 \in 1 .. Cardinality(S) /\ (k + 1) - 1 = k /\ k < limit
      BY <1>2, <2>2
    <3>2. PICK x \in S : Before(S, R, x) = (k + 1) - 1
      BY <1>2, <3>1
    <3> QED
      BY <1>3, <3>1, <3>2
  <2>4. f \in Surjection(C, T)
    BY <1>5, <2>3 DEF Surjection, Injection
  <2> QED
    BY <1>6, <2>4
<1>8. Cardinality(C) < Cardinality(S) <=> C # S
  BY <1>2, <1>3, <1>6, FS_Subset
<1>9. ASSUME NEW x \in C, NEW y \in S \ C PROVE <<x, y>> \in R
  <2>1. Before(S, R, x) < limit /\ ~ (Before(S, R, y) < limit) /\ Before(S, R, x) \in Int /\ Before(S, R, y) \in Int
    BY <1>2, <1>3
  <2>2. Before(S, R, x) < Before(S, R, y)
    BY <2>1
  <2> QED
    BY <1>2, <1>3, <2>2
<1> QED
  BY <1>6, <1>7, <1>8, <1>9 DEF C

\* A slice with what it owes its reader.
Slice(a) ==
  LET g == View(notes, a.scope).graph
      around == IF a.center = <<>> THEN g.nodes ELSE {a.center} \cup Neighbors(g, a.center, a.depth)
      missing == around \ a.names
  IN /\ a.names \subseteq around
     /\ a.center = <<>> \/ a.center \in a.names
     /\ a.truncated <=> missing # {}
     /\ Cardinality(a.names) <= a.limit
     /\ missing # {} => Cardinality(a.names) = a.limit
     /\ \A shown \in a.names \ {a.center}, other \in missing : LinkCount(g, other) <= LinkCount(g, shown)
     /\ \A x, y \in a.names :
          x # y => ((\E e \in a.edges : e.ends = {x, y}) <=> y \in Neighbors(g, x, 1) /\ x \in Neighbors(g, y, 1))

\* What a reader's graph names is spelled, and finite.
LEMMA ViewIsSpelled ==
  ASSUME Listed, NEW scope
  PROVE  LET g == View(notes, scope).graph
         IN /\ g.nodes \subseteq Words /\ IsFiniteSet(g.nodes) /\ IsFiniteSet(g.edges)
            /\ \A e \in g.edges : e.from \in Words /\ e.to \in Words
<1> DEFINE shown == Visible(notes, scope)
           g == View(notes, scope).graph
<1>1. shown \in Seq(Corpus) /\ g.nodes = NamesOf(shown) /\ IsFiniteSet(g.nodes) /\ g.edges \subseteq Edges(shown)
  BY VisibleNotes, ViewHidesNames DEF Listed
<1> HIDE DEF shown, g
<1>2. NamesOf(shown) \subseteq Words
  BY <1>1, GraphNodes, NodesAreWords DEF NamesOf
<1>3. \A e \in Edges(shown) : e.from \in Words /\ e.to \in Words
  BY <1>1, EdgesJoinWords
<1>4. IsFiniteSet(g.edges)
  BY <1>1, EdgesAreFinite, FS_Subset
<1> QED
  BY <1>1, <1>2, <1>3, <1>4 DEF g

LEMMA LinkCountIsNat ==
  ASSUME NEW g, IsFiniteSet(g.edges), NEW name
  PROVE  LinkCount(g, name) \in Nat
<1> DEFINE U == {e \in Between(g, g.nodes) : name \in {e.from, e.to}}
<1>1. U \in SUBSET g.edges /\ LinkCount(g, name) = Cardinality(U)
  BY DEF Between, LinkCount
<1> HIDE DEF U
<1> QED
  BY <1>1, FS_Subset, FS_CardinalityType

\* What is around a note is finite and spelled too.
LEMMA AroundIsSpelled ==
  ASSUME NEW g, IsFiniteSet(g.edges), \A e \in g.edges : e.from \in Words /\ e.to \in Words,
         NEW center \in Words, NEW depth \in Nat
  PROVE  IsFiniteSet({center} \cup Neighbors(g, center, depth)) /\ Neighbors(g, center, depth) \subseteq Words
<1> DEFINE from == {e.from : e \in g.edges}
           to == {e.to : e \in g.edges}
<1>1. IsFiniteSet(from)
  <2> DEFINE f == [e \in g.edges |-> e.from]
  <2>1. from = {f[e] : e \in g.edges}
    OBVIOUS
  <2> HIDE DEF f, from
  <2> QED
    BY <2>1, ImagesAreFinite
<1>2. IsFiniteSet(to)
  <2> DEFINE f == [e \in g.edges |-> e.to]
  <2>1. to = {f[e] : e \in g.edges}
    OBVIOUS
  <2> HIDE DEF f, to
  <2> QED
    BY <2>1, ImagesAreFinite
<1>3. Reached(g.edges, {center}, depth) \subseteq {center} \cup from \cup to
  BY ReachedAreEnds
<1>4. from \subseteq Words /\ to \subseteq Words
  OBVIOUS
<1> HIDE DEF from, to
<1>5. IsFiniteSet({center} \cup (from \cup to))
  BY <1>1, <1>2, FS_Singleton, FS_Union
<1>6. {center} \cup Neighbors(g, center, depth) \in SUBSET ({center} \cup (from \cup to))
  BY <1>3 DEF Neighbors
<1>7. IsFiniteSet({center} \cup Neighbors(g, center, depth))
  BY <1>5, <1>6, FS_Subset
<1>8. Neighbors(g, center, depth) \subseteq Words
  BY <1>4, <1>6
<1> QED
  BY <1>7, <1>8

LEMMA SliceIsCut ==
  ASSUME Listed, NEW scope \in Scopes, NEW center, NEW depth \in Nat, NEW limit \in Nat \ {0},
         BrainGraph(scope, center, depth, limit)
  PROVE  Slice(answer')
<1> DEFINE g == View(notes, scope).graph
           around == IF center = <<>> THEN g.nodes ELSE {center} \cup Neighbors(g, center, depth)
           R == AheadIn(g, center, around)
           chosen == FirstOf(around, R, limit)
           edges == {[ends |-> {e.from, e.to}, kind |-> e.kind] : e \in Between(g, chosen)}
           a == answer'
<1>0. chosen = {n \in around : Cardinality({m \in around : m # n /\ Ahead(g, center, m, n)}) < limit}
  <2>1. ASSUME NEW n \in around
        PROVE  {m \in around : <<m, n>> \in R} = {m \in around : m # n /\ Ahead(g, center, m, n)}
    <3>1. ~ Ahead(g, center, n, n)
      <4>1. n \in Words
        BY ViewIsSpelled, AroundIsSpelled, <2>1 DEF BrainGraph
      <4>2. LinkCount(g, n) \in Nat
        BY ViewIsSpelled, LinkCountIsNat
      <4> QED
        BY <4>1, <4>2, NoneIsEarlier DEF Ahead
    <3>2. \A m \in around : <<m, n>> \in R <=> Ahead(g, center, m, n)
      BY <2>1 DEF AheadIn
    <3> HIDE DEF R, around, g
    <3> QED
      BY <3>1, <3>2
  <2> HIDE DEF R, around, g
  <2> QED
    BY <2>1 DEF FirstOf, Before
<1>1. /\ a = [tool |-> "graph", scope |-> scope, center |-> center, depth |-> depth, limit |-> limit,
              names |-> chosen, edges |-> edges, truncated |-> Cardinality(chosen) < Cardinality(around)]
      /\ center = <<>> \/ center \in g.nodes
  <2> HIDE DEF chosen
  <2> QED
    BY <1>0 DEF BrainGraph, Answers
<1>2. /\ g.nodes \subseteq Words /\ IsFiniteSet(g.nodes) /\ IsFiniteSet(g.edges)
      /\ \A e \in g.edges : e.from \in Words /\ e.to \in Words
  BY ViewIsSpelled
<1>3. IsFiniteSet(around) /\ around \in SUBSET Words
  <2>1. CASE center = <<>>
    BY <1>2, <2>1
  <2>2. CASE center # <<>>
    <3>1. center \in Words
      BY <1>1, <1>2, <2>2
    <3> HIDE DEF g
    <3> QED
      BY <1>2, <2>2, <3>1, AroundIsSpelled
  <2> QED
    BY <2>1, <2>2
<1>4. center # <<>> => center \in around
  OBVIOUS
<1>5. \A x, y \in chosen : x # y =>
        ((\E e \in edges : e.ends = {x, y}) <=> y \in Neighbors(g, x, 1) /\ x \in Neighbors(g, y, 1))
  <2> HIDE DEF chosen, g
  <2> SUFFICES ASSUME NEW x \in chosen, NEW y \in chosen, x # y
               PROVE  (\E e \in edges : e.ends = {x, y}) <=> y \in Neighbors(g, x, 1) /\ x \in Neighbors(g, y, 1)
    OBVIOUS
  <2>1. (\E e \in edges : e.ends = {x, y}) <=> \E e \in g.edges : {e.from, e.to} = {x, y}
    <3>1. ASSUME NEW e \in edges, e.ends = {x, y} PROVE \E f \in g.edges : {f.from, f.to} = {x, y}
      <4>1. PICK f \in Between(g, chosen) : e = [ends |-> {f.from, f.to}, kind |-> f.kind]
        BY <3>1
      <4> QED
        BY <3>1, <4>1 DEF Between
    <3>2. ASSUME NEW f \in g.edges, {f.from, f.to} = {x, y} PROVE \E e \in edges : e.ends = {x, y}
      <4>1. f.from # f.to /\ f.from \in chosen /\ f.to \in chosen
        BY <3>2
      <4>2. f \in Between(g, chosen)
        BY <4>1 DEF Between
      <4>3. [ends |-> {f.from, f.to}, kind |-> f.kind] \in edges
        BY <4>2
      <4> QED
        BY <3>2, <4>3
    <3> QED
      BY <3>1, <3>2
  <2>2. \A v, w : v # w => (w \in Neighbors(g, v, 1) <=> \E e \in g.edges : {e.from, e.to} = {v, w})
    <3> SUFFICES ASSUME NEW v, NEW w, v # w
                 PROVE  w \in Neighbors(g, v, 1) <=> \E e \in g.edges : {e.from, e.to} = {v, w}
      OBVIOUS
    <3>1. w \in Neighbors(g, v, 1) <=> \E e \in g.edges : (e.from = v /\ e.to = w) \/ (e.to = v /\ e.from = w)
      BY NearIsBeside DEF Beside
    <3>2. \A e : {e.from, e.to} = {v, w} <=> (e.from = v /\ e.to = w) \/ (e.to = v /\ e.from = w)
      OBVIOUS
    <3> QED
      BY <3>1, <3>2
  <2>3. {x, y} = {y, x}
    OBVIOUS
  <2> HIDE DEF edges
  <2> QED
    BY <2>1, <2>2, <2>3
<1> HIDE DEF g, around
<1>6. \A n \in around : LinkCount(g, n) \in Nat
  BY <1>2, LinkCountIsNat
<1>7. InOrder(around, R)
  BY <1>3, <1>6, AheadIsAnOrder
<1>8. \A x, y \in around : <<x, y>> \in R <=> Ahead(g, center, x, y)
  BY DEF AheadIn
<1> HIDE DEF R
<1>9. /\ Cardinality(chosen) <= limit
      /\ chosen # around => Cardinality(chosen) = limit
      /\ Cardinality(chosen) < Cardinality(around) <=> chosen # around
      /\ \A x \in chosen, y \in around \ chosen : <<x, y>> \in R
  BY <1>3, <1>7, CutIsFull
<1>10. chosen \subseteq around
  BY DEF FirstOf
<1>11. center = <<>> \/ center \in chosen
  <2> SUFFICES ASSUME center # <<>> PROVE center \in chosen
    OBVIOUS
  <2>1. {m \in around : <<m, center>> \in R} = {}
    BY <1>4, <1>8 DEF Ahead
  <2>2. Before(around, R, center) = 0
    BY <2>1, FS_EmptySet DEF Before
  <2> QED
    BY <1>4, <2>2 DEF FirstOf
<1> HIDE DEF chosen, edges
<1>12. ASSUME NEW x \in chosen \ {center}, NEW y \in around \ chosen PROVE LinkCount(g, y) <= LinkCount(g, x)
  <2>1. Ahead(g, center, x, y) /\ x # center
    BY <1>8, <1>9, <1>10
  <2>2. LinkCount(g, x) \in Nat /\ LinkCount(g, y) \in Nat
    BY <1>6, <1>10
  <2>3. LinkCount(g, x) > LinkCount(g, y) \/ LinkCount(g, x) = LinkCount(g, y)
    BY <2>1 DEF Ahead
  <2> QED
    BY <2>2, <2>3
<1>13. /\ a.scope = scope /\ a.center = center /\ a.depth = depth /\ a.limit = limit /\ a.names = chosen
       /\ a.edges = edges /\ a.truncated = (Cardinality(chosen) < Cardinality(around))
  BY <1>1
<1> HIDE DEF a
<1>14. Cardinality(chosen) < Cardinality(around) <=> around \ chosen # {}
  BY <1>9, <1>10
<1>15. around \ chosen # {} => Cardinality(chosen) = limit
  BY <1>9
<1>16. Slice(a)
  BY <1>5, <1>9, <1>10, <1>11, <1>12, <1>13, <1>14, <1>15 DEF Slice, g, around
<1> QED
  BY <1>16 DEF a
-----------------------------------------------------------------------------
(* What the curator reports. *)

\* Kept whole, a list is as it was.
LEMMA KeptWhole ==
  ASSUME NEW T, NEW list \in Seq(T)
  PROVE  Kept(list, Places(list)) = list
<1> DEFINE n == Len(list)
           Nth(i) == CHOOSE p \in 1 .. n : Lower(1 .. n, p) = i - 1
<1>1. n \in Nat /\ Places(list) = 1 .. n /\ list = [i \in 1 .. n |-> list[i]] /\ Cardinality(1 .. n) = n
  BY CountTo DEF Places
<1>2. Kept(list, 1 .. n) = [i \in 1 .. n |-> list[Nth(i)]]
  BY <1>1 DEF Kept, Lower
<1>3. ASSUME NEW p \in 1 .. n PROVE Lower(1 .. n, p) = p - 1
  <2>1. {q \in 1 .. n : q < p} = 1 .. (p - 1) /\ p - 1 \in Nat
    BY <1>1
  <2>2. Cardinality(1 .. (p - 1)) = p - 1
    BY <2>1, CountTo
  <2> QED
    BY <2>1, <2>2 DEF Lower
<1>4. ASSUME NEW i \in 1 .. n PROVE Nth(i) = i
  <2>1. \E p \in 1 .. n : Lower(1 .. n, p) = i - 1
    BY <1>3
  <2>2. Nth(i) \in 1 .. n /\ Lower(1 .. n, Nth(i)) = i - 1
    BY <2>1
  <2> HIDE DEF Nth
  <2>3. Nth(i) - 1 = i - 1
    BY <1>3, <2>2
  <2> QED
    BY <2>2, <2>3
<1> HIDE DEF Nth
<1> QED
  BY <1>1, <1>2, <1>4

LEMMA OwnerSeesAll ==
  ASSUME NEW T, NEW list \in Seq(T)
  PROVE  View(list, {"*"}).notes = list
<1>1. {i \in Places(list) : CanRead({"*"}, list[i])} = Places(list)
  BY DEF CanRead
<1>2. Visible(list, {"*"}) = list
  BY <1>1, KeptWhole DEF Visible
<1> QED
  BY <1>2, ViewHidesNames

\* Half of a text, in another of at most Factor times its size, is alike.
LEMMA HalfIsAlike ==
  ASSUME NEW a, NEW b, IsFiniteSet(a), IsFiniteSet(b),
         2 * Cardinality(a \cap b) >= Cardinality(a),
         MinShingles <= Cardinality(a), MinShingles <= Cardinality(b),
         Cardinality(b) <= Factor * Cardinality(a)
  PROVE  Alike(a, b) /\ Alike(b, a)
<1> DEFINE x == Cardinality(a)
           y == Cardinality(b)
           z == Cardinality(a \cap b)
<1>1. x \in Nat /\ y \in Nat /\ z \in Nat /\ z <= x /\ z <= y
  <2>1. a \cap b \in SUBSET a /\ a \cap b \in SUBSET b
    OBVIOUS
  <2> QED
    BY <2>1, FS_Subset, FS_CardinalityType
<1>2. Cardinality(b \cap a) = z
  <2>1. b \cap a = a \cap b
    OBVIOUS
  <2> QED
    BY <2>1
<1>3. 2 * z >= x /\ MinShingles <= x /\ MinShingles <= y /\ y <= Factor * x
  OBVIOUS
<1> DEFINE Near(small, large) ==
             /\ small >= MinShingles /\ z # 0
             /\ \/ Factor * z >= small + large - z
                \/ Factor * small >= large /\ Factor * z >= small
<1>4. /\ Alike(a, b) <=> Near(IF x <= y THEN x ELSE y, x + y - (IF x <= y THEN x ELSE y))
      /\ Alike(b, a) <=> Near(IF y <= x THEN y ELSE x, y + x - (IF y <= x THEN y ELSE x))
  BY <1>2 DEF Alike
<1> HIDE DEF x, y, z
<1>5. z # 0
  BY <1>1, <1>3, CurationAssumption
<1>6. \A v \in Nat : Factor * v >= 2 * v
  BY CurationAssumption
<1>7. Factor * z >= x
  BY <1>1, <1>3, <1>6, CurationAssumption
<1>8. CASE x < y
  <2>1. Near(x, y)
    BY <1>1, <1>3, <1>5, <1>7
  <2>2. (IF x <= y THEN x ELSE y) = x /\ x + y - x = y /\ (IF y <= x THEN y ELSE x) = x /\ y + x - x = y
    BY <1>1, <1>8
  <2> HIDE DEF Near
  <2> QED
    BY <1>4, <2>1, <2>2 DEF x, y
<1>9. CASE ~ (x < y)
  <2>1. Factor * y >= x /\ y <= x
    BY <1>1, <1>3, <1>6, <1>9, CurationAssumption
  <2>0. Factor * z \in Int
    BY <1>1, CurationAssumption
  <2>2. Near(y, x)
    BY <1>1, <1>3, <1>5, <1>7, <2>0, <2>1
  <2>3. (IF x <= y THEN x ELSE y) = y /\ x + y - y = x /\ (IF y <= x THEN y ELSE x) = y /\ y + x - y = x
    BY <1>1, <2>1
  <2> HIDE DEF Near
  <2> QED
    BY <1>4, <2>2, <2>3
<1> QED
  BY <1>8, <1>9

\* The last of its name speaks for itself.
LEMMA LastSpeaks ==
  ASSUME NEW list, NEW i, LastNamed(list, list[i].name) = {i}
  PROVE  Spokesman(list, i) = list[i]
<1>1. (CHOOSE j \in {i} : TRUE) = i
  OBVIOUS
<1> QED
  BY <1>1 DEF Spokesman

LEMMA CopyIsFound ==
  ASSUME NEW list \in Seq(Corpus), NEW i \in Places(list), NEW j \in Places(list), i # j,
         LastNamed(list, list[i].name) = {i}, LastNamed(list, list[j].name) = {j},
         2 * Cardinality(list[i].text \cap list[j].text) >= Cardinality(list[i].text),
         MinShingles <= Cardinality(list[i].text), MinShingles <= Cardinality(list[j].text),
         Cardinality(list[j].text) <= Factor * Cardinality(list[i].text)
  PROVE  {i, j} \in Duplicates(list) <=> ~ (Declares(list, i, j) \/ Declares(list, j, i))
<1> DEFINE Paired(p, q) ==
             /\ p \in Places(list) /\ q \in Places(list) /\ p < q
             /\ Alike(Spokesman(list, p).text, Spokesman(list, q).text)
             /\ ~ Declares(list, p, q) /\ ~ Declares(list, q, p)
<1>1. \A pair : pair \in Duplicates(list) <=> \E p, q : Paired(p, q) /\ pair = {p, q}
  BY DEF Duplicates
<1>2. IsFiniteSet(list[i].text) /\ IsFiniteSet(list[j].text)
  BY CorpusAssumption DEF Places
<1>3. Alike(list[i].text, list[j].text) /\ Alike(list[j].text, list[i].text)
  BY <1>2, HalfIsAlike
<1>4. i \in Int /\ j \in Int
  BY DEF Places
<1>s. Spokesman(list, i) = list[i] /\ Spokesman(list, j) = list[j]
  BY LastSpeaks
<1>5. Paired(i, j) \/ Paired(j, i) <=> ~ (Declares(list, i, j) \/ Declares(list, j, i))
  BY <1>3, <1>4, <1>s
<1> HIDE DEF Paired
<1>6. {i, j} \in Duplicates(list) <=> Paired(i, j) \/ Paired(j, i)
  <2>1. \A p, q : {i, j} = {p, q} => (p = i /\ q = j) \/ (p = j /\ q = i)
    OBVIOUS
  <2>2. ASSUME {i, j} \in Duplicates(list) PROVE Paired(i, j) \/ Paired(j, i)
    <3>1. PICK p, q : Paired(p, q) /\ {i, j} = {p, q}
      BY <1>1, <2>2
    <3> QED
      BY <2>1, <3>1
  <2>3. ASSUME Paired(i, j) PROVE {i, j} \in Duplicates(list)
    BY <1>1, <2>3
  <2>4. ASSUME Paired(j, i) PROVE {i, j} \in Duplicates(list)
    <3>1. {i, j} = {j, i}
      OBVIOUS
    <3> QED
      BY <1>1, <2>4, <3>1
  <2> QED
    BY <2>2, <2>3, <2>4
<1> QED
  BY <1>5, <1>6

\* A citation is an edge.
LEMMA DisputesAreEdges ==
  ASSUME NEW list, NEW a, NEW b
  PROVE  (\E e \in Edges(list) : e.kind = "contradicts" /\ e.from = a /\ e.to = b)
           <=> \E i \in Named(list, a) : b \in list[i].cites["contradicts"]
<1>1. ASSUME NEW i \in Named(list, a), b \in list[i].cites["contradicts"]
      PROVE  \E e \in Edges(list) : e.kind = "contradicts" /\ e.from = a /\ e.to = b
  <2> DEFINE e == [from |-> list[i].name, to |-> b, kind |-> "contradicts", as |-> b]
  <2>1. "contradicts" \in Kinds /\ i \in Places(list) /\ list[i].name = a
    BY DEF Kinds, Named
  <2>2. e \in Edges(list)
    BY <1>1, <2>1 DEF Edges
  <2> QED
    BY <2>1, <2>2
<1>2. ASSUME NEW e \in Edges(list), e.kind = "contradicts", e.from = a, e.to = b
      PROVE  \E i \in Named(list, a) : b \in list[i].cites["contradicts"]
  <2>1. PICK j \in Places(list) :
          \/ \E t \in list[j].links :
               e = [from |-> list[j].name, to |-> Resolve(list, t, list[j].path), kind |-> "wikilink", as |-> t]
          \/ \E kind \in Kinds : \E t \in list[j].cites[kind] :
               e = [from |-> list[j].name, to |-> t, kind |-> kind, as |-> t]
    BY DEF Edges
  <2>2. ASSUME NEW t, e = [from |-> list[j].name, to |-> Resolve(list, t, list[j].path), kind |-> "wikilink", as |-> t]
        PROVE  FALSE
    <3>1. e.kind = "wikilink"
      BY <2>2
    <3> QED
      BY <1>2, <3>1
  <2>3. PICK kind \in Kinds : \E t \in list[j].cites[kind] :
               e = [from |-> list[j].name, to |-> t, kind |-> kind, as |-> t]
    BY <2>1, <2>2
  <2>4. e.from = list[j].name /\ e.to \in list[j].cites[kind] /\ e.kind = kind
    BY <2>3
  <2> QED
    BY <1>2, <2>4 DEF Named
<1> QED
  BY <1>1, <1>2

\* The rows of a dispute, of whichever of the two notes.
Quarrel(list, k, c, r) ==
  /\ k \in Places(list) /\ c \in list[k].cites["contradicts"]
  /\ \/ Back(list, k, c) /\ ~ AlreadySeen(list, k, c) /\ r = Row("declared", list[k].name, c)
     \/ ~ Back(list, k, c) /\ r = Row("one-sided", list[k].name, c)

LEMMA QuarrelsAreRows ==
  ASSUME NEW list, NEW r
  PROVE  r \in Contradictions(list) /\ r.kind # "superseded" <=> \E k, c : Quarrel(list, k, c, r)
<1>1. \A kind, a, b : Row(kind, a, b).kind = kind
  BY DEF Row
<1>2. ASSUME r \in Contradictions(list), r.kind # "superseded" PROVE \E k, c : Quarrel(list, k, c, r)
  <2>1. PICK k \in Places(list) :
          \/ \E c \in list[k].cites["contradicts"] :
               Back(list, k, c) /\ ~ AlreadySeen(list, k, c) /\ r = Row("declared", list[k].name, c)
          \/ \E c \in list[k].cites["contradicts"] : ~ Back(list, k, c) /\ r = Row("one-sided", list[k].name, c)
          \/ \E c : r = Row("superseded", list[k].name, c)
    BY <1>2 DEF Contradictions
  <2> QED
    BY <1>1, <1>2, <2>1 DEF Quarrel
<1>3. ASSUME NEW k, NEW c, Quarrel(list, k, c, r) PROVE r \in Contradictions(list) /\ r.kind # "superseded"
  <2>1. r \in Contradictions(list)
    BY <1>3 DEF Quarrel, Contradictions
  <2> QED
    BY <1>1, <1>3, <2>1 DEF Quarrel
<1> QED
  BY <1>2, <1>3

RowsOn(list, a, b) == {r \in Contradictions(list) : {r.a, r.b} = {a, b} /\ r.kind # "superseded"}

LEMMA DisputeIsOneRow ==
  ASSUME NEW list, NEW i \in Places(list), NEW j \in Places(list), list[i].name # list[j].name,
         Named(list, list[i].name) = {i}, Named(list, list[j].name) = {j}, Contradicts(list, i, j)
  PROVE  \E row : /\ RowsOn(list, list[i].name, list[j].name) = {row}
                  /\ row.kind = IF Contradicts(list, j, i) THEN "declared" ELSE "one-sided"
<1> DEFINE a == list[i].name
           b == list[j].name
           mutual == Contradicts(list, j, i)
<1>1. i \in Int /\ j \in Int /\ i # j
  BY DEF Places
<1>2. LastNamed(list, a) = {i} /\ LastNamed(list, b) = {j}
  BY <1>1 DEF LastNamed
<1>3. (Back(list, i, b) <=> mutual) /\ Back(list, j, a)
  BY <1>2 DEF Back
<1>4. \A k \in Places(list) : (list[k].name = a <=> k = i) /\ (list[k].name = b <=> k = j)
  BY DEF Named
<1>5. a # b /\ b \in list[i].cites["contradicts"] /\ (mutual <=> a \in list[j].cites["contradicts"])
  BY DEF Contradicts
<1>6. mutual => (AlreadySeen(list, i, b) <=> j < i) /\ (AlreadySeen(list, j, a) <=> i < j)
  <2> SUFFICES ASSUME mutual PROVE (AlreadySeen(list, i, b) <=> j < i) /\ (AlreadySeen(list, j, a) <=> i < j)
    OBVIOUS
  <2>1. \A k, m : k \in 1 .. (m - 1) /\ m \in Places(list) => k \in Places(list) /\ k < m
    BY DEF Places
  <2>2. ASSUME AlreadySeen(list, i, b) PROVE j < i
    <3>1. PICK k \in 1 .. (i - 1) : list[k].name = b \/ list[k].name = a
      BY <2>2 DEF AlreadySeen
    <3> QED
      BY <1>1, <1>4, <2>1, <3>1
  <2>3. ASSUME AlreadySeen(list, j, a) PROVE i < j
    <3>1. PICK k \in 1 .. (j - 1) : list[k].name = b \/ list[k].name = a
      BY <2>3 DEF AlreadySeen
    <3> QED
      BY <1>1, <1>4, <2>1, <3>1
  <2>4. ASSUME j < i PROVE AlreadySeen(list, i, b)
    <3>1. j \in 1 .. (i - 1)
      BY <1>1, <2>4 DEF Places
    <3> QED
      BY <1>3, <3>1 DEF AlreadySeen
  <2>5. ASSUME i < j PROVE AlreadySeen(list, j, a)
    <3>1. i \in 1 .. (j - 1)
      BY <1>1, <2>5 DEF Places
    <3> QED
      BY <1>3, <3>1 DEF AlreadySeen
  <2> QED
    BY <2>2, <2>3, <2>4, <2>5
<1>7. \A kind, x, y : Row(kind, x, y).a = x /\ Row(kind, x, y).b = y /\ Row(kind, x, y).kind = kind
  BY DEF Row
<1> DEFINE row == IF ~ mutual THEN Row("one-sided", a, b)
                  ELSE IF i < j THEN Row("declared", a, b) ELSE Row("declared", b, a)
<1>8. row \in RowsOn(list, a, b)
  <2>1. CASE ~ mutual
    <3>1. Quarrel(list, i, b, row)
      BY <1>3, <1>5, <2>1 DEF Quarrel
    <3> QED
      BY <1>7, <2>1, <3>1, QuarrelsAreRows DEF RowsOn
  <2>2. CASE mutual /\ i < j
    <3>1. Quarrel(list, i, b, row)
      BY <1>1, <1>3, <1>5, <1>6, <2>2 DEF Quarrel
    <3> QED
      BY <1>7, <2>2, <3>1, QuarrelsAreRows DEF RowsOn
  <2>3. CASE mutual /\ ~ (i < j)
    <3>1. Quarrel(list, j, a, row)
      BY <1>1, <1>3, <1>5, <1>6, <2>3 DEF Quarrel
    <3> QED
      BY <1>7, <2>3, <3>1, QuarrelsAreRows DEF RowsOn
  <2> QED
    BY <2>1, <2>2, <2>3
<1>9. ASSUME NEW r \in RowsOn(list, a, b) PROVE r = row
  <2>1. PICK k, c : Quarrel(list, k, c, r)
    BY QuarrelsAreRows DEF RowsOn
  <2>2. k \in Places(list) /\ r.a = list[k].name /\ r.b = c /\ {r.a, r.b} = {a, b}
    BY <1>7, <2>1 DEF Quarrel, RowsOn
  <2>3. (k = i /\ c = b) \/ (k = j /\ c = a)
    BY <1>4, <1>5, <2>2
  <2> QED
    BY <1>1, <1>3, <1>5, <1>6, <2>1, <2>3 DEF Quarrel
<1>10. row.kind = IF mutual THEN "declared" ELSE "one-sided"
  BY <1>7
<1> QED
  BY <1>8, <1>9, <1>10
-----------------------------------------------------------------------------
(* What is above what. *)

\* Sorting puts a note above those that score less, and leaves it above those that do not score more.
LEMMA SortKeepsAbove ==
  ASSUME NEW T, NEW names \in Seq(T), NEW score, Scored(names, score), NEW a, NEW b,
         a \in Range(names), score[a] > score[b] \/ (Above(names, a, b) /\ score[a] = score[b])
  PROVE  Above(Sorted(names, score), a, b)
<1> DEFINE n == Len(names)
           sorted == Sorted(names, score)
<1>1. PICK at : SortedBy(names, score, at)
  BY SortedIsBest
<1>2. n \in Nat /\ DOMAIN names = 1 .. n
  OBVIOUS
<1>3. DOMAIN sorted = 1 .. n /\ \A r \in 1 .. n : sorted[r] = names[at[r]]
  BY <1>1 DEF SortedBy
<1>4. \A r \in 1 .. n : at[r] \in 1 .. n
  BY <1>1 DEF SortedBy, Best
<1>5. \A i \in 1 .. n : \E r \in 1 .. n : at[r] = i
  BY <1>1 DEF SortedBy, Best
<1>6. \A r, s \in 1 .. n : r < s =>
        \/ score[names[at[r]]] > score[names[at[s]]]
        \/ score[names[at[r]]] = score[names[at[s]]] /\ at[r] < at[s]
  BY <1>1 DEF SortedBy, Best
<1>7. PICK i \in 1 .. n : /\ names[i] = a
                          /\ score[a] = score[b] => \A j \in 1 .. n : names[j] = b => i < j
  <2>1. CASE score[a] > score[b]
    <3>1. PICK i \in 1 .. n : names[i] = a
      BY <1>2 DEF Range
    <3>2. score[a] \in Int
      BY <3>1 DEF Scored
    <3>3. score[names[i]] = score[a] /\ \A j \in 1 .. n : names[j] = b => score[b] \in Int
      BY <3>1 DEF Scored
    <3>4. \A j \in 1 .. n : names[j] = b => score[a] # score[b]
      BY <2>1, <3>2, <3>3
    <3> QED
      BY <3>1, <3>4
  <2>2. CASE Above(names, a, b) /\ score[a] = score[b]
    BY <1>2, <2>2 DEF Above
  <2> QED
    BY <2>1, <2>2
<1>8. PICK r \in 1 .. n : at[r] = i
  BY <1>5
<1>9. ASSUME NEW s \in 1 .. n, sorted[s] = b PROVE r < s
  <2>1. at[s] \in 1 .. n /\ names[at[s]] = b
    BY <1>3, <1>4, <1>9
  <2>2. score[a] \in Int /\ score[b] \in Int
    BY <1>7, <2>1 DEF Scored
  <2>3. score[a] >= score[b]
    BY <2>2
  <2>4. ~ (s < r)
    <3> SUFFICES ASSUME s < r PROVE FALSE
      OBVIOUS
    <3>1. score[b] > score[a] \/ (score[b] = score[a] /\ at[s] < i)
      BY <1>6, <1>7, <1>8, <2>1
    <3>2. score[b] = score[a] /\ at[s] < i
      BY <2>2, <2>3, <3>1
    <3>3. i < at[s]
      BY <1>7, <2>1, <3>2
    <3> QED
      BY <2>1, <3>2, <3>3
  <2>5. s # r
    <3> SUFFICES ASSUME s = r PROVE FALSE
      OBVIOUS
    <3>1. a = b /\ at[s] = i
      BY <1>7, <1>8, <2>1
    <3>2. score[a] = score[b]
      BY <3>1
    <3>3. i < at[s]
      BY <1>7, <2>1, <3>2
    <3> QED
      BY <2>1, <3>1, <3>3
  <2> QED
    BY <2>4, <2>5
<1>10. sorted[r] = a
  BY <1>3, <1>7, <1>8
<1> HIDE DEF sorted
<1>11. Above(sorted, a, b)
  BY <1>3, <1>9, <1>10 DEF Above
<1> QED
  BY <1>11 DEF sorted

\* A cut keeps what is above what is left.
LEMMA PrefixKeepsAbove ==
  ASSUME NEW T, NEW list \in Seq(T), NEW k \in Nat, NEW a, NEW b,
         Above(list, a, b), b \in Range(Prefix(list, k))
  PROVE  Above(Prefix(list, k), a, b)
<1> DEFINE s == Prefix(list, k)
<1>1. /\ s \in Seq(T)
      /\ \A i \in 1 .. Len(s) : i \in 1 .. Len(list) /\ s[i] = list[i]
      /\ Len(s) <= Len(list)
  BY PrefixIsThere
<1> HIDE DEF s
<1>2. DOMAIN s = 1 .. Len(s) /\ Len(s) \in Nat /\ DOMAIN list = 1 .. Len(list)
  BY <1>1
<1>3. PICK i \in 1 .. Len(list) : list[i] = a /\ \A j \in 1 .. Len(list) : list[j] = b => i < j
  BY <1>2 DEF Above
<1>4. PICK j \in 1 .. Len(s) : s[j] = b
  BY <1>2 DEF Range, s
<1>5. i < j
  BY <1>1, <1>3, <1>4
<1>6. i \in 1 .. Len(s)
  BY <1>2, <1>3, <1>4, <1>5
<1>7. s[i] = a /\ \A l \in 1 .. Len(s) : s[l] = b => i < l
  BY <1>1, <1>3, <1>6
<1>8. Above(s, a, b)
  BY <1>2, <1>6, <1>7 DEF Above
<1> QED
  BY <1>8 DEF s

\* A note above another in each list the other is in is above it among the names met.
LEMMA MetKeepsAbove ==
  ASSUME NEW T, NEW w, NEW items \in Seq(T), NEW u, NEW other \in Seq(T), NEW a, NEW b,
         b \in Range(items) \cup Range(other),
         b \in Range(items) => Above(items, a, b), b \in Range(other) => Above(other, a, b)
  PROVE  Above(Met(Weighted(w, items), Weighted(u, other)), a, b)
<1> DEFINE new == {i \in DOMAIN other : other[i] \notin Range(items)}
           kept == Kept(other, new)
           m == Len(items)
           c == Len(kept)
           met == items \o kept
<1>1. Met(Weighted(w, items), Weighted(u, other)) = met
  BY DEF Met, Weighted
<1>2. /\ new \in SUBSET (1 .. Len(other)) /\ Len(other) \in Nat /\ \A i \in new : other[i] \in T
      /\ m \in Nat /\ DOMAIN items = 1 .. m /\ DOMAIN other = 1 .. Len(other)
  OBVIOUS
<1>3. \A i \in 1 .. Len(other) : i \in new <=> other[i] \notin Range(items)
  OBVIOUS
<1> HIDE DEF new
<1>4. Cardinality(new) \in Nat /\ \E at : KeptFrom(other, new, at)
  BY <1>2, KeptInOrder
<1>5. PICK at : KeptFrom(other, new, at)
  BY <1>4
<1>6. /\ \A i \in 1 .. Cardinality(new) : at[i] \in new
      /\ \A p \in new : \E i \in 1 .. Cardinality(new) : at[i] = p
      /\ \A i, j \in 1 .. Cardinality(new) : at[i] < at[j] => i < j
      /\ kept = [i \in 1 .. Cardinality(new) |-> other[at[i]]]
  BY <1>5 DEF KeptFrom
<1>7. kept \in Seq(T) /\ c = Cardinality(new) /\ \A i \in 1 .. c : kept[i] = other[at[i]]
  <2> DEFINE N == Cardinality(new)
             f == [i \in 1 .. N |-> other[at[i]]]
  <2>1. N \in Nat /\ kept = f /\ \A i \in 1 .. N : other[at[i]] \in T
    BY <1>2, <1>4, <1>6
  <2> HIDE DEF N
  <2>2. f \in Seq(T) /\ Len(f) = N
    BY <2>1
  <2> QED
    BY <2>1, <2>2 DEF N
<1> HIDE DEF kept
<1>8. /\ c \in Nat /\ DOMAIN met = 1 .. m + c
      /\ \A i \in 1 .. m : met[i] = items[i]
      /\ \A i \in 1 .. c : met[m + i] = kept[i]
      /\ \A i \in 1 .. m + c : ~ (i <= m) => i - m \in 1 .. c /\ met[i] = kept[i - m]
  <2>1. c \in Nat /\ items \in Seq(T) /\ kept \in Seq(T)
    BY <1>7
  <2>2. Len(met) = m + c /\ DOMAIN met = 1 .. m + c
    BY <2>1
  <2>3. \A i \in 1 .. m + c : met[i] = IF i <= m THEN items[i] ELSE kept[i - m]
    BY <2>1
  <2> HIDE DEF met, c
  <2>4. \A i \in 1 .. m : i \in 1 .. m + c /\ i <= m
    BY <1>2, <2>1
  <2>5. ASSUME NEW i \in 1 .. c PROVE met[m + i] = kept[i]
    <3>1. m + i \in 1 .. m + c /\ ~ (m + i <= m) /\ (m + i) - m = i
      BY <1>2, <2>1
    <3> QED
      BY <2>3, <3>1
  <2>6. \A i \in 1 .. m + c : ~ (i <= m) => i - m \in 1 .. c
    BY <1>2, <2>1
  <2> QED
    BY <2>1, <2>2, <2>3, <2>4, <2>5, <2>6
<1> HIDE DEF met
<1> SUFFICES Above(met, a, b)
  BY <1>1
<1>9. CASE b \in Range(items)
  <2>1. PICK i \in 1 .. m : items[i] = a /\ \A j \in 1 .. m : items[j] = b => i < j
    BY <1>2, <1>9 DEF Above
  <2>2. i \in 1 .. m + c /\ met[i] = a
    BY <1>2, <1>8, <2>1
  <2>3. ASSUME NEW j \in 1 .. m + c, met[j] = b PROVE i < j
    BY <1>2, <1>8, <2>1, <2>3
  <2> QED
    BY <1>8, <2>2, <2>3 DEF Above
<1>10. CASE b \notin Range(items)
  <2>1. PICK i \in 1 .. Len(other) : other[i] = a /\ \A j \in 1 .. Len(other) : other[j] = b => i < j
    BY <1>2, <1>10 DEF Above
  <2>2. ASSUME NEW j \in 1 .. m + c, met[j] = b
        PROVE  /\ j - m \in 1 .. c /\ m < j
               /\ at[j - m] \in 1 .. Len(other) /\ i < at[j - m]
    <3>1. ~ (j <= m)
      <4> SUFFICES ASSUME j <= m PROVE FALSE
        OBVIOUS
      <4>1. j \in 1 .. m /\ items[j] = b
        BY <1>2, <1>8, <2>2
      <4> QED
        BY <1>2, <1>10, <4>1 DEF Range
    <3>2. j - m \in 1 .. c /\ kept[j - m] = b
      BY <1>8, <2>2, <3>1
    <3>3. at[j - m] \in new /\ other[at[j - m]] = b
      BY <1>6, <1>7, <3>2
    <3>4. at[j - m] \in 1 .. Len(other)
      BY <1>2, <3>3
    <3>5. i < at[j - m]
      BY <2>1, <3>3, <3>4
    <3>6. m < j
      BY <1>2, <1>8, <3>1
    <3> QED
      BY <3>2, <3>4, <3>5, <3>6
  <2>3. CASE a \in Range(items)
    <3>1. PICK l \in 1 .. m : items[l] = a
      BY <1>2, <2>3 DEF Range
    <3>2. l \in 1 .. m + c /\ met[l] = a
      BY <1>2, <1>8, <3>1
    <3>3. \A j \in 1 .. m + c : met[j] = b => l < j
      BY <1>2, <2>2, <3>1
    <3> QED
      BY <1>8, <3>2, <3>3 DEF Above
  <2>4. CASE a \notin Range(items)
    <3>1. i \in new
      BY <1>3, <2>1, <2>4
    <3>2. PICK l \in 1 .. c : at[l] = i
      BY <1>6, <1>7, <3>1
    <3>3. m + l \in 1 .. m + c /\ met[m + l] = a
      <4>1. met[m + l] = kept[l] /\ kept[l] = other[at[l]]
        BY <1>7, <1>8, <3>2
      <4>2. m + l \in 1 .. m + c
        BY <1>2, <1>8
      <4> QED
        BY <2>1, <3>2, <4>1, <4>2
    <3>4. ASSUME NEW j \in 1 .. m + c, met[j] = b PROVE m + l < j
      <4>1. j - m \in 1 .. c /\ at[l] < at[j - m]
        BY <2>2, <3>2, <3>4
      <4>2. l < j - m
        BY <1>6, <1>7, <4>1
      <4> QED
        BY <1>2, <1>8, <4>2
    <3> QED
      BY <1>8, <3>3, <3>4 DEF Above
  <2> QED
    BY <2>3, <2>4
<1> QED
  BY <1>9, <1>10
-----------------------------------------------------------------------------
(* What a place is worth. *)

\* Nothing is twice in a list.
NoRepeats(list) == \A i, j \in 1 .. Len(list) : list[i] = list[j] => i = j

LEMMA OrdersDoNotRepeat ==
  ASSUME NEW S, IsFiniteSet(S), NEW s \in Orders(S)
  PROVE  Len(s) = Cardinality(S) /\ NoRepeats(s) /\ Range(s) = S
<1> DEFINE n == Cardinality(S)
<1>1. n \in Nat
  BY FS_CardinalityType
<1>2. s \in [1 .. n -> S] /\ Range(s) = S
  BY DEF Orders
<1>3. IsFiniteSet(1 .. n) /\ Cardinality(1 .. n) = n
  BY <1>1, CountTo
<1>4. s \in Surjection(1 .. n, S)
  BY <1>2 DEF Range, Surjection
<1>5. Cardinality(S) = n
  OBVIOUS
<1> HIDE DEF n
<1>6. s \in Injection(1 .. n, S)
  BY <1>3, <1>4, <1>5, FS_Surjection
<1>7. Len(s) = n
  BY <1>1, <1>2
<1> QED
  BY <1>2, <1>5, <1>6, <1>7 DEF Injection, IsInjective, NoRepeats

\* Nor in a part of it, in what is met of two, or in what is sorted.
LEMMA PrefixDoesNotRepeat ==
  ASSUME NEW T, NEW list \in Seq(T), NoRepeats(list), NEW k \in Nat
  PROVE  NoRepeats(Prefix(list, k))
BY PrefixIsThere DEF NoRepeats

LEMMA KeptDoesNotRepeat ==
  ASSUME NEW T, NEW list \in Seq(T), NoRepeats(list), NEW places \in SUBSET (1 .. Len(list))
  PROVE  NoRepeats(Kept(list, places))
<1> DEFINE N == Cardinality(places)
<1>0. Len(list) \in Nat
  OBVIOUS
<1>1. N \in Nat /\ \E at : KeptFrom(list, places, at)
  BY <1>0, KeptInOrder
<1>2. PICK at : KeptFrom(list, places, at)
  BY <1>1
<1>3. /\ at \in [1 .. N -> places]
      /\ \A p \in places : \E i \in 1 .. N : at[i] = p
      /\ Kept(list, places) = [i \in 1 .. N |-> list[at[i]]]
  BY <1>2 DEF KeptFrom
<1>4. IsFiniteSet(places)
  <2>1. IsFiniteSet(1 .. Len(list))
    BY <1>0, CountTo
  <2> QED
    BY <2>1, FS_Subset
<1>5. IsFiniteSet(1 .. N) /\ Cardinality(1 .. N) = Cardinality(places)
  BY <1>1, CountTo
<1>6. at \in Surjection(1 .. N, places)
  BY <1>3 DEF Surjection
<1> HIDE DEF N
<1>7. at \in Injection(1 .. N, places)
  BY <1>4, <1>5, <1>6, FS_Surjection
<1>8. \A i, j \in 1 .. N : at[i] = at[j] => i = j
  BY <1>7 DEF Injection, IsInjective
<1>9. Len(Kept(list, places)) = N /\ \A i \in 1 .. N : Kept(list, places)[i] = list[at[i]] /\ at[i] \in 1 .. Len(list)
  <2>1. \A i \in 1 .. N : at[i] \in 1 .. Len(list)
    BY <1>3
  <2> DEFINE kept == [i \in 1 .. N |-> list[at[i]]]
  <2>2. Len(kept) = N /\ \A i \in 1 .. N : kept[i] = list[at[i]]
    BY <1>1
  <2> HIDE DEF kept
  <2>3. Kept(list, places) = kept
    BY <1>3 DEF kept
  <2> QED
    BY <2>1, <2>2, <2>3
<1> QED
  BY <1>8, <1>9 DEF NoRepeats

LEMMA MetDoesNotRepeat ==
  ASSUME NEW T, NEW w, NEW items \in Seq(T), NoRepeats(items), NEW u, NEW other \in Seq(T), NoRepeats(other)
  PROVE  NoRepeats(Met(Weighted(w, items), Weighted(u, other)))
<1> DEFINE new == {i \in DOMAIN other : other[i] \notin Range(items)}
           kept == Kept(other, new)
           U == {other[i] : i \in new}
           met == items \o kept
<1>1. Met(Weighted(w, items), Weighted(u, other)) = met
  BY DEF Met, Weighted
<1>2. new \in SUBSET (1 .. Len(other)) /\ Len(other) \in Nat /\ U \subseteq T /\ U \cap Range(items) = {}
  OBVIOUS
<1> HIDE DEF new
<1>3. kept \in Seq(U) /\ NoRepeats(kept)
  BY <1>2, KeptIsThere, KeptDoesNotRepeat
<1> HIDE DEF kept, U
<1>4. kept \in Seq(T)
  BY <1>2, <1>3
<1>5. /\ Len(items) \in Nat /\ Len(kept) \in Nat /\ Len(met) = Len(items) + Len(kept)
      /\ \A i \in 1 .. Len(items) + Len(kept) :
           met[i] = IF i <= Len(items) THEN items[i] ELSE kept[i - Len(items)]
  BY <1>4
<1> HIDE DEF met
<1>6. \A i \in 1 .. Len(items) : items[i] \in Range(items)
  BY DEF Range
<1>7. \A i \in 1 .. Len(kept) : kept[i] \notin Range(items)
  <2>1. \A i \in 1 .. Len(kept) : kept[i] \in U
    BY <1>3
  <2> QED
    BY <1>2, <2>1
<1>8. ASSUME NEW i \in 1 .. Len(met), NEW j \in 1 .. Len(met), met[i] = met[j] PROVE i = j
  <2>1. \A x \in 1 .. Len(met) : x \in 1 .. Len(items) \/ (x - Len(items) \in 1 .. Len(kept) /\ ~ (x <= Len(items)))
    BY <1>5
  <2>2. CASE i \in 1 .. Len(items) /\ j \in 1 .. Len(items)
    BY <1>5, <1>8, <2>2 DEF NoRepeats
  <2>3. CASE i \in 1 .. Len(items) /\ j \notin 1 .. Len(items)
    <3>1. met[i] = items[i] /\ met[j] = kept[j - Len(items)] /\ j - Len(items) \in 1 .. Len(kept)
      BY <1>5, <2>1, <2>3
    <3> QED
      BY <1>6, <1>7, <1>8, <2>3, <3>1
  <2>4. CASE i \notin 1 .. Len(items) /\ j \in 1 .. Len(items)
    <3>1. met[j] = items[j] /\ met[i] = kept[i - Len(items)] /\ i - Len(items) \in 1 .. Len(kept)
      BY <1>5, <2>1, <2>4
    <3> QED
      BY <1>6, <1>7, <1>8, <2>4, <3>1
  <2>5. CASE i \notin 1 .. Len(items) /\ j \notin 1 .. Len(items)
    <3>1. /\ met[i] = kept[i - Len(items)] /\ i - Len(items) \in 1 .. Len(kept)
          /\ met[j] = kept[j - Len(items)] /\ j - Len(items) \in 1 .. Len(kept)
      BY <1>5, <2>1, <2>5
    <3>2. i - Len(items) = j - Len(items)
      BY <1>3, <1>8, <3>1 DEF NoRepeats
    <3> QED
      BY <1>5, <3>2
  <2> QED
    BY <2>2, <2>3, <2>4, <2>5
<1>9. NoRepeats(met)
  BY <1>8 DEF NoRepeats
<1> QED
  BY <1>1, <1>9

\* What is sorted has nothing twice, and the best first.
LEMMA SortedFalls ==
  ASSUME NEW T, NEW names \in Seq(T), NoRepeats(names), NEW score, Scored(names, score)
  PROVE  /\ NoRepeats(Sorted(names, score))
         /\ \A r, s \in 1 .. Len(names) : r < s => score[Sorted(names, score)[r]] >= score[Sorted(names, score)[s]]
<1> DEFINE n == Len(names)
           sorted == Sorted(names, score)
<1>1. PICK at : SortedBy(names, score, at)
  BY SortedIsBest
<1>2. n \in Nat /\ Len(sorted) = n
  BY SortedIsThere
<1>3. \A r \in 1 .. n : sorted[r] = names[at[r]] /\ at[r] \in 1 .. n
  BY <1>1 DEF SortedBy, Best
<1>4. \A r, s \in 1 .. n : r < s =>
        \/ score[names[at[r]]] > score[names[at[s]]]
        \/ score[names[at[r]]] = score[names[at[s]]] /\ at[r] < at[s]
  BY <1>1 DEF SortedBy, Best
<1>5. \A r \in 1 .. n : score[names[at[r]]] \in Int
  BY <1>3 DEF Scored
<1> HIDE DEF sorted
<1>6. \A r, s \in 1 .. n : r < s => score[sorted[r]] >= score[sorted[s]] /\ at[r] # at[s]
  BY <1>3, <1>4, <1>5
<1>7. \A r, s \in 1 .. n : at[r] = at[s] => r = s
  BY <1>2, <1>6
<1>8. \A r, s \in 1 .. n : sorted[r] = sorted[s] => r = s
  BY <1>3, <1>7 DEF NoRepeats
<1>9. NoRepeats(sorted)
  BY <1>2, <1>8 DEF NoRepeats
<1> QED
  BY <1>6, <1>9 DEF sorted

Part(i) == Denominator \div (RrfK + i)

LEMMA PartsFall ==
  ASSUME NEW i \in Nat \ {0}, NEW j \in Nat, i <= j
  PROVE  Part(i) \in Nat /\ Part(j) \in Nat /\ Part(j) <= Part(i)
<1>1. RrfK + i \in Nat \ {0} /\ RrfK + j \in Nat \ {0} /\ RrfK + i <= RrfK + j
  BY BoundsAssumption
<1>2. \A d \in Nat, x \in Nat \ {0} : d \div x \in Nat /\ x * (d \div x) <= d /\ d < x * (d \div x + 1)
  OBVIOUS
<1>3. ASSUME NEW d \in Nat, NEW x \in Nat \ {0}, NEW y \in Nat \ {0}, x <= y,
             NEW p \in Nat, NEW q \in Nat, d < x * (p + 1), y * q <= d
      PROVE  q <= p
  <2> SUFFICES ASSUME p + 1 <= q PROVE FALSE
    OBVIOUS
  <2>1. x * (p + 1) <= x * q
    BY SMT
  <2>2. x * q <= y * q
    BY <1>3
  <2> QED
    BY <1>3, <2>1, <2>2
<1>4. Denominator \in Nat
  BY DenominatorIsNat
<1>5. /\ Part(i) \in Nat /\ Denominator < (RrfK + i) * (Part(i) + 1)
      /\ Part(j) \in Nat /\ (RrfK + j) * Part(j) <= Denominator
  BY <1>1, <1>2, <1>4 DEF Part
<1> QED
  BY <1>1, <1>3, <1>4, <1>5

\* The common denominator is one of every place.
LEMMA PartIsExact ==
  ASSUME NEW i \in 1 .. Longest
  PROVE  Part(i) \in Nat /\ (RrfK + i) * Part(i) = Denominator
<1> DEFINE f == CHOOSE f : IsProduct(f, Longest)
           S == {d \in Nat : d \in 0 .. Longest => f[d] \in Nat /\ (i <= d => \E c \in Nat : f[d] = (RrfK + i) * c)}
<1>1. Denominator = f[Longest]
  BY DEF Denominator, IsProduct
<1>2. IsProduct(f, Longest)
  BY ProductExists, BoundsAssumption
<1> HIDE DEF f
<1>3. \A d \in 0 .. Longest : f[d] = IF d = 0 THEN 1 ELSE (RrfK + d) * f[d - 1]
  BY <1>2 DEF IsProduct
<1>4. 0 \in S
  BY <1>3
<1>5. ASSUME NEW d \in Nat, d \in S PROVE d + 1 \in S
  <2> SUFFICES ASSUME d + 1 \in 0 .. Longest
               PROVE  f[d + 1] \in Nat /\ (i <= d + 1 => \E c \in Nat : f[d + 1] = (RrfK + i) * c)
    OBVIOUS
  <2> DEFINE x == RrfK + (d + 1)
  <2>1. f[d] \in Nat /\ (d + 1) - 1 = d /\ (i <= d => \E c \in Nat : f[d] = (RrfK + i) * c)
    BY <1>5, BoundsAssumption
  <2>2. f[d + 1] = x * f[d]
    BY <1>3, <2>1
  <2>3. x \in Nat /\ RrfK + i \in Nat
    BY BoundsAssumption
  <2>4. \A y, z \in Nat : y * z \in Nat
    OBVIOUS
  <2>5. CASE i = d + 1
    BY <2>1, <2>2, <2>3, <2>4, <2>5
  <2>6. CASE i <= d
    <3>1. PICK c \in Nat : f[d] = (RrfK + i) * c
      BY <2>1, <2>6
    <3>2. \A u, v, w \in Nat : u * (v * w) = v * (u * w)
      OBVIOUS
    <3> HIDE DEF x
    <3>3. f[d + 1] = (RrfK + i) * (x * c)
      BY <2>2, <2>3, <3>1, <3>2
    <3>4. x * c \in Nat
      BY <2>3, <2>4
    <3> QED
      BY <2>1, <2>2, <2>3, <2>4, <3>3, <3>4
  <2>7. CASE ~ (i <= d + 1)
    BY <2>1, <2>2, <2>3, <2>4, <2>7
  <2> QED
    BY <2>5, <2>6, <2>7
<1> HIDE DEF S
<1>6. Nat \subseteq S
  BY <1>4, <1>5, AllNumbers
<1>7. PICK c \in Nat : Denominator = (RrfK + i) * c
  BY <1>1, <1>6, BoundsAssumption DEF S
<1>8. \A x \in Nat \ {0}, y \in Nat : (x * y) \div x = y
  OBVIOUS
<1>9. Part(i) = c
  BY <1>7, <1>8, BoundsAssumption DEF Part
<1> QED
  BY <1>7, <1>9

LEMMA ShareIsPart ==
  ASSUME NEW T, NEW w \in Nat, NEW items \in Seq(T), NoRepeats(items), NEW i \in 1 .. Len(items)
  PROVE  Share(Weighted(w, items), items[i]) = w * Part(i)
<1> DEFINE list == Weighted(w, items)
           at == CHOOSE j \in DOMAIN list.items : list.items[j] = items[i]
<1>1. list.weight = w /\ list.items = items /\ DOMAIN items = 1 .. Len(items)
  BY DEF Weighted
<1>2. items[i] \in Range(items)
  BY <1>1 DEF Range
<1>3. at \in 1 .. Len(items) /\ items[at] = items[i]
  BY <1>1
<1> HIDE DEF list
<1>4. Share(list, items[i]) = w * (Denominator \div (RrfK + at))
  BY <1>1, <1>2 DEF Share
<1> HIDE DEF at
<1>5. at = i
  BY <1>3 DEF NoRepeats
<1> QED
  BY <1>4, <1>5 DEF Part, list

\* No share is more than that of the first place.
LEMMA ShareIsUnderFirst ==
  ASSUME NEW T, NEW w \in Nat, NEW items \in Seq(T), NoRepeats(items), NEW name
  PROVE  /\ Share(Weighted(w, items), name) \in Nat
         /\ Share(Weighted(w, items), name) <= w * Part(1)
         /\ name \notin Range(items) => Share(Weighted(w, items), name) = 0
<1>1. DOMAIN items = 1 .. Len(items) /\ Len(items) \in Nat
  OBVIOUS
<1>2. \A x, y \in Nat : x * y \in Nat
  OBVIOUS
<1>3. \A x, y, z \in Nat : x <= y => z * x <= z * y
  OBVIOUS
<1>4. CASE name \in Range(items)
  <2>1. PICK i \in 1 .. Len(items) : items[i] = name
    BY <1>1, <1>4 DEF Range
  <2>2. i \in Nat /\ 1 \in Nat \ {0} /\ 1 <= i
    BY <2>1
  <2>3. Share(Weighted(w, items), name) = w * Part(i) /\ Part(i) \in Nat /\ Part(1) \in Nat /\ Part(i) <= Part(1)
    BY <2>1, <2>2, ShareIsPart, PartsFall
  <2> QED
    BY <1>2, <1>3, <1>4, <2>3
<1>5. CASE name \notin Range(items)
  <2>1. Share(Weighted(w, items), name) = 0
    BY <1>5 DEF Share, Weighted
  <2>2. 1 \in Nat \ {0} /\ 1 \in Nat /\ 1 <= 1
    OBVIOUS
  <2>3. Part(1) \in Nat
    BY <2>2, PartsFall
  <2> QED
    BY <1>2, <2>1, <2>3
<1> QED
  BY <1>4, <1>5

\* What is above another in a list has no smaller share of it.
LEMMA ShareFalls ==
  ASSUME NEW T, NEW w \in Nat, NEW items \in Seq(T), NoRepeats(items), NEW a, NEW b,
         b \in Range(items) => Above(items, a, b)
  PROVE  /\ Share(Weighted(w, items), a) \in Nat /\ Share(Weighted(w, items), b) \in Nat
         /\ Share(Weighted(w, items), a) >= Share(Weighted(w, items), b)
<1> DEFINE share(name) == Share(Weighted(w, items), name)
<1>1. DOMAIN items = 1 .. Len(items) /\ Len(items) \in Nat
  OBVIOUS
<1>3. ASSUME NEW name PROVE share(name) \in Nat /\ (name \notin Range(items) => share(name) = 0)
  BY ShareIsUnderFirst
<1>4. CASE b \in Range(items)
  <2>1. PICK i \in 1 .. Len(items) : items[i] = a /\ \A j \in 1 .. Len(items) : items[j] = b => i < j
    BY <1>1, <1>4 DEF Above
  <2>2. PICK j \in 1 .. Len(items) : items[j] = b
    BY <1>1, <1>4 DEF Range
  <2>3. i \in Nat \ {0} /\ j \in Nat /\ i <= j
    BY <2>1, <2>2
  <2>4. Part(i) \in Nat /\ Part(j) \in Nat /\ Part(j) <= Part(i)
    BY <2>3, PartsFall
  <2>5. share(a) = w * Part(i) /\ share(b) = w * Part(j)
    BY <2>1, <2>2, ShareIsPart
  <2>6. \A x, y, z \in Nat : x <= y => z * x <= z * y
    OBVIOUS
  <2>7. w * Part(j) <= w * Part(i)
    BY <2>4, <2>6
  <2> HIDE DEF share
  <2> QED
    BY <1>3, <2>5, <2>7 DEF share
<1>5. CASE b \notin Range(items)
  BY <1>3, <1>5
<1> QED
  BY <1>4, <1>5
-----------------------------------------------------------------------------
(* What a ranker puts above what. *)

\* The names met are those of the two lists.
LEMMA MetNames ==
  ASSUME NEW T, NEW w, NEW items \in Seq(T), NEW u, NEW other \in Seq(T)
  PROVE  Range(Met(Weighted(w, items), Weighted(u, other))) = Range(items) \cup Range(other)
<1> DEFINE new == {i \in DOMAIN other : other[i] \notin Range(items)}
           kept == Kept(other, new)
           U == {other[i] : i \in new}
           met == items \o kept
<1>1. Met(Weighted(w, items), Weighted(u, other)) = met
  BY DEF Met, Weighted
<1>2. new \in SUBSET (1 .. Len(other)) /\ Len(other) \in Nat /\ U \subseteq T
  OBVIOUS
<1>3. U = Range(other) \ Range(items)
  BY DEF Range
<1> HIDE DEF new
<1>4. kept \in Seq(U) /\ Range(kept) = U
  BY <1>2, KeptIsThere
<1> HIDE DEF kept, U
<1>5. kept \in Seq(T)
  BY <1>2, <1>4
<1>6. Range(met) = Range(items) \cup Range(kept)
  <2>1. /\ DOMAIN met = 1 .. Len(items) + Len(kept) /\ Len(items) \in Nat /\ Len(kept) \in Nat
        /\ DOMAIN items = 1 .. Len(items) /\ DOMAIN kept = 1 .. Len(kept)
    BY <1>5
  <2>2. \A i \in 1 .. Len(items) + Len(kept) :
          met[i] = IF i <= Len(items) THEN items[i] ELSE kept[i - Len(items)]
    BY <1>5
  <2> HIDE DEF met
  <2>3. \A i \in 1 .. Len(items) : i \in 1 .. Len(items) + Len(kept) /\ met[i] = items[i]
    BY <2>1, <2>2
  <2>4. ASSUME NEW i \in 1 .. Len(kept) PROVE \E j \in 1 .. Len(items) + Len(kept) : met[j] = kept[i]
    <3> DEFINE j == Len(items) + i
    <3>1. j \in 1 .. Len(items) + Len(kept) /\ ~ (j <= Len(items)) /\ j - Len(items) = i
      BY <2>1
    <3> HIDE DEF j
    <3> QED
      BY <2>2, <3>1
  <2>5. ASSUME NEW i \in 1 .. Len(items) + Len(kept)
        PROVE  (i \in 1 .. Len(items) /\ met[i] = items[i])
               \/ (i - Len(items) \in 1 .. Len(kept) /\ met[i] = kept[i - Len(items)])
    BY <2>1, <2>2
  <2>6. Range(met) = {met[i] : i \in 1 .. Len(items) + Len(kept)}
    BY <2>1 DEF Range
  <2>7. Range(items) = {items[i] : i \in 1 .. Len(items)} /\ Range(kept) = {kept[i] : i \in 1 .. Len(kept)}
    BY <2>1 DEF Range
  <2>8. Range(met) \subseteq Range(items) \cup Range(kept)
    BY <2>5, <2>6, <2>7
  <2>9. Range(items) \cup Range(kept) \subseteq Range(met)
    BY <2>3, <2>4, <2>6, <2>7
  <2> QED
    BY <2>8, <2>9
<1> HIDE DEF met
<1> QED
  BY <1>1, <1>3, <1>4, <1>6

\* One hit is above another and scores no less.
Leads(hits, a, b) == Above(hits.order, a, b) /\ hits.score[a] >= hits.score[b]

LEMMA RankingLeads ==
  ASSUME NEW T, NEW names \in Seq(T), NEW score, Scored(names, score), NEW a, NEW b,
         Above(names, a, b), b \in Range(names), score[a] >= score[b]
  PROVE  Leads(Hits(names, score), a, b)
<1>1. a \in Range(names) /\ \E i, j \in 1 .. Len(names) : names[i] = a /\ names[j] = b
  BY DEF Above, Range
<1>2. score[a] \in Int /\ score[b] \in Int
  BY <1>1 DEF Scored
<1>3. score[a] > score[b] \/ score[a] = score[b]
  BY <1>2
<1>4. Above(Sorted(names, score), a, b)
  BY <1>1, <1>3, SortKeepsAbove
<1> QED
  BY <1>4 DEF Leads, Hits

\* A ranker with scores of its own does not give less to what is higher in its list.
LEMMA OwnScoresFall ==
  ASSUME NEW T, NEW list \in Seq(T), NEW own \in OwnScores(list),
         NEW i \in 1 .. Len(list), NEW j \in 1 .. Len(list), i <= j
  PROVE  own[i] \in Int /\ own[j] \in Int /\ own[i] >= own[j]
<1> DEFINE n == Len(list)
           S == {d \in Nat : i + d \in 1 .. n => own[i] >= own[i + d]}
<1>1. n \in Nat /\ DOMAIN list = 1 .. n
  OBVIOUS
<1>2. /\ \A l \in 1 .. n : own[l] \in Int
      /\ \A l \in 1 .. (n - 1) : own[l] >= own[l + 1]
  BY <1>1, ScoresAssumption DEF OwnScores
<1>3. 0 \in S
  BY <1>1, <1>2
<1>4. ASSUME NEW d \in Nat, d \in S PROVE d + 1 \in S
  <2> SUFFICES ASSUME i + (d + 1) \in 1 .. n PROVE own[i] >= own[i + (d + 1)]
    OBVIOUS
  <2>1. i + d \in 1 .. n - 1 /\ i + d \in 1 .. n /\ (i + d) + 1 = i + (d + 1)
    BY <1>1
  <2>2. own[i] >= own[i + d] /\ own[i + d] >= own[(i + d) + 1]
    BY <1>2, <1>4, <2>1
  <2>3. own[i] \in Int /\ own[i + d] \in Int /\ own[i + (d + 1)] \in Int
    BY <1>2, <2>1
  <2> QED
    BY <2>1, <2>2, <2>3
<1> HIDE DEF S
<1>5. Nat \subseteq S
  BY <1>3, <1>4, AllNumbers
<1>6. j - i \in Nat /\ i + (j - i) = j
  BY <1>1
<1>7. j - i \in S
  BY <1>5, <1>6
<1>8. own[i] >= own[j]
  BY <1>6, <1>7 DEF S
<1> QED
  BY <1>2, <1>8

LEMMA OwnScoresLead ==
  ASSUME NEW T, NEW list \in Seq(T), NoRepeats(list), NEW own \in OwnScores(list), NEW a, NEW b,
         Above(list, a, b), b \in Range(list)
  PROVE  /\ Leads(ByOwnScore(list, own), a, b)
         /\ (\A i \in DOMAIN own : own[i] >= 0) => ByOwnScore(list, own).score[b] >= 0
<1> DEFINE at(name) == CHOOSE i \in DOMAIN list : list[i] = name
           score == [name \in Range(list) |-> own[at(name)]]
<1>1. ByOwnScore(list, own) = Hits(list, score) /\ Hits(list, score).score = score
  BY DEF ByOwnScore, Hits
<1>2. DOMAIN list = 1 .. Len(list) /\ DOMAIN own = 1 .. Len(list)
  BY DEF OwnScores
<1>3. ASSUME NEW i \in 1 .. Len(list) PROVE score[list[i]] = own[i]
  <2>1. list[i] \in Range(list)
    BY <1>2 DEF Range
  <2>2. at(list[i]) \in 1 .. Len(list) /\ list[at(list[i])] = list[i]
    BY <1>2
  <2>3. score[list[i]] = own[at(list[i])]
    BY <2>1
  <2> HIDE DEF at
  <2>4. at(list[i]) = i
    BY <2>2 DEF NoRepeats
  <2> QED
    BY <2>3, <2>4
<1> HIDE DEF score
<1>4. \A i \in 1 .. Len(list) : own[i] \in Int
  BY OwnScoresFall
<1>5. Scored(list, score)
  BY <1>3, <1>4 DEF Scored
<1>6. PICK i \in 1 .. Len(list) : list[i] = a /\ \A j \in 1 .. Len(list) : list[j] = b => i < j
  BY <1>2 DEF Above
<1>7. PICK j \in 1 .. Len(list) : list[j] = b
  BY <1>2 DEF Range
<1>8. score[a] = own[i] /\ score[b] = own[j]
  BY <1>3, <1>6, <1>7
<1>9. own[i] >= own[j]
  <2>1. i <= j
    BY <1>6, <1>7
  <2> QED
    BY <2>1, OwnScoresFall
<1>10. Leads(Hits(list, score), a, b)
  BY <1>5, <1>8, <1>9, RankingLeads
<1> QED
  BY <1>1, <1>2, <1>8, <1>10

\* What the fused ranker shows, and by what scores.
LEMMA FusedScores ==
  ASSUME NEW T, NEW lexical \in Seq(T), NEW dense \in Seq(T)
  PROVE  /\ Range(FusedOf(lexical, dense).order) = Range(lexical) \cup Range(dense)
         /\ \A name \in Range(lexical) \cup Range(dense) :
              FusedOf(lexical, dense).score[name] = Mass(Weighted(1, lexical), Weighted(2, dense), name)
<1> DEFINE words == Weighted(1, lexical)
           meaning == Weighted(2, dense)
           met == Met(words, meaning)
           score == [name \in Range(met) |-> Mass(words, meaning, name)]
<1>1. FusedOf(lexical, dense) = Hits(met, score)
  BY DEF FusedOf
<1>2. met \in Seq(T) /\ Range(met) = Range(lexical) \cup Range(dense)
  BY MetAreThere, MetNames
<1>3. \A name : Mass(words, meaning, name) \in Int
  BY MassIsInt
<1> HIDE DEF met, words, meaning
<1>4. Scored(met, score)
  <2>1. \A i \in 1 .. Len(met) : met[i] \in Range(met)
    BY <1>2 DEF Range
  <2> QED
    BY <1>3, <2>1 DEF Scored
<1>5. \A name \in Range(met) : score[name] = Mass(words, meaning, name)
  OBVIOUS
<1> HIDE DEF score
<1>6. Range(Sorted(met, score)) = Range(met)
  BY <1>2, <1>4, SortedIsThere
<1> QED
  BY <1>1, <1>2, <1>5, <1>6 DEF Hits, words, meaning

\* In the fused order nothing is twice, and the most is first.
LEMMA FusedFalls ==
  ASSUME NEW T, NEW lexical \in Seq(T), NoRepeats(lexical), NEW dense \in Seq(T), NoRepeats(dense)
  PROVE  LET order == FusedOf(lexical, dense).order
             mass(name) == Mass(Weighted(1, lexical), Weighted(2, dense), name)
         IN /\ NoRepeats(order)
            /\ \A r, s \in 1 .. Len(order) : r < s => mass(order[r]) >= mass(order[s])
<1> DEFINE words == Weighted(1, lexical)
           meaning == Weighted(2, dense)
           met == Met(words, meaning)
           score == [name \in Range(met) |-> Mass(words, meaning, name)]
           order == Sorted(met, score)
<1>1. FusedOf(lexical, dense).order = order
  BY DEF FusedOf, Hits
<1>2. met \in Seq(T) /\ NoRepeats(met)
  BY MetAreThere, MetDoesNotRepeat
<1>3. \A name : Mass(words, meaning, name) \in Int
  BY MassIsInt
<1> HIDE DEF met, words, meaning
<1>4. Scored(met, score)
  <2>1. \A i \in 1 .. Len(met) : met[i] \in Range(met)
    BY <1>2 DEF Range
  <2> QED
    BY <1>3, <2>1 DEF Scored
<1>5. \A name \in Range(met) : score[name] = Mass(words, meaning, name)
  OBVIOUS
<1> HIDE DEF score
<1>6. order \in Seq(T) /\ Len(order) = Len(met) /\ Range(order) = Range(met)
  BY <1>2, <1>4, SortedIsThere
<1>7. NoRepeats(order) /\ \A r, s \in 1 .. Len(met) : r < s => score[order[r]] >= score[order[s]]
  BY <1>2, <1>4, SortedFalls
<1> HIDE DEF order
<1>8. \A r \in 1 .. Len(order) : order[r] \in Range(met)
  <2>1. \A r \in 1 .. Len(order) : order[r] \in Range(order)
    BY <1>6 DEF Range
  <2> QED
    BY <1>6, <2>1
<1>9. \A r, s \in 1 .. Len(order) : r < s => Mass(words, meaning, order[r]) >= Mass(words, meaning, order[s])
  BY <1>5, <1>6, <1>7, <1>8
<1> QED
  BY <1>1, <1>7, <1>9 DEF words, meaning

LEMMA FusedLeads ==
  ASSUME NEW T, NEW lexical \in Seq(T), NoRepeats(lexical), NEW dense \in Seq(T), NoRepeats(dense), NEW a, NEW b,
         b \in Range(lexical) => Above(lexical, a, b), b \in Range(dense) => Above(dense, a, b),
         b \in Range(FusedOf(lexical, dense).order)
  PROVE  Leads(FusedOf(lexical, dense), a, b) /\ FusedOf(lexical, dense).score[b] >= 0
<1> DEFINE words == Weighted(1, lexical)
           meaning == Weighted(2, dense)
           met == Met(words, meaning)
           mass(name) == Mass(words, meaning, name)
           score == [name \in Range(met) |-> mass(name)]
<1>1. FusedOf(lexical, dense) = Hits(met, score)
  BY DEF FusedOf
<1>2. met \in Seq(T)
  BY MetAreThere
<1>3. \A name : mass(name) \in Int
  BY MassIsInt
<1>4. mass(a) >= mass(b) /\ mass(b) >= 0
  <2>1. /\ Share(words, a) \in Nat /\ Share(words, b) \in Nat /\ Share(words, a) >= Share(words, b)
        /\ Share(meaning, a) \in Nat /\ Share(meaning, b) \in Nat /\ Share(meaning, a) >= Share(meaning, b)
    BY ShareFalls
  <2> HIDE DEF words, meaning
  <2> QED
    BY <2>1 DEF Mass
<1>5. Range(met) = Range(lexical) \cup Range(dense)
  BY MetNames
<1>6. b \in Range(lexical) \cup Range(dense) => Above(met, a, b)
  BY MetKeepsAbove
<1> HIDE DEF met, words, meaning, mass
<1>7. Scored(met, score)
  <2>1. \A i \in 1 .. Len(met) : met[i] \in Range(met)
    BY <1>2 DEF Range
  <2> QED
    BY <1>3, <2>1 DEF Scored
<1>8. Hits(met, score).score = score /\ Hits(met, score).order = Sorted(met, score)
  BY DEF Hits
<1>9. b \in Range(met)
  <2> HIDE DEF score
  <2> QED
    BY <1>1, <1>2, <1>7, <1>8, SortedIsThere
<1>10. Above(met, a, b)
  BY <1>5, <1>6, <1>9
<1>11. a \in Range(met)
  BY <1>10 DEF Above, Range
<1>12. score[a] = mass(a) /\ score[b] = mass(b)
  BY <1>9, <1>11
<1> HIDE DEF score
<1>13. Leads(Hits(met, score), a, b)
  BY <1>2, <1>4, <1>7, <1>9, <1>10, <1>12, RankingLeads
<1> QED
  BY <1>1, <1>4, <1>8, <1>12, <1>13

\* A ranker with scores of its own shows what is in its list.
LEMMA OwnHitsAreListed ==
  ASSUME NEW T, NEW list \in Seq(T), NEW own \in OwnScores(list)
  PROVE  Range(ByOwnScore(list, own).order) = Range(list)
<1> DEFINE at(name) == CHOOSE i \in DOMAIN list : list[i] = name
           score == [name \in Range(list) |-> own[at(name)]]
<1>1. ByOwnScore(list, own) = Hits(list, score) /\ Hits(list, score).order = Sorted(list, score)
  BY DEF ByOwnScore, Hits
<1>2. \A name \in Range(list) : at(name) \in DOMAIN list
  BY DEF Range
<1>3. own \in [DOMAIN list -> Scores]
  BY DEF OwnScores
<1> HIDE DEF at
<1>4. \A i \in 1 .. Len(list) : list[i] \in Range(list) /\ score[list[i]] \in Int
  <2>1. \A i \in 1 .. Len(list) : list[i] \in Range(list)
    BY DEF Range
  <2> QED
    BY <1>2, <1>3, <2>1, ScoresAssumption
<1> HIDE DEF score
<1>5. Scored(list, score)
  BY <1>4 DEF Scored
<1> QED
  BY <1>1, <1>5, SortedIsThere

\* What a hit scores once it is weighed.
Weighed(list, hits, name) == hits.score[name] * Weight(StatusOf(list, name))

\* The hits are sorted by that, and cut.
LEMMA DemotionSortsAgain ==
  ASSUME NEW S, NEW list, NEW hits, HitsOf(hits, S), NEW k \in Nat, NEW a, NEW b,
         a \in Range(hits.order), b \in Range(Reordered(list, hits, k)),
         \/ Weighed(list, hits, a) > Weighed(list, hits, b)
         \/ Above(hits.order, a, b) /\ Weighed(list, hits, a) = Weighed(list, hits, b)
  PROVE  b \in Range(hits.order) /\ Above(Reordered(list, hits, k), a, b)
<1> DEFINE weight(name) == Weight(StatusOf(list, name))
           scaled == [name \in DOMAIN hits.score |-> hits.score[name] * weight(name)]
           sorted == Sorted(hits.order, scaled)
<1>1. \A name : weight(name) \in Nat
  BY DEF Weight
<1>2. Reordered(list, hits, k) = Prefix(sorted, k)
  BY DEF Reordered
<1>3. \A name : Weighed(list, hits, name) = hits.score[name] * weight(name)
  BY DEF Weighed
<1> HIDE DEF weight
<1>4. hits.order \in Seq(S) /\ DOMAIN hits.order = 1 .. Len(hits.order)
  BY DEF HitsOf
<1>5. \A i \in 1 .. Len(hits.order) :
         /\ hits.order[i] \in DOMAIN hits.score /\ hits.score[hits.order[i]] \in Int
         /\ scaled[hits.order[i]] = Weighed(list, hits, hits.order[i])
  BY <1>3 DEF HitsOf
<1> HIDE DEF scaled
<1>6. Scored(hits.order, scaled)
  BY <1>1, <1>3, <1>5 DEF Scored
<1>7. sorted \in Seq(S) /\ Range(sorted) = Range(hits.order)
  BY <1>4, <1>6, SortedIsThere
<1> HIDE DEF sorted
<1>8. b \in Range(Prefix(sorted, k))
  BY <1>2
<1>9. b \in Range(hits.order)
  BY <1>7, <1>8, PrefixIsThere
<1>10. scaled[a] = Weighed(list, hits, a) /\ scaled[b] = Weighed(list, hits, b)
  BY <1>4, <1>5, <1>9 DEF Range
<1>11. scaled[a] > scaled[b] \/ (Above(hits.order, a, b) /\ scaled[a] = scaled[b])
  BY <1>10
<1>12. Above(sorted, a, b)
  BY <1>4, <1>6, <1>11, SortKeepsAbove DEF sorted
<1>13. Above(Prefix(sorted, k), a, b)
  BY <1>7, <1>8, <1>12, PrefixKeepsAbove
<1> QED
  BY <1>2, <1>9, <1>13

\* Demotion keeps a hit above one that weighs no more.
LEMMA DemotionKeepsAbove ==
  ASSUME NEW S, NEW list, NEW hits, HitsOf(hits, S), NEW k \in Nat, NEW a, NEW b,
         Leads(hits, a, b), b \in Range(Reordered(list, hits, k)), b \in Range(hits.order),
         Weight(StatusOf(list, a)) >= Weight(StatusOf(list, b)),
         Weight(StatusOf(list, a)) = Weight(StatusOf(list, b)) \/ hits.score[b] >= 0
  PROVE  Above(Reordered(list, hits, k), a, b)
<1> DEFINE weight(name) == Weight(StatusOf(list, name))
<1>1. weight(a) \in Nat /\ weight(b) \in Nat
  BY DEF Weight
<1>2. weight(a) >= weight(b) /\ (weight(a) = weight(b) \/ hits.score[b] >= 0)
  OBVIOUS
<1>3. Weighed(list, hits, a) = hits.score[a] * weight(a) /\ Weighed(list, hits, b) = hits.score[b] * weight(b)
  BY DEF Weighed
<1> HIDE DEF weight
<1>4. hits.order \in Seq(S) /\ DOMAIN hits.order = 1 .. Len(hits.order)
  BY DEF HitsOf
<1>5. a \in Range(hits.order)
  BY <1>4 DEF Leads, Above, Range
<1>6. hits.score[a] \in Int /\ hits.score[b] \in Int
  BY <1>4, <1>5 DEF HitsOf, Range
<1>7. \A x, y \in Int, u, v \in Nat : x >= y /\ u >= v /\ (u = v \/ y >= 0) =>
        x * u \in Int /\ y * v \in Int /\ x * u >= y * v
  <2> SUFFICES ASSUME NEW x \in Int, NEW y \in Int, NEW u \in Nat, NEW v \in Nat,
                      x >= y, u >= v, u = v \/ y >= 0
               PROVE  x * u \in Int /\ y * v \in Int /\ x * u >= y * v
    OBVIOUS
  <2>1. x * u >= y * u
    BY SMT
  <2>2. y * u >= y * v
    BY SMT
  <2> QED
    BY <2>1, <2>2
<1>8. hits.score[a] >= hits.score[b]
  BY DEF Leads
<1>9. /\ Weighed(list, hits, a) \in Int /\ Weighed(list, hits, b) \in Int
      /\ Weighed(list, hits, a) >= Weighed(list, hits, b)
  BY <1>1, <1>2, <1>3, <1>6, <1>7, <1>8
<1>10. \/ Weighed(list, hits, a) > Weighed(list, hits, b)
       \/ Above(hits.order, a, b) /\ Weighed(list, hits, a) = Weighed(list, hits, b)
  BY <1>9 DEF Leads
<1> QED
  BY <1>5, <1>10, DemotionSortsAgain

\* So does what is shown of the hits, however far it looked.
LEMMA StatusKeepsAbove ==
  ASSUME NEW S, NEW list, NEW hits, HitsOf(hits, S), NEW k \in Nat, NEW a, NEW b,
         Leads(hits, a, b), b \in Range(StatusAware(list, hits, k)),
         Weight(StatusOf(list, a)) >= Weight(StatusOf(list, b)),
         Weight(StatusOf(list, a)) = Weight(StatusOf(list, b)) \/ hits.score[b] >= 0
  PROVE  Above(StatusAware(list, hits, k), a, b)
<1> DEFINE n == Pulled(k)
           cut == Cut(hits, n)
<1>1. hits.order \in Seq(S) /\ Above(hits.order, a, b) /\ n \in Nat
  BY PulledIsNat DEF HitsOf, Leads
<1>2. CASE Whole(list)
  <2>1. StatusAware(list, hits, k) = Prefix(hits.order, k)
    BY <1>2, StatusAwareIs
  <2> QED
    BY <1>1, <2>1, PrefixKeepsAbove
<1>3. CASE ~ Whole(list)
  <2>1. StatusAware(list, hits, k) = Reordered(list, cut, k)
    BY <1>3, StatusAwareIs
  <2>2. HitsOf(cut, S) /\ cut.order = Prefix(hits.order, n) /\ cut.score = hits.score
    BY <1>1, CutsAreHits DEF Cut
  <2> HIDE DEF n, cut
  <2>3. b \in Range(Reordered(list, cut, k))
    BY <2>1
  <2>4. b \in Range(cut.order)
    BY <2>2, <2>3, ReorderedAreRanked
  <2>5. Above(cut.order, a, b)
    BY <1>1, <2>2, <2>4, PrefixKeepsAbove
  <2>6. Leads(cut, a, b)
    BY <2>2, <2>5 DEF Leads
  <2> QED
    BY <2>1, <2>2, <2>3, <2>4, <2>6, DemotionKeepsAbove
<1> QED
  BY <1>2, <1>3
-----------------------------------------------------------------------------
(* What a search shows. *)

\* An answer is a search of the view, by one of the rankers.
Searched(a) ==
  LET view == View(notes, a.scope)
      g == view.graph
  IN /\ a.k \in Nat /\ a.ranker \in {"lexical", "dense", "fused", "hybrid"}
     /\ \E matches \in SUBSET g.nodes :
        \E lexical \in Orders(matches) : \E other \in OtherLists(a.ranker, g, lexical) :
        \E own \in Owns(a.ranker, lexical, other) :
          /\ a.lists = <<lexical, other>> /\ a.own = own
          /\ a.hits = StatusAware(view.notes, HitsBy(a.ranker, view, lexical, other, own), a.k)
          /\ a.names = Range(a.hits)

LEMMA SearchIsSearched ==
  ASSUME NEW scope, NEW ranker \in {"lexical", "dense", "fused", "hybrid"}, NEW k \in Nat,
         BrainSearch(scope, ranker, k)
  PROVE  Searched(answer')
<1> DEFINE view == View(notes, scope)
           g == view.graph
<1>1. PICK matches \in SUBSET g.nodes :
        \E lexical \in Orders(matches) : \E other \in OtherLists(ranker, g, lexical) :
        \E own \in Owns(ranker, lexical, other) :
        \E shown \in {StatusAware(view.notes, HitsBy(ranker, view, lexical, other, own), k)} :
          answer' = [tool |-> "search", scope |-> scope, ranker |-> ranker, k |-> k, lists |-> <<lexical, other>>,
                     own |-> own, hits |-> shown, names |-> Range(shown)]
  BY DEF BrainSearch, Answers
<1> HIDE DEF view
<1>w. PICK lexical \in Orders(matches) : \E other \in OtherLists(ranker, g, lexical) :
        \E own \in Owns(ranker, lexical, other) :
        \E shown \in {StatusAware(view.notes, HitsBy(ranker, view, lexical, other, own), k)} :
          answer' = [tool |-> "search", scope |-> scope, ranker |-> ranker, k |-> k, lists |-> <<lexical, other>>,
                     own |-> own, hits |-> shown, names |-> Range(shown)]
  BY <1>1
<1>2. PICK other \in OtherLists(ranker, g, lexical) :
        \E own \in Owns(ranker, lexical, other) :
        \E shown \in {StatusAware(view.notes, HitsBy(ranker, view, lexical, other, own), k)} :
          answer' = [tool |-> "search", scope |-> scope, ranker |-> ranker, k |-> k, lists |-> <<lexical, other>>,
                     own |-> own, hits |-> shown, names |-> Range(shown)]
  BY <1>w
<1>3. PICK own \in Owns(ranker, lexical, other) :
        LET shown == StatusAware(view.notes, HitsBy(ranker, view, lexical, other, own), k)
        IN answer' = [tool |-> "search", scope |-> scope, ranker |-> ranker, k |-> k, lists |-> <<lexical, other>>,
                      own |-> own, hits |-> shown, names |-> Range(shown)]
  BY <1>2
<1>4. /\ answer'.scope = scope /\ answer'.ranker = ranker /\ answer'.k = k
      /\ answer'.lists = <<lexical, other>> /\ answer'.own = own
      /\ answer'.hits = StatusAware(view.notes, HitsBy(ranker, view, lexical, other, own), k)
      /\ answer'.names = Range(answer'.hits)
  BY <1>3
<1> QED
  BY <1>1, <1>2, <1>3, <1>4 DEF Searched, view

\* The lists a search is made from, and what it shows of them.
SearchOf(a, view, lexical, other) ==
  /\ lexical \in Seq(view.graph.nodes) /\ NoRepeats(lexical)
  /\ other \in Seq(view.graph.nodes)
  /\ a.ranker \in {"dense", "fused"} =>
       NoRepeats(other) /\ Range(other) = view.graph.nodes /\ Len(other) = Cardinality(view.graph.nodes)
  /\ a.own \in Owns(a.ranker, lexical, other)
  /\ a.lists = <<lexical, other>>
  /\ HitsOf(HitsBy(a.ranker, view, lexical, other, a.own), view.graph.nodes)
  /\ a.hits = StatusAware(view.notes, HitsBy(a.ranker, view, lexical, other, a.own), a.k)
  /\ a.names = Range(a.hits)

LEMMA SearchIsOfLists ==
  ASSUME Listed, NEW a, Searched(a)
  PROVE  \E lexical, other : SearchOf(a, View(notes, a.scope), lexical, other)
<1> DEFINE view == View(notes, a.scope)
           g == view.graph
<1>1. PICK matches \in SUBSET g.nodes :
        \E lexical \in Orders(matches) : \E other \in OtherLists(a.ranker, g, lexical) :
        \E own \in Owns(a.ranker, lexical, other) :
          /\ a.lists = <<lexical, other>> /\ a.own = own
          /\ a.hits = StatusAware(view.notes, HitsBy(a.ranker, view, lexical, other, own), a.k)
          /\ a.names = Range(a.hits)
  BY DEF Searched
<1>2. a.k \in Nat /\ a.ranker \in {"lexical", "dense", "fused", "hybrid"}
  BY DEF Searched
<1>3. IsFiniteSet(g.nodes) /\ IsFiniteSet(g.edges)
  <2>1. IsFiniteSet(Edges(Visible(notes, a.scope)))
    BY VisibleNotes, EdgesAreFinite DEF Listed
  <2>2. g.edges \subseteq Edges(Visible(notes, a.scope))
    BY ViewHidesNames DEF Listed
  <2> QED
    BY <2>1, <2>2, FS_Subset, ViewHidesNames DEF Listed
<1> HIDE DEF view
<1>w. PICK lexical \in Orders(matches) : \E other \in OtherLists(a.ranker, g, lexical) :
        \E own \in Owns(a.ranker, lexical, other) :
          /\ a.lists = <<lexical, other>> /\ a.own = own
          /\ a.hits = StatusAware(view.notes, HitsBy(a.ranker, view, lexical, other, own), a.k)
          /\ a.names = Range(a.hits)
  BY <1>1
<1>4. PICK other \in OtherLists(a.ranker, g, lexical) :
        \E own \in Owns(a.ranker, lexical, other) :
          /\ a.lists = <<lexical, other>> /\ a.own = own
          /\ a.hits = StatusAware(view.notes, HitsBy(a.ranker, view, lexical, other, own), a.k)
          /\ a.names = Range(a.hits)
  BY <1>w
<1>5. /\ a.own \in Owns(a.ranker, lexical, other)
      /\ a.lists = <<lexical, other>>
      /\ a.hits = StatusAware(view.notes, HitsBy(a.ranker, view, lexical, other, a.own), a.k)
      /\ a.names = Range(a.hits)
  BY <1>4
<1>6. IsFiniteSet(matches)
  BY <1>1, <1>3, FS_Subset
<1>7. lexical \in Seq(g.nodes) /\ NoRepeats(lexical)
  <2>1. lexical \in Seq(matches) /\ NoRepeats(lexical)
    BY <1>4, <1>6, OrdersAreSequences, OrdersDoNotRepeat
  <2> QED
    BY <1>1, <2>1
<1>8. other \in Seq(g.nodes)
  BY <1>2, <1>3, <1>4, <1>7, OtherListsAreThere
<1>9. HitsOf(HitsBy(a.ranker, view, lexical, other, a.own), g.nodes)
  BY <1>2, <1>3, <1>5, <1>7, <1>8, RankersGiveHits
<1>10. ASSUME a.ranker \in {"dense", "fused"}
       PROVE  NoRepeats(other) /\ Range(other) = g.nodes /\ Len(other) = Cardinality(g.nodes)
  <2>1. other \in Orders(g.nodes)
    BY <1>4, <1>10 DEF OtherLists
  <2> QED
    BY <1>3, <2>1, OrdersDoNotRepeat
<1>11. SearchOf(a, view, lexical, other)
  BY <1>5, <1>7, <1>8, <1>9, <1>10 DEF SearchOf
<1> QED
  BY <1>11 DEF view

LEMMA SearchAgrees ==
  ASSUME Listed, Searched(answer)
  PROVE  AgreementHolds
<1> DEFINE view == View(notes, answer.scope)
           weight(name) == Weight(StatusOf(view.notes, name))
<1>1. PICK lexical, other : SearchOf(answer, view, lexical, other)
  BY SearchIsOfLists
<1> DEFINE hits == HitsBy(answer.ranker, view, lexical, other, answer.own)
<1>2. answer.k \in Nat /\ answer.ranker \in {"lexical", "dense", "fused", "hybrid"}
  BY DEF Searched
<1> SUFFICES ASSUME answer.ranker # "hybrid", NEW a, NEW b,
                    \A l \in {1, 2} : b \in Range(answer.lists[l]) => Above(answer.lists[l], a, b),
                    weight(a) >= weight(b),
                    weight(a) = weight(b) \/ \A i \in DOMAIN answer.own : answer.own[i] >= 0,
                    b \in answer.names
             PROVE  Above(answer.hits, a, b)
  BY DEF AgreementHolds
<1> HIDE DEF view
<1>3. /\ lexical \in Seq(view.graph.nodes) /\ NoRepeats(lexical) /\ other \in Seq(view.graph.nodes)
      /\ answer.ranker \in {"dense", "fused"} => NoRepeats(other)
      /\ answer.own \in Owns(answer.ranker, lexical, other)
      /\ HitsOf(hits, view.graph.nodes)
      /\ answer.hits = StatusAware(view.notes, hits, answer.k)
      /\ answer.names = Range(answer.hits)
  BY <1>1 DEF SearchOf
<1>4. /\ b \in Range(lexical) => Above(lexical, a, b)
      /\ b \in Range(other) => Above(other, a, b)
  BY <1>1 DEF SearchOf
<1>5. b \in Range(hits.order)
  BY <1>2, <1>3, ShownAreRanked
<1>6. Leads(hits, a, b) /\ (weight(a) = weight(b) \/ hits.score[b] >= 0)
  <2>1. CASE answer.ranker = "lexical"
    <3>1. hits = ByOwnScore(lexical, answer.own) /\ answer.own \in OwnScores(lexical)
      BY <1>3, <2>1 DEF HitsBy, LexicalHits, Owns
    <3>2. b \in Range(lexical)
      BY <1>3, <1>5, <3>1, OwnHitsAreListed
    <3> QED
      BY <1>3, <1>4, <3>1, <3>2, OwnScoresLead
  <2>2. CASE answer.ranker = "dense"
    <3>1. hits = ByOwnScore(other, answer.own) /\ answer.own \in OwnScores(other) /\ NoRepeats(other)
      BY <1>3, <2>2 DEF HitsBy, DenseHits, Owns
    <3>2. b \in Range(other)
      BY <1>3, <1>5, <3>1, OwnHitsAreListed
    <3> QED
      BY <1>3, <1>4, <3>1, <3>2, OwnScoresLead
  <2>3. CASE answer.ranker = "fused"
    <3> DEFINE words == Prefix(lexical, FusedDepth)
               meaning == Prefix(other, FusedDepth)
    <3>1. hits = FusedOf(words, meaning) /\ NoRepeats(other)
      BY <1>3, <2>3, FusedAreCut DEF HitsBy
    <3>2. /\ words \in Seq(view.graph.nodes) /\ NoRepeats(words) /\ Range(words) \subseteq Range(lexical)
          /\ meaning \in Seq(view.graph.nodes) /\ NoRepeats(meaning) /\ Range(meaning) \subseteq Range(other)
      BY <1>3, <3>1, DepthsAssumption, PrefixIsThere, PrefixDoesNotRepeat
    <3>3. b \in Range(words) => Above(words, a, b)
      BY <1>3, <1>4, <3>2, DepthsAssumption, PrefixKeepsAbove
    <3>4. b \in Range(meaning) => Above(meaning, a, b)
      BY <1>3, <1>4, <3>2, DepthsAssumption, PrefixKeepsAbove
    <3> HIDE DEF words, meaning, hits
    <3> QED
      BY <1>5, <3>1, <3>2, <3>3, <3>4, FusedLeads
  <2> QED
    BY <1>2, <2>1, <2>2, <2>3
<1> HIDE DEF hits
<1> QED
  BY <1>2, <1>3, <1>6, StatusKeepsAbove

\* A reader sees no more names than there are notes.
LEMMA ViewIsSmall ==
  ASSUME NEW T, NEW list \in Seq(T), NEW scope
  PROVE  /\ Cardinality(View(list, scope).graph.nodes) \in Nat
         /\ Cardinality(View(list, scope).graph.nodes) <= Len(list)
<1> DEFINE places == {i \in Places(list) : CanRead(scope, list[i])}
           N == View(list, scope).graph.nodes
           f == [i \in places |-> list[i].name]
<1>1. places \in SUBSET (1 .. Len(list)) /\ Len(list) \in Nat
  BY DEF Places
<1>2. N = {n.name : n \in Readable(list, scope)}
  BY ViewHidesNames, VisibleNotes DEF NamesOf
<1>3. Readable(list, scope) = {list[i] : i \in places}
  BY DEF Readable
<1>4. N = {list[i].name : i \in places}
  BY <1>2, <1>3
<1> HIDE DEF N, places
<1>5. f \in Surjection(places, N)
  BY <1>4 DEF Surjection
<1>6. IsFiniteSet(1 .. Len(list)) /\ Cardinality(1 .. Len(list)) = Len(list)
  BY <1>1, CountTo
<1>7. IsFiniteSet(places) /\ Cardinality(places) <= Len(list)
  BY <1>1, <1>6, FS_Subset
<1> HIDE DEF f
<1>8. IsFiniteSet(N) /\ Cardinality(N) <= Cardinality(places)
  BY <1>5, <1>7, FS_Surjection
<1>9. Cardinality(N) \in Nat /\ Cardinality(places) \in Nat
  BY <1>7, <1>8, FS_CardinalityType
<1>10. Cardinality(N) \in Nat /\ Cardinality(N) <= Len(list)
  BY <1>1, <1>7, <1>8, <1>9
<1> QED
  BY <1>10 DEF N

\* In the first third of RrfK places, one is worth more than three quarters of the first.
LEMMA PlacesAreClose ==
  ASSUME NEW n \in 1 .. Longest, 3 * n < RrfK + 4
  PROVE  4 * Part(n) > 3 * Part(1)
<1> DEFINE p == Part(n)
           q == Part(1)
           K == RrfK
<1>1. n \in Nat /\ n >= 1 /\ 1 \in 1 .. Longest /\ K \in Nat
  BY BoundsAssumption
<1>2. p \in Nat /\ q \in Nat /\ (K + n) * p = Denominator /\ (K + 1) * q = Denominator /\ Denominator > 0
  BY <1>1, PartIsExact, DenominatorIsNat
<1> HIDE DEF p, q, K
<1>3. 3 * n < K + 4
  BY DEF K
<1> SUFFICES ASSUME 4 * p <= 3 * q PROVE FALSE
  BY <1>2 DEF p, q
<1>4. q > 0
  <2> SUFFICES ASSUME q = 0 PROVE FALSE
    BY <1>2
  <2> QED
    BY <1>1, <1>2
<1>5. (K + n) * (4 * p) <= (K + n) * (3 * q)
  <2>1. \A x, y, z \in Nat : x <= y => z * x <= z * y
    OBVIOUS
  <2>2. K + n \in Nat /\ 4 * p \in Nat /\ 3 * q \in Nat
    BY <1>1, <1>2
  <2> QED
    BY <2>1, <2>2
<1>6. (K + n) * (4 * p) = 4 * ((K + n) * p) /\ 4 * ((K + 1) * q) = (4 * K + 4) * q
      /\ (K + n) * (3 * q) = (3 * K + 3 * n) * q
  BY <1>1, <1>2
<1>7. (4 * K + 4) * q <= (3 * K + 3 * n) * q
  BY <1>2, <1>5, <1>6
<1>8. 3 * K + 3 * n < 4 * K + 4
  BY <1>1, <1>3
<1>9. \A x, y \in Nat, z \in Nat \ {0} : x < y => x * z < y * z
  OBVIOUS
<1>10. (3 * K + 3 * n) * q < (4 * K + 4) * q
  BY <1>1, <1>2, <1>4, <1>8, <1>9
<1>11. (3 * K + 3 * n) * q \in Nat /\ (4 * K + 4) * q \in Nat
  BY <1>1, <1>2
<1> QED
  BY <1>7, <1>10, <1>11

\* So what the vectors have there has more than half of what anything may have.
LEMMA FusedAreClose ==
  ASSUME NEW T, NEW lexical \in Seq(T), NoRepeats(lexical), NEW dense \in Seq(T), NoRepeats(dense),
         Len(dense) <= Longest, NEW p \in 1 .. Len(dense), 3 * p < RrfK + 4, NEW d
  PROVE  LET mass(name) == Mass(Weighted(1, lexical), Weighted(2, dense), name)
         IN mass(dense[p]) \in Nat /\ mass(d) \in Nat /\ mass(dense[p]) * 4 > mass(d) * 2
<1> DEFINE words == Weighted(1, lexical)
           meaning == Weighted(2, dense)
           v == dense[p]
<1>1. Len(dense) \in Nat /\ DOMAIN dense = 1 .. Len(dense)
  OBVIOUS
<1>3. p \in 1 .. Longest
  BY <1>1, BoundsAssumption
<1>4. 4 * Part(p) > 3 * Part(1)
  BY <1>3, PlacesAreClose
<1>5. Part(1) \in Nat /\ Part(p) \in Nat
  <2>1. p \in Nat \ {0} /\ 1 \in Nat \ {0} /\ 1 <= p /\ p \in Nat
    BY <1>1
  <2> QED
    BY <2>1, PartsFall
<1>6. Share(meaning, v) = 2 * Part(p)
  BY ShareIsPart
<1>7. Share(words, v) \in Nat
  BY ShareIsUnderFirst
<1>8. /\ Share(words, d) \in Nat /\ Share(words, d) <= 1 * Part(1)
      /\ Share(meaning, d) \in Nat /\ Share(meaning, d) <= 2 * Part(1)
  BY ShareIsUnderFirst
<1> HIDE DEF words, meaning, v
<1>9. Mass(words, meaning, v) = Share(words, v) + Share(meaning, v)
      /\ Mass(words, meaning, d) = Share(words, d) + Share(meaning, d)
  BY DEF Mass
<1>10. /\ Mass(words, meaning, v) \in Nat /\ Mass(words, meaning, d) \in Nat
       /\ Mass(words, meaning, v) * 4 > Mass(words, meaning, d) * 2
  <2>1. PICK top, at \in Nat : top = Part(1) /\ at = Part(p)
    BY <1>5
  <2>2. PICK wv, mv, wd, md \in Nat :
          /\ wv = Share(words, v) /\ mv = Share(meaning, v) /\ wd = Share(words, d) /\ md = Share(meaning, d)
    BY <1>5, <1>6, <1>7, <1>8
  <2>3. 4 * at > 3 * top /\ mv = 2 * at /\ wd <= 1 * top /\ md <= 2 * top
    BY <1>4, <1>6, <1>8, <2>1, <2>2
  <2>4. wv + mv \in Nat /\ wd + md \in Nat /\ (wv + mv) * 4 > (wd + md) * 2
    BY <2>3
  <2> QED
    BY <1>9, <2>2, <2>4
<1> QED
  BY <1>10 DEF words, meaning, v

\* What was found and weighs as much as a place of the order is before it, so that a cut behind it keeps it.
LEMMA FewBeforeIsKept ==
  ASSUME NEW T, NEW order \in Seq(T), NoRepeats(order), NEW Found, IsFiniteSet(Found), Found \in SUBSET Range(order),
         NEW r \in 1 .. Len(order), \A i \in 1 .. (r - 1) : order[i] \in Found,
         NEW n \in Nat, Cardinality(Found) < n
  PROVE  order[r] \in Range(Prefix(order, n))
<1> DEFINE head == [i \in 1 .. (r - 1) |-> order[i]]
<1>1. Len(order) \in Nat /\ r - 1 \in Nat
  OBVIOUS
<1>2. IsFiniteSet(1 .. (r - 1)) /\ Cardinality(1 .. (r - 1)) = r - 1
  BY <1>1, CountTo
<1>3. head \in Injection(1 .. (r - 1), Found)
  <2>1. \A i, j \in 1 .. (r - 1) : order[i] = order[j] => i = j
    BY <1>1 DEF NoRepeats
  <2> QED
    BY <2>1 DEF Injection, IsInjective
<1> HIDE DEF head
<1>4. r - 1 <= Cardinality(Found)
  BY <1>2, <1>3, FS_Injection
<1>5. Cardinality(Found) \in Nat
  BY FS_CardinalityType
<1>6. r <= n
  BY <1>1, <1>4, <1>5
<1>7. r \in 1 .. Len(Prefix(order, n)) /\ Prefix(order, n)[r] = order[r] /\ Prefix(order, n) \in Seq(T)
  BY <1>6, PrefixIsThere
<1> QED
  BY <1>7 DEF Range

\* What a name's status weighs is what some note of it does.
LEMMA DemotedIsThere ==
  ASSUME NEW T, NEW list \in Seq(T), NEW name \in NamesOf(list), Whole(list)
  PROVE  Weight(StatusOf(list, name)) = 4
<1> DEFINE named == Named(list, name)
           demoted == {i \in named : Weight(list[i].status) < 4}
           entered == IF demoted = {} THEN named ELSE demoted
           last == CHOOSE i \in entered : \A j \in entered : j <= i
<1>1. Places(list) = 1 .. Len(list) /\ Len(list) \in Nat /\ named \in SUBSET Places(list)
  BY DEF Places, Named
<1>2. named # {}
  BY <1>1, GraphNodes DEF NamesOf, Named
<1>3. entered \in SUBSET named /\ entered # {}
  BY <1>2
<1> HIDE DEF entered
<1>4. entered \in SUBSET Int /\ IsFiniteSet(entered)
  <2>1. IsFiniteSet(1 .. Len(list)) /\ entered \in SUBSET (1 .. Len(list))
    BY <1>1, <1>3, CountTo
  <2>2. IsFiniteSet(entered)
    BY <2>1, FS_Subset
  <2>3. 1 .. Len(list) \subseteq Int
    BY <1>1
  <2> QED
    BY <2>1, <2>2, <2>3
<1>5. \E i \in entered : \A j \in entered : j <= i
  BY <1>3, <1>4, GreatestIsThere
<1>6. last \in entered
  BY <1>5
<1>7. StatusOf(list, name) = list[last].status
  BY DEF StatusOf, entered
<1> HIDE DEF last
<1>8. last \in Places(list)
  BY <1>1, <1>3, <1>6
<1> QED
  BY <1>7, <1>8 DEF Whole

LEMMA SearchIsVerified ==
  ASSUME Listed, Len(notes) <= MaxNotes, Searched(answer)
  PROVE  VerifiedFirst
<1> DEFINE view == View(notes, answer.scope)
           S == view.graph.nodes
           weight(name) == Weight(StatusOf(view.notes, name))
           k == answer.k
<1>1. PICK lexical0, dense0 : SearchOf(answer, view, lexical0, dense0)
  BY SearchIsOfLists
<1> DEFINE lexical == Prefix(lexical0, FusedDepth)
           dense == Prefix(dense0, FusedDepth)
           hits == FusedOf(lexical, dense)
           mass(name) == Mass(Weighted(1, lexical), Weighted(2, dense), name)
           Heavy(v) == {n \in (Range(lexical) \cup Range(dense)) \ {v} : mass(n) >= mass(v)}
<1>2. k \in Nat /\ Pulled(k) \in Nat
  BY PulledIsNat DEF Searched
<1>3. answer.lists[1] = lexical0 /\ answer.lists[2] = dense0
  BY <1>1 DEF SearchOf
<1> SUFFICES ASSUME answer.ranker = "fused", NEW d \in answer.names, NEW p \in DOMAIN dense,
                    3 * p < RrfK + 4, weight(d) < 4, ~ (weight(dense[p]) < 4),
                    Cardinality(Heavy(dense[p])) < Pulled(k)
             PROVE  Above(answer.hits, dense[p], d)
  BY <1>3, Zenon DEF VerifiedFirst, Weighted
<1>4. Len(dense0) \in Nat /\ Len(dense0) <= Longest
  <2>1. Len(dense0) = Cardinality(view.graph.nodes)
    BY <1>1 DEF SearchOf
  <2>2. Cardinality(view.graph.nodes) \in Nat /\ Cardinality(view.graph.nodes) <= Len(notes) /\ Len(notes) \in Nat
    BY ViewIsSmall DEF Listed
  <2> QED
    BY <2>1, <2>2, BoundsAssumption
<1>5. view.notes \in Seq(Corpus) /\ S = NamesOf(view.notes)
  BY ViewHidesNames DEF Listed
<1> HIDE DEF view
<1>6. /\ lexical0 \in Seq(S) /\ NoRepeats(lexical0) /\ dense0 \in Seq(S) /\ NoRepeats(dense0)
      /\ HitsOf(hits, S)
      /\ answer.hits = StatusAware(view.notes, hits, k)
      /\ answer.names = Range(answer.hits)
  BY <1>1, FusedAreCut DEF SearchOf, HitsBy
<1>7. /\ lexical \in Seq(S) /\ NoRepeats(lexical)
      /\ dense \in Seq(S) /\ NoRepeats(dense) /\ Len(dense) <= Len(dense0)
  BY <1>6, DepthsAssumption, PrefixIsThere, PrefixDoesNotRepeat
<1> HIDE DEF lexical, dense, S
<1>8. p \in 1 .. Len(dense) /\ Len(dense) \in Nat /\ Len(dense) <= Longest
  BY <1>4, <1>7, BoundsAssumption
<1> DEFINE v == dense[p]
<1>9. v \in Range(dense) /\ mass(v) \in Nat /\ mass(d) \in Nat /\ mass(v) * 4 > mass(d) * 2
  BY <1>7, <1>8, FusedAreClose DEF Range
<1>10. /\ Range(hits.order) = Range(lexical) \cup Range(dense)
       /\ \A name \in Range(lexical) \cup Range(dense) : hits.score[name] = mass(name)
  BY <1>7, FusedScores
<1>11. NoRepeats(hits.order) /\ \A r, s \in 1 .. Len(hits.order) : r < s => mass(hits.order[r]) >= mass(hits.order[s])
  BY <1>7, FusedFalls
<1>12. IsFiniteSet(Range(lexical) \cup Range(dense))
  <2>1. \A list \in Seq(S) : IsFiniteSet(Range(list))
    <3> SUFFICES ASSUME NEW list \in Seq(S) PROVE IsFiniteSet(Range(list))
      OBVIOUS
    <3>1. IsFiniteSet(1 .. Len(list)) /\ Range(list) = {list[i] : i \in 1 .. Len(list)}
      BY CountTo DEF Range
    <3> QED
      BY <3>1, ImagesAreFinite
  <2> QED
    BY <1>7, <2>1, FS_Union
<1> DEFINE cut == Cut(hits, Pulled(k))
<1>13. ~ Whole(view.notes)
  <2>1. d \in S
    <3>1. d \in Range(StatusAware(view.notes, hits, k))
      BY <1>6
    <3> QED
      BY <1>2, <1>6, <3>1, ShownAreHits
  <2>2. Whole(view.notes) => weight(d) = 4
    BY <1>5, <2>1, DemotedIsThere
  <2> QED
    BY <2>2
<1>14. v \in Range(cut.order)
  <2> DEFINE order == hits.order
  <2>1. order \in Seq(S) /\ cut.order = Prefix(order, Pulled(k))
    BY <1>6 DEF HitsOf, Cut
  <2>2. PICK r \in 1 .. Len(order) : order[r] = v
    <3>1. v \in Range(order) /\ DOMAIN order = 1 .. Len(order)
      BY <1>9, <1>10, <2>1
    <3> QED
      BY <3>1 DEF Range
  <2>3. Heavy(v) \in SUBSET Range(order) /\ IsFiniteSet(Heavy(v))
    BY <1>10, <1>12, FS_Subset
  <2> HIDE DEF order, cut, v
  <2>4. ASSUME NEW i \in 1 .. (r - 1) PROVE order[i] \in Heavy(v)
    <3>1. i \in 1 .. Len(order) /\ i < r /\ i # r
      BY <2>1, <2>2
    <3>2. mass(order[i]) >= mass(v)
      BY <1>11, <2>2, <3>1 DEF order
    <3>3. order[i] # v
      BY <1>11, <2>2, <3>1 DEF NoRepeats, order
    <3>4. order[i] \in Range(order)
      BY <2>1, <3>1 DEF Range
    <3> HIDE DEF mass
    <3> QED
      BY <1>10, <3>2, <3>3, <3>4 DEF order
  <2>5. Cardinality(Heavy(v)) < Pulled(k)
    BY DEF v
  <2> HIDE DEF Heavy
  <2> QED
    BY <1>2, <1>11, <2>1, <2>2, <2>3, <2>4, <2>5, FewBeforeIsKept DEF order
<1>15. /\ HitsOf(cut, S) /\ Range(cut.order) \subseteq Range(hits.order) /\ cut.score = hits.score
       /\ answer.hits = Reordered(view.notes, cut, k)
  BY <1>2, <1>6, <1>13, CutsAreHits, StatusAwareIs DEF Cut
<1> HIDE DEF hits, mass, cut, v, Heavy
<1>16. d \in Range(Reordered(view.notes, cut, k))
  BY <1>6, <1>15
<1>17. d \in Range(cut.order)
  BY <1>2, <1>15, <1>16, ReorderedAreRanked
<1>18. Weighed(view.notes, cut, v) > Weighed(view.notes, cut, d)
  <2>1. weight(v) = 4 /\ weight(d) \in {1, 2}
    BY DEF Weight, v
  <2>2. Weighed(view.notes, cut, v) = mass(v) * weight(v) /\ Weighed(view.notes, cut, d) = mass(d) * weight(d)
    BY <1>10, <1>14, <1>15, <1>17 DEF Weighed
  <2> HIDE DEF weight
  <2>3. CASE weight(d) = 2
    BY <1>9, <2>1, <2>2, <2>3
  <2>4. CASE weight(d) = 1
    BY <1>9, <2>1, <2>2, <2>4
  <2> QED
    BY <2>1, <2>3, <2>4
<1>19. Above(Reordered(view.notes, cut, k), v, d)
  BY <1>2, <1>14, <1>15, <1>16, <1>18, DemotionSortsAgain
<1> QED
  BY <1>15, <1>19 DEF v
-----------------------------------------------------------------------------
(* What is so in every state. *)

\* What an answer is, of the notes as they are.
Sincere(a) ==
  /\ Discreet(a)
  /\ a.tool = "graph" => Slice(a)
  /\ a.tool = "search" => Searched(a)
  /\ a.tool = "lint" => a.findings = Lint(notes)
  /\ a.tool \in {"curate", "brain_curate"} =>
       /\ a.rows = Contradictions(View(notes, a.scope).notes)
       /\ a.pairs = Duplicates(View(notes, a.scope).notes)

(***************************************************************************)
(* Every file is one note, and an answer that was not sent yet is true of  *)
(* the notes.  That each file is one note is what a finding, which names a *)
(* file, needs to be about a note; and that lists are as short as the      *)
(* vault, for their places to have a common denominator.                   *)
(***************************************************************************)
Inv ==
  /\ Listed
  /\ Distinct(notes)
  /\ Len(notes) <= MaxNotes
  /\ answer # NoAnswer => Sincere(answer)

LEMMA WritesKeepNotes ==
  ASSUME Listed, Distinct(notes), NEW note \in Corpus, Write(note)
  PROVE  Listed' /\ Distinct(notes')
<1>1. Len(notes) \in Nat /\ notes \in [1 .. Len(notes) -> Corpus] /\ Places(notes) = 1 .. Len(notes)
  BY DEF Listed, Places
<1>2. CASE At(notes, note.path) = {}
  <2>1. notes' = Append(notes, note)
    BY <1>2 DEF Write
  <2>2. notes' \in Seq(Corpus) /\ Len(notes') = Len(notes) + 1 /\ notes'[Len(notes) + 1] = note
        /\ \A i \in 1 .. Len(notes) : notes'[i] = notes[i]
    BY <2>1 DEF Listed
  <2>3. \A i \in 1 .. Len(notes) : notes[i].path # note.path
    BY <1>1, <1>2 DEF At
  <2>4. \A i \in Places(notes') : i \in 1 .. Len(notes) \/ i = Len(notes) + 1
    BY <1>1, <2>2 DEF Places
  <2>5. Distinct(notes')
    BY <1>1, <2>2, <2>3, <2>4 DEF Distinct
  <2> QED
    BY <2>2, <2>5 DEF Listed
<1>3. CASE At(notes, note.path) # {}
  <2> DEFINE S == At(notes, note.path)
             place == First(S)
  <2>1. notes' = [notes EXCEPT ![place] = note]
    BY <1>3 DEF Write
  <2>2. S \in SUBSET (1 .. Len(notes))
    BY <1>1 DEF At
  <2>3. place \in S
    BY <1>1, <1>3, <2>2, FirstIsThere
  <2>4. place \in 1 .. Len(notes) /\ notes[place].path = note.path
    BY <1>1, <2>3 DEF At
  <2> HIDE DEF place, S
  <2>5. notes' \in [1 .. Len(notes) -> Corpus]
    BY <1>1, <2>1
  <2>6. notes' \in Seq(Corpus) /\ Len(notes') = Len(notes) /\ Places(notes') = Places(notes)
    BY <1>1, <2>5 DEF Places
  <2>7. \A i \in 1 .. Len(notes) : notes'[i].path = notes[i].path
    BY <1>1, <2>1, <2>4
  <2>8. Distinct(notes')
    BY <1>1, <2>6, <2>7 DEF Distinct
  <2> QED
    BY <2>6, <2>8 DEF Listed
<1> QED
  BY <1>2, <1>3

LEMMA DeletesKeepNotes ==
  ASSUME Listed, Distinct(notes), NEW i \in Places(notes), Delete(i)
  PROVE  Listed' /\ Distinct(notes') /\ Len(notes') <= Len(notes)
<1> DEFINE n == Len(notes)
           head == SubSeq(notes, 1, i - 1)
           tail == SubSeq(notes, i + 1, n)
<1>1. i \in 1 .. n /\ n \in Nat /\ notes \in Seq(Corpus) /\ Places(notes) = 1 .. n
  BY DEF Places, Listed
<1>2. /\ head \in Seq(Corpus) /\ Len(head) = i - 1 /\ \A k \in 1 .. (i - 1) : head[k] = notes[k]
      /\ tail \in Seq(Corpus) /\ Len(tail) = n - i /\ \A k \in 1 .. (n - i) : tail[k] = notes[k + i]
  BY <1>1
<1>3. notes' = head \o tail
  BY DEF Delete, RemoveAt
<1> HIDE DEF head, tail, n
<1>4. notes' \in Seq(Corpus) /\ Len(notes') = n - 1
  <2>1. head \o tail \in Seq(Corpus) /\ Len(head \o tail) = Len(head) + Len(tail)
    BY <1>2
  <2>2. (i - 1) + (n - i) = n - 1
    BY <1>1
  <2> QED
    BY <1>2, <1>3, <2>1, <2>2
<1> DEFINE was(k) == IF k < i THEN k ELSE k + 1
<1>5. \A k \in 1 .. n - 1 : notes'[k] = notes[was(k)] /\ was(k) \in 1 .. n
  <2> SUFFICES ASSUME NEW k \in 1 .. n - 1 PROVE notes'[k] = notes[was(k)] /\ was(k) \in 1 .. n
    OBVIOUS
  <2>1. CASE k < i
    BY <1>1, <1>2, <1>3, <2>1
  <2>2. CASE ~ (k < i)
    <3>1. k - (i - 1) \in 1 .. (n - i) /\ (k - (i - 1)) + i = k + 1
      BY <1>1, <2>2
    <3>2. notes'[k] = tail[k - (i - 1)]
      BY <1>1, <1>2, <1>3, <2>2
    <3>3. tail[k - (i - 1)] = notes[k + 1]
      BY <1>2, <3>1
    <3> QED
      BY <1>1, <2>2, <3>2, <3>3
  <2> QED
    BY <2>1, <2>2
<1>6. \A k, m \in 1 .. n - 1 : was(k) = was(m) => k = m
  BY <1>1
<1> HIDE DEF was
<1>7. Places(notes') = 1 .. n - 1
  BY <1>4 DEF Places
<1>8. Distinct(notes')
  BY <1>1, <1>5, <1>6, <1>7 DEF Distinct
<1> QED
  BY <1>1, <1>4, <1>8 DEF Listed, n

\* An answer is given on the notes as they are.
LEMMA AnswersKeepNotes ==
  ASSUME Inv, notes' = notes, answer' # NoAnswer => Sincere(answer')
  PROVE  Inv'
<1>1. Listed' /\ Distinct(notes') /\ Len(notes') <= MaxNotes
  BY DEF Inv, Listed
<1>2. Discreet(answer') => Discreet(answer)'
  BY DEF Discreet, Hidden, Quoted, Disputed
<1>3. Slice(answer') => Slice(answer)'
  BY DEF Slice
<1>4. Searched(answer') => Searched(answer)'
  BY DEF Searched
<1>5. Sincere(answer') => Sincere(answer)'
  BY <1>2, <1>3, <1>4 DEF Sincere
<1> QED
  BY <1>1, <1>5 DEF Inv

LEMMA StepInv == Inv /\ [Next]_vars => Inv'
<1> SUFFICES ASSUME Inv, [Next]_vars PROVE Inv'
  OBVIOUS
<1>l. Listed /\ Distinct(notes) /\ Len(notes) <= MaxNotes /\ (answer # NoAnswer => Sincere(answer))
  BY DEF Inv
<1>n. 1 .. MaxDepth \subseteq Nat /\ 1 .. MaxShown \subseteq Nat \ {0}
  BY BoundsAssumption
<1>1. ASSUME NEW note \in Corpus, Write(note) PROVE Inv'
  <2>1. answer' = NoAnswer
    BY <1>1 DEF Write, Idle
  <2>2. Listed' /\ Distinct(notes')
    BY <1>1, <1>l, WritesKeepNotes
  <2>3. Len(notes') <= MaxNotes
    BY <1>1 DEF Write
  <2> QED
    BY <2>1, <2>2, <2>3 DEF Inv
<1>2. ASSUME NEW i \in Places(notes), Delete(i) PROVE Inv'
  <2>1. answer' = NoAnswer
    BY <1>2 DEF Delete, Idle
  <2>2. Listed' /\ Distinct(notes') /\ Len(notes') <= Len(notes)
    BY <1>2, <1>l, DeletesKeepNotes
  <2>3. Len(notes) \in Nat /\ Len(notes') \in Nat /\ MaxNotes \in Nat
    BY <1>l, <2>2, BoundsAssumption DEF Listed
  <2>4. Len(notes') <= MaxNotes
    BY <1>l, <2>2, <2>3
  <2> QED
    BY <2>1, <2>2, <2>4 DEF Inv
<1>3. CASE Sent
  <2>1. notes' = notes /\ answer' = NoAnswer
    BY <1>3 DEF Sent
  <2> QED
    BY <2>1, AnswersKeepNotes
<1>4. ASSUME NEW scope \in Scopes, NEW depth \in 1 .. MaxDepth, NEW name, BrainNeighbors(scope, name, depth)
      PROVE  Inv'
  <2>1. Discreet(answer')
    BY <1>4, <1>l, <1>n, NeighborsAreDiscreet
  <2>2. notes' = notes /\ answer'.tool = "neighbors"
    BY <1>4 DEF BrainNeighbors, Answers
  <2>3. Sincere(answer')
    BY <2>1, <2>2 DEF Sincere
  <2> QED
    BY <2>2, <2>3, AnswersKeepNotes
<1>5. ASSUME NEW scope \in Scopes, NEW depth \in 1 .. MaxDepth, NEW center, NEW limit \in 1 .. MaxShown,
             BrainGraph(scope, center, depth, limit)
      PROVE  Inv'
  <2>1. Discreet(answer') /\ Slice(answer')
    BY <1>5, <1>l, <1>n, GraphIsDiscreet, SliceIsCut
  <2>2. notes' = notes /\ answer'.tool = "graph"
    BY <1>5 DEF BrainGraph, Answers
  <2>3. Sincere(answer')
    BY <2>1, <2>2 DEF Sincere
  <2> QED
    BY <2>2, <2>3, AnswersKeepNotes
<1>6. ASSUME NEW scope \in Scopes, NEW ranker \in {"lexical", "dense", "fused", "hybrid"}, NEW k \in 1 .. MaxShown,
             BrainSearch(scope, ranker, k)
      PROVE  Inv'
  <2>1. notes' = notes /\ answer'.tool = "search"
    BY <1>6 DEF BrainSearch, Answers
  <2>2. Discreet(answer')
    BY <1>6, <1>l, <1>n, SearchIsDiscreet
  <2>3. Searched(answer')
    BY <1>6, <1>n, SearchIsSearched
  <2>4. Sincere(answer')
    BY <2>1, <2>2, <2>3 DEF Sincere
  <2> QED
    BY <2>1, <2>4, AnswersKeepNotes
<1>7. ASSUME NEW scope \in Scopes, NEW limit \in 1 .. MaxShown,
             BrainList(scope, limit) \/ BrainGrep(scope, limit) \/ BrainQuarantine(scope, limit)
      PROVE  Inv'
  <2>1. notes' = notes /\ answer'.tool \in {"list", "grep", "quarantine"}
    BY <1>7 DEF BrainList, BrainGrep, BrainQuarantine, Answers
  <2>2. Discreet(answer')
    BY <1>7, <1>l, <1>n, ListIsDiscreet, GrepIsDiscreet, QuarantineIsDiscreet
  <2>3. Sincere(answer')
    BY <2>1, <2>2 DEF Sincere
  <2> QED
    BY <2>1, <2>3, AnswersKeepNotes
<1>8. ASSUME NEW scope \in Scopes, NEW name, BrainRead(scope, name) \/ BrainReadRaw(scope, name)
      PROVE  Inv'
  <2>1. notes' = notes /\ answer'.tool \in {"read", "raw"}
    BY <1>8 DEF BrainRead, BrainReadRaw, Answers
  <2>2. Discreet(answer')
    BY <1>8, <1>l, ReadIsDiscreet
  <2>3. Sincere(answer')
    BY <2>1, <2>2 DEF Sincere
  <2> QED
    BY <2>1, <2>3, AnswersKeepNotes
<1>9. ASSUME NEW scope \in Scopes, BrainCurate(scope) PROVE Inv'
  <2>1. /\ notes' = notes /\ answer'.tool = "brain_curate"
        /\ answer'.rows = Contradictions(View(notes, answer'.scope).notes)
        /\ answer'.pairs = Duplicates(View(notes, answer'.scope).notes)
    BY <1>9 DEF BrainCurate, Answers
  <2>2. Discreet(answer')
    BY <1>9, <1>l, CurateIsDiscreet
  <2>3. Sincere(answer')
    BY <2>1, <2>2 DEF Sincere
  <2> QED
    BY <2>1, <2>3, AnswersKeepNotes
<1>10. CASE LintVault
  <2>1. notes' = notes /\ answer'.tool = "lint" /\ answer'.names = {} /\ answer'.findings = Lint(notes)
    BY <1>10 DEF LintVault, Answers
  <2>2. Sincere(answer')
    BY <2>1 DEF Sincere, Discreet
  <2> QED
    BY <2>1, <2>2, AnswersKeepNotes
<1>11. CASE CurateVault
  <2>1. /\ notes' = notes /\ answer'.tool = "curate" /\ answer'.names = {} /\ answer'.scope = {"*"}
        /\ answer'.rows = Contradictions(notes) /\ answer'.pairs = Duplicates(notes)
    BY <1>11 DEF CurateVault, Answers
  <2>2. View(notes, {"*"}).notes = notes
    BY <1>l, OwnerSeesAll DEF Listed
  <2>3. Sincere(answer')
    BY <2>1, <2>2 DEF Sincere, Discreet
  <2> QED
    BY <2>1, <2>3, AnswersKeepNotes
<1>12. CASE UNCHANGED vars
  <2>1. notes' = notes /\ answer' = answer
    BY <1>12 DEF vars
  <2> QED
    BY <2>1, <1>l, AnswersKeepNotes
<1> QED
  BY <1>1, <1>2, <1>3, <1>4, <1>5, <1>6, <1>7, <1>8, <1>9, <1>10, <1>11, <1>12 DEF Next

LEMMA InvAlways == Spec => []Inv
<1>1. Init => Inv
  BY BoundsAssumption DEF Init, Inv, Listed, Distinct, Places
<1> QED
  BY <1>1, StepInv, PTL DEF Spec
-----------------------------------------------------------------------------
(* The theorems. *)

(***************************************************************************)
(* No answer to a reader names a note that exists only for others, but for *)
(* what a note he sees says it contradicts, in the report of the curator   *)
(* (`buildView`, then every read tool).                                    *)
(***************************************************************************)
THEOREM NoHiddenName == Spec => []AnswersNameNoHidden
<1>1. \A scope : HiddenFrom(scope) = Hidden(notes, scope)
  BY DEF HiddenFrom, Hidden
<1>2. Inv => AnswersNameNoHidden
  BY <1>1 DEF Inv, Sincere, Discreet, Quoted, AnswersNameNoHidden
<1> QED
  BY <1>2, InvAlways, PTL

(***************************************************************************)
(* A slice of the graph is of what `brain_neighbors` tells of, as full as  *)
(* it may be, of the most linked, joined as they are, and it says exactly  *)
(* when something is missing (`neighbors`, `brain_graph`).                 *)
(***************************************************************************)
THEOREM GraphIsHonest == Spec => []GraphAnswersAgree
<1>1. Inv => GraphAnswersAgree
  BY DEF Inv, Sincere, Slice, GraphAnswersAgree, Asked
<1> QED
  BY <1>1, InvAlways, PTL

(***************************************************************************)
(* The linter and the server see one graph, and an index that tells more   *)
(* than a reader may know is reported (`lintVault`, `auditAudienceLeaks`). *)
(***************************************************************************)
THEOREM LintIsRight == Spec => []LintAgrees
<1>1. ASSUME Inv PROVE LintSeesTheGraph
  <2> SUFFICES ASSUME Asked("lint"), NEW i \in Places(notes), ~ notes[i].broken, Named(notes, notes[i].name) = {i}
               PROVE  LET g == Graph(notes)
                          near == Neighbors(g, notes[i].name, 1)
                      IN /\ Finding("link-unresolved", i, notes) \in answer.findings
                              <=> \E e \in g.edges : e.from = notes[i].name /\ e.kind = "wikilink" /\ e.to \notin g.nodes
                         /\ Finding("orphan", i, notes) \in answer.findings
                              => near = {}
                         /\ near = {} /\ notes[i].type \notin {"index", "moc"}
                              /\ (\A e \in g.edges : {e.from, e.to} # {notes[i].name})
                              => Finding("orphan", i, notes) \in answer.findings
    BY DEF LintSeesTheGraph
  <2>1. answer.findings = Lint(notes) /\ Distinct(notes)
    BY <1>1 DEF Inv, Sincere, Asked
  <2>2. Finding("link-unresolved", i, notes) \in Lint(notes)
          <=> \E e \in Graph(notes).edges :
                e.from = notes[i].name /\ e.kind = "wikilink" /\ e.to \notin Graph(notes).nodes
    BY <2>1, UnresolvedIsReported
  <2>3. LET near == Neighbors(Graph(notes), notes[i].name, 1)
        IN /\ Finding("orphan", i, notes) \in Lint(notes) => near = {}
           /\ near = {} /\ notes[i].type \notin {"index", "moc"}
                /\ (\A e \in Graph(notes).edges : {e.from, e.to} # {notes[i].name})
              => Finding("orphan", i, notes) \in Lint(notes)
    BY <2>1, OrphanIsReported
  <2> QED
    BY <2>1, <2>2, <2>3
<1>2. ASSUME Inv PROVE LeaksAreReported
  <2> SUFFICES ASSUME Asked("lint"), NEW i \in Places(notes), ~ notes[i].broken, notes[i].type \in {"index", "moc"},
                      NEW label \in Audiences(notes[i]) \ {"private", "public"},
                      NEW j \in Listing(notes, i), notes[j] \notin Range(View(notes, {label}).notes)
               PROVE  Finding("audience-leak", i, notes) \in answer.findings
    BY DEF LeaksAreReported
  <2>1. answer.findings = Lint(notes) /\ Distinct(notes) /\ notes \in Seq(Corpus)
    BY <1>2 DEF Inv, Listed, Sincere, Asked
  <2> QED
    BY <2>1, LeakIsReported
<1>3. Inv => LintAgrees
  BY <1>1, <1>2 DEF LintAgrees
<1> QED
  BY <1>3, InvAlways, PTL

(***************************************************************************)
(* A dispute is one work item of the right kind, and a copy that was cut   *)
(* or extended is found (`contradictions`, `duplicates`).                  *)
(***************************************************************************)
THEOREM CurationMissesNothing == Spec => []CurateIsComplete
<1>1. ASSUME Inv PROVE CopiesAreFound
  <2> DEFINE shown == View(notes, answer.scope).notes
  <2> SUFFICES ASSUME Curated, NEW i \in Places(shown), NEW j \in Places(shown), i # j,
                      LastNamed(shown, shown[i].name) = {i}, LastNamed(shown, shown[j].name) = {j},
                      2 * Cardinality(shown[i].text \cap shown[j].text) >= Cardinality(shown[i].text),
                      MinShingles <= Cardinality(shown[i].text), MinShingles <= Cardinality(shown[j].text),
                      Cardinality(shown[j].text) <= Factor * Cardinality(shown[i].text)
               PROVE  {i, j} \in answer.pairs <=> ~ (Declares(shown, i, j) \/ Declares(shown, j, i))
    BY DEF CopiesAreFound
  <2>1. answer.pairs = Duplicates(shown)
    BY <1>1 DEF Inv, Sincere, Curated, Asked
  <2>2. shown \in Seq(Corpus)
    BY <1>1, ViewHidesNames DEF Inv, Listed
  <2> HIDE DEF shown
  <2> QED
    BY <2>1, <2>2, CopyIsFound
<1>2. ASSUME Inv PROVE OneItemPerDispute
  <2> DEFINE view == View(notes, answer.scope)
             shown == view.notes
             mutual(e) == \E f \in view.graph.edges : f.kind = "contradicts" /\ f.from = e.to /\ f.to = e.from
             rows(e) == {r \in answer.rows : {r.a, r.b} = {e.from, e.to} /\ r.kind # "superseded"}
  <2> SUFFICES ASSUME Curated, NEW e \in Sound(view.graph), e.kind = "contradicts", e.from # e.to,
                      Cardinality(Named(shown, e.from)) = 1, Cardinality(Named(shown, e.to)) = 1
               PROVE  Cardinality(rows(e)) = 1
                      /\ \A r \in rows(e) : r.kind = IF mutual(e) THEN "declared" ELSE "one-sided"
    BY DEF OneItemPerDispute
  <2>1. answer.rows = Contradictions(shown)
    BY <1>2 DEF Inv, Sincere, Curated, Asked
  <2>2. /\ notes \in Seq(Corpus) /\ shown = Visible(notes, answer.scope) /\ shown \in Seq(Corpus)
        /\ view.graph.nodes = Graph(shown).nodes
        /\ view.graph.edges =
             {f \in Edges(shown) : f.from \notin Hidden(notes, answer.scope) /\ f.to \notin Hidden(notes, answer.scope)}
    BY <1>2, ViewHidesNames DEF Inv, Listed
  <2> HIDE DEF view
  <2>3. /\ e \in Edges(shown) /\ e.from \in view.graph.nodes /\ e.to \in view.graph.nodes
        /\ e.from \notin Hidden(notes, answer.scope) /\ e.to \notin Hidden(notes, answer.scope)
    BY <2>2 DEF Sound
  <2>4. \A name : IsFiniteSet(Named(shown, name)) /\ Named(shown, name) \in SUBSET Places(shown)
    <3>1. IsFiniteSet(Places(shown))
      BY <2>2, CountTo DEF Places
    <3>2. \A name : Named(shown, name) \in SUBSET Places(shown)
      BY DEF Named
    <3> QED
      BY <3>1, <3>2, FS_Subset
  <2>5. PICK i : Named(shown, e.from) = {i}
    BY <2>4, FS_Singleton
  <2>6. PICK j : Named(shown, e.to) = {j}
    BY <2>4, FS_Singleton
  <2>7. i \in Places(shown) /\ shown[i].name = e.from /\ j \in Places(shown) /\ shown[j].name = e.to
    BY <2>5, <2>6 DEF Named
  <2>8. Contradicts(shown, i, j)
    <3>1. \E k \in Named(shown, e.from) : e.to \in shown[k].cites["contradicts"]
      BY <2>3, DisputesAreEdges
    <3> QED
      BY <2>5, <2>7, <3>1 DEF Contradicts
  <2>9. mutual(e) <=> Contradicts(shown, j, i)
    <3>1. (\E f \in Edges(shown) : f.kind = "contradicts" /\ f.from = e.to /\ f.to = e.from)
            <=> \E k \in Named(shown, e.to) : e.from \in shown[k].cites["contradicts"]
      BY DisputesAreEdges
    <3>2. mutual(e) <=> \E f \in Edges(shown) : f.kind = "contradicts" /\ f.from = e.to /\ f.to = e.from
      BY <2>2, <2>3
    <3> QED
      BY <2>6, <2>7, <3>1, <3>2 DEF Contradicts
  <2>10. rows(e) = RowsOn(shown, shown[i].name, shown[j].name)
    BY <2>1, <2>7 DEF RowsOn
  <2> HIDE DEF rows, mutual, shown
  <2>11. PICK row : /\ RowsOn(shown, shown[i].name, shown[j].name) = {row}
                    /\ row.kind = IF Contradicts(shown, j, i) THEN "declared" ELSE "one-sided"
    BY <2>5, <2>6, <2>7, <2>8, DisputeIsOneRow
  <2>12. Cardinality({row}) = 1
    BY FS_Singleton
  <2> QED
    BY <2>9, <2>10, <2>11, <2>12
<1>3. Inv => CurateIsComplete
  BY <1>1, <1>2 DEF CurateIsComplete
<1> QED
  BY <1>3, InvAlways, PTL

(***************************************************************************)
(* What a ranker's lists agree on is not reversed by their fusion, by the  *)
(* demotion or by a cut, and a verified note the fused ranker found is     *)
(* shown above what nobody verified (`reciprocalRankFusion`,               *)
(* `fusedRetriever`, `statusAware`).                                       *)
(***************************************************************************)
THEOREM SearchKeepsToEvidence == Spec => []SearchIsOrderly
<1>1. Inv /\ Asked("search") => AgreementHolds /\ VerifiedFirst
  BY SearchAgrees, SearchIsVerified DEF Inv, Sincere, Asked
<1>2. ~ Asked("search") => AgreementHolds /\ VerifiedFirst
  BY DEF AgreementHolds, VerifiedFirst
<1>3. Inv => SearchIsOrderly
  BY <1>1, <1>2 DEF SearchIsOrderly
<1> QED
  BY <1>3, InvAlways, PTL
=============================================================================
