-------------------------- MODULE Communities_proofs --------------------------
(***************************************************************************)
(* What the community report promises, for any notes and any links between *)
(* them: a level scores what the notes score, moves climb, and what is     *)
(* reported is a partition into what is connected.                         *)
(*                                                                         *)
(* And, at the end, that the lexical index updated in place is the one a   *)
(* full build would give, for any paths, names and contents (`NoteIndex`). *)
(***************************************************************************)
EXTENDS Communities, NoteIndex, FiniteSetTheorems, WellFoundedInduction, TLAPS

-----------------------------------------------------------------------------
(* Sums over finite sets. *)

\* What holds of 0, and of each number after one it holds of, holds of them all.
LEMMA AllNumbers ==
  ASSUME NEW S, 0 \in S, \A n \in Nat : n \in S => n + 1 \in S
  PROVE  Nat \subseteq S
<1> SUFFICES ASSUME Nat \ S # {} PROVE FALSE
  OBVIOUS
<1>1. PICK x \in Nat \ S : \A y \in Nat \ S : ~ (<<y, x>> \in OpToRel(<, Nat))
  BY NatLessThanWellFounded, WFMin
<1>2. \A y \in Nat \ S : ~ (y < x)
  BY <1>1, Zenon DEF OpToRel
<1>3. x # 0 /\ x - 1 \in Nat /\ x - 1 < x
  OBVIOUS
<1>4. x - 1 \in S
  BY <1>2, <1>3
<1>5. (x - 1) + 1 \in S
  BY <1>3, <1>4
<1> QED
  BY <1>5

\* What holds of the empty set, and of each set with one more member, holds of every finite set.
LEMMA AllFinite ==
  ASSUME NEW S, IsFiniteSet(S), NEW F, {} \in F,
         \A T \in SUBSET S : \A x \in S \ T : T \in F => T \cup {x} \in F
  PROVE  SUBSET S \subseteq F
<1> DEFINE N == {n \in Nat : \A T \in SUBSET S : Cardinality(T) = n => T \in F}
<1>0. \A T \in SUBSET S : IsFiniteSet(T) /\ Cardinality(T) \in Nat
  BY FS_Subset, FS_CardinalityType
<1>1. 0 \in N
  BY <1>0, FS_EmptySet
<1>2. ASSUME NEW n \in Nat, n \in N PROVE n + 1 \in N
  <2> SUFFICES ASSUME NEW T \in SUBSET S, Cardinality(T) = n + 1 PROVE T \in F
    OBVIOUS
  <2>1. T # {}
    <3> SUFFICES ASSUME T = {} PROVE FALSE
      OBVIOUS
    <3> QED
      BY FS_EmptySet
  <2>2. PICK x \in T : TRUE
    BY <2>1
  <2>3. Cardinality(T \ {x}) = n
    <3>1. Cardinality(T \ {x}) = Cardinality(T) - 1
      BY <1>0, FS_RemoveElement
    <3> QED
      BY <3>1
  <2> DEFINE U == T \ {x}
  <2>4. U \in SUBSET S /\ x \in S \ U /\ T = U \cup {x}
    BY <2>2
  <2>5. U \in F
    BY <1>2, <2>3, <2>4
  <2> HIDE DEF U
  <2> QED
    BY <2>4, <2>5
<1> HIDE DEF N
<1>3. Nat \subseteq N
  BY <1>1, <1>2, AllNumbers
<1> QED
  BY <1>0, <1>3 DEF N

\* The partial sums of a function over the subsets of a set, one member at a time.
PickOf(S) == CHOOSE x \in S : TRUE

\* The sums of all subsets, as the folds of the library find them: a member at a time.
AreSums(h, f, S) == h = [T \in SUBSET S |-> IF T = {} THEN 0 ELSE f[PickOf(T)] + h[T \ {PickOf(T)}]]

\* A sum is the last of those.
LEMMA SumIsPartial ==
  ASSUME NEW f, NEW S
  PROVE  SumFunctionOnSet(f, S) = (CHOOSE h : AreSums(h, f, S))[S]
BY DEF SumFunctionOnSet, FoldFunctionOnSet, MapThenFoldSet, AreSums, PickOf

\* What holds of a set when it holds of its smaller subsets holds of every finite set.
LEMMA AllSmaller ==
  ASSUME NEW S, IsFiniteSet(S), NEW F,
         \A T \in SUBSET S : (\A U \in SUBSET T : U # T => U \in F) => T \in F
  PROVE  SUBSET S \subseteq F
<1> DEFINE N == {n \in Nat : \A T \in SUBSET S : Cardinality(T) <= n => T \in F}
<1>0. \A T \in SUBSET S : IsFiniteSet(T) /\ Cardinality(T) \in Nat
  BY FS_Subset, FS_CardinalityType
<1>1. 0 \in N
  <2> SUFFICES ASSUME NEW T \in SUBSET S, Cardinality(T) <= 0 PROVE T \in F
    OBVIOUS
  <2>1. Cardinality(T) = 0 /\ IsFiniteSet(T)
    BY <1>0
  <2>2. T = {}
    BY <2>1, FS_EmptySet
  <2>3. \A U \in SUBSET T : U # T => U \in F
    BY <2>2
  <2> QED
    BY <2>3
<1>2. ASSUME NEW n \in Nat, n \in N PROVE n + 1 \in N
  <2> SUFFICES ASSUME NEW T \in SUBSET S, Cardinality(T) <= n + 1 PROVE T \in F
    OBVIOUS
  <2>1. ASSUME NEW U \in SUBSET T, U # T PROVE U \in F
    <3>1. Cardinality(U) <= Cardinality(T) /\ Cardinality(U) # Cardinality(T)
      BY <1>0, <2>1, FS_Subset
    <3>2. Cardinality(U) <= n
      BY <1>0, <3>1
    <3> QED
      BY <1>2, <3>2
  <2> QED
    BY <2>1
<1> HIDE DEF N
<1>3. Nat \subseteq N
  BY <1>1, <1>2, AllNumbers
<1> QED
  BY <1>0, <1>3 DEF N

\* The subsets up to a size, and the sums of those.
Small(S, n) == {T \in SUBSET S : Cardinality(T) <= n}

AreSmallSums(h, f, S, n) ==
  h = [T \in Small(S, n) |-> IF T = {} THEN 0 ELSE f[PickOf(T)] + h[T \ {PickOf(T)}]]

\* What is picked is there.
LEMMA Picked == ASSUME NEW T, T # {} PROVE PickOf(T) \in T
BY DEF PickOf

\* There are such sums up to every size,
LEMMA SmallSumsExist ==
  ASSUME NEW f, NEW S, IsFiniteSet(S)
  PROVE  \A n \in Nat : \E h : AreSmallSums(h, f, S, n)
<1> DEFINE N == {n \in Nat : \E h : AreSmallSums(h, f, S, n)}
<1>0. \A T \in SUBSET S : IsFiniteSet(T) /\ Cardinality(T) \in Nat
  BY FS_Subset, FS_CardinalityType
<1>1. 0 \in N
  <2> DEFINE h == [T \in Small(S, 0) |-> 0]
  <2>1. \A T \in Small(S, 0) : T = {}
    <3> SUFFICES ASSUME NEW T \in Small(S, 0) PROVE T = {}
      OBVIOUS
    <3>1. Cardinality(T) = 0 /\ IsFiniteSet(T)
      BY <1>0 DEF Small
    <3> QED
      BY <3>1, FS_EmptySet
  <2>2. AreSmallSums(h, f, S, 0)
    BY <2>1 DEF AreSmallSums
  <2> QED
    BY <2>2
<1>2. ASSUME NEW n \in Nat, n \in N PROVE n + 1 \in N
  <2>1. PICK g : AreSmallSums(g, f, S, n)
    BY <1>2
  <2> DEFINE Built(k) == [T \in Small(S, n + 1) |-> IF T = {} THEN 0 ELSE f[PickOf(T)] + k[T \ {PickOf(T)}]]
             h == Built(g)
  <2>2. ASSUME NEW T \in Small(S, n + 1), T # {}
        PROVE  T \ {PickOf(T)} \in Small(S, n) /\ T \ {PickOf(T)} \in Small(S, n + 1)
    <3>1. PickOf(T) \in T /\ T \in SUBSET S /\ Cardinality(T) <= n + 1
      BY <2>2, Picked DEF Small
    <3>2. Cardinality(T \ {PickOf(T)}) = Cardinality(T) - 1
      BY <1>0, <3>1, FS_RemoveElement
    <3>3. Cardinality(T \ {PickOf(T)}) <= n /\ Cardinality(T \ {PickOf(T)}) <= n + 1
      BY <1>0, <3>1, <3>2
    <3> QED
      BY <3>1, <3>3 DEF Small
  <2>3. \A T \in Small(S, n) : T \in Small(S, n + 1)
    BY <1>0 DEF Small
  <2>4. \A T \in Small(S, n) : g[T] = IF T = {} THEN 0 ELSE f[PickOf(T)] + g[T \ {PickOf(T)}]
    BY <2>1 DEF AreSmallSums
  <2>5. \A T \in Small(S, n) : h[T] = g[T]
    BY <2>3, <2>4
  <2>6. h = Built(h)
    <3>1. \A T \in Small(S, n + 1) : T # {} => h[T \ {PickOf(T)}] = g[T \ {PickOf(T)}]
      BY <2>2, <2>5
    <3> HIDE DEF h
    <3>2. \A T \in Small(S, n + 1) :
            (IF T = {} THEN 0 ELSE f[PickOf(T)] + h[T \ {PickOf(T)}])
              = (IF T = {} THEN 0 ELSE f[PickOf(T)] + g[T \ {PickOf(T)}])
      BY <3>1
    <3>3. Built(h) = Built(g)
      BY <3>2
    <3> QED
      BY <3>3 DEF h
  <2>7. AreSmallSums(h, f, S, n + 1)
    BY <2>6 DEF AreSmallSums
  <2> QED
    BY <2>7
<1> HIDE DEF N
<1>3. Nat \subseteq N
  BY <1>1, <1>2, AllNumbers
<1> QED
  BY <1>3 DEF N

\* and of all subsets;
LEMMA SumsExist ==
  ASSUME NEW f, NEW S, IsFiniteSet(S)
  PROVE  \E h : AreSums(h, f, S)
<1>1. Cardinality(S) \in Nat
  BY FS_CardinalityType
<1>2. PICK h : AreSmallSums(h, f, S, Cardinality(S))
  BY <1>1, SmallSumsExist
<1>3. Small(S, Cardinality(S)) = SUBSET S
  BY FS_Subset DEF Small
<1> QED
  BY <1>2, <1>3 DEF AreSums, AreSmallSums

\* those over a set are those over a larger one.
LEMMA SumsAgree ==
  ASSUME NEW f, NEW S, NEW U \in SUBSET S, IsFiniteSet(S), NEW h, NEW k, AreSums(h, f, S), AreSums(k, f, U)
  PROVE  h[U] = k[U]
<1> DEFINE F == {T \in SUBSET U : h[T] = k[T]}
<1>0. IsFiniteSet(U)
  BY FS_Subset
<1>1. ASSUME NEW T \in SUBSET U, \A V \in SUBSET T : V # T => V \in F PROVE T \in F
  <2>1. h[T] = IF T = {} THEN 0 ELSE f[PickOf(T)] + h[T \ {PickOf(T)}]
    BY DEF AreSums
  <2>2. k[T] = IF T = {} THEN 0 ELSE f[PickOf(T)] + k[T \ {PickOf(T)}]
    BY DEF AreSums
  <2>3. CASE T = {}
    BY <2>1, <2>2, <2>3
  <2>4. CASE T # {}
    <3>1. PickOf(T) \in T
      BY <2>4, Picked
    <3>2. T \ {PickOf(T)} \in SUBSET T /\ T \ {PickOf(T)} # T
      BY <3>1
    <3>3. h[T \ {PickOf(T)}] = k[T \ {PickOf(T)}]
      BY <1>1, <3>2
    <3> QED
      BY <2>1, <2>2, <2>4, <3>3
  <2> QED
    BY <2>3, <2>4
<1> HIDE DEF F
<1>2. SUBSET U \subseteq F
  BY <1>0, <1>1, AllSmaller
<1> QED
  BY <1>2 DEF F

\* The sum over the empty set, and over any other: one of its members, and the rest.
LEMMA SumUnfolds ==
  ASSUME NEW f, NEW S, IsFiniteSet(S)
  PROVE  SumFunctionOnSet(f, S)
           = IF S = {} THEN 0 ELSE f[PickOf(S)] + SumFunctionOnSet(f, S \ {PickOf(S)})
<1> DEFINE h == CHOOSE h : AreSums(h, f, S)
           U == S \ {PickOf(S)}
           k == CHOOSE k : AreSums(k, f, U)
<1>1. AreSums(h, f, S) /\ SumFunctionOnSet(f, S) = h[S]
  BY SumsExist, SumIsPartial
<1>2. IsFiniteSet(U) /\ U \in SUBSET S
  BY FS_Subset
<1>3. AreSums(k, f, U) /\ SumFunctionOnSet(f, U) = k[U]
  BY <1>2, SumsExist, SumIsPartial
<1>4. h[U] = k[U]
  BY <1>1, <1>2, <1>3, SumsAgree
<1>5. h[S] = IF S = {} THEN 0 ELSE f[PickOf(S)] + h[S \ {PickOf(S)}]
  BY <1>1 DEF AreSums
<1> HIDE DEF h, k
<1> QED
  BY <1>1, <1>3, <1>4, <1>5

\* Where a function is of integers.
Ints(f, S) == \A x \in S : f[x] \in Int

\* Sums of integers are integers.
LEMMA SumIsInt ==
  ASSUME NEW f, NEW S, IsFiniteSet(S), Ints(f, S)
  PROVE  SumFunctionOnSet(f, S) \in Int
<1> DEFINE F == {T \in SUBSET S : SumFunctionOnSet(f, T) \in Int}
<1>1. ASSUME NEW T \in SUBSET S, \A V \in SUBSET T : V # T => V \in F PROVE T \in F
  <2>1. SumFunctionOnSet(f, T) = IF T = {} THEN 0 ELSE f[PickOf(T)] + SumFunctionOnSet(f, T \ {PickOf(T)})
    BY FS_Subset, SumUnfolds
  <2>2. CASE T = {}
    BY <2>1, <2>2
  <2>3. CASE T # {}
    <3>1. PickOf(T) \in T
      BY <2>3, Picked
    <3>2. T \ {PickOf(T)} \in F /\ f[PickOf(T)] \in Int
      BY <1>1, <3>1 DEF Ints
    <3> QED
      BY <2>1, <2>3, <3>2
  <2> QED
    BY <2>2, <2>3
<1> HIDE DEF F
<1>2. SUBSET S \subseteq F
  BY <1>1, AllSmaller
<1> QED
  BY <1>2 DEF F

\* Any member may be the first.
LEMMA SumTakes ==
  ASSUME NEW f, NEW S, IsFiniteSet(S), Ints(f, S)
  PROVE  \A T \in SUBSET S : \A x \in T : SumFunctionOnSet(f, T) = f[x] + SumFunctionOnSet(f, T \ {x})
<1> DEFINE Sum(T) == SumFunctionOnSet(f, T)
           F == {T \in SUBSET S : \A x \in T : Sum(T) = f[x] + Sum(T \ {x})}
<1>0. \A T \in SUBSET S : IsFiniteSet(T) /\ Ints(f, T) /\ Sum(T) \in Int
  BY FS_Subset, SumIsInt DEF Ints
<1>1. ASSUME NEW T \in SUBSET S, \A V \in SUBSET T : V # T => V \in F PROVE T \in F
  <2> SUFFICES ASSUME NEW x \in T PROVE Sum(T) = f[x] + Sum(T \ {x})
    OBVIOUS
  <2> DEFINE y == PickOf(T)
  <2>1. y \in T /\ Sum(T) = f[y] + Sum(T \ {y})
    BY <1>0, Picked, SumUnfolds
  <2>2. CASE x = y
    BY <2>1, <2>2
  <2>3. CASE x # y
    <3>1. T \ {y} \in F /\ x \in T \ {y}
      BY <1>1, <2>1, <2>3
    <3>2. Sum(T \ {y}) = f[x] + Sum((T \ {y}) \ {x})
      BY <3>1
    <3>3. T \ {x} \in F /\ y \in T \ {x}
      BY <1>1, <2>1, <2>3
    <3>4. Sum(T \ {x}) = f[y] + Sum((T \ {x}) \ {y})
      BY <3>3
    <3>5. (T \ {x}) \ {y} = (T \ {y}) \ {x}
      OBVIOUS
    <3>6. (T \ {y}) \ {x} \in SUBSET S
      OBVIOUS
    <3>7. PICK a, b, c \in Int : a = f[x] /\ b = f[y] /\ c = Sum((T \ {y}) \ {x})
      BY <1>0, <2>1, <3>6 DEF Ints
    <3> HIDE DEF y, Sum
    <3>8. Sum(T) = b + (a + c) /\ Sum(T \ {x}) = b + c
      BY <2>1, <3>2, <3>4, <3>5, <3>7
    <3>9. b + (a + c) = a + (b + c)
      OBVIOUS
    <3> QED
      BY <3>7, <3>8, <3>9
  <2> QED
    BY <2>2, <2>3
<1> HIDE DEF F
<1>2. SUBSET S \subseteq F
  BY <1>1, AllSmaller
<1> QED
  BY <1>2 DEF F

\* The sum of nothing is 0.
LEMMA SumOfNone == ASSUME NEW f PROVE SumFunctionOnSet(f, {}) = 0
BY SumUnfolds, FS_EmptySet

\* One more member.
LEMMA SumAdds ==
  ASSUME NEW f, NEW S, IsFiniteSet(S), NEW x, x \notin S, Ints(f, S \cup {x})
  PROVE  SumFunctionOnSet(f, S \cup {x}) = f[x] + SumFunctionOnSet(f, S)
<1> DEFINE T == S \cup {x}
<1>1. IsFiniteSet(T) /\ x \in T /\ T \in SUBSET T /\ T \ {x} = S
  BY FS_AddElement
<1>2. SumFunctionOnSet(f, T) = f[x] + SumFunctionOnSet(f, T \ {x})
  BY <1>1, SumTakes
<1> QED
  BY <1>1, <1>2

\* Functions that agree on the set have one sum over it.
LEMMA SumOfSame ==
  ASSUME NEW f, NEW g, NEW S, IsFiniteSet(S), Ints(f, S), \A x \in S : f[x] = g[x]
  PROVE  SumFunctionOnSet(f, S) = SumFunctionOnSet(g, S)
<1> DEFINE F == {T \in SUBSET S : SumFunctionOnSet(f, T) = SumFunctionOnSet(g, T)}
<1>1. {} \in F
  BY SumOfNone
<1>2. ASSUME NEW T \in SUBSET S, NEW x \in S \ T, T \in F PROVE T \cup {x} \in F
  <2>1. IsFiniteSet(T) /\ Ints(f, T \cup {x}) /\ Ints(g, T \cup {x}) /\ f[x] = g[x]
    BY FS_Subset DEF Ints
  <2>2. SumFunctionOnSet(f, T \cup {x}) = f[x] + SumFunctionOnSet(f, T)
    BY <2>1, SumAdds
  <2>3. SumFunctionOnSet(g, T \cup {x}) = g[x] + SumFunctionOnSet(g, T)
    BY <2>1, SumAdds
  <2> QED
    BY <1>2, <2>1, <2>2, <2>3
<1> HIDE DEF F
<1>3. SUBSET S \subseteq F
  BY <1>1, <1>2, AllFinite
<1> QED
  BY <1>3 DEF F

\* Two sets with nothing in common.
LEMMA SumOfUnion ==
  ASSUME NEW f, NEW S, NEW R, IsFiniteSet(S), IsFiniteSet(R), S \cap R = {}, Ints(f, S), Ints(f, R)
  PROVE  SumFunctionOnSet(f, S \cup R) = SumFunctionOnSet(f, S) + SumFunctionOnSet(f, R)
<1> DEFINE F == {T \in SUBSET R : SumFunctionOnSet(f, S \cup T) = SumFunctionOnSet(f, S) + SumFunctionOnSet(f, T)}
<1>0. SumFunctionOnSet(f, S) \in Int
  BY SumIsInt
<1>1. {} \in F
  BY <1>0, SumOfNone
<1>2. ASSUME NEW T \in SUBSET R, NEW x \in R \ T, T \in F PROVE T \cup {x} \in F
  <2> DEFINE U == S \cup T
  <2>1. IsFiniteSet(T) /\ IsFiniteSet(U) /\ x \notin U /\ S \cup (T \cup {x}) = U \cup {x}
    BY FS_Subset, FS_Union
  <2>2. Ints(f, T) /\ Ints(f, T \cup {x}) /\ Ints(f, U \cup {x}) /\ f[x] \in Int
    BY DEF Ints
  <2>3. SumFunctionOnSet(f, U \cup {x}) = f[x] + SumFunctionOnSet(f, U)
    BY <2>1, <2>2, SumAdds
  <2>4. SumFunctionOnSet(f, T \cup {x}) = f[x] + SumFunctionOnSet(f, T)
    BY <2>1, <2>2, SumAdds
  <2>5. PICK a, b, c \in Int : a = f[x] /\ b = SumFunctionOnSet(f, S) /\ c = SumFunctionOnSet(f, T)
    BY <1>0, <2>1, <2>2, SumIsInt
  <2>6. SumFunctionOnSet(f, U) = b + c
    BY <1>2, <2>5
  <2> HIDE DEF U
  <2>7. SumFunctionOnSet(f, U \cup {x}) = a + (b + c) /\ SumFunctionOnSet(f, T \cup {x}) = a + c
    BY <2>3, <2>4, <2>5, <2>6
  <2>8. a + (b + c) = b + (a + c)
    OBVIOUS
  <2>9. SumFunctionOnSet(f, S \cup (T \cup {x})) = SumFunctionOnSet(f, S) + SumFunctionOnSet(f, T \cup {x})
    BY <2>1, <2>5, <2>7, <2>8
  <2> QED
    BY <2>9
<1> HIDE DEF F
<1>3. SUBSET R \subseteq F
  BY <1>1, <1>2, AllFinite
<1> QED
  BY <1>3 DEF F

\* Summands no greater have a sum no greater.
LEMMA SumIsMonotonic ==
  ASSUME NEW f, NEW g, NEW S, IsFiniteSet(S), Ints(f, S), Ints(g, S), \A x \in S : f[x] <= g[x]
  PROVE  SumFunctionOnSet(f, S) <= SumFunctionOnSet(g, S)
<1> DEFINE F == {T \in SUBSET S : SumFunctionOnSet(f, T) <= SumFunctionOnSet(g, T)}
<1>1. {} \in F
  BY SumOfNone
<1>2. ASSUME NEW T \in SUBSET S, NEW x \in S \ T, T \in F PROVE T \cup {x} \in F
  <2>1. IsFiniteSet(T) /\ Ints(f, T \cup {x}) /\ Ints(g, T \cup {x}) /\ Ints(f, T) /\ Ints(g, T)
    BY FS_Subset DEF Ints
  <2>2. PICK a, b \in Int : a = f[x] /\ b = g[x] /\ a <= b
    BY DEF Ints
  <2>3. PICK p, q \in Int : p = SumFunctionOnSet(f, T) /\ q = SumFunctionOnSet(g, T) /\ p <= q
    BY <1>2, <2>1, SumIsInt
  <2>4. SumFunctionOnSet(f, T \cup {x}) = a + p /\ SumFunctionOnSet(g, T \cup {x}) = b + q
    BY <2>1, <2>2, <2>3, SumAdds
  <2> QED
    BY <2>2, <2>3, <2>4
<1> HIDE DEF F
<1>3. SUBSET S \subseteq F
  BY <1>1, <1>2, AllFinite
<1> QED
  BY <1>3 DEF F

\* What is summed by the value it has under a map is summed.
LEMMA SumByImage ==
  ASSUME NEW f, NEW S, IsFiniteSet(S), Ints(f, S), NEW h, NEW R, IsFiniteSet(R), \A x \in S : h[x] \in R
  PROVE  SumFunctionOnSet([y \in R |-> SumFunctionOnSet(f, {x \in S : h[x] = y})], R) = SumFunctionOnSet(f, S)
<1> DEFINE Over(T) == {x \in S : h[x] \in T}
           Value(y) == {x \in S : h[x] = y}
           g == [y \in R |-> SumFunctionOnSet(f, Value(y))]
           F == {T \in SUBSET R : SumFunctionOnSet(g, T) = SumFunctionOnSet(f, Over(T))}
<1>0. \A T \in SUBSET S : IsFiniteSet(T) /\ Ints(f, T) /\ SumFunctionOnSet(f, T) \in Int
  BY FS_Subset, SumIsInt DEF Ints
<1>1. {} \in F
  <2>1. Over({}) = {}
    OBVIOUS
  <2> HIDE DEF Over
  <2> QED
    BY <2>1, SumOfNone
<1>2. ASSUME NEW T \in SUBSET R, NEW y \in R \ T, T \in F PROVE T \cup {y} \in F
  <2>1. IsFiniteSet(T) /\ Ints(g, T \cup {y})
    BY <1>0, FS_Subset DEF Ints
  <2>2. SumFunctionOnSet(g, T \cup {y}) = g[y] + SumFunctionOnSet(g, T)
    BY <2>1, SumAdds
  <2>3. g[y] = SumFunctionOnSet(f, Value(y)) /\ SumFunctionOnSet(g, T) = SumFunctionOnSet(f, Over(T))
    BY <1>2
  <2>4. Over(T \cup {y}) = Value(y) \cup Over(T) /\ Value(y) \cap Over(T) = {}
    OBVIOUS
  <2>5. Value(y) \in SUBSET S /\ Over(T) \in SUBSET S
    OBVIOUS
  <2> HIDE DEF Over, Value, g
  <2>6. SumFunctionOnSet(f, Value(y) \cup Over(T)) = SumFunctionOnSet(f, Value(y)) + SumFunctionOnSet(f, Over(T))
    BY <1>0, <2>4, <2>5, SumOfUnion
  <2> QED
    BY <2>2, <2>3, <2>4, <2>6
<1>3. Over(R) = S
  OBVIOUS
<1> HIDE DEF F
<1>4. SUBSET R \subseteq F
  BY <1>1, <1>2, AllFinite
<1> QED
  BY <1>3, <1>4 DEF F

\* Summed under other names.
LEMMA SumRenamed ==
  ASSUME NEW f, NEW S, IsFiniteSet(S), NEW h, NEW R, Ints(f, R),
         \A x \in S : h[x] \in R,
         \A x, y \in S : h[x] = h[y] => x = y,
         \A z \in R : \E x \in S : h[x] = z
  PROVE  SumFunctionOnSet([x \in S |-> f[h[x]]], S) = SumFunctionOnSet(f, R)
<1> DEFINE g == [x \in S |-> f[h[x]]]
           Im(T) == {h[x] : x \in T}
           F == {T \in SUBSET S : IsFiniteSet(Im(T)) /\ SumFunctionOnSet(g, T) = SumFunctionOnSet(f, Im(T))}
<1>1. {} \in F
  <2>1. Im({}) = {}
    OBVIOUS
  <2> HIDE DEF Im
  <2> QED
    BY <2>1, SumOfNone, FS_EmptySet
<1>2. ASSUME NEW T \in SUBSET S, NEW x \in S \ T, T \in F PROVE T \cup {x} \in F
  <2>1. IsFiniteSet(T) /\ Ints(g, T \cup {x}) /\ Ints(f, Im(T) \cup {h[x]})
    BY FS_Subset DEF Ints
  <2>2. Im(T \cup {x}) = Im(T) \cup {h[x]} /\ h[x] \notin Im(T)
    OBVIOUS
  <2>3. IsFiniteSet(Im(T)) /\ SumFunctionOnSet(g, T) = SumFunctionOnSet(f, Im(T)) /\ g[x] = f[h[x]]
    BY <1>2
  <2> HIDE DEF Im, g
  <2>4. SumFunctionOnSet(g, T \cup {x}) = g[x] + SumFunctionOnSet(g, T)
    BY <2>1, SumAdds
  <2>5. SumFunctionOnSet(f, Im(T) \cup {h[x]}) = f[h[x]] + SumFunctionOnSet(f, Im(T))
    BY <2>1, <2>2, <2>3, SumAdds
  <2>6. IsFiniteSet(Im(T) \cup {h[x]})
    BY <2>3, FS_AddElement
  <2> QED
    BY <2>2, <2>3, <2>4, <2>5, <2>6
<1>3. Im(S) = R
  OBVIOUS
<1> HIDE DEF F
<1>4. SUBSET S \subseteq F
  BY <1>1, <1>2, AllFinite
<1> QED
  BY <1>3, <1>4 DEF F
-----------------------------------------------------------------------------
(* What pairs of nodes weigh, and degrees. *)

\* A weighted graph, loops and all.
IsGraph(g) == IsFiniteSet(g.nodes) /\ g.w \in [Pairs(g.nodes) -> Nat] /\ g = [nodes |-> g.nodes, w |-> g.w]

\* What some pairs weigh together, those of a node with each of a set, and those that leave a set.
WeightOf(g, Q) == SumFunctionOnSet(g.w, Q)
Star(x, S) == {{x, b} : b \in S}
Cut(g, S) == {{a, b} : a \in S, b \in g.nodes \ S}

\* A finite set has finitely many pairs.
LEMMA PairsAreFinite ==
  ASSUME NEW S, IsFiniteSet(S)
  PROVE  IsFiniteSet(Pairs(S))
<1>1. Pairs(S) \in SUBSET (SUBSET S)
  BY DEF Pairs
<1> QED
  BY <1>1, FS_SUBSET, FS_Subset

\* One node more brings its pairs with the others, and its loop.
LEMMA PairsOfMore ==
  ASSUME NEW S, NEW x
  PROVE  /\ Pairs(S \cup {x}) = Pairs(S) \cup (Star(x, S) \cup {{x}})
         /\ x \notin S => Pairs(S) \cap (Star(x, S) \cup {{x}}) = {} /\ Star(x, S) \cap {{x}} = {}
<1>1. Pairs(S \cup {x}) \subseteq Pairs(S) \cup (Star(x, S) \cup {{x}})
  <2> SUFFICES ASSUME NEW q \in Pairs(S \cup {x})
               PROVE  q \in Pairs(S) \cup (Star(x, S) \cup {{x}})
    OBVIOUS
  <2>0. PICK a, b \in S \cup {x} : q = {a, b}
    BY DEF Pairs
  <2>1. CASE a \in S /\ b \in S
    BY <2>0, <2>1 DEF Pairs
  <2>2. CASE a = x /\ b \in S
    BY <2>0, <2>2 DEF Star
  <2>3. CASE a \in S /\ b = x
    <3>1. {a, b} = {x, a}
      BY <2>3
    <3> QED
      BY <2>0, <2>3, <3>1 DEF Star
  <2>4. CASE a = x /\ b = x
    <3>1. {a, b} = {x}
      BY <2>4
    <3> QED
      BY <2>0, <3>1
  <2> QED
    BY <2>0, <2>1, <2>2, <2>3, <2>4
<1>2. Pairs(S) \subseteq Pairs(S \cup {x}) /\ Star(x, S) \subseteq Pairs(S \cup {x})
  BY DEF Pairs, Star
<1>3. {x} \in Pairs(S \cup {x})
  <2>1. {x} = {x, x}
    OBVIOUS
  <2> QED
    BY <2>1 DEF Pairs
<1>4. ASSUME x \notin S
      PROVE  Pairs(S) \cap (Star(x, S) \cup {{x}}) = {} /\ Star(x, S) \cap {{x}} = {}
  <2>1. \A q \in Pairs(S) : x \notin q
    BY <1>4 DEF Pairs
  <2>2. \A q \in Star(x, S) : x \in q /\ q # {x}
    BY <1>4 DEF Star
  <2> QED
    BY <2>1, <2>2
<1> QED
  BY <1>1, <1>2, <1>3, <1>4

\* The pairs of a graph: their weights can be summed.
LEMMA WeightsAdd ==
  ASSUME NEW g, IsGraph(g)
  PROVE  /\ \A Q \in SUBSET Pairs(g.nodes) : IsFiniteSet(Q) /\ Ints(g.w, Q) /\ WeightOf(g, Q) \in Int
         /\ \A Q, R \in SUBSET Pairs(g.nodes) :
              Q \cap R = {} => WeightOf(g, Q \cup R) = WeightOf(g, Q) + WeightOf(g, R)
         /\ \A q \in Pairs(g.nodes) : WeightOf(g, {q}) = g.w[q]
<1>1. \A Q \in SUBSET Pairs(g.nodes) : IsFiniteSet(Q) /\ Ints(g.w, Q)
  BY PairsAreFinite, FS_Subset DEF IsGraph, Ints
<1>2. \A Q \in SUBSET Pairs(g.nodes) : WeightOf(g, Q) \in Int
  BY <1>1, SumIsInt DEF WeightOf
<1>3. \A Q, R \in SUBSET Pairs(g.nodes) :
        Q \cap R = {} => WeightOf(g, Q \cup R) = WeightOf(g, Q) + WeightOf(g, R)
  BY <1>1, SumOfUnion DEF WeightOf
<1>4. ASSUME NEW q \in Pairs(g.nodes) PROVE WeightOf(g, {q}) = g.w[q]
  <2>1. Ints(g.w, {} \cup {q}) /\ g.w[q] \in Int
    BY DEF IsGraph, Ints
  <2>2. SumFunctionOnSet(g.w, {} \cup {q}) = g.w[q] + SumFunctionOnSet(g.w, {})
    BY <2>1, SumAdds, FS_EmptySet
  <2>3. {} \cup {q} = {q}
    OBVIOUS
  <2> QED
    BY <2>1, <2>2, <2>3, SumOfNone DEF WeightOf
<1> QED
  BY <1>1, <1>2, <1>3, <1>4

\* What a node weighs with each of a set.
LEMMA StarWeighs ==
  ASSUME NEW g, IsGraph(g), NEW x \in g.nodes, NEW S \in SUBSET g.nodes
  PROVE  /\ Star(x, S) \in SUBSET Pairs(g.nodes)
         /\ SumFunction([b \in S |-> Weight(g, x, b)]) = WeightOf(g, Star(x, S))
<1>1. Star(x, S) \in SUBSET Pairs(g.nodes)
  BY DEF Star, Pairs
<1> DEFINE h == [b \in S |-> {x, b}]
           row == [b \in S |-> Weight(g, x, b)]
<1>2. IsFiniteSet(S)
  BY FS_Subset DEF IsGraph
<1>3. Ints(g.w, Star(x, S))
  BY <1>1, WeightsAdd
<1>4. \A b \in S : h[b] \in Star(x, S)
  BY DEF Star
<1>5. \A b, c \in S : h[b] = h[c] => b = c
  OBVIOUS
<1>6. \A q \in Star(x, S) : \E b \in S : h[b] = q
  BY DEF Star
<1> HIDE DEF h
<1>7. SumFunctionOnSet([b \in S |-> g.w[h[b]]], S) = SumFunctionOnSet(g.w, Star(x, S))
  BY <1>2, <1>3, <1>4, <1>5, <1>6, SumRenamed
<1>8. [b \in S |-> g.w[h[b]]] = row
  BY DEF h, Weight
<1> QED
  BY <1>1, <1>7, <1>8 DEF SumFunction, WeightOf

\* Sums of naturals are naturals.
LEMMA SumOfNats ==
  ASSUME NEW f, NEW S, IsFiniteSet(S), \A x \in S : f[x] \in Nat
  PROVE  SumFunctionOnSet(f, S) \in Nat
<1> DEFINE F == {T \in SUBSET S : SumFunctionOnSet(f, T) \in Nat}
<1>1. {} \in F
  BY SumOfNone
<1>2. ASSUME NEW T \in SUBSET S, NEW x \in S \ T, T \in F PROVE T \cup {x} \in F
  <2>1. IsFiniteSet(T) /\ Ints(f, T \cup {x})
    BY FS_Subset DEF Ints
  <2>2. SumFunctionOnSet(f, T \cup {x}) = f[x] + SumFunctionOnSet(f, T)
    BY <2>1, SumAdds
  <2> QED
    BY <1>2, <2>2
<1> HIDE DEF F
<1>3. SUBSET S \subseteq F
  BY <1>1, <1>2, AllFinite
<1> QED
  BY <1>3 DEF F

\* So are what pairs weigh together.
LEMMA WeightsAreNat ==
  ASSUME NEW g, IsGraph(g), NEW Q \in SUBSET Pairs(g.nodes)
  PROVE  WeightOf(g, Q) \in Nat
BY WeightsAdd, SumOfNats DEF WeightOf, IsGraph

\* A loop is a pair.
LEMMA LoopIsPair == ASSUME NEW S, NEW x \in S PROVE {x} \in Pairs(S)
<1>1. {x} = {x, x}
  OBVIOUS
<1> QED
  BY <1>1 DEF Pairs

\* Pairs apart weigh together what they weigh apart.
LEMMA WeightOfBoth ==
  ASSUME NEW g, IsGraph(g), NEW Q \in SUBSET Pairs(g.nodes), NEW R \in SUBSET Pairs(g.nodes), Q \cap R = {}
  PROVE  WeightOf(g, Q \cup R) = WeightOf(g, Q) + WeightOf(g, R)
BY WeightsAdd

\* The degree of a node: what it weighs with any set it is not in, and with all others; a loop twice.
LEMMA DegreeSplits ==
  ASSUME NEW g, IsGraph(g), NEW x \in g.nodes, NEW S \in SUBSET g.nodes, x \notin S
  PROVE  DegreeOf(g, x) = WeightOf(g, Star(x, S)) + WeightOf(g, Star(x, g.nodes \ (S \cup {x}))) + 2 * g.w[{x}]
<1> DEFINE R == g.nodes \ (S \cup {x})
<1>1. DegreeOf(g, x) = WeightOf(g, Star(x, g.nodes)) + g.w[{x}]
  <2>1. {x, x} = {x}
    OBVIOUS
  <2> QED
    BY <2>1, StarWeighs DEF DegreeOf, Weight
<1>2. Star(x, S) \in SUBSET Pairs(g.nodes) /\ Star(x, R) \in SUBSET Pairs(g.nodes) /\ {x} \in Pairs(g.nodes)
  BY StarWeighs, LoopIsPair
<1>3. Star(x, g.nodes) = (Star(x, S) \cup Star(x, R)) \cup {{x}}
  <2>1. ASSUME NEW b \in g.nodes PROVE {x, b} \in (Star(x, S) \cup Star(x, R)) \cup {{x}}
    <3>1. CASE b = x
      BY <3>1
    <3>2. CASE b # x
      BY <3>2 DEF Star
    <3> QED
      BY <3>1, <3>2
  <2>2. {x} = {x, x}
    OBVIOUS
  <2> QED
    BY <2>1, <2>2 DEF Star
<1>4. Star(x, S) \cap Star(x, R) = {}
  <2> SUFFICES ASSUME NEW a \in S, NEW b \in R, {x, a} = {x, b} PROVE FALSE
    BY DEF Star
  <2> QED
    OBVIOUS
<1>5. (Star(x, S) \cup Star(x, R)) \cap {{x}} = {}
  <2> SUFFICES ASSUME NEW a \in S \cup R, {x, a} = {x} PROVE FALSE
    BY DEF Star
  <2> QED
    OBVIOUS
<1> HIDE DEF R
<1>6. WeightOf(g, Star(x, S) \cup Star(x, R)) = WeightOf(g, Star(x, S)) + WeightOf(g, Star(x, R))
  BY <1>2, <1>4, WeightsAdd
<1>7. WeightOf(g, (Star(x, S) \cup Star(x, R)) \cup {{x}}) = WeightOf(g, Star(x, S) \cup Star(x, R)) + g.w[{x}]
  <2>1. (Star(x, S) \cup Star(x, R)) \in SUBSET Pairs(g.nodes) /\ {{x}} \in SUBSET Pairs(g.nodes)
    BY <1>2
  <2>2. WeightOf(g, {{x}}) = g.w[{x}]
    BY <1>2, WeightsAdd
  <2> QED
    BY <1>5, <2>1, <2>2, WeightsAdd
<1>8. PICK a, b, c \in Int : a = WeightOf(g, Star(x, S)) /\ b = WeightOf(g, Star(x, R)) /\ c = g.w[{x}]
  BY <1>2, WeightsAdd DEF IsGraph
<1>9. DegreeOf(g, x) = ((a + b) + c) + c
  BY <1>1, <1>3, <1>6, <1>7, <1>8
<1>10. ((a + b) + c) + c = a + b + 2 * c
  OBVIOUS
<1> QED
  BY <1>8, <1>9, <1>10 DEF R

\* Degrees are naturals, and their sums integers.
LEMMA DegreesAreInts ==
  ASSUME NEW g, IsGraph(g)
  PROVE  /\ \A a \in g.nodes : DegreeOf(g, a) \in Nat
         /\ \A S \in SUBSET g.nodes : DegreeIn(g, S) \in Int /\ IsFiniteSet(S)
<1>1. ASSUME NEW a \in g.nodes PROVE DegreeOf(g, a) \in Nat
  <2> DEFINE row == [b \in g.nodes |-> Weight(g, a, b)]
  <2>1. \A b \in g.nodes : Weight(g, a, b) \in Nat
    BY DEF Weight, IsGraph, Pairs
  <2>2. SumFunctionOnSet(row, g.nodes) \in Nat
    BY <2>1, SumOfNats DEF IsGraph
  <2> QED
    BY <2>1, <2>2 DEF DegreeOf, SumFunction
<1>2. ASSUME NEW S \in SUBSET g.nodes PROVE DegreeIn(g, S) \in Int /\ IsFiniteSet(S)
  BY <1>1, FS_Subset, SumIsInt DEF DegreeIn, SumFunction, Ints, IsGraph
<1> QED
  BY <1>1, <1>2

\* One node more brings its degree.
LEMMA DegreeOfMore ==
  ASSUME NEW g, IsGraph(g), NEW S \in SUBSET g.nodes, NEW x \in g.nodes \ S
  PROVE  DegreeIn(g, S \cup {x}) = DegreeOf(g, x) + DegreeIn(g, S)
<1> DEFINE f == [a \in S |-> DegreeOf(g, a)]
           h == [a \in S \cup {x} |-> DegreeOf(g, a)]
<1>1. IsFiniteSet(S) /\ Ints(f, S) /\ Ints(h, S) /\ Ints(h, S \cup {x})
  BY DegreesAreInts DEF Ints
<1>2. SumFunctionOnSet(h, S \cup {x}) = h[x] + SumFunctionOnSet(h, S)
  BY <1>1, SumAdds
<1>3. SumFunctionOnSet(f, S) = SumFunctionOnSet(h, S)
  <2>1. \A a \in S : f[a] = h[a]
    OBVIOUS
  <2> HIDE DEF f, h
  <2> QED
    BY <1>1, <2>1, SumOfSame
<1> QED
  BY <1>2, <1>3 DEF DegreeIn, SumFunction

\* The degrees of a set: the pairs in it twice, and those that leave it once.
LEMMA DegreesCountPairs ==
  ASSUME NEW g, IsGraph(g)
  PROVE  \A S \in SUBSET g.nodes : DegreeIn(g, S) = 2 * WeightOf(g, Pairs(S)) + WeightOf(g, Cut(g, S))
<1> DEFINE F == {S \in SUBSET g.nodes : DegreeIn(g, S) = 2 * WeightOf(g, Pairs(S)) + WeightOf(g, Cut(g, S))}
<1>1. {} \in F
  <2>1. Pairs({}) = {} /\ Cut(g, {}) = {}
    BY DEF Pairs, Cut
  <2>2. DegreeIn(g, {}) = 0
    BY SumOfNone DEF DegreeIn, SumFunction
  <2>3. WeightOf(g, {}) = 0
    BY SumOfNone DEF WeightOf
  <2> QED
    BY <2>1, <2>2, <2>3
<1>2. ASSUME NEW S \in SUBSET g.nodes, NEW x \in g.nodes \ S, S \in F PROVE S \cup {x} \in F
  <2> DEFINE T == S \cup {x}
             R == g.nodes \ T
             Q == {{a, b} : a \in S, b \in R}
  <2>1. Pairs(T) = Pairs(S) \cup (Star(x, S) \cup {{x}})
        /\ Pairs(S) \cap (Star(x, S) \cup {{x}}) = {} /\ Star(x, S) \cap {{x}} = {}
    BY PairsOfMore
  <2>2. Cut(g, S) = Q \cup Star(x, S) /\ Q \cap Star(x, S) = {}
    <3>1. ASSUME NEW a \in S, NEW b \in g.nodes \ S PROVE {a, b} \in Q \cup Star(x, S)
      <4>1. CASE b = x
        <5>1. {a, b} = {x, a}
          BY <4>1
        <5> QED
          BY <5>1 DEF Star
      <4>2. CASE b # x
        BY <4>2
      <4> QED
        BY <4>1, <4>2
    <3>2. ASSUME NEW a \in S PROVE {x, a} \in Cut(g, S)
      <4>1. {x, a} = {a, x}
        OBVIOUS
      <4> QED
        BY <4>1 DEF Cut
    <3>3. Q \subseteq Cut(g, S)
      BY DEF Cut
    <3>4. \A q \in Q : x \notin q
      OBVIOUS
    <3>5. \A q \in Star(x, S) : x \in q
      BY DEF Star
    <3>6. Cut(g, S) \subseteq Q \cup Star(x, S)
      <4> SUFFICES ASSUME NEW q \in Cut(g, S) PROVE q \in Q \cup Star(x, S)
        OBVIOUS
      <4>1. PICK a \in S, b \in g.nodes \ S : q = {a, b}
        BY DEF Cut
      <4> QED
        BY <3>1, <4>1
    <3>7. Star(x, S) \subseteq Cut(g, S)
      BY <3>2 DEF Star
    <3> QED
      BY <3>3, <3>4, <3>5, <3>6, <3>7
  <2>3. Cut(g, T) = Q \cup Star(x, R) /\ Q \cap Star(x, R) = {}
    <3>1. \A q \in Q : x \notin q
      OBVIOUS
    <3>2. \A q \in Star(x, R) : x \in q
      BY DEF Star
    <3>3. ASSUME NEW q \in Cut(g, T) PROVE q \in Q \cup Star(x, R)
      <4>1. PICK a \in T, b \in R : q = {a, b}
        BY DEF Cut
      <4>2. CASE a = x
        BY <4>1, <4>2 DEF Star
      <4>3. CASE a \in S
        BY <4>1, <4>3
      <4> QED
        BY <4>2, <4>3
    <3>4. Q \subseteq Cut(g, T) /\ Star(x, R) \subseteq Cut(g, T)
      BY DEF Cut, Star
    <3> HIDE DEF Q, R, T
    <3> QED
      BY <3>1, <3>2, <3>3, <3>4
  <2>4. /\ Pairs(S) \in SUBSET Pairs(g.nodes) /\ Q \in SUBSET Pairs(g.nodes)
        /\ Star(x, S) \in SUBSET Pairs(g.nodes) /\ Star(x, R) \in SUBSET Pairs(g.nodes)
        /\ {x} \in Pairs(g.nodes)
    <3>1. Pairs(S) \in SUBSET Pairs(g.nodes)
      BY DEF Pairs
    <3>2. Q \in SUBSET Pairs(g.nodes)
      BY DEF Pairs
    <3>3. S \in SUBSET g.nodes /\ R \in SUBSET g.nodes /\ x \in g.nodes
      OBVIOUS
    <3> HIDE DEF Q, R
    <3> QED
      BY <3>1, <3>2, <3>3, StarWeighs, LoopIsPair
  <2>5. DegreeIn(g, T) = DegreeOf(g, x) + DegreeIn(g, S)
    BY DegreeOfMore
  <2>6. DegreeOf(g, x) = WeightOf(g, Star(x, S)) + WeightOf(g, Star(x, R)) + 2 * g.w[{x}]
    BY DegreeSplits
  <2>7. DegreeIn(g, S) = 2 * WeightOf(g, Pairs(S)) + WeightOf(g, Cut(g, S))
    BY <1>2
  <2> HIDE DEF T, R, Q
  <2>8. PICK in, there, out, rest, loop \in Int :
           /\ in = WeightOf(g, Pairs(S)) /\ there = WeightOf(g, Star(x, S)) /\ out = WeightOf(g, Star(x, R))
           /\ rest = WeightOf(g, Q) /\ loop = g.w[{x}]
    BY <2>4, WeightsAdd DEF IsGraph
  <2>9. WeightOf(g, Star(x, S) \cup {{x}}) = there + loop
    <3>1. {{x}} \in SUBSET Pairs(g.nodes) /\ WeightOf(g, {{x}}) = loop
      BY <2>4, <2>8, WeightsAdd
    <3>2. WeightOf(g, Star(x, S) \cup {{x}}) = WeightOf(g, Star(x, S)) + WeightOf(g, {{x}})
      BY <2>1, <2>4, <3>1, WeightOfBoth
    <3> QED
      BY <2>8, <3>1, <3>2
  <2>10. WeightOf(g, Pairs(T)) = in + (there + loop)
    <3>1. Star(x, S) \cup {{x}} \in SUBSET Pairs(g.nodes)
      BY <2>4
    <3>2. WeightOf(g, Pairs(S) \cup (Star(x, S) \cup {{x}})) = WeightOf(g, Pairs(S)) + WeightOf(g, Star(x, S) \cup {{x}})
      BY <2>1, <2>4, <3>1, WeightOfBoth
    <3> QED
      BY <2>1, <2>8, <2>9, <3>2
  <2>11. WeightOf(g, Cut(g, S)) = rest + there /\ WeightOf(g, Cut(g, T)) = rest + out
    <3>1. WeightOf(g, Q \cup Star(x, S)) = WeightOf(g, Q) + WeightOf(g, Star(x, S))
      BY <2>2, <2>4, WeightOfBoth
    <3>2. WeightOf(g, Q \cup Star(x, R)) = WeightOf(g, Q) + WeightOf(g, Star(x, R))
      BY <2>3, <2>4, WeightOfBoth
    <3> QED
      BY <2>2, <2>3, <2>8, <3>1, <3>2
  <2>12. DegreeIn(g, T) = (there + out + 2 * loop) + (2 * in + (rest + there))
    BY <2>5, <2>6, <2>7, <2>8, <2>11
  <2>13. (there + out + 2 * loop) + (2 * in + (rest + there)) = 2 * (in + (there + loop)) + (rest + out)
    OBVIOUS
  <2>14. DegreeIn(g, T) = 2 * WeightOf(g, Pairs(T)) + WeightOf(g, Cut(g, T))
    BY <2>10, <2>11, <2>12, <2>13
  <2> QED
    BY <2>14 DEF T
<1> HIDE DEF F
<1>3. SUBSET g.nodes \subseteq F
  BY <1>1, <1>2, AllFinite DEF IsGraph
<1> QED
  BY <1>3 DEF F
-----------------------------------------------------------------------------
(* Collapsing. *)

\* Where the ends of a pair are.
Image(where, q) == {where[a] : a \in q}
NodesOf(g, where) == {where[a] : a \in g.nodes}
Side(g, where, S) == {a \in g.nodes : where[a] \in S}

\* Where the ends of a pair are, one by one.
LEMMA ImageOfPair ==
  ASSUME NEW where, NEW a, NEW b
  PROVE  Image(where, {a, b}) = {where[a], where[b]}
BY DEF Image

\* What is collapsed is a graph, of as much weight between two communities as there is between their nodes.
LEMMA CollapsedIsGraph ==
  ASSUME NEW g, IsGraph(g), NEW where
  PROVE  /\ IsGraph(Collapsed(g, where)) /\ Collapsed(g, where).nodes = NodesOf(g, where)
         /\ \A p \in Pairs(NodesOf(g, where)) :
              Collapsed(g, where).w[p] = WeightOf(g, {q \in Pairs(g.nodes) : Image(where, q) = p})
<1> DEFINE c == Collapsed(g, where)
<1>1. IsFiniteSet(NodesOf(g, where))
  <2> DEFINE h == [a \in g.nodes |-> where[a]]
  <2>1. h \in Surjection(g.nodes, NodesOf(g, where))
    BY DEF Surjection, NodesOf
  <2> QED
    BY <2>1, FS_Surjection DEF IsGraph
<1>2. c = [nodes |-> NodesOf(g, where),
           w |-> [p \in Pairs(NodesOf(g, where)) |->
                    WeightOf(g, {q \in Pairs(g.nodes) : Image(where, q) = p})]]
  BY DEF Collapsed, NodesOf, Image, WeightOf
<1>3. ASSUME NEW Q \in SUBSET Pairs(g.nodes) PROVE WeightOf(g, Q) \in Nat
  BY WeightsAreNat
<1>4. [p \in Pairs(NodesOf(g, where)) |-> WeightOf(g, {q \in Pairs(g.nodes) : Image(where, q) = p})]
        \in [Pairs(NodesOf(g, where)) -> Nat]
  <2>1. \A p \in Pairs(NodesOf(g, where)) : WeightOf(g, {q \in Pairs(g.nodes) : Image(where, q) = p}) \in Nat
    BY <1>3
  <2> QED
    BY <2>1
<1> HIDE DEF c
<1>5. /\ c.nodes = NodesOf(g, where)
      /\ c.w = [p \in Pairs(NodesOf(g, where)) |->
                  WeightOf(g, {q \in Pairs(g.nodes) : Image(where, q) = p})]
  BY <1>2
<1>6. IsGraph(c)
  BY <1>1, <1>2, <1>4, <1>5 DEF IsGraph
<1> QED
  BY <1>5, <1>6 DEF c

\* The pairs of a level weigh what the pairs they stand for weigh.
LEMMA CollapsedWeighs ==
  ASSUME NEW g, IsGraph(g), NEW where, NEW P \in SUBSET Pairs(NodesOf(g, where))
  PROVE  WeightOf(Collapsed(g, where), P) = WeightOf(g, {q \in Pairs(g.nodes) : Image(where, q) \in P})
<1> DEFINE c == Collapsed(g, where)
           S == {q \in Pairs(g.nodes) : Image(where, q) \in P}
           h == [q \in S |-> Image(where, q)]
           f == [p \in P |-> SumFunctionOnSet(g.w, {q \in S : h[q] = p})]
<1>1. IsGraph(c) /\ c.nodes = NodesOf(g, where)
  BY CollapsedIsGraph
<1>2. IsFiniteSet(S) /\ Ints(g.w, S)
  BY WeightsAdd
<1>3. IsFiniteSet(P) /\ Ints(c.w, P)
  BY <1>1, WeightsAdd
<1>4. \A q \in S : h[q] \in P
  OBVIOUS
<1>5. \A p \in P : c.w[p] = f[p]
  <2> SUFFICES ASSUME NEW p \in P PROVE c.w[p] = f[p]
    OBVIOUS
  <2>1. {q \in S : h[q] = p} = {q \in Pairs(g.nodes) : Image(where, q) = p}
    OBVIOUS
  <2>2. c.w[p] = WeightOf(g, {q \in Pairs(g.nodes) : Image(where, q) = p})
    BY CollapsedIsGraph
  <2> HIDE DEF S, h, c
  <2> QED
    BY <2>1, <2>2 DEF WeightOf
<1>6. SumFunctionOnSet(f, P) = SumFunctionOnSet(g.w, S)
  <2> HIDE DEF S, h
  <2> QED
    BY <1>2, <1>3, <1>4, SumByImage
<1> HIDE DEF c, S, f
<1>7. SumFunctionOnSet(c.w, P) = SumFunctionOnSet(f, P)
  BY <1>3, <1>5, SumOfSame
<1> QED
  BY <1>6, <1>7 DEF WeightOf, c, S

\* The pairs of some communities are the pairs of their nodes, and those that leave them the ones that leave
\* these.
LEMMA PairsOfSide ==
  ASSUME NEW g, NEW where, NEW S \in SUBSET NodesOf(g, where)
  PROVE  /\ {q \in Pairs(g.nodes) : Image(where, q) \in Pairs(S)} = Pairs(Side(g, where, S))
         /\ {q \in Pairs(g.nodes) : Image(where, q) \in {{c, d} : c \in S, d \in NodesOf(g, where) \ S}}
              = Cut(g, Side(g, where, S))
<1> DEFINE A == Side(g, where, S)
           C == {{c, d} : c \in S, d \in NodesOf(g, where) \ S}
<1>1. ASSUME NEW q \in Pairs(g.nodes), Image(where, q) \in Pairs(S) PROVE q \in Pairs(A)
  <2>1. PICK a, b \in g.nodes : q = {a, b}
    BY DEF Pairs
  <2>2. {where[a], where[b]} \in Pairs(S)
    BY <1>1, <2>1, ImageOfPair
  <2>3. where[a] \in S /\ where[b] \in S
    BY <2>2 DEF Pairs
  <2> QED
    BY <2>1, <2>3 DEF Pairs, Side
<1>2. ASSUME NEW q \in Pairs(A) PROVE q \in Pairs(g.nodes) /\ Image(where, q) \in Pairs(S)
  <2>1. PICK a, b \in A : q = {a, b}
    BY DEF Pairs
  <2>2. Image(where, q) = {where[a], where[b]}
    BY <2>1, ImageOfPair
  <2> QED
    BY <2>1, <2>2 DEF Pairs, Side
<1>3. ASSUME NEW q \in Pairs(g.nodes), Image(where, q) \in C PROVE q \in Cut(g, A)
  <2>1. PICK a, b \in g.nodes : q = {a, b}
    BY DEF Pairs
  <2>2. PICK c \in S, d \in NodesOf(g, where) \ S : {where[a], where[b]} = {c, d}
    <3>1. Image(where, q) = {where[a], where[b]}
      BY <2>1, ImageOfPair
    <3>2. {where[a], where[b]} \in C
      <4> HIDE DEF C
      <4> QED
        BY <1>3, <3>1
    <3> QED
      BY <3>2
  <2>3. CASE where[a] = c /\ where[b] = d
    BY <2>1, <2>2, <2>3 DEF Cut, Side
  <2>4. CASE where[a] = d /\ where[b] = c
    <3>1. q = {b, a} /\ b \in A /\ a \in g.nodes \ A
      BY <2>1, <2>2, <2>4 DEF Side
    <3> QED
      BY <3>1 DEF Cut
  <2> QED
    BY <2>2, <2>3, <2>4
<1>4. ASSUME NEW q \in Cut(g, A) PROVE q \in Pairs(g.nodes) /\ Image(where, q) \in C
  <2>1. PICK a \in A, b \in g.nodes \ A : q = {a, b}
    BY DEF Cut
  <2>2. Image(where, q) = {where[a], where[b]}
    BY <2>1, ImageOfPair
  <2>3. a \in g.nodes /\ where[a] \in S /\ where[b] \in NodesOf(g, where) \ S
    BY <2>1 DEF Side, NodesOf
  <2> QED
    BY <2>1, <2>2, <2>3 DEF Pairs
<1> HIDE DEF A, C
<1>5. {q \in Pairs(g.nodes) : Image(where, q) \in Pairs(S)} = Pairs(A)
  BY <1>1, <1>2
<1>6. {q \in Pairs(g.nodes) : Image(where, q) \in C} = Cut(g, A)
  BY <1>3, <1>4
<1> QED
  BY <1>5, <1>6 DEF A, C

\* A set of communities has the merit of the nodes in them.
LEMMA CollapsedMerits ==
  ASSUME NEW g, IsGraph(g), NEW where, NEW S \in SUBSET NodesOf(g, where)
  PROVE  /\ WeightOf(Collapsed(g, where), Pairs(S)) = WeightOf(g, Pairs(Side(g, where, S)))
         /\ DegreeIn(Collapsed(g, where), S) = DegreeIn(g, Side(g, where, S))
         /\ Merit(Collapsed(g, where), S) = Merit(g, Side(g, where, S))
<1> DEFINE c == Collapsed(g, where)
           A == Side(g, where, S)
<1>0. A \in SUBSET g.nodes
  BY DEF Side
<1>1. IsGraph(c) /\ c.nodes = NodesOf(g, where)
  BY CollapsedIsGraph
<1>2. Pairs(S) \in SUBSET Pairs(NodesOf(g, where))
  BY DEF Pairs
<1>3. Cut(c, S) \in SUBSET Pairs(NodesOf(g, where)) /\ Cut(c, S) = {{a, d} : a \in S, d \in NodesOf(g, where) \ S}
  BY <1>1 DEF Pairs, Cut
<1>4. WeightOf(c, Pairs(S)) = WeightOf(g, Pairs(A))
  BY <1>2, CollapsedWeighs, PairsOfSide
<1>5. WeightOf(c, Cut(c, S)) = WeightOf(g, Cut(g, A))
  BY <1>3, CollapsedWeighs, PairsOfSide
<1> HIDE DEF c, A
<1>6. DegreeIn(c, S) = DegreeIn(g, A)
  BY <1>0, <1>1, <1>4, <1>5, DegreesCountPairs
<1>7. Merit(c, S) = Merit(g, A)
  BY <1>4, <1>6 DEF Merit, WeightOf
<1> QED
  BY <1>4, <1>6, <1>7 DEF c, A

\* A partition of the communities scores what it scores as one of the nodes, and the total degree is kept.
LEMMA CollapsedScores ==
  ASSUME NEW g, IsGraph(g), NEW where, NEW further
  PROVE  /\ TotalDegree(Collapsed(g, where)) = TotalDegree(g)
         /\ Modularity(Collapsed(g, where), further) = Modularity(g, [a \in g.nodes |-> further[where[a]]])
<1> DEFINE c == Collapsed(g, where)
           both == [a \in g.nodes |-> further[where[a]]]
<1>1. c.nodes = NodesOf(g, where)
  BY CollapsedIsGraph
<1>2. TotalDegree(c) = TotalDegree(g)
  <2>1. Side(g, where, NodesOf(g, where)) = g.nodes
    BY DEF Side, NodesOf
  <2> QED
    BY <1>1, <2>1, CollapsedMerits DEF TotalDegree
<1>3. NodesOf(c, further) = NodesOf(g, both)
  BY <1>1 DEF NodesOf
<1>4. ASSUME NEW x PROVE Merit(c, {b \in c.nodes : further[b] = x}) = Merit(g, {a \in g.nodes : both[a] = x})
  <2> DEFINE S == {b \in NodesOf(g, where) : further[b] = x}
  <2>1. Side(g, where, S) = {a \in g.nodes : both[a] = x}
    BY DEF Side, NodesOf
  <2>2. S \in SUBSET NodesOf(g, where)
    OBVIOUS
  <2> HIDE DEF S, both, c
  <2>3. Merit(Collapsed(g, where), S) = Merit(g, Side(g, where, S))
    BY <2>2, CollapsedMerits
  <2> QED
    BY <1>1, <2>1, <2>3 DEF S, c
<1> HIDE DEF c, both
<1>5. [x \in NodesOf(c, further) |-> Merit(c, {b \in c.nodes : further[b] = x})]
        = [x \in NodesOf(g, both) |-> Merit(g, {a \in g.nodes : both[a] = x})]
  BY <1>3, <1>4
<1>6. Modularity(c, further) = Modularity(g, both)
  BY <1>5 DEF Modularity, NodesOf
<1> QED
  BY <1>2, <1>6 DEF c, both

\* Collapsed twice is collapsed once, and nobody together is nothing collapsed.
LEMMA CollapsedAgain ==
  ASSUME NEW g, IsGraph(g), NEW where, NEW further
  PROVE  Collapsed(Collapsed(g, where), further) = Collapsed(g, [a \in g.nodes |-> further[where[a]]])
<1> DEFINE c == Collapsed(g, where)
           both == [a \in g.nodes |-> further[where[a]]]
           d == Collapsed(c, further)
           e == Collapsed(g, both)
<1>1. IsGraph(c) /\ c.nodes = NodesOf(g, where)
  BY CollapsedIsGraph
<1>2. NodesOf(c, further) = NodesOf(g, both)
  BY <1>1 DEF NodesOf
<1>3. ASSUME NEW p \in Pairs(NodesOf(g, both)) PROVE d.w[p] = e.w[p]
  <2> DEFINE R == {r \in Pairs(c.nodes) : Image(further, r) = p}
  <2>1. d.w[p] = WeightOf(c, R)
    BY <1>1, <1>2, CollapsedIsGraph
  <2>2. R \in SUBSET Pairs(NodesOf(g, where))
    BY <1>1
  <2>3. ASSUME NEW q \in Pairs(g.nodes) PROVE Image(where, q) \in R <=> Image(both, q) = p
    <3>1. PICK a, b \in g.nodes : q = {a, b}
      BY DEF Pairs
    <3>2. Image(where, q) = {where[a], where[b]} /\ Image(both, q) = {both[a], both[b]}
      BY <3>1, ImageOfPair
    <3>3. Image(further, {where[a], where[b]}) = {further[where[a]], further[where[b]]}
      BY ImageOfPair
    <3>4. {where[a], where[b]} \in Pairs(c.nodes)
      <4>1. where[a] \in c.nodes /\ where[b] \in c.nodes
        BY <1>1 DEF NodesOf
      <4> HIDE DEF c
      <4> QED
        BY <4>1 DEF Pairs
    <3>5. both[a] = further[where[a]] /\ both[b] = further[where[b]]
      OBVIOUS
    <3> HIDE DEF c, both
    <3> QED
      BY <3>2, <3>3, <3>4, <3>5
  <2> HIDE DEF R
  <2>4. WeightOf(c, R) = WeightOf(g, {q \in Pairs(g.nodes) : Image(where, q) \in R})
    BY <2>2, CollapsedWeighs
  <2>5. {q \in Pairs(g.nodes) : Image(where, q) \in R} = {q \in Pairs(g.nodes) : Image(both, q) = p}
    BY <2>3
  <2>6. e.w[p] = WeightOf(g, {q \in Pairs(g.nodes) : Image(both, q) = p})
    BY CollapsedIsGraph
  <2> QED
    BY <2>1, <2>4, <2>5, <2>6
<1>4. IsGraph(d) /\ d.nodes = NodesOf(g, both) /\ IsGraph(e) /\ e.nodes = NodesOf(g, both)
  BY <1>1, <1>2, CollapsedIsGraph
<1> HIDE DEF d, e
<1>5. d.w = e.w
  BY <1>3, <1>4 DEF IsGraph
<1>6. d = e
  BY <1>4, <1>5 DEF IsGraph
<1> QED
  BY <1>6 DEF d, e, c, both

\* Nodes each alone are collapsed to themselves.
LEMMA CollapsedAlone ==
  ASSUME NEW g, IsGraph(g)
  PROVE  Collapsed(g, Alone(g)) = g
<1> DEFINE c == Collapsed(g, Alone(g))
<1>1. NodesOf(g, Alone(g)) = g.nodes
  BY DEF NodesOf, Alone
<1>2. IsGraph(c) /\ c.nodes = g.nodes
  BY <1>1, CollapsedIsGraph
<1>3. ASSUME NEW p \in Pairs(g.nodes) PROVE c.w[p] = g.w[p]
  <2>1. c.w[p] = WeightOf(g, {q \in Pairs(g.nodes) : Image(Alone(g), q) = p})
    BY <1>1, CollapsedIsGraph
  <2>2. ASSUME NEW q \in Pairs(g.nodes) PROVE Image(Alone(g), q) = q
    <3>1. PICK a, b \in g.nodes : q = {a, b}
      BY DEF Pairs
    <3> QED
      BY <3>1, ImageOfPair DEF Alone
  <2>3. {q \in Pairs(g.nodes) : Image(Alone(g), q) = p} = {p}
    BY <2>2
  <2>4. WeightOf(g, {p}) = g.w[p]
    BY WeightsAdd
  <2> QED
    BY <2>1, <2>3, <2>4
<1> HIDE DEF c
<1>4. c.w = g.w
  BY <1>2, <1>3 DEF IsGraph
<1> QED
  BY <1>2, <1>4 DEF IsGraph, c
-----------------------------------------------------------------------------
(* What a move gains. *)

\* A sum of nothing but 0 is 0.
LEMMA SumOfZeros ==
  ASSUME NEW f, NEW S, IsFiniteSet(S), \A x \in S : f[x] = 0
  PROVE  SumFunctionOnSet(f, S) = 0
<1> DEFINE F == {T \in SUBSET S : SumFunctionOnSet(f, T) = 0}
<1>1. {} \in F
  BY SumOfNone
<1>2. ASSUME NEW T \in SUBSET S, NEW x \in S \ T, T \in F PROVE T \cup {x} \in F
  <2>1. IsFiniteSet(T) /\ Ints(f, T \cup {x}) /\ f[x] = 0
    BY FS_Subset DEF Ints
  <2>2. SumFunctionOnSet(f, T \cup {x}) = f[x] + SumFunctionOnSet(f, T)
    BY <2>1, SumAdds
  <2> QED
    BY <1>2, <2>1, <2>2
<1> HIDE DEF F
<1>3. SUBSET S \subseteq F
  BY <1>1, <1>2, AllFinite
<1> QED
  BY <1>3 DEF F

\* What draws a node to a set, and what it is worth alone.
Pull(g, a, S) == SumFunction([b \in S |-> Weight(g, a, b)]) * m2 - DegreeIn(g, S) * DegreeOf(g, a)
Own(g, a) == 2 * g.w[{a}] * m2 - DegreeOf(g, a) * DegreeOf(g, a)

\* Merits are integers,
LEMMA MeritsAreInts ==
  ASSUME NEW g, IsGraph(g), m2 \in Nat, NEW S \in SUBSET g.nodes
  PROVE  Merit(g, S) \in Int
<1>1. Pairs(S) \in SUBSET Pairs(g.nodes)
  BY DEF Pairs
<1>2. SumFunctionOnSet(g.w, Pairs(S)) \in Int /\ DegreeIn(g, S) \in Int
  BY <1>1, WeightsAdd, DegreesAreInts DEF WeightOf
<1> QED
  BY <1>2 DEF Merit

\* and that of no node is 0.
LEMMA MeritOfNone == ASSUME NEW g, m2 \in Nat PROVE Merit(g, {}) = 0
<1>1. Pairs({}) = {}
  BY DEF Pairs
<1>2. DegreeIn(g, {}) = 0
  BY SumOfNone DEF DegreeIn, SumFunction
<1>3. SumFunctionOnSet(g.w, {}) = 0
  BY SumOfNone
<1>4. Merit(g, {}) = 2 * 0 * m2 - 0 * 0
  BY <1>1, <1>2, <1>3 DEF Merit
<1>5. 2 * 0 * m2 - 0 * 0 = 0
  OBVIOUS
<1> QED
  BY <1>4, <1>5

\* A node that comes to a set brings twice what draws it there.
LEMMA MeritOfMore ==
  ASSUME NEW g, IsGraph(g), m2 \in Nat, NEW S \in SUBSET g.nodes, NEW a \in g.nodes \ S
  PROVE  /\ Merit(g, S \cup {a}) = Merit(g, S) + 2 * Pull(g, a, S) + Own(g, a)
         /\ Pull(g, a, S) \in Int /\ Own(g, a) \in Int
<1>1. /\ Pairs(S) \in SUBSET Pairs(g.nodes) /\ Star(a, S) \in SUBSET Pairs(g.nodes) /\ {a} \in Pairs(g.nodes)
      /\ {{a}} \in SUBSET Pairs(g.nodes) /\ Star(a, S) \cup {{a}} \in SUBSET Pairs(g.nodes)
  <2>1. Pairs(S) \in SUBSET Pairs(g.nodes)
    BY DEF Pairs
  <2>2. Star(a, S) \in SUBSET Pairs(g.nodes) /\ {a} \in Pairs(g.nodes)
    BY StarWeighs, LoopIsPair
  <2> QED
    BY <2>1, <2>2
<1>2. PICK in, there, loop, all, d \in Int :
        /\ in = WeightOf(g, Pairs(S)) /\ there = WeightOf(g, Star(a, S)) /\ loop = g.w[{a}]
        /\ all = DegreeIn(g, S) /\ d = DegreeOf(g, a)
  BY <1>1, WeightsAdd, DegreesAreInts DEF IsGraph
<1>3. WeightOf(g, Pairs(S \cup {a})) = in + (there + loop)
  <2>1. WeightOf(g, {{a}}) = loop
    BY <1>1, <1>2, WeightsAdd
  <2>2. Pairs(S) \cap (Star(a, S) \cup {{a}}) = {} /\ Star(a, S) \cap {{a}} = {}
    BY PairsOfMore
  <2>3. WeightOf(g, Star(a, S) \cup {{a}}) = WeightOf(g, Star(a, S)) + WeightOf(g, {{a}})
    BY <1>1, <2>2, WeightOfBoth
  <2>4. WeightOf(g, Pairs(S) \cup (Star(a, S) \cup {{a}})) = WeightOf(g, Pairs(S)) + WeightOf(g, Star(a, S) \cup {{a}})
    BY <1>1, <2>2, WeightOfBoth
  <2> QED
    BY <1>2, <2>1, <2>3, <2>4, PairsOfMore
<1>4. DegreeIn(g, S \cup {a}) = d + all
  BY <1>2, DegreeOfMore
<1>5. Pull(g, a, S) = there * m2 - all * d /\ Own(g, a) = 2 * loop * m2 - d * d
  BY <1>2, StarWeighs DEF Pull, Own
<1>6. Merit(g, S) = 2 * in * m2 - all * all
  BY <1>2 DEF Merit, WeightOf
<1>7. Merit(g, S \cup {a}) = 2 * (in + (there + loop)) * m2 - (d + all) * (d + all)
  BY <1>3, <1>4 DEF Merit, WeightOf
<1>8. 2 * (in + (there + loop)) * m2 - (d + all) * (d + all)
        = (2 * in * m2 - all * all) + 2 * (there * m2 - all * d) + (2 * loop * m2 - d * d)
  BY <1>2
<1>9. Merit(g, S \cup {a}) = Merit(g, S) + 2 * Pull(g, a, S) + Own(g, a)
  BY <1>5, <1>6, <1>7, <1>8
<1>10. Pull(g, a, S) \in Int /\ Own(g, a) \in Int
  BY <1>5
<1> QED
  BY <1>9, <1>10

\* The nodes with a label, and the merit of each label.
In(g, where, c) == {a \in g.nodes : where[a] = c}
Merits(g, where, L) == [c \in L |-> Merit(g, In(g, where, c))]

\* Labels nobody has count for nothing.
LEMMA EmptyCountNothing ==
  ASSUME NEW g, IsGraph(g), m2 \in Nat, NEW where, NEW L, IsFiniteSet(L), NodesOf(g, where) \subseteq L
  PROVE  Modularity(g, where) = SumFunctionOnSet(Merits(g, where, L), L) /\ Ints(Merits(g, where, L), L)
<1> DEFINE N == NodesOf(g, where)
           M == L \ N
           f == Merits(g, where, L)
           h == Merits(g, where, N)
<1>1. Ints(f, L) /\ Ints(f, N) /\ Ints(f, M)
  BY MeritsAreInts DEF Ints, Merits, In
<1>2. IsFiniteSet(N) /\ IsFiniteSet(M) /\ N \cup M = L /\ N \cap M = {}
  BY FS_Subset
<1>3. Modularity(g, where) = SumFunctionOnSet(h, N)
  BY DEF Modularity, Merits, NodesOf, In, SumFunction
<1>4. \A c \in N : f[c] = h[c]
  BY DEF Merits
<1>5. \A c \in M : f[c] = 0
  <2> SUFFICES ASSUME NEW c \in M PROVE f[c] = 0
    OBVIOUS
  <2>1. In(g, where, c) = {}
    BY DEF In, NodesOf
  <2> QED
    BY <2>1, MeritOfNone DEF Merits
<1> HIDE DEF N, M, f, h
<1>6. SumFunctionOnSet(f, L) = SumFunctionOnSet(f, N) + SumFunctionOnSet(f, M)
  BY <1>1, <1>2, SumOfUnion
<1>7. SumFunctionOnSet(f, M) = 0 /\ SumFunctionOnSet(f, N) = SumFunctionOnSet(h, N)
  BY <1>1, <1>2, <1>4, <1>5, SumOfZeros, SumOfSame
<1>8. SumFunctionOnSet(f, N) \in Int
  BY <1>1, <1>2, SumIsInt
<1>9. Modularity(g, where) = SumFunctionOnSet(f, L)
  BY <1>3, <1>6, <1>7, <1>8
<1> QED
  BY <1>1, <1>9 DEF f

\* A finite graph has finitely many communities.
LEMMA FiniteImage ==
  ASSUME NEW g, IsGraph(g), NEW where
  PROVE  IsFiniteSet(NodesOf(g, where))
BY CollapsedIsGraph DEF IsGraph

\* One label set apart, and two.
LEMMA SumApart ==
  ASSUME NEW f, NEW L, IsFiniteSet(L), Ints(f, L), NEW x \in L, NEW y \in L, x # y
  PROVE  /\ SumFunctionOnSet(f, L) = f[x] + (f[y] + SumFunctionOnSet(f, L \ {x, y}))
         /\ SumFunctionOnSet(f, L \ {x, y}) \in Int
<1>1. SumFunctionOnSet(f, L) = f[x] + SumFunctionOnSet(f, L \ {x})
  BY SumTakes
<1>2. L \ {x} \in SUBSET L /\ y \in L \ {x}
  OBVIOUS
<1>3. SumFunctionOnSet(f, L \ {x}) = f[y] + SumFunctionOnSet(f, (L \ {x}) \ {y})
  BY <1>2, SumTakes
<1>4. (L \ {x}) \ {y} = L \ {x, y}
  OBVIOUS
<1>5. SumFunctionOnSet(f, L \ {x, y}) \in Int
  BY FS_Subset, SumIsInt DEF Ints
<1> QED
  BY <1>1, <1>3, <1>4, <1>5

\* To go where it gains more makes the partition better, by twice what is gained.
LEMMA GainsClimb ==
  ASSUME IsGraph(level), m2 \in Nat, NEW a \in level.nodes, community \in [level.nodes -> level.nodes],
         NEW c \in level.nodes, c # community[a], Gain(a, c) > Gain(a, community[a])
  PROVE  Modularity(level, [community EXCEPT ![a] = c]) > Modularity(level, community)
<1> DEFINE own == community[a]
           then == [community EXCEPT ![a] = c]
           L == level.nodes
           f == Merits(level, community, L)
           h == Merits(level, then, L)
           A == In(level, community, own) \ {a}
           B == In(level, community, c)
           R == L \ {own, c}
<1>1. IsFiniteSet(L) /\ own \in L /\ then \in [L -> L]
  BY DEF IsGraph
<1>2. NodesOf(level, community) \subseteq L /\ NodesOf(level, then) \subseteq L
  BY <1>1 DEF NodesOf
<1>3. /\ Modularity(level, community) = SumFunctionOnSet(f, L) /\ Ints(f, L)
      /\ Modularity(level, then) = SumFunctionOnSet(h, L) /\ Ints(h, L)
  <2> HIDE DEF L, then, f, h
  <2>1. Modularity(level, community) = SumFunctionOnSet(f, L) /\ Ints(f, L)
    BY <1>1, <1>2, EmptyCountNothing DEF f
  <2>2. Modularity(level, then) = SumFunctionOnSet(h, L) /\ Ints(h, L)
    BY <1>1, <1>2, EmptyCountNothing DEF h
  <2> QED
    BY <2>1, <2>2
<1>4. /\ In(level, community, own) = A \cup {a} /\ In(level, then, own) = A
      /\ In(level, community, c) = B /\ In(level, then, c) = B \cup {a}
      /\ A \in SUBSET level.nodes /\ B \in SUBSET level.nodes /\ a \in level.nodes \ A /\ a \in level.nodes \ B
  BY DEF In
<1>5. \A x \in R : In(level, community, x) = In(level, then, x)
  BY DEF In
<1>6. f[own] = Merit(level, A \cup {a}) /\ f[c] = Merit(level, B) /\ h[own] = Merit(level, A) /\ h[c] = Merit(level, B \cup {a})
  BY <1>1, <1>4 DEF Merits
<1>7. \A x \in R : f[x] = h[x]
  BY <1>5 DEF Merits
<1>8. Gain(a, own) = Pull(level, a, A) /\ Gain(a, c) = Pull(level, a, B)
  <2>1. Members(own) \ {a} = A /\ Members(c) \ {a} = B
    BY DEF Members, In
  <2> QED
    BY <2>1 DEF Gain, Pull
<1> HIDE DEF own, then, f, h, A, B, L
<1>9. PICK ma, mb, pa, pb, k \in Int :
        /\ ma = Merit(level, A) /\ mb = Merit(level, B) /\ pa = Pull(level, a, A) /\ pb = Pull(level, a, B)
        /\ k = Own(level, a)
  BY <1>4, MeritOfMore, MeritsAreInts
<1>10. f[own] = ma + 2 * pa + k /\ h[c] = mb + 2 * pb + k /\ pb > pa /\ f[c] = mb /\ h[own] = ma
  <2>1. pb > pa
    BY <1>8, <1>9 DEF own
  <2>2. Merit(level, A \cup {a}) = ma + 2 * pa + k /\ Merit(level, B \cup {a}) = mb + 2 * pb + k
    BY <1>4, <1>9, MeritOfMore
  <2> QED
    BY <1>6, <1>9, <2>1, <2>2
<1>11. /\ SumFunctionOnSet(f, L) = f[own] + (f[c] + SumFunctionOnSet(f, R)) /\ SumFunctionOnSet(f, R) \in Int
       /\ SumFunctionOnSet(h, L) = h[own] + (h[c] + SumFunctionOnSet(h, R)) /\ SumFunctionOnSet(h, R) \in Int
  <2>1. own # c /\ c \in L /\ own \in L
    BY <1>1 DEF own, L
  <2> QED
    BY <1>1, <1>3, <2>1, SumApart
<1>12. SumFunctionOnSet(f, R) = SumFunctionOnSet(h, R)
  <2>1. IsFiniteSet(R) /\ Ints(f, R)
    BY <1>1, <1>3, FS_Subset DEF Ints
  <2> HIDE DEF R
  <2> QED
    BY <1>7, <2>1, SumOfSame
<1>13. PICK r \in Int : r = SumFunctionOnSet(f, R)
  BY <1>11
<1>14. Modularity(level, community) = (ma + 2 * pa + k) + (mb + r) /\ Modularity(level, then) = ma + ((mb + 2 * pb + k) + r)
  BY <1>3, <1>10, <1>11, <1>12, <1>13
<1>15. ma + ((mb + 2 * pb + k) + r) > (ma + 2 * pa + k) + (mb + r)
  BY <1>10
<1> QED
  BY <1>14, <1>15 DEF then
-----------------------------------------------------------------------------
(* The state of a search. *)

\* A finite set has a member of the greatest value, and one of numbers its least.
LEMMA GreatestIsThere ==
  ASSUME NEW f, NEW S, IsFiniteSet(S), Ints(f, S), S # {}
  PROVE  \E x \in S : \A y \in S : f[x] >= f[y]
<1> DEFINE F == {T \in SUBSET S : T = {} \/ \E x \in T : \A y \in T : f[x] >= f[y]}
<1>1. {} \in F
  OBVIOUS
<1>2. ASSUME NEW T \in SUBSET S, NEW z \in S \ T, T \in F PROVE T \cup {z} \in F
  <2>0. \A y \in T \cup {z} : f[y] \in Int
    BY DEF Ints
  <2>1. CASE T = {}
    BY <2>0, <2>1
  <2>2. CASE T # {}
    <3>1. PICK x \in T : \A y \in T : f[x] >= f[y]
      BY <1>2, <2>2
    <3>2. CASE f[x] >= f[z]
      BY <2>0, <3>1, <3>2
    <3>3. CASE f[z] > f[x]
      <4>1. \A y \in T \cup {z} : f[z] >= f[y]
        BY <2>0, <3>1, <3>3
      <4> QED
        BY <4>1
    <3> QED
      BY <2>0, <3>1, <3>2, <3>3
  <2> QED
    BY <2>1, <2>2
<1> HIDE DEF F
<1>3. SUBSET S \subseteq F
  BY <1>1, <1>2, AllFinite
<1> QED
  BY <1>3 DEF F

\* A set of naturals that has one has a least one.
LEMMA LeastIsThere ==
  ASSUME NEW S \in SUBSET Nat, S # {}
  PROVE  Min(S) \in S /\ \A y \in S : Min(S) <= y
<1>1. PICK x \in S : \A y \in S : ~ (<<y, x>> \in OpToRel(<, Nat))
  BY NatLessThanWellFounded, WFMin
<1>2. \A y \in S : ~ (y < x)
  BY <1>1, Zenon DEF OpToRel
<1>3. \A y \in S : x <= y
  BY <1>2
<1> QED
  BY <1>3 DEF Min

\* How the state hangs together: the level is the graph, collapsed by where the notes are.
Sound ==
  /\ IsGraph(graph) /\ graph.nodes = Notes /\ m2 = TotalDegree(graph)
  /\ mapping \in [Notes -> Notes] /\ level = Collapsed(graph, mapping)
  /\ community \in [level.nodes -> level.nodes] /\ (phase = "moving" => turn \in SUBSET level.nodes)
  /\ phase \in {"moving", "settled", "done"} /\ pass \in Nat /\ moved \in BOOLEAN

\* A level is a graph too, of some of the notes.
LEMMA LevelIsGraph ==
  ASSUME Sound
  PROVE  /\ IsGraph(level) /\ level.nodes = NodesOf(graph, mapping) /\ level.nodes \in SUBSET Nat
         /\ m2 \in Nat
<1>1. IsGraph(level) /\ level.nodes = NodesOf(graph, mapping)
  BY CollapsedIsGraph DEF Sound
<1>2. level.nodes \in SUBSET Nat
  BY <1>1, NumberAssumption DEF NodesOf, Sound
<1>3. m2 \in Nat
  <2>1. IsFiniteSet(graph.nodes) /\ \A a \in graph.nodes : DegreeOf(graph, a) \in Nat
    BY DegreesAreInts DEF Sound, IsGraph
  <2> DEFINE f == [a \in graph.nodes |-> DegreeOf(graph, a)]
  <2>2. \A a \in graph.nodes : f[a] \in Nat
    BY <2>1
  <2>3. SumFunctionOnSet(f, graph.nodes) \in Nat
    BY <2>1, <2>2, SumOfNats
  <2> QED
    BY <2>3 DEF Sound, TotalDegree, DegreeIn, SumFunction
<1> QED
  BY <1>1, <1>2, <1>3

\* Gains are integers.
LEMMA GainsAreInts ==
  ASSUME Sound, NEW a \in level.nodes, NEW c
  PROVE  Gain(a, c) \in Int
<1> DEFINE S == Members(c) \ {a}
<1>1. S \in SUBSET level.nodes /\ a \in level.nodes \ S
  BY DEF Members
<1>2. Pull(level, a, S) \in Int
  <2> HIDE DEF S
  <2> QED
    BY <1>1, LevelIsGraph, MeritOfMore
<1> QED
  BY <1>2 DEF Gain, Pull

\* A node goes where it gains most, and only if it gains.
LEMMA BestGains ==
  ASSUME Sound, NEW a \in level.nodes
  PROVE  /\ Best(a) \in level.nodes
         /\ Best(a) # community[a] => Gain(a, Best(a)) > Gain(a, community[a])
         /\ Best(a) = community[a] => \A c \in Around(a) : ~ (Gain(a, c) > Gain(a, community[a]))
<1> DEFINE better == {c \in Around(a) : Gain(a, c) > Gain(a, community[a])}
           best == {c \in better : \A d \in better : Gain(a, c) >= Gain(a, d)}
<1>0. community \in [level.nodes -> level.nodes] /\ Around(a) \in SUBSET level.nodes
  BY DEF Sound, Around
<1>1. Best(a) = IF better = {} THEN community[a] ELSE Min(best)
  BY DEF Best
<1>2. CASE better = {}
  <2>1. \A c \in Around(a) : ~ (Gain(a, c) > Gain(a, community[a]))
    BY <1>2
  <2> QED
    BY <1>0, <1>1, <1>2, <2>1
<1>3. CASE better # {}
  <2> DEFINE f == [c \in better |-> Gain(a, c)]
  <2>1. better \in SUBSET level.nodes
    BY <1>0
  <2>2. IsFiniteSet(better)
    BY <2>1, LevelIsGraph, FS_Subset DEF IsGraph
  <2>3. Ints(f, better)
    BY GainsAreInts DEF Ints
  <2>4. PICK x \in better : \A y \in better : f[x] >= f[y]
    <3> HIDE DEF f, better
    <3> QED
      BY <1>3, <2>2, <2>3, GreatestIsThere
  <2>5. x \in best
    BY <2>4
  <2>6. best \in SUBSET Nat /\ best # {}
    BY <2>1, <2>5, LevelIsGraph
  <2>7. Min(best) \in best
    <3> HIDE DEF best
    <3> QED
      BY <2>6, LeastIsThere
  <2>8. Min(best) \in better
    BY <2>7
  <2>9. Best(a) \in better
    <3> HIDE DEF better, best
    <3> QED
      BY <1>1, <1>3, <2>8
  <2>10. Best(a) \in level.nodes /\ Gain(a, Best(a)) > Gain(a, community[a])
    BY <2>1, <2>9
  <2>11. Best(a) # community[a]
    <3> SUFFICES ASSUME Best(a) = community[a] PROVE FALSE
      OBVIOUS
    <3>1. Gain(a, community[a]) > Gain(a, community[a])
      BY <2>10
    <3> QED
      BY <3>1, GainsAreInts
  <2> QED
    BY <2>10, <2>11
<1> QED
  BY <1>2, <1>3

\* The state hangs together at first,
LEMMA SoundAtFirst == Init => Sound
<1> SUFFICES ASSUME Init PROVE Sound
  OBVIOUS
<1>1. PICK linked : graph = LinkGraph(linked)
  BY DEF Init
<1>2. graph.nodes = Notes /\ IsGraph(graph)
  BY <1>1, NumberAssumption DEF LinkGraph, IsGraph
<1>3. mapping = Alone(graph) /\ mapping \in [Notes -> Notes]
  BY <1>2 DEF Init, Alone
<1>4. level = Collapsed(graph, mapping)
  BY <1>2, <1>3, CollapsedAlone DEF Init
<1>5. community \in [level.nodes -> level.nodes] /\ turn \in SUBSET level.nodes
  BY <1>2 DEF Init, Alone
<1>6. phase \in {"moving", "settled", "done"}
  <2>1. phase = IF m2 = 0 THEN "settled" ELSE "moving"
    BY DEF Init
  <2> QED
    BY <2>1
<1>7. pass \in Nat /\ moved \in BOOLEAN
  <2>1. pass = 0 /\ moved = FALSE
    BY DEF Init
  <2> QED
    BY <2>1
<1>8. m2 = TotalDegree(graph)
  BY DEF Init
<1> QED
  BY <1>2, <1>3, <1>4, <1>5, <1>6, <1>7, <1>8 DEF Sound

\* There is a node whose turn it is.
LEMMA FirstOfTurn ==
  ASSUME Sound, Move
  PROVE  Min(turn) \in turn /\ Min(turn) \in level.nodes
<1>1. turn \in SUBSET level.nodes /\ turn # {}
  BY DEF Sound, Move
<1>2. turn \in SUBSET Nat
  BY <1>1, LevelIsGraph
<1>3. Min(turn) \in turn
  BY <1>1, <1>2, LeastIsThere
<1> QED
  BY <1>1, <1>3

\* and after every step.
LEMMA SoundNext == Sound /\ [Next]_vars => Sound'
<1> SUFFICES ASSUME Sound, [Next]_vars PROVE Sound'
  OBVIOUS
<1>1. CASE Move
  <2> DEFINE a == Min(turn)
  <2>1. a \in turn /\ a \in level.nodes
    BY <1>1, FirstOfTurn
  <2>2. Best(a) \in level.nodes
    BY <2>1, BestGains
  <2>3. community' = [community EXCEPT ![a] = Best(a)] /\ turn' = turn \ {a}
        /\ moved' = (moved \/ Best(a) # community[a])
        /\ UNCHANGED <<graph, m2, level, mapping, rounds, pass, phase>>
    BY <1>1 DEF Move
  <2> HIDE DEF a
  <2>4. community' \in [level.nodes -> level.nodes]
    BY <2>2, <2>3 DEF Sound
  <2>5. (TotalDegree(graph))' = TotalDegree(graph) /\ (Collapsed(graph, mapping))' = Collapsed(graph, mapping)
        /\ (IsGraph(graph))' = IsGraph(graph)
    BY <2>3 DEF TotalDegree, DegreeIn, DegreeOf, Weight, Collapsed, IsGraph
  <2>6. moved' \in BOOLEAN /\ (phase' = "moving" => turn' \in SUBSET level'.nodes)
    <3>1. moved' \in BOOLEAN
      BY <2>3
    <3>2. phase' = phase /\ level' = level /\ turn' \in SUBSET turn
      BY <2>3
    <3> QED
      BY <3>1, <3>2 DEF Sound
  <2> QED
    BY <2>3, <2>4, <2>5, <2>6 DEF Sound
<1>2. CASE RoundEnds
  <2>1. UNCHANGED <<graph, m2, level, community, mapping, pass>>
    BY <1>2 DEF RoundEnds
  <2>2. turn' \in SUBSET level.nodes /\ moved' \in BOOLEAN /\ phase' \in {"moving", "settled", "done"}
    BY <1>2 DEF RoundEnds, Sound
  <2>3. (TotalDegree(graph))' = TotalDegree(graph) /\ (Collapsed(graph, mapping))' = Collapsed(graph, mapping)
        /\ (IsGraph(graph))' = IsGraph(graph)
    BY <2>1 DEF TotalDegree, DegreeIn, DegreeOf, Weight, Collapsed, IsGraph
  <2>4. turn' \in SUBSET level'.nodes
    BY <2>1, <2>2
  <2>5. IsGraph(graph') /\ graph'.nodes = Notes /\ m2' = TotalDegree(graph') /\ level' = Collapsed(graph', mapping')
    BY <2>1 DEF Sound
  <2>6. mapping' \in [Notes -> Notes] /\ community' \in [level'.nodes -> level'.nodes] /\ pass' \in Nat
    BY <2>1 DEF Sound
  <2> QED
    BY <2>2, <2>4, <2>5, <2>6 DEF Sound
<1>3. CASE Aggregate
  <2>1. /\ mapping' = [n \in Notes |-> community[mapping[n]]] /\ level' = Collapsed(level, community)
        /\ pass' = pass + 1 /\ community' = Alone(level') /\ UNCHANGED <<graph, m2>>
    BY <1>3 DEF Aggregate
  <2>3. level.nodes \in SUBSET Notes /\ \A n \in Notes : mapping[n] \in level.nodes
    BY LevelIsGraph DEF Sound, NodesOf
  <2>4. mapping' \in [Notes -> Notes]
    BY <2>1, <2>3 DEF Sound
  <2>5. level' = Collapsed(graph, mapping')
    <3>1. level' = Collapsed(Collapsed(graph, mapping), community)
      BY <2>1 DEF Sound
    <3>2. mapping' = [n \in graph.nodes |-> community[mapping[n]]]
      BY <2>1 DEF Sound
    <3> QED
      BY <3>1, <3>2, CollapsedAgain DEF Sound
  <2>6. community' \in [level'.nodes -> level'.nodes]
    BY <2>1 DEF Alone
  <2>7. (phase' = "moving" => turn' \in SUBSET level'.nodes) /\ moved' \in BOOLEAN
        /\ phase' \in {"moving", "settled", "done"}
    <3>1. CASE pass' < MaxPasses
      BY <1>3, <3>1 DEF Aggregate
    <3>2. CASE ~ (pass' < MaxPasses)
      <4>1. turn' = turn /\ moved' = moved /\ phase' = "done"
        BY <1>3, <3>2 DEF Aggregate
      <4> QED
        BY <4>1 DEF Sound
    <3> QED
      BY <3>1, <3>2
  <2>8. IsGraph(graph') /\ graph'.nodes = Notes /\ m2' = TotalDegree(graph') /\ level' = Collapsed(graph', mapping')
    BY <2>1, <2>5 DEF Sound
  <2>9. pass' \in Nat
    BY <2>1 DEF Sound
  <2> QED
    BY <2>4, <2>6, <2>7, <2>8, <2>9 DEF Sound
<1>4. CASE Finish
  BY <1>4 DEF Finish, Sound
<1>5. CASE UNCHANGED vars
  BY <1>5 DEF vars, Sound
<1> QED
  BY <1>1, <1>2, <1>3, <1>4, <1>5 DEF Next

\* What the partition of the notes scores is what the one of the level scores.
LEMMA LevelScores ==
  ASSUME Sound, NEW c
  PROVE  Modularity(level, c) = Modularity(graph, [n \in Notes |-> c[mapping[n]]])
<1>1. level = Collapsed(graph, mapping) /\ IsGraph(graph) /\ graph.nodes = Notes
  BY DEF Sound
<1> QED
  BY <1>1, CollapsedScores

(***************************************************************************)
(* So it always does (communities.ts:236-255).                             *)
(***************************************************************************)
THEOREM Sounds == Spec => []Sound
<1>1. Init => Sound
  BY SoundAtFirst
<1>2. Sound /\ [Next]_vars => Sound'
  BY SoundNext
<1> QED
  BY <1>1, <1>2, PTL DEF Spec

(***************************************************************************)
(* Every level has the total degree of the graph, and what is found on it  *)
(* scores what it does as a partition of the notes: the loops of           *)
(* `aggregate` count what was collapsed, once (communities.ts:168-194,     *)
(* 221-234).                                                               *)
(***************************************************************************)
THEOREM LevelsAlwaysAgree == Spec => []LevelsAgree
<1>1. Sound => LevelsAgree
  <2> SUFFICES ASSUME Sound PROVE LevelsAgree
    OBVIOUS
  <2>1. level = Collapsed(graph, mapping) /\ IsGraph(graph) /\ m2 = TotalDegree(graph)
    BY DEF Sound
  <2>2. TotalDegree(level) = m2
    BY <2>1, CollapsedScores
  <2> QED
    BY <2>2, LevelScores DEF LevelsAgree
<1> QED
  BY <1>1, Sounds, PTL

(***************************************************************************)
(* A node that moves makes the partition of all the notes better, at any   *)
(* level, and `aggregate` leaves it as good (communities.ts:131-166,       *)
(* 247-255).                                                               *)
(***************************************************************************)
THEOREM MovesAlwaysClimb == Spec => MovesClimb
<1>1. Sound /\ [Next]_vars => [Uphill]_vars
  <2> SUFFICES ASSUME Sound, Next PROVE Uphill
    OBVIOUS
  <2>1. CASE Move
    <3> DEFINE a == Min(turn)
    <3>1. a \in level.nodes
      BY <2>1, FirstOfTurn
    <3>2. phase = "moving" /\ community' = [community EXCEPT ![a] = Best(a)] /\ mapping' = mapping
      BY <2>1 DEF Move
    <3> HIDE DEF a
    <3>3. community \in [level.nodes -> level.nodes]
      BY DEF Sound
    <3>4. CASE Best(a) = community[a]
      BY <3>1, <3>2, <3>3, <3>4 DEF Uphill
    <3>5. CASE Best(a) # community[a]
      <4>1. Best(a) \in level.nodes /\ Gain(a, Best(a)) > Gain(a, community[a])
        BY <3>1, <3>5, BestGains
      <4>2. IsGraph(level) /\ m2 \in Nat
        BY LevelIsGraph
      <4>3. Modularity(level, [community EXCEPT ![a] = Best(a)]) > Modularity(level, community)
        BY <3>1, <3>3, <3>5, <4>1, <4>2, GainsClimb
      <4>4. Score([community EXCEPT ![a] = Best(a)], mapping) = Modularity(level, [community EXCEPT ![a] = Best(a)])
        BY LevelScores DEF Score
      <4>5. Score(community, mapping) = Modularity(level, community)
        BY LevelScores DEF Score
      <4> QED
        BY <3>2, <4>3, <4>4, <4>5 DEF Uphill
    <3> QED
      BY <3>4, <3>5
  <2>2. CASE RoundEnds
    BY <2>2 DEF RoundEnds, Uphill
  <2>3. CASE Aggregate
    <3>1. phase = "settled" /\ mapping' = [n \in Notes |-> community[mapping[n]]]
          /\ level' = Collapsed(level, community) /\ community' = Alone(level')
      BY <2>3 DEF Aggregate
    <3>2. level'.nodes = NodesOf(level, community)
      BY <3>1, CollapsedIsGraph, LevelIsGraph
    <3>3. ASSUME NEW n \in Notes PROVE community'[mapping'[n]] = community[mapping[n]]
      <4>1. mapping[n] \in level.nodes
        BY LevelIsGraph DEF Sound, NodesOf
      <4>2. community[mapping[n]] \in level'.nodes
        BY <3>2, <4>1 DEF NodesOf
      <4> QED
        BY <3>1, <4>2 DEF Alone
    <3>4. [n \in Notes |-> community'[mapping'[n]]] = [n \in Notes |-> community[mapping[n]]]
      BY <3>3
    <3>5. Score(community', mapping') = Score(community, mapping)
      BY <3>4 DEF Score
    <3> QED
      BY <3>1, <3>5 DEF Uphill
  <2>4. CASE Finish
    BY <2>4 DEF Finish, Uphill, Score
  <2> QED
    BY <2>1, <2>2, <2>3, <2>4 DEF Next
<1> QED
  BY <1>1, Sounds, PTL DEF Spec, MovesClimb
-----------------------------------------------------------------------------
(* Where a search settles. *)

\* A sum of naturals is no less than each of them.
LEMMA PartOfSum ==
  ASSUME NEW f, NEW S, IsFiniteSet(S), \A x \in S : f[x] \in Nat, NEW a \in S
  PROVE  SumFunctionOnSet(f, S) \in Nat /\ SumFunctionOnSet(f, S) >= f[a]
<1>1. SumFunctionOnSet(f, S) \in Nat
  BY SumOfNats
<1>2. SumFunctionOnSet(f, S) = f[a] + SumFunctionOnSet(f, S \ {a})
  BY SumTakes DEF Ints
<1>3. SumFunctionOnSet(f, S \ {a}) \in Nat
  <2>1. IsFiniteSet(S \ {a})
    BY FS_Subset
  <2> QED
    BY <2>1, SumOfNats
<1> QED
  BY <1>1, <1>2, <1>3

\* Without links, there is nowhere to go.
LEMMA NothingAround ==
  ASSUME Sound, m2 = 0, level = graph, NEW a \in level.nodes
  PROVE  Best(a) = community[a]
<1>1. IsGraph(level) /\ IsFiniteSet(level.nodes)
  BY LevelIsGraph DEF IsGraph
<1>2. ASSUME NEW b \in level.nodes PROVE ~ (Weight(level, a, b) > 0)
  <2> DEFINE f == [x \in level.nodes |-> Weight(level, a, x)]
             d == [x \in level.nodes |-> DegreeOf(level, x)]
  <2>1. ASSUME NEW x \in level.nodes PROVE Weight(level, a, x) \in Nat
    <3>1. {a, x} \in Pairs(level.nodes)
      BY DEF Pairs
    <3> QED
      BY <1>1, <3>1 DEF Weight, IsGraph
  <2>2. SumFunctionOnSet(f, level.nodes) \in Nat /\ SumFunctionOnSet(f, level.nodes) >= f[b]
    <3>1. \A x \in level.nodes : f[x] \in Nat
      BY <2>1
    <3> HIDE DEF f
    <3> QED
      BY <1>1, <3>1, PartOfSum
  <2>3. DegreeOf(level, a) = SumFunctionOnSet(f, level.nodes) + Weight(level, a, a)
    BY DEF DegreeOf, SumFunction
  <2>4. DegreeOf(level, a) >= Weight(level, a, b) /\ DegreeOf(level, a) \in Nat
    BY <2>1, <2>2, <2>3
  <2>5. SumFunctionOnSet(d, level.nodes) \in Nat /\ SumFunctionOnSet(d, level.nodes) >= d[a]
    <3>1. \A x \in level.nodes : d[x] \in Nat
      BY <1>1, DegreesAreInts
    <3> HIDE DEF d
    <3> QED
      BY <1>1, <3>1, PartOfSum
  <2>6. SumFunctionOnSet(d, level.nodes) = 0
    BY DEF Sound, TotalDegree, DegreeIn, SumFunction
  <2> QED
    BY <2>1, <2>4, <2>5, <2>6
<1>3. Around(a) = {}
  BY <1>2 DEF Around
<1> QED
  BY <1>3 DEF Best

\* No node is better off elsewhere; no two are together.
Fixed == \A a \in level.nodes : Best(a) = community[a]
Apart == \A a, b \in level.nodes : community[a] = community[b] => a = b

\* Where no node of a round moved, those tried so far have nowhere better to go.
Settled ==
  /\ phase = "moving" /\ ~moved => \A a \in level.nodes \ turn : Best(a) = community[a]
  /\ phase = "settled" /\ rounds < MaxRounds => Fixed
  /\ phase = "done" /\ pass < MaxPasses => Apart /\ (rounds < MaxRounds => Fixed)

\* It is so before the first move,
LEMMA SettledAtFirst == Init => Settled
<1> SUFFICES ASSUME Init PROVE Settled
  OBVIOUS
<1>1. Sound
  BY SoundAtFirst
<1>2. level = graph /\ graph.nodes = Notes /\ turn = Notes /\ phase = IF m2 = 0 THEN "settled" ELSE "moving"
  BY <1>1 DEF Init, Sound
<1>3. CASE m2 = 0
  <2>1. Fixed
    BY <1>1, <1>2, <1>3, NothingAround DEF Fixed
  <2> QED
    BY <1>2, <1>3, <2>1 DEF Settled
<1>4. CASE m2 # 0
  BY <1>2, <1>4 DEF Settled
<1> QED
  BY <1>3, <1>4

\* As many communities as nodes: each is alone in its own.
LEMMA AsManyAreApart ==
  ASSUME IsFiniteSet(level.nodes), community \in [level.nodes -> level.nodes],
         Cardinality({community[a] : a \in level.nodes}) = Cardinality(level.nodes)
  PROVE  Apart
<1> DEFINE T == {community[a] : a \in level.nodes}
<1>1. community \in Surjection(level.nodes, T)
  BY DEF Surjection
<1>2. community \in Injection(level.nodes, T)
  BY <1>1, FS_Surjection
<1> QED
  BY <1>2 DEF Injection, IsInjective, Apart

\* and after every step.
LEMMA SettledNext == Sound /\ Settled /\ [Next]_vars => Settled'
<1> SUFFICES ASSUME Sound, Settled, [Next]_vars PROVE Settled'
  OBVIOUS
<1>1. CASE Move
  <2> DEFINE a == Min(turn)
  <2>1. a \in level.nodes
    BY <1>1, FirstOfTurn
  <2>2. community' = [community EXCEPT ![a] = Best(a)] /\ turn' = turn \ {a}
        /\ moved' = (moved \/ Best(a) # community[a]) /\ phase = "moving" /\ phase' = phase
        /\ level' = level /\ m2' = m2
    BY <1>1 DEF Move
  <2> HIDE DEF a
  <2>3. CASE moved'
    BY <2>2, <2>3 DEF Settled
  <2>4. CASE ~moved'
    <3>1. ~moved /\ Best(a) = community[a]
      BY <2>2, <2>4
    <3>2. community' = community
      BY <2>1, <2>2, <3>1 DEF Sound
    <3>3. ASSUME NEW x PROVE (Best(x))' = Best(x)
      <4>1. UNCHANGED <<m2, level, community>>
        BY <2>2, <3>2
      <4> QED
        BY <4>1 DEF Best, Around, Gain, Members, Weight, DegreeIn, DegreeOf
    <3>4. ASSUME NEW x \in level.nodes \ turn' PROVE (Best(x))' = community[x]
      <4>1. x = a \/ x \in level.nodes \ turn
        BY <2>2
      <4>2. Best(x) = community[x]
        BY <2>2, <3>1, <4>1 DEF Settled
      <4> QED
        BY <3>3, <4>2
    <3> QED
      BY <2>2, <3>2, <3>4 DEF Settled
  <2> QED
    BY <2>3, <2>4
<1>2. CASE RoundEnds
  <2>1. UNCHANGED <<m2, level, community>> /\ phase = "moving" /\ turn = {}
    BY <1>2 DEF RoundEnds
  <2>2. CASE moved /\ rounds < MaxRounds
    <3>1. turn' = level.nodes /\ phase' = "moving"
      BY <1>2, <2>2 DEF RoundEnds
    <3> QED
      BY <2>1, <3>1 DEF Settled
  <2>3. CASE ~ (moved /\ rounds < MaxRounds)
    <3>1. phase' = "settled" /\ rounds' = rounds
      BY <1>2, <2>3 DEF RoundEnds
    <3>2. rounds < MaxRounds => Fixed
      BY <2>1, <2>3 DEF Settled, Fixed
    <3>3. Fixed' = Fixed
      BY <2>1 DEF Fixed, Best, Around, Gain, Members, Weight, DegreeIn, DegreeOf
    <3> QED
      BY <3>1, <3>2, <3>3 DEF Settled
  <2> QED
    BY <2>2, <2>3
<1>3. CASE Aggregate
  <2>1. CASE pass' < MaxPasses
    BY <1>3, <2>1 DEF Aggregate, Settled
  <2>2. CASE ~ (pass' < MaxPasses)
    BY <1>3, <2>2 DEF Aggregate, Settled
  <2> QED
    BY <2>1, <2>2
<1>4. CASE Finish
  <2>1. UNCHANGED <<m2, level, community, rounds, pass>> /\ phase = "settled" /\ phase' = "done"
    BY <1>4 DEF Finish
  <2>2. Apart
    <3>1. IsFiniteSet(level.nodes) /\ community \in [level.nodes -> level.nodes]
      BY LevelIsGraph DEF IsGraph, Sound
    <3>2. Cardinality({community[a] : a \in level.nodes}) = Cardinality(level.nodes)
      BY <1>4 DEF Finish
    <3> QED
      BY <3>1, <3>2, AsManyAreApart
  <2>3. Apart' /\ Fixed' = Fixed
    BY <2>1, <2>2 DEF Apart, Fixed, Best, Around, Gain, Members, Weight, DegreeIn, DegreeOf
  <2> QED
    BY <2>1, <2>3 DEF Settled
<1>5. CASE UNCHANGED vars
  <2>1. UNCHANGED <<m2, level, community, moved, turn, rounds, phase, pass>>
    BY <1>5 DEF vars
  <2>2. Apart' = Apart /\ Fixed' = Fixed
    BY <2>1 DEF Apart, Fixed, Best, Around, Gain, Members, Weight, DegreeIn, DegreeOf
  <2>3. ASSUME NEW x PROVE (Best(x))' = Best(x)
    BY <2>1 DEF Best, Around, Gain, Members, Weight, DegreeIn, DegreeOf
  <2> QED
    BY <2>1, <2>2, <2>3 DEF Settled
<1> QED
  BY <1>1, <1>2, <1>3, <1>4, <1>5 DEF Next
-----------------------------------------------------------------------------
(* What is connected. *)

\* The notes of a set next to one of some, and those themselves.
Beside(M, U) == {b \in M : \E a \in U : a = b \/ Weight(graph, a, b) > 0}

\* The function `Reach` is made from.
IsWalk(f, M, first, n) ==
  f = [d \in 0 .. n |-> IF d = 0 THEN first ELSE Beside(M, f[d - 1])]

\* It is a recursion with a solution.
LEMMA WalkExists ==
  ASSUME NEW M, NEW first
  PROVE  \A n \in Nat : \E f : IsWalk(f, M, first, n)
<1> DEFINE S == {n \in Nat : \E f : IsWalk(f, M, first, n)}
<1>1. 0 \in S
  <2>1. IsWalk([d \in 0 .. 0 |-> first], M, first, 0)
    BY DEF IsWalk
  <2> QED
    BY <2>1
<1>2. ASSUME NEW n \in Nat, n \in S PROVE n + 1 \in S
  <2>1. PICK f : IsWalk(f, M, first, n)
    BY <1>2
  <2> DEFINE h == [d \in 0 .. n + 1 |-> IF d \in 0 .. n THEN f[d] ELSE Beside(M, f[n])]
  <2>2. /\ \A d \in 0 .. n : h[d] = f[d]
        /\ \A d \in 0 .. n : f[d] = IF d = 0 THEN first ELSE Beside(M, f[d - 1])
        /\ h[n + 1] = Beside(M, f[n])
        /\ h = [d \in 0 .. n + 1 |-> h[d]]
    BY <2>1 DEF IsWalk
  <2> HIDE DEF h
  <2>3. \A d \in 0 .. n + 1 : h[d] = IF d = 0 THEN first ELSE Beside(M, h[d - 1])
    <3> SUFFICES ASSUME NEW d \in 0 .. n + 1
                 PROVE  h[d] = IF d = 0 THEN first ELSE Beside(M, h[d - 1])
      OBVIOUS
    <3>1. CASE d = 0
      BY <2>2, <3>1
    <3>2. CASE d \in 1 .. n
      <4>0. d \in 0 .. n /\ d - 1 \in 0 .. n /\ d # 0
        BY <3>2
      <4>1. h[d - 1] = f[d - 1] /\ h[d] = f[d] /\ f[d] = Beside(M, f[d - 1])
        BY <2>2, <4>0
      <4> QED
        BY <3>2, <4>1
    <3>3. CASE d = n + 1
      <4>0. n \in 0 .. n /\ d - 1 = n /\ d # 0
        BY <3>3
      <4>1. h[n] = f[n] /\ h[n + 1] = Beside(M, f[n])
        BY <2>2, <4>0
      <4> QED
        BY <3>3, <4>0, <4>1
    <3> QED
      BY <3>1, <3>2, <3>3
  <2>4. IsWalk(h, M, first, n + 1)
    BY <2>2, <2>3 DEF IsWalk
  <2> QED
    BY <2>4
<1> HIDE DEF S
<1>3. Nat \subseteq S
  BY <1>1, <1>2, AllNumbers
<1> QED
  BY <1>3 DEF S

\* A set no link leaves for the rest of another.
Closed(C, M) == C \in SUBSET M /\ \A a \in C, b \in M : Weight(graph, a, b) > 0 => b \in C

\* What is reached is closed, and in every closed set with the start.
LEMMA ReachIsLeast ==
  ASSUME NEW M, IsFiniteSet(M), NEW start \in M
  PROVE  /\ start \in Reach(M, start) /\ Closed(Reach(M, start), M)
         /\ \A C : Closed(C, M) /\ start \in C => Reach(M, start) \subseteq C
<1> DEFINE N == Cardinality(M)
           W == CHOOSE f : IsWalk(f, M, {start}, N)
<1>1. N \in Nat
  BY FS_CardinalityType
<1>2. IsWalk(W, M, {start}, N)
  BY <1>1, WalkExists
<1>3. Reach(M, start) = W[N]
  BY DEF Reach, IsWalk, Beside
<1> HIDE DEF N, W
<1>4a. \A d \in 0 .. N : W[d] = IF d = 0 THEN {start} ELSE Beside(M, W[d - 1])
  BY <1>2 DEF IsWalk
<1>4. W[0] = {start} /\ \A d \in 0 .. N : d # 0 => W[d] = Beside(M, W[d - 1])
  BY <1>1, <1>4a
<1>5. ASSUME NEW d \in Nat, d + 1 \in 0 .. N PROVE W[d + 1] = Beside(M, W[d])
  <2>1. (d + 1) - 1 = d /\ d + 1 # 0
    OBVIOUS
  <2> QED
    BY <1>4, <1>5, <2>1
<1>6. ASSUME NEW C, Closed(C, M), start \in C PROVE W[N] \subseteq C
  <2> DEFINE S == {d \in Nat : d \in 0 .. N => W[d] \subseteq C}
  <2>1. 0 \in S
    BY <1>4, <1>6
  <2>2. ASSUME NEW d \in Nat, d \in S PROVE d + 1 \in S
    <3> SUFFICES ASSUME d + 1 \in 0 .. N PROVE W[d + 1] \subseteq C
      OBVIOUS
    <3>1. W[d] \subseteq C
      BY <1>1, <2>2
    <3>2. W[d + 1] = Beside(M, W[d])
      BY <1>5
    <3> QED
      BY <1>6, <3>1, <3>2 DEF Beside, Closed
  <2> HIDE DEF S
  <2>3. Nat \subseteq S
    BY <2>1, <2>2, AllNumbers
  <2>4. N \in S
    BY <1>1, <2>3
  <2> QED
    BY <1>1, <2>4 DEF S
<1>7. ASSUME NEW d \in Nat, d \in 0 .. N PROVE start \in W[d] /\ W[d] \in SUBSET M
  <2> DEFINE S == {e \in Nat : e \in 0 .. N => start \in W[e] /\ W[e] \in SUBSET M}
  <2>1. 0 \in S
    BY <1>4
  <2>2. ASSUME NEW e \in Nat, e \in S PROVE e + 1 \in S
    <3> SUFFICES ASSUME e + 1 \in 0 .. N PROVE start \in W[e + 1] /\ W[e + 1] \in SUBSET M
      OBVIOUS
    <3>1. start \in W[e] /\ W[e] \in SUBSET M
      BY <1>1, <2>2
    <3>2. W[e + 1] = Beside(M, W[e])
      BY <1>5
    <3> QED
      BY <3>1, <3>2 DEF Beside
  <2> HIDE DEF S
  <2>3. Nat \subseteq S
    BY <2>1, <2>2, AllNumbers
  <2>4. d \in S
    BY <2>3
  <2> QED
    BY <1>7, <2>4 DEF S
\* A walk that stops growing has reached all it can; one that goes on growing, more notes than steps.
<1>8. \A d \in Nat : d \in 0 .. N => (\E e \in 0 .. d : Closed(W[e], M) /\ W[d] = W[e]) \/ Cardinality(W[d]) >= d + 1
  <2> DEFINE Done(d) == \E e \in 0 .. d : Closed(W[e], M) /\ W[d] = W[e]
             S == {d \in Nat : d \in 0 .. N => Done(d) \/ Cardinality(W[d]) >= d + 1}
  <2>1. 0 \in S
    <3>1. Cardinality(W[0]) = 1
      BY <1>4, FS_Singleton
    <3> QED
      BY <3>1
  <2>2. ASSUME NEW d \in Nat, d \in S PROVE d + 1 \in S
    <3> SUFFICES ASSUME d + 1 \in 0 .. N PROVE Done(d + 1) \/ Cardinality(W[d + 1]) >= d + 1 + 1
      OBVIOUS
    <3>0. d \in 0 .. N
      BY <1>1
    <3>1. W[d + 1] = Beside(M, W[d]) /\ W[d] \in SUBSET M /\ W[d + 1] \in SUBSET M
      <4>1. W[d + 1] = Beside(M, W[d])
        BY <1>5
      <4> QED
        BY <4>1, <3>0, <1>7
    <3>2. W[d] \subseteq W[d + 1]
      BY <3>1 DEF Beside
    <3>3. CASE Closed(W[d], M)
      <4>1. W[d + 1] = W[d]
        BY <3>1, <3>2, <3>3 DEF Beside, Closed
      <4>2. d \in 0 .. d + 1
        OBVIOUS
      <4> QED
        BY <3>3, <4>1, <4>2
    <3>4. CASE ~ Closed(W[d], M)
      <4>1. PICK a \in W[d], b \in M : Weight(graph, a, b) > 0 /\ b \notin W[d]
        BY <3>1, <3>4 DEF Closed
      <4>2. b \in W[d + 1]
        BY <3>1, <4>1 DEF Beside
      <4>3. IsFiniteSet(W[d + 1]) /\ IsFiniteSet(W[d])
        BY <3>1, FS_Subset
      <4>4. Cardinality(W[d]) \in Nat /\ Cardinality(W[d + 1]) \in Nat
        BY <4>3, FS_CardinalityType
      <4>5. Cardinality(W[d]) < Cardinality(W[d + 1])
        <5>1. W[d] # W[d + 1]
          BY <4>1, <4>2
        <5>2. Cardinality(W[d]) <= Cardinality(W[d + 1]) /\ (Cardinality(W[d]) = Cardinality(W[d + 1]) => W[d] = W[d + 1])
          BY <3>2, <4>3, FS_Subset
        <5> QED
          BY <4>4, <5>1, <5>2
      <4>6. ~ Done(d)
        BY <3>4
      <4>7. Cardinality(W[d]) >= d + 1
        <5>1. Done(d) \/ Cardinality(W[d]) >= d + 1
          BY <2>2, <3>0
        <5> QED
          BY <4>6, <5>1
      <4> QED
        BY <4>4, <4>5, <4>7
    <3> QED
      BY <3>3, <3>4
  <2> HIDE DEF S
  <2>3. Nat \subseteq S
    BY <2>1, <2>2, AllNumbers
  <2> QED
    BY <2>3 DEF S
<1>9. Closed(W[N], M)
  <2>1. N \in 0 .. N
    BY <1>1
  <2>2. W[N] \in SUBSET M
    BY <1>1, <1>7, <2>1
  <2>3. Cardinality(W[N]) <= N /\ Cardinality(W[N]) \in Nat
    BY <2>2, FS_Subset, FS_CardinalityType DEF N
  <2>4. \E e \in 0 .. N : Closed(W[e], M) /\ W[N] = W[e]
    BY <1>1, <1>8, <2>1, <2>3
  <2> QED
    BY <2>4
<1>10. start \in W[N]
  BY <1>1, <1>7
<1> QED
  BY <1>3, <1>6, <1>9, <1>10
-----------------------------------------------------------------------------
(* The parts. *)

\* A link goes both ways.
LEMMA WeightIsMutual ==
  ASSUME NEW g, NEW a, NEW b
  PROVE  Weight(g, a, b) = Weight(g, b, a)
<1>1. {a, b} = {b, a}
  OBVIOUS
<1> QED
  BY <1>1 DEF Weight

\* Who is reached reaches the same.
LEMMA ReachIsMutual ==
  ASSUME NEW M, IsFiniteSet(M), NEW n \in M, NEW m \in Reach(M, n)
  PROVE  m \in M /\ Reach(M, m) = Reach(M, n)
<1>1. Reach(M, n) \in SUBSET M /\ m \in M
  BY ReachIsLeast DEF Closed
<1>2. Closed(Reach(M, n), M) /\ Closed(Reach(M, m), M) /\ m \in Reach(M, m) /\ n \in Reach(M, n)
  BY <1>1, ReachIsLeast
<1>3. Reach(M, m) \subseteq Reach(M, n)
  BY <1>1, <1>2, ReachIsLeast
<1>4. n \in Reach(M, m)
  <2> DEFINE C == Reach(M, n) \ Reach(M, m)
  <2> SUFFICES ASSUME n \notin Reach(M, m) PROVE FALSE
    OBVIOUS
  <2>1. Closed(C, M)
    BY <1>2, WeightIsMutual DEF Closed
  <2>2. Reach(M, n) \subseteq C
    <3> HIDE DEF C
    <3>1. n \in C
      BY <1>2 DEF C
    <3> QED
      BY <2>1, <3>1, ReachIsLeast
  <2> QED
    BY <1>2, <2>2
<1>5. Reach(M, n) \subseteq Reach(M, m)
  BY <1>1, <1>2, <1>4, ReachIsLeast
<1> QED
  BY <1>1, <1>3, <1>5

\* Sets of which no two share a member.
Disjoint(P) == \A p, q \in P : p # q => p \cap q = {}

\* The communities are a partition of the notes.
LEMMA GroupsAreApart ==
  ASSUME Sound
  PROVE  /\ IsFiniteSet(Notes)
         /\ \A n \in Notes : n \in Group(n) /\ Group(n) \in SUBSET Notes /\ IsFiniteSet(Group(n))
         /\ \A n \in Notes : \A m \in Group(n) : Group(m) = Group(n)
         /\ Found \in SUBSET (SUBSET Notes) /\ IsFiniteSet(Found) /\ Disjoint(Found)
<1>1. IsFiniteSet(Notes)
  BY NumberAssumption
<1>2. \A n \in Notes : n \in Group(n) /\ Group(n) \in SUBSET Notes
  BY DEF Group
<1>3. \A n \in Notes : IsFiniteSet(Group(n))
  BY <1>1, <1>2, FS_Subset
<1>4. \A n \in Notes : \A m \in Group(n) : Group(m) = Group(n)
  BY DEF Group
<1>5. Found \in SUBSET (SUBSET Notes)
  BY <1>2 DEF Found
<1>6. IsFiniteSet(Found)
  <2>1. IsFiniteSet(SUBSET Notes)
    BY <1>1, FS_SUBSET
  <2> QED
    BY <1>5, <2>1, FS_Subset
<1>7. Disjoint(Found)
  <2> SUFFICES ASSUME NEW p \in Found, NEW q \in Found, NEW x \in p \cap q PROVE p = q
    BY DEF Disjoint
  <2>1. PICK n \in Notes, m \in Notes : p = Group(n) /\ q = Group(m)
    BY DEF Found
  <2> QED
    BY <1>4, <2>1
<1> QED
  BY <1>1, <1>2, <1>3, <1>4, <1>5, <1>6, <1>7

\* The parts are a partition, each of a community, and no link leaves one for the rest of its community.
LEMMA PartsAreApart ==
  ASSUME Sound
  PROVE  /\ Parts \in SUBSET (SUBSET Notes) /\ IsFiniteSet(Parts) /\ Disjoint(Parts)
         /\ \A p \in Parts : \A x \in p : p = Reach(Group(x), x) /\ Closed(p, Group(x))
         /\ \A n \in Notes : n \in Reach(Group(n), n) /\ Reach(Group(n), n) \in Parts
         /\ \A p \in Parts : p # {}
<1>1. ASSUME NEW n \in Notes
      PROVE  n \in Reach(Group(n), n) /\ Closed(Reach(Group(n), n), Group(n)) /\ Reach(Group(n), n) \in SUBSET Group(n)
             /\ Group(n) \in SUBSET Notes /\ IsFiniteSet(Group(n)) /\ n \in Group(n)
  <2>1. n \in Group(n) /\ Group(n) \in SUBSET Notes /\ IsFiniteSet(Group(n))
    BY GroupsAreApart
  <2>2. n \in Reach(Group(n), n) /\ Closed(Reach(Group(n), n), Group(n))
    BY <2>1, ReachIsLeast
  <2> QED
    BY <2>1, <2>2 DEF Closed
<1>2. ASSUME NEW p \in Parts, NEW x \in p PROVE p = Reach(Group(x), x) /\ Closed(p, Group(x)) /\ x \in Notes
  <2>1. PICK n \in Notes : p = Reach(Group(n), n)
    BY DEF Parts
  <2>2. x \in Group(n) /\ x \in Notes
    BY <1>1, <2>1
  <2>3. Group(x) = Group(n)
    BY <2>2, GroupsAreApart
  <2>4. Reach(Group(n), x) = Reach(Group(n), n)
    BY <1>1, <2>1, ReachIsMutual
  <2> QED
    BY <1>1, <2>1, <2>2, <2>3, <2>4
<1>3. Parts \in SUBSET (SUBSET Notes)
  BY <1>1 DEF Parts
<1>4. IsFiniteSet(Parts)
  <2>1. IsFiniteSet(SUBSET Notes)
    BY NumberAssumption, FS_SUBSET
  <2> QED
    BY <1>3, <2>1, FS_Subset
<1>5. Disjoint(Parts)
  BY <1>2 DEF Disjoint
<1>6. \A n \in Notes : n \in Reach(Group(n), n) /\ Reach(Group(n), n) \in Parts
  BY <1>1 DEF Parts
<1>7. \A p \in Parts : p # {}
  BY <1>1 DEF Parts
<1> QED
  BY <1>2, <1>3, <1>4, <1>5, <1>6, <1>7

\* Every note is in one part.
LEMMA InOnePart ==
  ASSUME Sound, NEW n \in Notes
  PROVE  Cardinality({p \in Parts : n \in p}) = 1
<1>1. {p \in Parts : n \in p} = {Reach(Group(n), n)}
  BY PartsAreApart
<1> QED
  BY <1>1, FS_Singleton

\* From some of a part, but not all of it, a link leads to the rest.
LEMMA PartsHold ==
  ASSUME Sound, NEW p \in Parts, NEW n \in p, NEW U \in SUBSET p, n \in U, U # p
  PROVE  \E a \in U, b \in p \ U : Weight(graph, a, b) > 0
<1> SUFFICES ASSUME \A a \in U, b \in p \ U : ~ (Weight(graph, a, b) > 0) PROVE FALSE
  OBVIOUS
<1>1. p = Reach(Group(n), n) /\ Closed(p, Group(n)) /\ n \in Notes
  BY PartsAreApart
<1>2. IsFiniteSet(Group(n)) /\ n \in Group(n)
  BY <1>1, GroupsAreApart
<1>3. Closed(U, Group(n))
  BY <1>1 DEF Closed
<1>4. p \subseteq U
  BY <1>1, <1>2, <1>3, ReachIsLeast
<1> QED
  BY <1>4

\* A part is held together by as many links as it takes.
LEMMA PartsAreHeld ==
  ASSUME Sound, NEW p \in Parts
  PROVE  Internal(p) >= Cardinality(p) - 1 /\ Internal(p) = WeightOf(graph, Pairs(p))
<1> DEFINE N == Cardinality(p)
           Held(U) == WeightOf(graph, Pairs(U))
<1>1. p \in SUBSET Notes /\ IsFiniteSet(p) /\ p # {} /\ IsGraph(graph) /\ graph.nodes = Notes
  <2>1. p \in SUBSET Notes /\ p # {}
    BY PartsAreApart
  <2>2. IsFiniteSet(p)
    BY <2>1, NumberAssumption, FS_Subset
  <2> QED
    BY <2>1, <2>2 DEF Sound
<1>2. PICK n \in p : TRUE
  BY <1>1
<1>3. N \in Nat
  BY <1>1, FS_CardinalityType
<1>4. ASSUME NEW U \in SUBSET p PROVE Pairs(U) \in SUBSET Pairs(graph.nodes) /\ Held(U) \in Nat
  <2>1. Pairs(U) \in SUBSET Pairs(graph.nodes)
    BY <1>1 DEF Pairs
  <2> QED
    BY <1>1, <2>1, WeightsAreNat
<1> DEFINE Grown(k) == \E U \in SUBSET p : n \in U /\ Cardinality(U) = k + 1 /\ Held(U) >= k
           S == {k \in Nat : k + 1 <= N => Grown(k)}
<1>5. 0 \in S
  <2>1. {n} \in SUBSET p /\ n \in {n} /\ Cardinality({n}) = 0 + 1
    <3>1. Cardinality({n}) = 1
      BY FS_Singleton
    <3> QED
      BY <3>1
  <2>2. Held({n}) >= 0
    BY <1>4, <2>1
  <2> QED
    BY <2>1, <2>2
<1>6. ASSUME NEW k \in Nat, k \in S PROVE k + 1 \in S
  <2> SUFFICES ASSUME (k + 1) + 1 <= N PROVE Grown(k + 1)
    OBVIOUS
  <2>1. PICK U \in SUBSET p : n \in U /\ Cardinality(U) = k + 1 /\ Held(U) >= k
    BY <1>3, <1>6
  <2>2. U # p
    BY <1>3, <2>1
  <2>3. PICK a \in U, b \in p \ U : Weight(graph, a, b) > 0
    BY <2>1, <2>2, PartsHold
  <2>4. U \cup {b} \in SUBSET p /\ n \in U \cup {b}
    BY <2>1, <2>3
  <2>5. Cardinality(U \cup {b}) = (k + 1) + 1
    <3>1. IsFiniteSet(U)
      BY <1>1, FS_Subset
    <3> QED
      BY <2>1, <2>3, <3>1, FS_AddElement
  <2>6. Held(U \cup {b}) >= k + 1
    <3> DEFINE R == Star(b, U) \cup {{b}}
    <3>1. Pairs(U \cup {b}) = Pairs(U) \cup R /\ Pairs(U) \cap R = {}
      BY <2>3, PairsOfMore
    <3>2. R \in SUBSET Pairs(graph.nodes)
      BY <1>4, <2>4, <3>1
    <3>3. {a, b} \in R
      BY DEF Star
    <3>4. graph.w[{a, b}] > 0
      BY <2>3 DEF Weight
    <3> HIDE DEF R, Held
    <3>5. IsFiniteSet(R) /\ \A q \in R : graph.w[q] \in Nat
      BY <1>1, <3>2, WeightsAdd DEF IsGraph
    <3>6. WeightOf(graph, R) >= graph.w[{a, b}] /\ WeightOf(graph, R) \in Nat
      BY <3>3, <3>5, PartOfSum DEF WeightOf
    <3>7. Held(U \cup {b}) = Held(U) + WeightOf(graph, R)
      BY <1>1, <1>4, <3>1, <3>2, WeightOfBoth DEF Held
    <3>8. Held(U) \in Nat /\ graph.w[{a, b}] \in Nat
      BY <1>4, <3>3, <3>5
    <3> QED
      BY <2>1, <3>4, <3>6, <3>7, <3>8
  <2> HIDE DEF Held
  <2> QED
    BY <2>4, <2>5, <2>6
<1> HIDE DEF S, Held
<1>7. Nat \subseteq S
  BY <1>5, <1>6, AllNumbers
<1>8. N >= 1
  <2>1. N # 0
    BY <1>1, FS_EmptySet
  <2> QED
    BY <1>3, <2>1
<1>9. Grown(N - 1)
  <2>1. N - 1 \in S
    BY <1>3, <1>7, <1>8
  <2> QED
    BY <1>3, <2>1 DEF S
<1>10. PICK U \in SUBSET p : Cardinality(U) = (N - 1) + 1 /\ Held(U) >= N - 1
  BY <1>9
<1>11. U = p
  <2>1. Cardinality(U) = N
    BY <1>3, <1>10
  <2> QED
    BY <1>1, <2>1, FS_Subset DEF N
<1> QED
  BY <1>10, <1>11 DEF Held, Internal, WeightOf
-----------------------------------------------------------------------------
(* What the links of a part add up to, and what two sets are worth. *)

\* The links that leave a part are those that cross its border.
LEMMA CutWeighs ==
  ASSUME NEW g, IsGraph(g), NEW S \in SUBSET g.nodes
  PROVE  SumFunction([n \in S |-> SumFunction([m \in g.nodes \ S |-> Weight(g, n, m)])]) = WeightOf(g, Cut(g, S))
<1> DEFINE R == g.nodes \ S
           h == [n \in S |-> WeightOf(g, Star(n, R))]
           Over(T) == {{a, b} : a \in T, b \in R}
           F == {T \in SUBSET S : SumFunctionOnSet(h, T) = WeightOf(g, Over(T))}
<1>0. IsFiniteSet(S) /\ R \in SUBSET g.nodes
  BY DegreesAreInts
<1>1. ASSUME NEW n \in S
      PROVE  Star(n, R) \in SUBSET Pairs(g.nodes) /\ h[n] = WeightOf(g, Star(n, R)) /\ h[n] \in Int
             /\ SumFunction([m \in R |-> Weight(g, n, m)]) = h[n]
  <2>1. Star(n, R) \in SUBSET Pairs(g.nodes) /\ SumFunction([m \in R |-> Weight(g, n, m)]) = WeightOf(g, Star(n, R))
    BY <1>0, StarWeighs
  <2>2. WeightOf(g, Star(n, R)) \in Int
    BY <2>1, WeightsAdd
  <2> QED
    BY <2>1, <2>2
<1>2. [n \in S |-> SumFunction([m \in R |-> Weight(g, n, m)])] = h
  BY <1>1
<1> HIDE DEF h, R
<1>3. {} \in F
  <2>1. Over({}) = {}
    OBVIOUS
  <2>2. SumFunctionOnSet(h, {}) = 0 /\ WeightOf(g, {}) = 0
    BY SumOfNone DEF WeightOf
  <2> QED
    BY <2>1, <2>2
<1>4. ASSUME NEW T \in SUBSET S, NEW x \in S \ T, T \in F PROVE T \cup {x} \in F
  <2>1. Over(T \cup {x}) = Over(T) \cup Star(x, R)
    BY DEF Star
  <2>2. Over(T) \cap Star(x, R) = {}
    <3> SUFFICES ASSUME NEW q \in Over(T), q \in Star(x, R) PROVE FALSE
      OBVIOUS
    <3>1. PICK a \in T, b \in R : q = {a, b}
      OBVIOUS
    <3>2. PICK c \in R : q = {x, c}
      BY DEF Star
    <3>3. a # x /\ x \notin R /\ a \notin R
      BY DEF R
    <3> QED
      BY <3>1, <3>2, <3>3
  <2>3. Over(T) \in SUBSET Pairs(g.nodes)
    BY <1>0 DEF Pairs
  <2> HIDE DEF Over
  <2>4. WeightOf(g, Over(T \cup {x})) = WeightOf(g, Over(T)) + WeightOf(g, Star(x, R))
    <3>1. Star(x, R) \in SUBSET Pairs(g.nodes)
      BY <1>1
    <3>2. WeightOf(g, Over(T) \cup Star(x, R)) = WeightOf(g, Over(T)) + WeightOf(g, Star(x, R))
      BY <2>2, <2>3, <3>1, WeightOfBoth
    <3> QED
      BY <2>1, <3>2
  <2>5. IsFiniteSet(T) /\ Ints(h, T \cup {x})
    <3>1. IsFiniteSet(T)
      BY <1>0, FS_Subset
    <3> QED
      BY <1>1, <3>1 DEF Ints
  <2>6. SumFunctionOnSet(h, T \cup {x}) = h[x] + SumFunctionOnSet(h, T)
    BY <2>5, SumAdds
  <2>7. SumFunctionOnSet(h, T) = WeightOf(g, Over(T)) /\ WeightOf(g, Over(T)) \in Int
    BY <1>4, <2>3, WeightsAdd
  <2>8. h[x] = WeightOf(g, Star(x, R)) /\ h[x] \in Int
    BY <1>1
  <2> QED
    BY <2>4, <2>6, <2>7, <2>8
<1> HIDE DEF F
<1>5. S \in F
  BY <1>0, <1>3, <1>4, AllFinite
<1>6. DOMAIN h = S
  BY DEF h
<1>7. SumFunctionOnSet(h, S) = WeightOf(g, Over(S))
  BY <1>5 DEF F
<1>8. Over(S) = Cut(g, S)
  BY DEF R, Cut
<1>9. SumFunction(h) = WeightOf(g, Cut(g, S))
  <2>1. SumFunction(h) = SumFunctionOnSet(h, DOMAIN h)
    BY DEF SumFunction
  <2>2. SumFunctionOnSet(h, DOMAIN h) = SumFunctionOnSet(h, S)
    BY <1>6
  <2> HIDE DEF Over
  <2> QED
    BY <1>7, <1>8, <2>1, <2>2
<1> QED
  BY <1>2, <1>9 DEF R

\* The links a part's report counts are those its notes have.
LEMMA PartsCount ==
  ASSUME Sound, NEW p \in Parts
  PROVE  2 * Internal(p) + External(p) = DegreeIn(graph, p)
<1>1. IsGraph(graph) /\ graph.nodes = Notes /\ p \in SUBSET graph.nodes
  BY PartsAreApart DEF Sound
<1>2. External(p) = WeightOf(graph, Cut(graph, p))
  BY <1>1, CutWeighs DEF External
<1>3. Internal(p) = WeightOf(graph, Pairs(p))
  BY PartsAreHeld
<1>4. DegreeIn(graph, p) = 2 * WeightOf(graph, Pairs(p)) + WeightOf(graph, Cut(graph, p))
  BY <1>1, DegreesCountPairs
<1> QED
  BY <1>2, <1>3, <1>4

\* The pairs between two sets.
Across(A, B) == {{a, b} : a \in A, b \in B}

\* Two sets are worth together what they are apart, and what lies between them more than chance.
LEMMA MeritOfBoth ==
  ASSUME NEW g, IsGraph(g), m2 \in Nat, NEW A \in SUBSET g.nodes, NEW B \in SUBSET g.nodes, A \cap B = {},
         \A a \in A, b \in B : ~ (Weight(g, a, b) > 0)
  PROVE  Merit(g, A \cup B) <= Merit(g, A) + Merit(g, B)
<1>1. Pairs(A) \in SUBSET Pairs(g.nodes) /\ Pairs(B) \in SUBSET Pairs(g.nodes) /\ Across(A, B) \in SUBSET Pairs(g.nodes)
  <2>1. Pairs(A) \in SUBSET Pairs(g.nodes)
    BY DEF Pairs
  <2>2. Pairs(B) \in SUBSET Pairs(g.nodes)
    BY DEF Pairs
  <2>3. Across(A, B) \in SUBSET Pairs(g.nodes)
    BY DEF Pairs, Across
  <2> QED
    BY <2>1, <2>2, <2>3
<1>2. Pairs(A \cup B) = (Pairs(A) \cup Pairs(B)) \cup Across(A, B)
  <2>1. ASSUME NEW q \in Pairs(A \cup B) PROVE q \in (Pairs(A) \cup Pairs(B)) \cup Across(A, B)
    <3>1. PICK a \in A \cup B, b \in A \cup B : q = {a, b}
      BY DEF Pairs
    <3>2. q = {b, a}
      BY <3>1
    <3>3. CASE a \in A /\ b \in A
      BY <3>1, <3>3 DEF Pairs
    <3>4. CASE a \in B /\ b \in B
      BY <3>1, <3>4 DEF Pairs
    <3>5. CASE a \in A /\ b \in B
      BY <3>1, <3>5 DEF Across
    <3>6. CASE a \in B /\ b \in A
      BY <3>2, <3>6 DEF Across
    <3> QED
      BY <3>3, <3>4, <3>5, <3>6
  <2>2. Pairs(A) \subseteq Pairs(A \cup B) /\ Pairs(B) \subseteq Pairs(A \cup B) /\ Across(A, B) \subseteq Pairs(A \cup B)
    <3>1. Pairs(A) \subseteq Pairs(A \cup B)
      BY DEF Pairs
    <3>2. Pairs(B) \subseteq Pairs(A \cup B)
      BY DEF Pairs
    <3>3. Across(A, B) \subseteq Pairs(A \cup B)
      BY DEF Pairs, Across
    <3> QED
      BY <3>1, <3>2, <3>3
  <2> QED
    BY <2>1, <2>2
<1>3. Pairs(A) \cap Pairs(B) = {}
  <2> SUFFICES ASSUME NEW q \in Pairs(A), q \in Pairs(B) PROVE FALSE
    OBVIOUS
  <2>1. PICK a \in A, b \in A : q = {a, b}
    BY DEF Pairs
  <2>2. PICK c \in B, d \in B : q = {c, d}
    BY DEF Pairs
  <2> QED
    BY <2>1, <2>2
<1>4. (Pairs(A) \cup Pairs(B)) \cap Across(A, B) = {}
  <2> SUFFICES ASSUME NEW q \in Across(A, B), q \in Pairs(A) \cup Pairs(B) PROVE FALSE
    OBVIOUS
  <2>1. PICK a \in A, b \in B : q = {a, b}
    BY DEF Across
  <2>2. CASE q \in Pairs(A)
    <3>1. PICK c \in A, d \in A : q = {c, d}
      BY <2>2 DEF Pairs
    <3> QED
      BY <2>1, <3>1
  <2>3. CASE q \in Pairs(B)
    <3>1. PICK c \in B, d \in B : q = {c, d}
      BY <2>3 DEF Pairs
    <3> QED
      BY <2>1, <3>1
  <2> QED
    BY <2>2, <2>3
<1>5. WeightOf(g, Across(A, B)) = 0
  <2>1. IsFiniteSet(Across(A, B))
    BY <1>1, WeightsAdd
  <2>2. ASSUME NEW q \in Across(A, B) PROVE g.w[q] = 0
    <3>1. PICK a \in A, b \in B : q = {a, b}
      BY DEF Across
    <3>2. ~ (g.w[q] > 0)
      BY <3>1 DEF Weight
    <3>3. g.w[q] \in Nat
      BY <1>1 DEF IsGraph
    <3> QED
      BY <3>2, <3>3
  <2> QED
    BY <2>1, <2>2, SumOfZeros DEF WeightOf
<1>6. WeightOf(g, Pairs(A \cup B)) = WeightOf(g, Pairs(A)) + WeightOf(g, Pairs(B))
  <2>1. WeightOf(g, Pairs(A) \cup Pairs(B)) = WeightOf(g, Pairs(A)) + WeightOf(g, Pairs(B))
    BY <1>1, <1>3, WeightOfBoth
  <2>2. WeightOf(g, (Pairs(A) \cup Pairs(B)) \cup Across(A, B))
          = WeightOf(g, Pairs(A) \cup Pairs(B)) + WeightOf(g, Across(A, B))
    <3>1. Pairs(A) \cup Pairs(B) \in SUBSET Pairs(g.nodes)
      BY <1>1
    <3> QED
      BY <1>1, <1>4, <3>1, WeightOfBoth
  <2>3. WeightOf(g, Pairs(A)) \in Nat /\ WeightOf(g, Pairs(B)) \in Nat
    BY <1>1, WeightsAreNat
  <2>4. WeightOf(g, Pairs(A \cup B)) = WeightOf(g, (Pairs(A) \cup Pairs(B)) \cup Across(A, B))
    BY <1>2
  <2>5. WeightOf(g, Pairs(A)) + WeightOf(g, Pairs(B)) \in Nat
    BY <2>3
  <2> QED
    BY <1>5, <2>1, <2>2, <2>4, <2>5
<1>7. DegreeIn(g, A \cup B) = DegreeIn(g, A) + DegreeIn(g, B) /\ DegreeIn(g, A) \in Nat /\ DegreeIn(g, B) \in Nat
  <2> DEFINE d == [a \in g.nodes |-> DegreeOf(g, a)]
  <2>0. \A a \in g.nodes : d[a] = DegreeOf(g, a) /\ d[a] \in Nat
    BY DegreesAreInts
  <2> HIDE DEF d
  <2>1. ASSUME NEW T \in SUBSET g.nodes PROVE DegreeIn(g, T) = SumFunctionOnSet(d, T) /\ IsFiniteSet(T) /\ Ints(d, T)
    <3> DEFINE e == [a \in T |-> DegreeOf(g, a)]
    <3>1. IsFiniteSet(T)
      BY DegreesAreInts
    <3>2. Ints(d, T) /\ \A a \in T : d[a] = e[a]
      BY <2>0 DEF Ints
    <3>3. DegreeIn(g, T) = SumFunctionOnSet(e, T)
      BY DEF DegreeIn, SumFunction
    <3> HIDE DEF e
    <3> QED
      BY <3>1, <3>2, <3>3, SumOfSame
  <2>2. SumFunctionOnSet(d, A \cup B) = SumFunctionOnSet(d, A) + SumFunctionOnSet(d, B)
    BY <2>1, SumOfUnion
  <2>3. SumFunctionOnSet(d, A) \in Nat
    BY <2>0, <2>1, SumOfNats
  <2>4. SumFunctionOnSet(d, B) \in Nat
    BY <2>0, <2>1, SumOfNats
  <2>5. A \cup B \in SUBSET g.nodes
    OBVIOUS
  <2> QED
    BY <2>1, <2>2, <2>3, <2>4, <2>5
<1>8. PICK x, y, i, j \in Nat : /\ x = DegreeIn(g, A) /\ y = DegreeIn(g, B)
                                /\ i = WeightOf(g, Pairs(A)) /\ j = WeightOf(g, Pairs(B))
  BY <1>1, <1>7, WeightsAreNat
<1>9. /\ Merit(g, A) = 2 * i * m2 - x * x /\ Merit(g, B) = 2 * j * m2 - y * y
      /\ Merit(g, A \cup B) = 2 * (i + j) * m2 - (x + y) * (x + y)
  BY <1>6, <1>7, <1>8 DEF Merit, WeightOf
<1>10. 2 * (i + j) * m2 - (x + y) * (x + y) = (2 * i * m2 - x * x) + (2 * j * m2 - y * y) - 2 * (x * y)
  OBVIOUS
<1>11. x * y \in Nat
  OBVIOUS
<1>12. 2 * i * m2 - x * x \in Int /\ 2 * j * m2 - y * y \in Int
  OBVIOUS
<1> QED
  BY <1>9, <1>10, <1>11, <1>12
-----------------------------------------------------------------------------
(* What parts are worth. *)

\* What each of some sets of notes is worth.
Merited(P) == [p \in P |-> Merit(graph, p)]

\* What they are worth together is the sum.
LEMMA WorthAdds ==
  ASSUME Sound, NEW P \in SUBSET (SUBSET Notes)
  PROVE  /\ IsFiniteSet(P) /\ Ints(Merited(P), P) /\ Worth(P) = SumFunctionOnSet(Merited(P), P) /\ Worth(P) \in Int
         /\ \A p \in SUBSET Notes : Merit(graph, p) \in Int
         /\ \A Q \in SUBSET P : Worth(Q) = SumFunctionOnSet(Merited(P), Q)
<1>1. IsFiniteSet(P)
  <2>1. IsFiniteSet(SUBSET Notes)
    BY NumberAssumption, FS_SUBSET
  <2> QED
    BY <2>1, FS_Subset
<1>2. ASSUME NEW p \in SUBSET Notes PROVE Merit(graph, p) \in Int
  BY LevelIsGraph, MeritsAreInts DEF Sound
<1>3. \A p \in P : Merited(P)[p] = Merit(graph, p)
  BY DEF Merited
<1>4. Ints(Merited(P), P)
  BY <1>2, <1>3 DEF Ints
<1>5. Worth(P) = SumFunctionOnSet(Merited(P), P)
  BY DEF Worth, SumFunction, Merited
<1>6. Worth(P) \in Int
  BY <1>1, <1>4, <1>5, SumIsInt
<1>7. ASSUME NEW Q \in SUBSET P PROVE Worth(Q) = SumFunctionOnSet(Merited(P), Q)
  <2>1. Worth(Q) = SumFunctionOnSet(Merited(Q), Q)
    BY DEF Worth, SumFunction, Merited
  <2>2. \A p \in Q : Merited(Q)[p] = Merited(P)[p] /\ Merited(Q)[p] \in Int
    BY <1>2 DEF Merited
  <2>3. IsFiniteSet(Q)
    BY <1>1, FS_Subset
  <2> QED
    BY <2>1, <2>2, <2>3, SumOfSame DEF Ints
<1> QED
  BY <1>1, <1>2, <1>4, <1>5, <1>6, <1>7

\* Sets no link goes between.
Unlinked(P) == \A p, q \in P : p # q => \A a \in p, b \in q : ~ (Weight(graph, a, b) > 0)

\* Pieces no link joins are worth at least what they are worth as one.
LEMMA PiecesAreWorthMore ==
  ASSUME Sound, NEW P \in SUBSET (SUBSET Notes), Disjoint(P), Unlinked(P)
  PROVE  Merit(graph, UNION P) <= Worth(P)
<1> DEFINE F == {T \in SUBSET P : Merit(graph, UNION T) <= Worth(T)}
<1>0. IsFiniteSet(P) /\ IsGraph(graph) /\ graph.nodes = Notes /\ m2 \in Nat
  BY WorthAdds, LevelIsGraph DEF Sound
<1>1. {} \in F
  <2>1. UNION {} = {} /\ {} \in SUBSET (SUBSET Notes)
    OBVIOUS
  <2>2. Worth({}) = 0
    BY <2>1, WorthAdds, SumOfNone
  <2>3. Merit(graph, {}) = 0
    BY <1>0, MeritOfNone
  <2> QED
    BY <2>1, <2>2, <2>3
<1>2. ASSUME NEW T \in SUBSET P, NEW x \in P \ T, T \in F PROVE T \cup {x} \in F
  <2>1. UNION (T \cup {x}) = (UNION T) \cup x
    OBVIOUS
  <2>2. UNION T \in SUBSET Notes /\ x \in SUBSET Notes
    OBVIOUS
  <2>3. (UNION T) \cap x = {}
    BY DEF Disjoint
  <2>4. \A a \in UNION T, b \in x : ~ (Weight(graph, a, b) > 0)
    BY DEF Unlinked
  <2>5. Merit(graph, (UNION T) \cup x) <= Merit(graph, UNION T) + Merit(graph, x)
    BY <1>0, <2>2, <2>3, <2>4, MeritOfBoth
  <2>6. Worth(T \cup {x}) = Merit(graph, x) + Worth(T)
    <3>1. T \cup {x} \in SUBSET P /\ T \in SUBSET P /\ IsFiniteSet(T)
      BY <1>0, FS_Subset
    <3>2. Worth(T) = SumFunctionOnSet(Merited(P), T)
      BY <3>1, WorthAdds
    <3>3. Worth(T \cup {x}) = SumFunctionOnSet(Merited(P), T \cup {x})
      BY <3>1, WorthAdds
    <3>4. Ints(Merited(P), T \cup {x})
      BY <3>1, WorthAdds DEF Ints
    <3>5. SumFunctionOnSet(Merited(P), T \cup {x}) = Merited(P)[x] + SumFunctionOnSet(Merited(P), T)
      BY <3>1, <3>4, SumAdds
    <3> QED
      BY <3>2, <3>3, <3>5 DEF Merited
  <2>7. Worth(T) \in Int /\ Merit(graph, x) \in Int /\ Merit(graph, UNION T) \in Int
        /\ Merit(graph, (UNION T) \cup x) \in Int
    <3>1. T \in SUBSET (SUBSET Notes) /\ (UNION T) \cup x \in SUBSET Notes
      BY <2>2
    <3> QED
      BY <2>2, <3>1, WorthAdds
  <2>8. Merit(graph, UNION T) <= Worth(T)
    BY <1>2
  <2>9. Merit(graph, UNION (T \cup {x})) <= Worth(T \cup {x})
    <3>1. Merit(graph, UNION (T \cup {x})) = Merit(graph, (UNION T) \cup x)
      BY <2>1
    <3> QED
      BY <3>1, <2>5, <2>6, <2>7, <2>8
  <2> QED
    BY <2>9
<1> HIDE DEF F
<1>3. P \in F
  BY <1>0, <1>1, <1>2, AllFinite
<1> QED
  BY <1>3 DEF F

\* Two of the parts of a community are not linked.
LEMMA PartsAreUnlinked ==
  ASSUME Sound, NEW p \in Parts, NEW q \in Parts, NEW c \in Found, p \cup q \subseteq c, p # q
  PROVE  \A a \in p, b \in q : ~ (Weight(graph, a, b) > 0)
<1> SUFFICES ASSUME NEW a \in p, NEW b \in q, Weight(graph, a, b) > 0 PROVE FALSE
  OBVIOUS
<1>1. Closed(p, Group(a)) /\ a \in Notes
  BY PartsAreApart
<1>2. Group(a) = c
  <2>1. PICK n \in Notes : c = Group(n)
    BY DEF Found
  <2> QED
    BY <2>1, GroupsAreApart
<1>3. b \in p
  BY <1>1, <1>2 DEF Closed
<1> QED
  BY <1>3, PartsAreApart DEF Disjoint

\* What the communities found are worth is what their partition scores.
LEMMA FoundScores ==
  ASSUME Sound
  PROVE  Modularity(graph, mapping) = Worth(Found)
<1> DEFINE S == NodesOf(graph, mapping)
           h == [c \in S |-> {n \in Notes : mapping[n] = c}]
           f == Merited(Found)
<1>1. IsGraph(graph) /\ graph.nodes = Notes /\ IsFiniteSet(S)
  BY FiniteImage DEF Sound
<1>2. Ints(f, Found) /\ Worth(Found) = SumFunctionOnSet(f, Found)
  BY GroupsAreApart, WorthAdds
<1>3. \A c \in S : h[c] \in Found
  BY <1>1 DEF NodesOf, Found, Group
<1>4. \A c, d \in S : h[c] = h[d] => c = d
  BY <1>1 DEF NodesOf
<1>5. \A z \in Found : \E c \in S : h[c] = z
  BY <1>1 DEF NodesOf, Found, Group
<1>6. Modularity(graph, mapping) = SumFunctionOnSet([c \in S |-> f[h[c]]], S)
  <2>1. [c \in S |-> f[h[c]]] = [c \in S |-> Merit(graph, {n \in Notes : mapping[n] = c})]
    BY <1>3 DEF Merited
  <2> HIDE DEF f, h
  <2> QED
    BY <1>1, <2>1 DEF Modularity, SumFunction, NodesOf
<1> HIDE DEF f, h, S
<1>7. SumFunctionOnSet([c \in S |-> f[h[c]]], S) = SumFunctionOnSet(f, Found)
  BY <1>1, <1>2, <1>3, <1>4, <1>5, SumRenamed
<1> QED
  BY <1>2, <1>6, <1>7

\* Splitting what is not connected costs nothing.
LEMMA SplittingIsFree ==
  ASSUME Sound
  PROVE  Worth(Parts) >= Modularity(graph, mapping)
<1> DEFINE h == [p \in Parts |-> Group(PickOf(p))]
           Of(c) == {p \in Parts : h[p] = c}
           f == Merited(Parts)
           w == [c \in Found |-> SumFunctionOnSet(f, Of(c))]
           m == Merited(Found)
<1>1. /\ Parts \in SUBSET (SUBSET Notes) /\ IsFiniteSet(Parts) /\ Disjoint(Parts)
      /\ Found \in SUBSET (SUBSET Notes) /\ IsFiniteSet(Found)
  BY PartsAreApart, GroupsAreApart
<1>2. ASSUME NEW p \in Parts PROVE PickOf(p) \in p /\ PickOf(p) \in Notes /\ h[p] = Group(PickOf(p)) /\ h[p] \in Found
                                   /\ p \subseteq h[p]
  <2>1. PickOf(p) \in p /\ PickOf(p) \in Notes
    BY <1>1, PartsAreApart, Picked
  <2>2. p \subseteq Group(PickOf(p))
    BY <2>1, PartsAreApart DEF Closed
  <2> QED
    BY <2>1, <2>2 DEF Found
<1>3. Ints(f, Parts) /\ Worth(Parts) = SumFunctionOnSet(f, Parts)
      /\ Ints(m, Found) /\ Worth(Found) = SumFunctionOnSet(m, Found)
  BY <1>1, WorthAdds
<1>4. ASSUME NEW c \in Found PROVE m[c] <= w[c] /\ w[c] \in Int
  <2>0. Of(c) \in SUBSET Parts /\ Of(c) \in SUBSET (SUBSET Notes)
    BY <1>1
  <2>1. UNION Of(c) = c
    <3>1. ASSUME NEW x \in UNION Of(c) PROVE x \in c
      BY <1>2
    <3>2. ASSUME NEW x \in c PROVE x \in UNION Of(c)
      <4>1. PICK n \in Notes : c = Group(n)
        BY DEF Found
      <4>2. x \in Notes /\ Group(x) = c
        BY <4>1, GroupsAreApart
      <4>3. x \in Reach(Group(x), x) /\ Reach(Group(x), x) \in Parts
        BY <4>2, PartsAreApart
      <4>4. x \in h[Reach(Group(x), x)] /\ h[Reach(Group(x), x)] \in Found
        BY <1>2, <4>3
      <4>5. h[Reach(Group(x), x)] = c
        BY <4>4, GroupsAreApart DEF Disjoint
      <4> QED
        BY <4>3, <4>5
    <3> QED
      BY <3>1, <3>2
  <2>2. Disjoint(Of(c))
    BY <1>1 DEF Disjoint
  <2>3. Unlinked(Of(c))
    <3> SUFFICES ASSUME NEW p \in Of(c), NEW q \in Of(c), p # q
                 PROVE  \A a \in p, b \in q : ~ (Weight(graph, a, b) > 0)
      BY DEF Unlinked
    <3>1. p \in Parts /\ q \in Parts /\ p \cup q \subseteq c
      BY <1>2
    <3> QED
      BY <3>1, PartsAreUnlinked
  <2>4. w[c] = Worth(Of(c))
    <3> HIDE DEF f, Of
    <3>1. Worth(Of(c)) = SumFunctionOnSet(Merited(Parts), Of(c))
      BY <1>1, <2>0, WorthAdds
    <3> QED
      BY <3>1 DEF f
  <2>5. m[c] = Merit(graph, c)
    BY DEF Merited
  <2>6. Worth(Of(c)) \in Int
    BY <2>0, WorthAdds
  <2>7. Merit(graph, UNION Of(c)) <= Worth(Of(c))
    <3> HIDE DEF Of
    <3> QED
      BY <2>0, <2>2, <2>3, PiecesAreWorthMore
  <2> HIDE DEF Of, w, m
  <2> QED
    BY <2>1, <2>4, <2>5, <2>6, <2>7
<1>5. \A p \in Parts : h[p] \in Found
  BY <1>2
<1> HIDE DEF h, f, m
<1>6. SumFunctionOnSet(w, Found) = SumFunctionOnSet(f, Parts)
  BY <1>1, <1>3, <1>5, SumByImage
<1> HIDE DEF w
<1>7. SumFunctionOnSet(m, Found) <= SumFunctionOnSet(w, Found)
  <2>1. Ints(w, Found)
    BY <1>4 DEF Ints
  <2> QED
    BY <1>1, <1>3, <1>4, <2>1, SumIsMonotonic
<1>8. Worth(Parts) \in Int /\ Worth(Found) \in Int
  BY <1>1, WorthAdds
<1> QED
  BY <1>3, <1>6, <1>7, <1>8, FoundScores

\* Two parts as one: what changes is what they are worth.
LEMMA JoiningTrades ==
  ASSUME Sound, NEW p \in Parts, NEW q \in Parts, p # q, Merit(graph, p \cup q) <= Merit(graph, p) + Merit(graph, q)
  PROVE  Worth(Joined(Parts, p, q)) <= Worth(Parts)
<1> DEFINE R == Parts \ {p, q}
           f == Merited(Parts)
           J == R \cup {p \cup q}
           j == Merited(J)
<1>1. Parts \in SUBSET (SUBSET Notes) /\ IsFiniteSet(Parts) /\ Disjoint(Parts) /\ p # {} /\ q # {}
  BY PartsAreApart
<1>2. /\ Ints(f, Parts) /\ Worth(Parts) = SumFunctionOnSet(f, Parts)
      /\ Worth(R) = SumFunctionOnSet(f, R) /\ Worth(R) \in Int /\ Worth(Parts) \in Int
  <2>1. R \in SUBSET Parts /\ R \in SUBSET (SUBSET Notes)
    BY <1>1
  <2> HIDE DEF R
  <2> QED
    BY <1>1, <2>1, WorthAdds
<1>3. Worth(Parts) = Merit(graph, p) + (Merit(graph, q) + Worth(R))
  <2>1. f[p] = Merit(graph, p) /\ f[q] = Merit(graph, q)
    BY DEF Merited
  <2> HIDE DEF f
  <2> QED
    BY <1>1, <1>2, <2>1, SumApart
<1>4. p \cup q \notin R
  <2> SUFFICES ASSUME p \cup q \in R PROVE FALSE
    OBVIOUS
  <2>1. p \cup q \in Parts /\ p \cup q # p
    OBVIOUS
  <2>2. (p \cup q) \cap p = {}
    BY <1>1, <2>1 DEF Disjoint
  <2> QED
    BY <1>1, <2>2
<1>5. J \in SUBSET (SUBSET Notes) /\ R \in SUBSET J /\ IsFiniteSet(R)
  <2>1. R \in SUBSET Parts
    OBVIOUS
  <2>2. IsFiniteSet(R)
    BY <1>1, <2>1, FS_Subset
  <2> QED
    BY <1>1, <2>2
<1> HIDE DEF R
<1>6. Worth(J) = SumFunctionOnSet(j, J) /\ Worth(R) = SumFunctionOnSet(j, R) /\ Ints(j, J) /\ j[p \cup q] = Merit(graph, p \cup q)
  <2>1. Worth(J) = SumFunctionOnSet(j, J) /\ Worth(R) = SumFunctionOnSet(j, R) /\ Ints(j, J)
    <3> HIDE DEF J
    <3> QED
      BY <1>5, WorthAdds
  <2>2. j[p \cup q] = Merit(graph, p \cup q)
    BY DEF Merited
  <2> QED
    BY <2>1, <2>2
<1> HIDE DEF j
<1>7. Worth(J) = Merit(graph, p \cup q) + Worth(R)
  <2>1. Ints(j, R \cup {p \cup q})
    BY <1>6
  <2>2. SumFunctionOnSet(j, R \cup {p \cup q}) = j[p \cup q] + SumFunctionOnSet(j, R)
    BY <1>4, <1>5, <2>1, SumAdds
  <2>3. SumFunctionOnSet(j, J) = SumFunctionOnSet(j, R \cup {p \cup q})
    OBVIOUS
  <2> HIDE DEF J
  <2> QED
    BY <1>6, <2>2, <2>3
<1>8. Merit(graph, p) \in Int /\ Merit(graph, q) \in Int /\ Merit(graph, p \cup q) \in Int
  <2>1. p \in SUBSET Notes /\ q \in SUBSET Notes /\ p \cup q \in SUBSET Notes
    BY <1>1
  <2> QED
    BY <2>1, WorthAdds
<1>9. Worth(J) <= Worth(Parts)
  BY <1>2, <1>3, <1>7, <1>8
<1> QED
  BY <1>9 DEF Joined, R

\* Two pieces of one community are better apart.
LEMMA PiecesStayApart ==
  ASSUME Sound, NEW p \in Parts, NEW q \in Parts, p # q, NEW c \in Found, p \cup q \subseteq c
  PROVE  Merit(graph, p \cup q) <= Merit(graph, p) + Merit(graph, q)
<1>1. IsGraph(graph) /\ graph.nodes = Notes /\ m2 \in Nat
  BY LevelIsGraph DEF Sound
<1>2. p \in SUBSET graph.nodes /\ q \in SUBSET graph.nodes /\ p \cap q = {}
  BY <1>1, PartsAreApart DEF Disjoint
<1>3. \A a \in p, b \in q : ~ (Weight(graph, a, b) > 0)
  BY PartsAreUnlinked
<1> QED
  BY <1>1, <1>2, <1>3, MeritOfBoth

\* Where no node is better off elsewhere and each is alone, no two are worth more as one.
LEMMA FixedStayApart ==
  ASSUME Sound, Apart, Fixed, NEW a \in level.nodes, NEW b \in level.nodes, a # b
  PROVE  Merit(level, {a, b}) <= Merit(level, {a}) + Merit(level, {b})
<1>1. IsGraph(level) /\ m2 \in Nat /\ community \in [level.nodes -> level.nodes]
  BY LevelIsGraph DEF Sound
<1>2. Merit(level, {b} \cup {a}) = Merit(level, {b}) + 2 * Pull(level, a, {b}) + Own(level, a)
      /\ Pull(level, a, {b}) \in Int /\ Own(level, a) \in Int
  BY <1>1, MeritOfMore
<1>3. Merit(level, {} \cup {a}) = Merit(level, {}) + 2 * Pull(level, a, {}) + Own(level, a) /\ Pull(level, a, {}) \in Int
  BY <1>1, MeritOfMore
<1>4. Merit(level, {}) = 0
  BY <1>1, MeritOfNone
<1>5. {b} \cup {a} = {a, b} /\ {} \cup {a} = {a}
  OBVIOUS
<1>6. Pull(level, a, {}) = Gain(a, community[a]) /\ Pull(level, a, {b}) = Gain(a, community[b])
  <2>1. Members(community[a]) \ {a} = {}
    BY DEF Apart, Members
  <2>2. Members(community[b]) \ {a} = {b}
    BY DEF Apart, Members
  <2> QED
    BY <2>1, <2>2 DEF Gain, Pull
<1>7. Pull(level, a, {b}) <= Pull(level, a, {})
  <2>1. CASE Weight(level, a, b) > 0
    <3>1. community[b] \in Around(a)
      BY <2>1 DEF Around
    <3>2. Best(a) = community[a]
      BY DEF Fixed
    <3>3. ~ (Gain(a, community[b]) > Gain(a, community[a]))
      BY <3>1, <3>2, BestGains
    <3> QED
      BY <1>2, <1>3, <1>6, <3>3
  <2>2. CASE ~ (Weight(level, a, b) > 0)
    <3>1. Weight(level, a, b) = 0
      <4>1. {a, b} \in Pairs(level.nodes)
        BY DEF Pairs
      <4>2. level.w[{a, b}] \in Nat
        BY <1>1, <4>1 DEF IsGraph
      <4> QED
        BY <2>2, <4>2 DEF Weight
    <3>2. SumFunction([x \in {b} |-> Weight(level, a, x)]) = 0
      <4> DEFINE e == [x \in {b} |-> Weight(level, a, x)]
      <4>1. \A x \in {b} : e[x] = 0
        BY <3>1
      <4>2. SumFunctionOnSet(e, {b}) = 0
        <5> HIDE DEF e
        <5>1. IsFiniteSet({b})
          BY FS_Singleton
        <5> QED
          BY <4>1, <5>1, SumOfZeros
      <4> QED
        BY <4>2 DEF SumFunction
    <3>3. SumFunction([x \in {} |-> Weight(level, a, x)]) = 0
      BY SumOfNone DEF SumFunction
    <3>4. DegreeIn(level, {}) = 0
      BY SumOfNone DEF DegreeIn, SumFunction
    <3>5. DegreeIn(level, {b}) \in Nat /\ DegreeOf(level, a) \in Nat
      <4>1. DegreeIn(level, {} \cup {b}) = DegreeOf(level, b) + DegreeIn(level, {})
        BY <1>1, DegreeOfMore
      <4>2. DegreeOf(level, b) \in Nat /\ DegreeOf(level, a) \in Nat
        BY <1>1, DegreesAreInts
      <4>3. {} \cup {b} = {b}
        OBVIOUS
      <4> QED
        BY <3>4, <4>1, <4>2, <4>3
    <3>6. PICK x, y \in Nat : x = DegreeIn(level, {b}) /\ y = DegreeOf(level, a)
      BY <3>5
    <3>7. Pull(level, a, {b}) = 0 * m2 - x * y
      BY <3>2, <3>6 DEF Pull
    <3>8. Pull(level, a, {}) = 0 * m2 - 0 * y
      BY <3>3, <3>4, <3>6 DEF Pull
    <3>9. 0 * m2 - x * y <= 0 * m2 - 0 * y
      <4>1. x * y \in Nat /\ 0 * m2 = 0 /\ 0 * y = 0
        BY <1>1
      <4> QED
        BY <4>1
    <3> QED
      BY <3>7, <3>8, <3>9
  <2> QED
    BY <2>1, <2>2
<1>8. Merit(level, {b}) \in Int
  <2>1. {b} \in SUBSET level.nodes
    OBVIOUS
  <2> QED
    BY <1>1, <2>1, MeritsAreInts
<1> QED
  BY <1>2, <1>3, <1>4, <1>5, <1>7, <1>8

\* And no two communities in one piece.
LEMMA WholeStayApart ==
  ASSUME Sound, Apart, Fixed, NEW p \in Found, NEW q \in Found, p # q
  PROVE  Merit(graph, p \cup q) <= Merit(graph, p) + Merit(graph, q)
<1>1. IsGraph(graph) /\ graph.nodes = Notes /\ level = Collapsed(graph, mapping) /\ level.nodes = NodesOf(graph, mapping)
  BY LevelIsGraph DEF Sound
<1>2. PICK n \in Notes, m \in Notes : p = Group(n) /\ q = Group(m)
  BY DEF Found
<1> DEFINE a == mapping[n]
           b == mapping[m]
<1>3. a \in level.nodes /\ b \in level.nodes
  BY <1>1 DEF NodesOf
<1>4. p = Side(graph, mapping, {a}) /\ q = Side(graph, mapping, {b}) /\ p \cup q = Side(graph, mapping, {a, b})
  BY <1>1, <1>2 DEF Group, Side
<1>5. a # b
  BY <1>2 DEF Group
<1> HIDE DEF a, b
<1>6. {a} \in SUBSET NodesOf(graph, mapping) /\ {b} \in SUBSET NodesOf(graph, mapping) /\ {a, b} \in SUBSET NodesOf(graph, mapping)
  BY <1>1, <1>3
<1>7. Merit(level, {a}) = Merit(graph, p) /\ Merit(level, {b}) = Merit(graph, q) /\ Merit(level, {a, b}) = Merit(graph, p \cup q)
  BY <1>1, <1>4, <1>6, CollapsedMerits
<1> QED
  BY <1>3, <1>5, <1>7, FixedStayApart
-----------------------------------------------------------------------------
(* The report. *)

\* A map is of one part at most.
LEMMA OneIsCovered ==
  ASSUME Sound, NEW links \in SUBSET Notes, NEW outside \in {0, 4}
  PROVE  /\ \A p, q \in Covered(Parts, links, outside) : p = q
         /\ Cardinality(Covered(Parts, links, outside)) <= 1
<1> DEFINE about == Covered(Parts, links, outside)
           I(p) == Cardinality(links \cap p)
<1>1. ASSUME NEW p \in Parts PROVE I(p) \in Nat /\ Cardinality(p) \in Nat /\ Min(p) \in Nat
  <2>1. p \in SUBSET Notes /\ p # {}
    BY PartsAreApart
  <2>2. IsFiniteSet(p) /\ IsFiniteSet(links \cap p)
    BY <2>1, NumberAssumption, FS_Subset
  <2>3. p \in SUBSET Nat
    BY <2>1, NumberAssumption
  <2> QED
    BY <2>1, <2>2, <2>3, FS_CardinalityType, LeastIsThere
<1>2. ASSUME NEW p \in about, NEW q \in about, p # q PROVE FALSE
  <2>1. p \in Parts /\ q \in Parts
    BY DEF Covered
  <2>2. I(p) > I(q) \/ (I(p) = I(q) /\ Ranks(p, q))
    BY <1>2, <2>1 DEF Covered
  <2>3. I(q) > I(p) \/ (I(q) = I(p) /\ Ranks(q, p))
    BY <1>2, <2>1 DEF Covered
  <2>4. I(p) \in Nat /\ I(q) \in Nat /\ Cardinality(p) \in Nat /\ Cardinality(q) \in Nat /\ Min(p) \in Nat /\ Min(q) \in Nat
    BY <1>1, <2>1
  <2> HIDE DEF I
  <2>5. Ranks(p, q) /\ Ranks(q, p)
    BY <2>2, <2>3, <2>4
  <2> QED
    BY <2>4, <2>5 DEF Ranks
<1>3. \A p, q \in about : p = q
  BY <1>2
<1> HIDE DEF about
<1>4. Cardinality(about) <= 1
  <2>1. CASE about = {}
    <3>1. Cardinality({}) = 0
      BY FS_EmptySet
    <3> QED
      BY <2>1, <3>1
  <2>2. CASE about # {}
    <3>1. PICK p \in about : TRUE
      BY <2>2
    <3>2. about = {p}
      BY <1>3, <3>1
    <3>3. Cardinality({p}) = 1
      BY FS_Singleton
    <3> QED
      BY <3>2, <3>3
  <2> QED
    BY <2>1, <2>2
<1> QED
  BY <1>3, <1>4 DEF about

\* It is of the one all its links are to.
LEMMA AllItsLinks ==
  ASSUME Sound, NEW links \in SUBSET Notes, NEW p \in Parts, links \subseteq p, Cardinality(links) > 1
  PROVE  Covered(Parts, links, 0) = {p}
<1> DEFINE about == Covered(Parts, links, 0)
           I(q) == Cardinality(links \cap q)
<1>1. IsFiniteSet(links) /\ Cardinality(links) \in Nat
  BY NumberAssumption, FS_Subset, FS_CardinalityType
<1>2. I(p) = Cardinality(links)
  <2>1. links \cap p = links
    OBVIOUS
  <2> QED
    BY <2>1
<1>3. ASSUME NEW q \in Parts \ {p} PROVE I(q) = 0
  <2>1. links \cap q = {}
    BY PartsAreApart DEF Disjoint
  <2> QED
    BY <2>1, FS_EmptySet
<1>4. I(p) \in Nat /\ I(p) >= 2 /\ 4 * I(p) >= Cardinality(links) + 0
  <2> HIDE DEF I
  <2> QED
    BY <1>1, <1>2
<1>5. \A q \in Parts \ {p} : I(p) > I(q)
  <2> HIDE DEF I
  <2> QED
    BY <1>3, <1>4
<1>6. p \in about
  BY <1>4, <1>5 DEF Covered
<1>7. \A q \in about : q = p
  BY <1>6, OneIsCovered
<1> QED
  BY <1>6, <1>7

\* What the property says of maps.
Linked(parts) ==
  \A links \in SUBSET Notes, outside \in {0, 4} : LET about == Covered(parts, links, outside) IN
    /\ Cardinality(about) <= 1
    /\ \A p \in parts : links \subseteq p /\ Cardinality(links) > 1 /\ outside = 0 => about = {p}

\* The report of a state that hangs together, of a search that settled.
LEMMA SoundReports == Sound /\ Settled => PartsAreSubjects
<1> SUFFICES ASSUME Sound, Settled PROVE PartsAreSubjects
  OBVIOUS
<1>1. phase = "settled" /\ rounds < MaxRounds => \A a \in level.nodes : Best(a) = community[a]
  BY DEF Settled, Fixed
<1>2. \A n \in Notes : Cardinality({p \in Parts : n \in p}) = 1
  BY InOnePart
<1>3. ASSUME NEW r \in Report
      PROVE  r.internal >= Cardinality(r.members) - 1 /\ 2 * r.internal + r.external = DegreeIn(graph, r.members)
  <2>1. PICK p \in Parts : r = [members |-> p, internal |-> Internal(p), external |-> External(p)]
    BY DEF Report
  <2>2. r.members = p /\ r.internal = Internal(p) /\ r.external = External(p)
    BY <2>1
  <2> QED
    BY <2>2, PartsAreHeld, PartsCount
<1>4. Worth(Parts) >= Modularity(graph, mapping)
  BY SplittingIsFree
<1>5. ASSUME phase = "done", NEW p \in Parts, NEW q \in Parts,
             (\E c \in Found : p \cup q \subseteq c) \/ ({p, q} \subseteq Found /\ rounds < MaxRounds /\ pass < MaxPasses)
      PROVE  Worth(Joined(Parts, p, q)) <= Worth(Parts)
  <2>1. CASE p = q
    <3>1. Joined(Parts, p, q) = Parts
      BY <2>1 DEF Joined
    <3>2. Worth(Parts) \in Int
      BY PartsAreApart, WorthAdds
    <3> QED
      BY <3>1, <3>2
  <2>2. CASE p # q /\ \E c \in Found : p \cup q \subseteq c
    BY <2>2, PiecesStayApart, JoiningTrades
  <2>3. CASE p # q /\ {p, q} \subseteq Found /\ rounds < MaxRounds /\ pass < MaxPasses
    <3>1. Apart /\ Fixed
      BY <1>5, <2>3 DEF Settled
    <3>2. Merit(graph, p \cup q) <= Merit(graph, p) + Merit(graph, q)
      BY <2>3, <3>1, WholeStayApart
    <3> QED
      BY <2>3, <3>2, JoiningTrades
  <2> QED
    BY <1>5, <2>1, <2>2, <2>3
<1>6. Linked(Parts)
  <2> SUFFICES ASSUME NEW links \in SUBSET Notes, NEW outside \in {0, 4}
               PROVE  /\ Cardinality(Covered(Parts, links, outside)) <= 1
                      /\ \A p \in Parts : links \subseteq p /\ Cardinality(links) > 1 /\ outside = 0
                           => Covered(Parts, links, outside) = {p}
    BY DEF Linked
  <2>1. Cardinality(Covered(Parts, links, outside)) <= 1
    BY OneIsCovered
  <2>2. ASSUME NEW p \in Parts, links \subseteq p, Cardinality(links) > 1, outside = 0
        PROVE  Covered(Parts, links, outside) = {p}
    BY <2>2, AllItsLinks
  <2> QED
    BY <2>1, <2>2
<1> QED
  BY <1>1, <1>2, <1>3, <1>4, <1>5, <1>6 DEF PartsAreSubjects, Linked

(***************************************************************************)
(* Whatever the graph and however the search ended, every note is in one   *)
(* part, a part has the links to hold together and the degree its report   *)
(* says, splitting what was not connected cost nothing and its pieces are  *)
(* better apart; where a search ended by itself, so are communities in one *)
(* piece; and a map is of one part at most (communities.ts:131-164,        *)
(* 196-219, 257-340).                                                      *)
(***************************************************************************)
THEOREM PartsAreAlwaysSubjects == Spec => []PartsAreSubjects
<1>1. Init => Sound /\ Settled
  BY SoundAtFirst, SettledAtFirst
<1>2. (Sound /\ Settled) /\ [Next]_vars => (Sound /\ Settled)'
  BY SoundNext, SettledNext
<1> QED
  BY <1>1, <1>2, SoundReports, PTL DEF Spec
-----------------------------------------------------------------------------
(* The lexical index. *)

\* A list is a sequence, whatever it lists.
IsList(list) == list \in Seq(ToSet(list))

IndexInv ==
  /\ IsList(notes)
  /\ stem \in [Paths -> Names]
  /\ LexicalIsFull

-----------------------------------------------------------------------------
\* A sequence of anything is a list.
LEMMA ListsAreSequences ==
  ASSUME NEW T, NEW list \in Seq(T)
  PROVE  IsList(list) /\ Len(list) \in Nat /\ DOMAIN list = 1 .. Len(list)
<1>1. list \in [1 .. Len(list) -> ToSet(list)] /\ Len(list) \in Nat
  BY DEF ToSet
<1> QED
  BY <1>1 DEF IsList

\* `At` is where the first note of the path is.
LEMMA AtIsFirst ==
  ASSUME NEW list, Len(list) \in Nat, NEW path
  PROVE  \/ At(list, path) = 0 /\ \A i \in 1 .. Len(list) : list[i].path # path
         \/ /\ At(list, path) \in 1 .. Len(list) /\ list[At(list, path)].path = path
            /\ \A i \in 1 .. Len(list) : list[i].path = path => At(list, path) <= i
<1> DEFINE I == {i \in 1 .. Len(list) : list[i].path = path}
<1>1. At(list, path) = IF I # {} THEN Min(I) ELSE 0
  BY DEF At, SelectInSeq
<1>2. CASE I = {}
  BY <1>1, <1>2
<1>3. CASE I # {}
  <2>1. Min(I) \in I /\ \A y \in I : Min(I) <= y
    BY <1>3, LeastIsThere
  <2> QED
    BY <1>1, <1>3, <2>1
<1> QED
  BY <1>2, <1>3

\* `First` is the first note of the name.
Answers(list, name, i) ==
  /\ i \in 1 .. Len(list) /\ list[i].name = name
  /\ \A j \in 1 .. Len(list) : list[j].name = name => i <= j

LEMMA FirstAnswers ==
  ASSUME NEW list, Len(list) \in Nat, NEW name
  PROVE  /\ (\A i \in 1 .. Len(list) : list[i].name # name) => First(list, name) = None
         /\ \A i : Answers(list, name, i) => First(list, name) = list[i]
         /\ (\A i \in 1 .. Len(list) : list[i].name # name) \/ \E i : Answers(list, name, i)
<1> DEFINE I == {i \in 1 .. Len(list) : list[i].name = name}
           k == IF I # {} THEN Min(I) ELSE 0
<1>1. First(list, name) = IF k = 0 THEN None ELSE list[k]
  BY DEF First, SelectInSeq
<1> HIDE DEF I
<1>2. CASE I = {}
  BY <1>1, <1>2 DEF Answers, I
<1>3. CASE I # {}
  <2>1. k \in I /\ \A y \in I : k <= y
    <3>1. I \in SUBSET Nat
      BY DEF I
    <3> QED
      BY <1>3, <3>1, LeastIsThere
  <2> HIDE DEF k
  <2>2. Answers(list, name, k)
    BY <2>1 DEF Answers, I
  <2>3. ASSUME NEW i, Answers(list, name, i)
        PROVE  i = k
    BY <2>1, <2>3 DEF Answers, I
  <2> QED
    BY <1>1, <2>1, <2>2, <2>3 DEF I
<1> QED
  BY <1>2, <1>3

\* The list a load gives is one.
LEMMA LoadIsList == ASSUME NEW files PROVE IsList(Load(files))
<1> DEFINE there == {p \in Paths : files[p] # None}
           Nth(i) == CHOOSE p \in there : Cardinality({q \in there : q < p}) = i - 1
           n == Cardinality(there)
<1>1. n \in Nat
  <2>1. IsFiniteSet(Paths)
    BY LastPathAssumption, FS_Interval DEF Paths
  <2>2. IsFiniteSet(there)
    BY <2>1, FS_Subset
  <2> QED
    BY <2>2, FS_CardinalityType
<1>2. Load(files) = [i \in 1 .. n |-> files[Nth(i)]]
  BY DEF Load
<1> HIDE DEF Nth, n
<1>3. Load(files) \in Seq({files[Nth(i)] : i \in 1 .. n})
  BY <1>1, <1>2
<1> QED
  BY <1>3, ListsAreSequences
-----------------------------------------------------------------------------
(***************************************************************************)
(* What a write needs of the index: when the note's file answered to the   *)
(* same name before, if to any, and no other file does now, the new list   *)
(* changes what one name stands for, and makes it the note.                *)
(***************************************************************************)
WithNote(note) ==
  LET at == At(notes, note.path)
  IN IF at = 0 THEN Append(notes, note) ELSE [notes EXCEPT ![at] = note]

Replaced(list, note, at) ==
  /\ at \in 1 .. Len(list) /\ list[at] = note
  /\ \A i \in 1 .. Len(list) : list[i].path = note.path => at <= i
  /\ \A i \in 1 .. Len(notes) : i \in 1 .. Len(list) /\ (i # at => list[i] = notes[i])
  /\ \A i \in 1 .. Len(list) : i # at => i \in 1 .. Len(notes)

\* Where the note is in the new list: in the place its file had, or at the end.
LEMMA NoteIsPlaced ==
  ASSUME IsList(notes), NEW note \in Note
  PROVE  LET at == At(notes, note.path)
             list == WithNote(note)
         IN /\ IsList(list)
            /\ Replaced(list, note, IF at = 0 THEN Len(list) ELSE at)
            /\ at # 0 => at \in 1 .. Len(notes)
            /\ at = 0 => Len(list) \notin 1 .. Len(notes)
<1> DEFINE at == At(notes, note.path)
           list == WithNote(note)
           T == ToSet(notes) \cup {note}
<1>1. notes \in Seq(T) /\ Len(notes) \in Nat /\ DOMAIN notes = 1 .. Len(notes)
  BY DEF IsList
<1>2. CASE at = 0
  <2>1. list = Append(notes, note)
    BY <1>2 DEF WithNote
  <2>2. \A i \in 1 .. Len(notes) : notes[i].path # note.path
    BY <1>1, <1>2, AtIsFirst
  <2> HIDE DEF list, T
  <2>3. /\ list \in Seq(T) /\ Len(list) = Len(notes) + 1 /\ list[Len(list)] = note
        /\ \A i \in 1 .. Len(notes) : list[i] = notes[i]
    BY <1>1, <2>1 DEF T
  <2>4. Replaced(list, note, Len(list))
    BY <1>1, <2>2, <2>3 DEF Replaced
  <2>5. IsList(list)
    BY <2>3, ListsAreSequences
  <2> QED
    BY <1>1, <1>2, <2>3, <2>4, <2>5 DEF list
<1>3. CASE at # 0
  <2>1. list = [notes EXCEPT ![at] = note]
    BY <1>3 DEF WithNote
  <2>2. /\ at \in 1 .. Len(notes)
        /\ \A i \in 1 .. Len(notes) : notes[i].path = note.path => at <= i
    BY <1>1, <1>3, AtIsFirst
  <2> HIDE DEF at, list, T
  <2>3. /\ list \in Seq(T) /\ Len(list) = Len(notes) /\ list[at] = note
        /\ \A i \in 1 .. Len(notes) : i # at => list[i] = notes[i]
    BY <1>1, <2>1, <2>2 DEF T
  <2>4. Replaced(list, note, at)
    BY <1>1, <2>2, <2>3 DEF Replaced
  <2>5. IsList(list)
    BY <2>3, ListsAreSequences
  <2> QED
    BY <1>3, <2>2, <2>4, <2>5 DEF list, at
<1> QED
  BY <1>2, <1>3

\* Then the index with the note is the index of the list with the note.
LEMMA InPlaceIsFull ==
  ASSUME IndexInv, NEW note \in Note,
         LET at == At(notes, note.path)
         IN at # 0 => notes[at].name = note.name,
         \A i \in DOMAIN WithNote(note) :
           WithNote(note)[i].name = note.name => WithNote(note)[i].path = note.path
  PROVE  [lexical EXCEPT ![note.name] = note] = Build(WithNote(note))
<1> DEFINE list == WithNote(note)
           old == At(notes, note.path)
           at == IF old = 0 THEN Len(list) ELSE old
<1>1. /\ IsList(notes) /\ IsList(list) /\ Replaced(list, note, at)
      /\ old # 0 => old \in 1 .. Len(notes) /\ notes[old].name = note.name
      /\ old = 0 => Len(list) \notin 1 .. Len(notes)
  BY NoteIsPlaced DEF IndexInv
<1>2. \A i \in DOMAIN list : list[i].name = note.name => list[i].path = note.path
  OBVIOUS
<1> HIDE DEF list
<1>3. /\ Len(notes) \in Nat /\ DOMAIN notes = 1 .. Len(notes)
      /\ Len(list) \in Nat /\ DOMAIN list = 1 .. Len(list)
  BY <1>1, ListsAreSequences DEF IsList
<1>4. at \in 1 .. Len(notes) => notes[at].name = note.name
  BY <1>1
<1> HIDE DEF at
<1>5. lexical = [name \in Names |-> First(notes, name)]
  BY DEF IndexInv, LexicalIsFull, Build
<1>6. First(list, note.name) = note
  <2>1. Answers(list, note.name, at)
    BY <1>1, <1>2, <1>3 DEF Replaced, Answers
  <2>2. First(list, note.name) = list[at]
    BY <1>3, <2>1, FirstAnswers
  <2> QED
    BY <1>1, <2>2 DEF Replaced
<1>7. ASSUME NEW name \in Names, name # note.name
      PROVE  First(list, name) = First(notes, name)
  <2>1. \A i : i \in 1 .. Len(list) /\ list[i].name = name <=> i \in 1 .. Len(notes) /\ notes[i].name = name
    BY <1>1, <1>4, <1>7 DEF Replaced
  <2>2. \A i \in 1 .. Len(notes) : notes[i].name = name => list[i] = notes[i]
    BY <1>1, <1>4, <1>7 DEF Replaced
  <2>3. CASE \A i \in 1 .. Len(notes) : notes[i].name # name
    <3>1. \A i \in 1 .. Len(list) : list[i].name # name
      BY <2>1, <2>3
    <3> QED
      BY <2>3, <3>1, <1>3, FirstAnswers
  <2>4. CASE \E i : Answers(notes, name, i)
    <3>1. PICK i : Answers(notes, name, i)
      BY <2>4
    <3>2. Answers(list, name, i)
      BY <3>1, <2>1 DEF Answers
    <3>3. First(notes, name) = notes[i] /\ First(list, name) = list[i]
      BY <3>1, <3>2, <1>3, FirstAnswers
    <3> QED
      BY <3>1, <3>3, <2>2 DEF Answers
  <2> QED
    BY <2>3, <2>4, <1>3, FirstAnswers
<1> QED
  BY <1>5, <1>6, <1>7 DEF Build, list
-----------------------------------------------------------------------------
LEMMA IndexInvInit == IndexInit => IndexInv
  BY LoadIsList DEF IndexInit, IndexInv, LexicalIsFull

LEMMA IndexInvNext == IndexInv /\ [IndexNext]_indexVars => IndexInv'
<1> SUFFICES ASSUME IndexInv, [IndexNext]_indexVars
             PROVE  IndexInv'
  OBVIOUS
<1>1. ASSUME UNCHANGED <<notes, lexical, stem>>
      PROVE  IndexInv'
  BY <1>1 DEF IndexInv, IsList, LexicalIsFull
<1>2. ASSUME NEW p \in Paths, Edit(p)
      PROVE  IndexInv'
  BY <1>1, <1>2 DEF Edit
<1>3. CASE Reload
  <2>1. CASE UNCHANGED <<notes, lexical>>
    BY <1>1, <1>3, <2>1 DEF Reload
  <2>2. CASE notes' = Load(disk) /\ lexical' = Build(Load(disk))
    BY <1>3, <2>2, LoadIsList DEF Reload, IndexInv, LexicalIsFull
  <2> QED
    BY <1>3, <2>1, <2>2 DEF Reload
<1>4. ASSUME NEW p \in Paths, NEW body \in Bodies, Write(p, body)
      PROVE  IndexInv'
  <2> DEFINE note == [path |-> p, name |-> stem[p], body |-> body]
             at == At(notes, p)
             list == WithNote(note)
             renamed == at # 0 /\ notes[at].name # note.name
             clash == \E i \in DOMAIN list : list[i].path # note.path /\ list[i].name = note.name
  <2>1. note \in Note /\ note.path = p
    BY DEF IndexInv, Note
  <2>2. notes' = list /\ lexical' = Upsert(list, note, renamed) /\ stem' = stem
    BY <1>4 DEF Write, WithNote
  <2>3. Upsert(list, note, renamed)
          = IF renamed \/ clash THEN Build(list) ELSE [lexical EXCEPT ![note.name] = note]
    BY DEF Upsert
  <2> HIDE DEF note
  <2>4. IsList(list)
    BY <2>1, NoteIsPlaced DEF IndexInv
  <2>5. ~renamed /\ ~clash => [lexical EXCEPT ![note.name] = note] = Build(list)
    BY <2>1, InPlaceIsFull
  <2> HIDE DEF list, renamed, clash
  <2>6. lexical' = Build(list)
    BY <2>2, <2>3, <2>5
  <2> QED
    BY <2>2, <2>4, <2>6 DEF IndexInv, LexicalIsFull
<1> QED
  BY <1>1, <1>2, <1>3, <1>4 DEF IndexNext, indexVars

(***************************************************************************)
(* Whatever was renamed, shadowed or uncovered on the way, and whoever     *)
(* wrote it, the served lexical index is the full build over the served    *)
(* list (context.ts:320-327, bm25.ts:80-91).                               *)
(***************************************************************************)
THEOREM InPlaceNeverLags == IndexSpec => []LexicalIsFull
<1>1. IndexInv => LexicalIsFull
  BY DEF IndexInv
<1> QED
  BY <1>1, IndexInvInit, IndexInvNext, PTL DEF IndexSpec
=============================================================================
