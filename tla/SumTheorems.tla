----------------------------- MODULE SumTheorems -----------------------------
(***************************************************************************)
(* What SumFunctionOnSet of the community module Functions computes on a   *)
(* finite set: elements may be taken in any order, and a change of one     *)
(* summand is the change of the sum.  The induction is over the subsets of *)
(* the set, in the form of a minimal counterexample.                       *)
(***************************************************************************)
EXTENDS Functions, Integers, FiniteSetTheorems, WellFoundedInduction, TLAPS

\* The element the fold takes next.
Some(s) == CHOOSE x \in s : TRUE

\* h is the sum of f over each subset of S.
Sums(f, S, h) ==
  h = [s \in SUBSET S |-> IF s = {} THEN 0 ELSE f[Some(s)] + h[s \ {Some(s)}]]

-----------------------------------------------------------------------------
\* A nonempty family of subsets of a finite set has a minimal member.
LEMMA LeastSubset ==
  ASSUME NEW S, IsFiniteSet(S), NEW Bad \in SUBSET SUBSET S, Bad # {}
  PROVE  \E T \in Bad : \A U \in Bad : U \subseteq T => U = T
  <1> DEFINE R == StrictSubsetOrdering(S)
  <1>1. IsWellFoundedOn(R, SUBSET S)
    BY FS_StrictSubsetOrderingWellFounded, FS_FiniteSubsetsOfFinite
  <1> HIDE DEF R
  <1>2. \E T \in Bad : \A U \in Bad : ~ (<<U, T>> \in R)
    <2>1. Bad \subseteq SUBSET S
      OBVIOUS
    <2> QED
      BY <1>1, <2>1, WFMin, Zenon
  <1>3. ASSUME NEW T \in Bad, NEW U \in Bad, U \subseteq T, U # T
        PROVE  <<U, T>> \in R
    BY <1>3 DEF R, StrictSubsetOrdering
  <1> QED
    BY <1>2, <1>3

\* It is one of the set's.
LEMMA SomeIn == \A s : s # {} => Some(s) \in s
  BY DEF Some

\* The sum is read off such a function.
LEMMA SumChosen ==
  ASSUME NEW f, NEW S
  PROVE  SumFunctionOnSet(f, S) = (CHOOSE h : Sums(f, S, h))[S]
  BY DEF SumFunctionOnSet, FoldFunctionOnSet, MapThenFoldSet, Sums, Some

\* One step of the recursion.
LEMMA SumsStep ==
  ASSUME NEW f, NEW S, NEW h, Sums(f, S, h), NEW T \in SUBSET S
  PROVE  /\ h[{}] = 0
         /\ T # {} => h[T] = f[Some(T)] + h[T \ {Some(T)}]
  BY DEF Sums

\* Two such functions agree where both are defined.
LEMMA SumsAgree ==
  ASSUME NEW f, NEW A, NEW B, NEW h, NEW k, Sums(f, A, h), Sums(f, B, k),
         NEW T \in SUBSET A, T \subseteq B, IsFiniteSet(T)
  PROVE  h[T] = k[T]
  <1> DEFINE Bad == {U \in SUBSET T : h[U] # k[U]}
  <1> SUFFICES ASSUME Bad # {} PROVE FALSE
    OBVIOUS
  <1>1. PICK U \in Bad : \A V \in Bad : V \subseteq U => V = U
    <2>1. Bad \in SUBSET SUBSET T
      OBVIOUS
    <2> HIDE DEF Bad
    <2> QED
      BY <2>1, LeastSubset
  <1>2. U # {}
    BY SumsStep
  <1>3. Some(U) \in U
    BY <1>2, SomeIn
  <1>4. h[U \ {Some(U)}] = k[U \ {Some(U)}]
    BY <1>1, <1>3
  <1>5. h[U] = f[Some(U)] + h[U \ {Some(U)}] /\ k[U] = f[Some(U)] + k[U \ {Some(U)}]
    <2>1. U \in SUBSET A /\ U \in SUBSET B
      OBVIOUS
    <2> QED
      BY <1>2, <2>1, SumsStep
  <1> QED
    BY <1>1, <1>4, <1>5

\* And there is one for every finite set.
LEMMA SumsExist ==
  ASSUME NEW f, NEW S, IsFiniteSet(S)
  PROVE  \E h : Sums(f, S, h)
  <1> DEFINE Bad == {T \in SUBSET S : ~ \E h : Sums(f, T, h)}
  <1> SUFFICES ASSUME Bad # {} PROVE FALSE
    OBVIOUS
  <1>1. PICK T \in Bad : \A U \in Bad : U \subseteq T => U = T
    <2>1. Bad \in SUBSET SUBSET S
      OBVIOUS
    <2> HIDE DEF Bad
    <2> QED
      BY <2>1, LeastSubset
  <1> DEFINE H(U) == CHOOSE h : Sums(f, U, h)
             g == [s \in SUBSET T |->
                     IF s = {} THEN 0
                     ELSE f[Some(s)] + H(s \ {Some(s)})[s \ {Some(s)}]]
  <1>2. ASSUME NEW U \in SUBSET T, U # T
        PROVE  Sums(f, U, H(U))
    <2>1. U \in SUBSET S /\ U \notin Bad
      BY <1>1, <1>2
    <2>2. \E h : Sums(f, U, h)
      BY <2>1
    <2> QED
      BY <2>2
  <1>3. ASSUME NEW s \in SUBSET T, s # {}
        PROVE  g[s] = f[Some(s)] + g[s \ {Some(s)}]
    <2> DEFINE U == s \ {Some(s)}
    <2>1. U \in SUBSET T /\ U # T
      BY <1>3, SomeIn
    <2>2. Sums(f, U, H(U))
      BY <1>2, <2>1
    <2>3. H(U)[U] = g[U]
      <3>1. CASE U = {}
        <4>1. H(U)[U] = 0
          BY <2>2, <3>1, SumsStep
        <4> QED
          BY <2>1, <3>1, <4>1
      <3>2. CASE U # {}
        <4> DEFINE V == U \ {Some(U)}
        <4>1. V \in SUBSET T /\ V # T /\ V \in SUBSET U
          BY <2>1
        <4>2. Sums(f, V, H(V))
          BY <1>2, <4>1
        <4>3. IsFiniteSet(V)
          BY <4>1, FS_Subset
        <4>4. H(U)[V] = H(V)[V]
          <5> HIDE DEF H, U, V
          <5> QED
            BY <2>2, <4>1, <4>2, <4>3, SumsAgree
        <4>5. H(U)[U] = f[Some(U)] + H(U)[V]
          <5>1. U \in SUBSET U
            OBVIOUS
          <5> HIDE DEF H, U
          <5> QED
            BY <2>2, <3>2, <5>1, SumsStep
        <4>6. g[U] = f[Some(U)] + H(V)[V]
          <5> HIDE DEF H
          <5> QED
            BY <2>1, <3>2
        <4> QED
          BY <4>4, <4>5, <4>6
      <3> QED
        BY <3>1, <3>2
    <2>4. g[s] = f[Some(s)] + H(U)[U]
      <3> HIDE DEF H
      <3> QED
        BY <1>3
    <2> QED
      BY <2>3, <2>4
  <1>4. g[{}] = 0
    OBVIOUS
  <1>5. g = [s \in SUBSET T |-> g[s]]
    OBVIOUS
  <1> HIDE DEF g
  <1>6. Sums(f, T, g)
    BY <1>3, <1>4, <1>5 DEF Sums
  <1> QED
    BY <1>1, <1>6

\* So that the choice of one is well made.
LEMMA SumsChosen ==
  ASSUME NEW f, NEW S, IsFiniteSet(S)
  PROVE  Sums(f, S, CHOOSE h : Sums(f, S, h))
  BY SumsExist

-----------------------------------------------------------------------------
(* What the proofs cite.                                                   *)

\* The empty sum.
THEOREM SumEmpty == \A f : SumFunctionOnSet(f, {}) = 0
  BY FS_EmptySet, SumsChosen, SumChosen, SumsStep

\* The recursion of the fold, about sums.
LEMMA SumStep ==
  ASSUME NEW f, NEW S, IsFiniteSet(S), S # {}
  PROVE  SumFunctionOnSet(f, S)
           = f[Some(S)] + SumFunctionOnSet(f, S \ {Some(S)})
  <1> DEFINE T == S \ {Some(S)}
             h == CHOOSE h : Sums(f, S, h)
             k == CHOOSE k : Sums(f, T, k)
  <1>1. IsFiniteSet(T)
    BY FS_Subset
  <1>2. Sums(f, S, h) /\ Sums(f, T, k)
    BY <1>1, SumsChosen
  <1>3. SumFunctionOnSet(f, S) = h[S] /\ SumFunctionOnSet(f, T) = k[T]
    BY SumChosen
  <1> HIDE DEF h, k
  <1>4. h[S] = f[Some(S)] + h[T]
    <2>1. S \in SUBSET S
      OBVIOUS
    <2>2. h[S] = f[Some(S)] + h[S \ {Some(S)}]
      <3> HIDE DEF T
      <3> QED
        BY <1>2, <2>1, SumsStep
    <2> QED
      BY <2>2
  <1>5. h[T] = k[T]
    <2>1. T \in SUBSET S /\ T \subseteq T
      OBVIOUS
    <2> QED
      BY <1>1, <1>2, <2>1, SumsAgree
  <1> QED
    BY <1>3, <1>4, <1>5

\* A sum of integers is an integer.
THEOREM SumType ==
  ASSUME NEW f, NEW S, IsFiniteSet(S), \A x \in S : f[x] \in Int
  PROVE  SumFunctionOnSet(f, S) \in Int
  <1> DEFINE Bad == {T \in SUBSET S : SumFunctionOnSet(f, T) \notin Int}
  <1> SUFFICES ASSUME Bad # {} PROVE FALSE
    OBVIOUS
  <1>1. PICK T \in Bad : \A U \in Bad : U \subseteq T => U = T
    <2>1. Bad \in SUBSET SUBSET S
      OBVIOUS
    <2> HIDE DEF Bad
    <2> QED
      BY <2>1, LeastSubset
  <1>2. T # {}
    BY SumEmpty
  <1>3. Some(T) \in T /\ IsFiniteSet(T)
    BY <1>2, SomeIn, FS_Subset
  <1>4. SumFunctionOnSet(f, T \ {Some(T)}) \in Int
    BY <1>1, <1>3
  <1>5. SumFunctionOnSet(f, T) = f[Some(T)] + SumFunctionOnSet(f, T \ {Some(T)})
    BY <1>2, <1>3, SumStep
  <1> QED
    BY <1>3, <1>4, <1>5

\* Any element may be taken first.
THEOREM SumTake ==
  ASSUME NEW f, NEW S, IsFiniteSet(S), \A x \in S : f[x] \in Int, NEW x \in S
  PROVE  SumFunctionOnSet(f, S) = f[x] + SumFunctionOnSet(f, S \ {x})
  <1> DEFINE Bad == {T \in SUBSET S : \E y \in T :
                       SumFunctionOnSet(f, T) # f[y] + SumFunctionOnSet(f, T \ {y})}
  <1> SUFFICES ASSUME Bad # {} PROVE FALSE
    OBVIOUS
  <1>1. PICK T \in Bad : \A U \in Bad : U \subseteq T => U = T
    <2>1. Bad \in SUBSET SUBSET S
      OBVIOUS
    <2> HIDE DEF Bad
    <2> QED
      BY <2>1, LeastSubset
  <1>2. PICK y \in T : SumFunctionOnSet(f, T) # f[y] + SumFunctionOnSet(f, T \ {y})
    BY <1>1
  <1> DEFINE z == Some(T)
             U == T \ {y}
             V == T \ {z}
             W == T \ {y, z}
  <1>3. z \in T /\ IsFiniteSet(T) /\ T \in SUBSET S
    BY <1>2, SomeIn, FS_Subset
  <1>4. SumFunctionOnSet(f, T) = f[z] + SumFunctionOnSet(f, V)
    BY <1>2, <1>3, SumStep
  <1>5. z # y
    BY <1>2, <1>4
  <1>6. ASSUME NEW X \in SUBSET T, X # T, NEW v \in X
        PROVE  SumFunctionOnSet(f, X) = f[v] + SumFunctionOnSet(f, X \ {v})
    BY <1>1, <1>6
  <1>7. SumFunctionOnSet(f, V) = f[y] + SumFunctionOnSet(f, W)
    <2>1. V \in SUBSET T /\ V # T /\ y \in V /\ V \ {y} = W
      BY <1>3, <1>5
    <2> HIDE DEF V, W, z
    <2> QED
      BY <1>6, <2>1
  <1>8. SumFunctionOnSet(f, U) = f[z] + SumFunctionOnSet(f, W)
    <2>1. U \in SUBSET T /\ U # T /\ z \in U /\ U \ {z} = W
      BY <1>3, <1>5
    <2> HIDE DEF U, W, z
    <2> QED
      BY <1>6, <2>1
  <1>9. SumFunctionOnSet(f, W) \in Int /\ f[y] \in Int /\ f[z] \in Int
    <2>1. IsFiniteSet(W) /\ W \subseteq S
      BY <1>3, FS_Subset
    <2> QED
      BY <1>3, <2>1, SumType
  <1> HIDE DEF U, V, W, z
  <1>10. SumFunctionOnSet(f, T) = f[y] + SumFunctionOnSet(f, U)
    BY <1>4, <1>7, <1>8, <1>9
  <1> QED
    BY <1>2, <1>10 DEF U

\* A sum depends on its summands only.
THEOREM SumSame ==
  ASSUME NEW f, NEW g, NEW S, IsFiniteSet(S), \A x \in S : f[x] = g[x]
  PROVE  SumFunctionOnSet(f, S) = SumFunctionOnSet(g, S)
  <1> DEFINE Bad == {T \in SUBSET S : SumFunctionOnSet(f, T) # SumFunctionOnSet(g, T)}
  <1> SUFFICES ASSUME Bad # {} PROVE FALSE
    OBVIOUS
  <1>1. PICK T \in Bad : \A U \in Bad : U \subseteq T => U = T
    <2>1. Bad \in SUBSET SUBSET S
      OBVIOUS
    <2> HIDE DEF Bad
    <2> QED
      BY <2>1, LeastSubset
  <1>2. T # {}
    BY SumEmpty
  <1>3. Some(T) \in T /\ IsFiniteSet(T)
    BY <1>2, SomeIn, FS_Subset
  <1>4. SumFunctionOnSet(f, T \ {Some(T)}) = SumFunctionOnSet(g, T \ {Some(T)})
    BY <1>1, <1>3
  <1>5. /\ SumFunctionOnSet(f, T) = f[Some(T)] + SumFunctionOnSet(f, T \ {Some(T)})
        /\ SumFunctionOnSet(g, T) = g[Some(T)] + SumFunctionOnSet(g, T \ {Some(T)})
    BY <1>2, <1>3, SumStep
  <1> QED
    BY <1>1, <1>3, <1>4, <1>5

\* One more element.
THEOREM SumAdd ==
  ASSUME NEW f, NEW S, IsFiniteSet(S), NEW x, x \notin S,
         \A y \in S \cup {x} : f[y] \in Int
  PROVE  SumFunctionOnSet(f, S \cup {x}) = SumFunctionOnSet(f, S) + f[x]
  <1>1. IsFiniteSet(S \cup {x}) /\ (S \cup {x}) \ {x} = S
    BY FS_AddElement
  <1>2. SumFunctionOnSet(f, S \cup {x}) = f[x] + SumFunctionOnSet(f, S)
    <2>1. x \in S \cup {x}
      OBVIOUS
    <2> QED
      BY <1>1, <2>1, SumTake
  <1>3. SumFunctionOnSet(f, S) \in Int /\ f[x] \in Int
    BY SumType
  <1> QED
    BY <1>2, <1>3

\* One summand changes.
THEOREM SumChange ==
  ASSUME NEW f, NEW g, NEW S, IsFiniteSet(S), NEW x \in S, NEW d \in Int,
         \A y \in S : f[y] \in Int,
         g[x] = f[x] + d, \A y \in S \ {x} : g[y] = f[y]
  PROVE  SumFunctionOnSet(g, S) = SumFunctionOnSet(f, S) + d
  <1> DEFINE T == S \ {x}
  <1>1. IsFiniteSet(T)
    BY FS_Subset
  <1>2. SumFunctionOnSet(g, T) = SumFunctionOnSet(f, T)
    BY <1>1, SumSame
  <1>3. /\ SumFunctionOnSet(f, S) = f[x] + SumFunctionOnSet(f, T)
        /\ \A y \in S : g[y] \in Int
    BY SumTake
  <1>4. SumFunctionOnSet(g, S) = g[x] + SumFunctionOnSet(g, T)
    BY <1>3, SumTake
  <1>5. SumFunctionOnSet(f, T) \in Int /\ f[x] \in Int
    BY <1>1, SumType
  <1> QED
    BY <1>2, <1>3, <1>4, <1>5

\* Summands that are all 0.
THEOREM SumZero ==
  ASSUME NEW f, NEW S, IsFiniteSet(S), \A x \in S : f[x] = 0
  PROVE  SumFunctionOnSet(f, S) = 0
  <1> DEFINE Bad == {T \in SUBSET S : SumFunctionOnSet(f, T) # 0}
  <1> SUFFICES ASSUME Bad # {} PROVE FALSE
    OBVIOUS
  <1>1. PICK T \in Bad : \A U \in Bad : U \subseteq T => U = T
    <2>1. Bad \in SUBSET SUBSET S
      OBVIOUS
    <2> HIDE DEF Bad
    <2> QED
      BY <2>1, LeastSubset
  <1>2. T # {}
    BY SumEmpty
  <1>3. Some(T) \in T /\ IsFiniteSet(T)
    BY <1>2, SomeIn, FS_Subset
  <1>4. SumFunctionOnSet(f, T \ {Some(T)}) = 0
    BY <1>1, <1>3
  <1>5. SumFunctionOnSet(f, T) = f[Some(T)] + SumFunctionOnSet(f, T \ {Some(T)})
    BY <1>2, <1>3, SumStep
  <1> QED
    BY <1>3, <1>4, <1>5
==============================================================================
