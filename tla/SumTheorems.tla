----------------------------- MODULE SumTheorems -----------------------------
(***************************************************************************)
(* What SumFunctionOnSet, the sum of the values of a function over a       *)
(* finite set, is: the facts that the stock, the money of a performance    *)
(* and the uses of rights are counted with.  And how a loop is followed    *)
(* step by step: counting up (Climbing); that sorting puts each member in  *)
(* its place (InOrderSorts), and that there is one such order (SortsAgree).*)
(*                                                                         *)
(* The sum is defined by recursion over the subsets of the set.  Each fact *)
(* is proved by looking at a least subset that would not have it: strict   *)
(* subsets of a finite set are well-founded.                               *)
(***************************************************************************)
EXTENDS Integers, SequencesExt, FiniteSetTheorems, Sorting, TLAPS

SumOf(f, S) == SumFunctionOnSet(f, S)

\* The element that the recursion takes next.
OneOf(T) == CHOOSE x \in T : TRUE

\* What the recursion gives for T, if g is what it gives for the subsets of T.
Recursion(g, f, T) == IF T = {} THEN 0 ELSE f[OneOf(T)] + g[T \ {OneOf(T)}]

\* g is what the recursion gives for every subset of T.
Solves(g, f, T) == g = [U \in SUBSET T |-> Recursion(g, f, U)]
Solution(f, T) == CHOOSE g : Solves(g, f, T)

\* The sum is the solution of its recursion, at the whole set.
LEMMA SumIs ==
    ASSUME NEW f, NEW S
    PROVE  SumOf(f, S) = Solution(f, S)[S]
  BY DEF SumOf, SumFunctionOnSet, FoldFunctionOnSet, MapThenFoldSet, Solution, Solves,
         Recursion, OneOf

\* Of the subsets of a finite set that are bad there is one whose strict subsets are not.
LEMMA LeastBad ==
    ASSUME NEW S, IsFiniteSet(S), NEW Bad \in SUBSET (SUBSET S), Bad # {}
    PROVE  \E T \in Bad : \A U \in SUBSET T : U # T => U \notin Bad
  <1>1. IsWellFoundedOn(StrictSubsetOrdering(S), SUBSET S)
    BY FS_StrictSubsetOrderingWellFounded, FS_FiniteSubsetsOfFinite
  <1>2. PICK T \in Bad : \A U \in Bad : <<U, T>> \notin StrictSubsetOrdering(S)
    BY <1>1, WFMin
  <1>3. ASSUME NEW U \in SUBSET T, U # T
        PROVE  U \notin Bad
    <2>1. U \in SUBSET S /\ T \in SUBSET S
      BY <1>2
    <2>2. <<U, T>> \in StrictSubsetOrdering(S)
      BY <1>3, <2>1 DEF StrictSubsetOrdering
    <2> QED BY <1>2, <2>2
  <1> QED BY <1>2, <1>3

\* What the recursion takes off is a member, and less remains.
LEMMA OneOfIs ==
    ASSUME NEW T, T # {}
    PROVE  OneOf(T) \in T /\ T \ {OneOf(T)} \in SUBSET T /\ T \ {OneOf(T)} # T
  BY DEF OneOf

\* Two solutions agree where both are defined.
LEMMA SolutionsAgree ==
    ASSUME NEW f, NEW S, IsFiniteSet(S), NEW T,
           NEW g, Solves(g, f, S), NEW h, Solves(h, f, T)
    PROVE  \A U \in SUBSET (S \cap T) : g[U] = h[U]
  <1> DEFINE Bad == {U \in SUBSET (S \cap T) : g[U] # h[U]}
  <1> SUFFICES ASSUME Bad # {} PROVE FALSE
    OBVIOUS
  <1>1. IsFiniteSet(S \cap T)
    BY FS_Intersection
  <1>2. PICK U \in Bad : \A V \in SUBSET U : V # U => V \notin Bad
    <2>1. Bad \in SUBSET (SUBSET (S \cap T))
      OBVIOUS
    <2> HIDE DEF Bad
    <2> QED BY <1>1, <2>1, LeastBad
  <1>3. g[U] = Recursion(g, f, U) /\ h[U] = Recursion(h, f, U)
    BY <1>2 DEF Solves
  <1>4. CASE U = {}
    BY <1>2, <1>3, <1>4 DEF Recursion
  <1>5. CASE U # {}
    <2> DEFINE V == U \ {OneOf(U)}
    <2>1. V \in SUBSET U /\ V # U
      BY <1>5, OneOfIs
    <2>2. V \in SUBSET (S \cap T)
      BY <1>2, <2>1
    <2>3. g[V] = h[V]
      BY <1>2, <2>1, <2>2
    <2> QED BY <1>2, <1>3, <1>5, <2>3 DEF Recursion
  <1> QED BY <1>4, <1>5

\* The recursion has a solution for every finite set.
LEMMA SolutionExists ==
    ASSUME NEW f, NEW S, IsFiniteSet(S)
    PROVE  Solves(Solution(f, S), f, S)
  <1> DEFINE Bad == {T \in SUBSET S : ~ \E g : Solves(g, f, T)}
  <1> SUFFICES ASSUME Bad # {} PROVE FALSE
    BY DEF Solution
  <1>1. PICK T \in Bad : \A U \in SUBSET T : U # T => U \notin Bad
    <2>1. Bad \in SUBSET (SUBSET S)
      OBVIOUS
    <2> HIDE DEF Bad
    <2> QED BY <2>1, LeastBad
  <1> DEFINE G(U) == Solution(f, U)
             Rest(U) == U \ {OneOf(U)}
  <1>2. ASSUME NEW U \in SUBSET T, U # T
        PROVE  Solves(G(U), f, U)
    BY <1>1, <1>2 DEF Solution
  <1> DEFINE h == [U \in SUBSET T |->
                     IF U # T THEN G(U)[U]
                     ELSE IF T = {} THEN 0 ELSE f[OneOf(T)] + G(Rest(T))[Rest(T)]]
  <1>3. ASSUME NEW U \in SUBSET T
        PROVE  h[U] = Recursion(h, f, U)
    <2>1. CASE U = {}
      <3>1. CASE T = {}
        BY <2>1, <3>1 DEF Recursion
      <3>2. CASE T # {}
        <4>1. h[U] = G(U)[U]
          BY <2>1, <3>2
        <4>2. G(U)[U] = Recursion(G(U), f, U)
          BY <1>2, <2>1, <3>2 DEF Solves
        <4> QED BY <2>1, <4>1, <4>2 DEF Recursion
      <3> QED BY <3>1, <3>2
    <2>2. CASE U # {}
      <3>1. /\ Rest(U) \in SUBSET U /\ Rest(U) # U
            /\ Rest(U) \in SUBSET T /\ Rest(U) # T
        BY <2>2, OneOfIs
      <3>2. h[Rest(U)] = G(Rest(U))[Rest(U)]
        BY <3>1
      <3>3. CASE U = T
        <4>1. h[U] = f[OneOf(U)] + G(Rest(U))[Rest(U)]
          BY <2>2, <3>3
        <4> QED BY <2>2, <3>2, <4>1 DEF Recursion
      <3>4. CASE U # T
        <4>1. h[U] = G(U)[U] /\ Solves(G(U), f, U) /\ Solves(G(Rest(U)), f, Rest(U))
          BY <1>2, <3>1, <3>4
        <4> HIDE DEF G, h
        <4>2. G(U)[U] = Recursion(G(U), f, U)
          BY <4>1 DEF Solves
        <4>3. IsFiniteSet(U)
          BY <1>1, FS_Subset
        <4>4. G(U)[Rest(U)] = G(Rest(U))[Rest(U)]
          <5> HIDE DEF Rest
          <5>1. Rest(U) \in SUBSET (U \cap Rest(U))
            BY <3>1
          <5> QED BY <4>1, <4>3, <5>1, SolutionsAgree
        <4> QED BY <2>2, <3>2, <4>1, <4>2, <4>4 DEF Recursion
      <3> QED BY <3>3, <3>4
    <2> QED BY <2>1, <2>2
  <1>4. Solves(h, f, T)
    <2>1. h = [U \in SUBSET T |-> h[U]]
      OBVIOUS
    <2> HIDE DEF h
    <2> QED BY <1>3, <2>1 DEF Solves
  <1> QED BY <1>1, <1>4

\* The sum of a subset is the same whether or not it is seen as part of a larger set.
LEMMA SumStep ==
    ASSUME NEW f, NEW S, IsFiniteSet(S)
    PROVE  SumOf(f, S) = IF S = {} THEN 0 ELSE f[OneOf(S)] + SumOf(f, S \ {OneOf(S)})
  <1>1. SumOf(f, S) = Recursion(Solution(f, S), f, S)
    <2>1. SumOf(f, S) = Solution(f, S)[S] /\ Solves(Solution(f, S), f, S)
      BY SumIs, SolutionExists
    <2> QED BY <2>1 DEF Solves
  <1>2. CASE S = {}
    BY <1>1, <1>2 DEF Recursion
  <1>3. CASE S # {}
    <2> DEFINE T == S \ {OneOf(S)}
    <2>1. T \in SUBSET S /\ IsFiniteSet(T)
      BY <1>3, OneOfIs, FS_Subset
    <2>2. Solves(Solution(f, S), f, S) /\ Solves(Solution(f, T), f, T)
      BY <2>1, SolutionExists
    <2>3. Solution(f, S)[T] = Solution(f, T)[T]
      <3>1. T \in SUBSET (S \cap T)
        BY <2>1
      <3> HIDE DEF T
      <3> QED BY <2>2, <3>1, SolutionsAgree
    <2>4. SumOf(f, T) = Solution(f, T)[T]
      BY SumIs
    <2> QED BY <1>1, <1>3, <2>3, <2>4 DEF Recursion
  <1> QED BY <1>2, <1>3

\* Nothing adds up to nothing.
LEMMA SumEmpty ==
    ASSUME NEW f, NEW S, S = {}
    PROVE  SumOf(f, S) = 0
  BY SumStep, FS_EmptySet

\* The sum of numbers is a number.
LEMMA SumType ==
    ASSUME NEW S, IsFiniteSet(S), NEW f, \A x \in S : f[x] \in Int
    PROVE  SumOf(f, S) \in Int
  <1> DEFINE Bad == {T \in SUBSET S : SumOf(f, T) \notin Int}
  <1> SUFFICES ASSUME Bad # {} PROVE FALSE
    OBVIOUS
  <1>1. PICK T \in Bad : \A U \in SUBSET T : U # T => U \notin Bad
    <2>1. Bad \in SUBSET (SUBSET S)
      OBVIOUS
    <2> HIDE DEF Bad
    <2> QED BY <2>1, LeastBad
  <1>2. IsFiniteSet(T) /\ T \in SUBSET S
    BY <1>1, FS_Subset
  <1>3. T # {}
    <2>1. T = {} => SumOf(f, T) = 0
      BY SumEmpty
    <2> QED BY <1>1, <2>1
  <1>4. /\ OneOf(T) \in S /\ T \ {OneOf(T)} \in SUBSET S
        /\ SumOf(f, T \ {OneOf(T)}) \in Int
    BY <1>1, <1>2, <1>3, OneOfIs
  <1>5. SumOf(f, T) = f[OneOf(T)] + SumOf(f, T \ {OneOf(T)})
    BY <1>2, <1>3, SumStep
  <1> QED BY <1>1, <1>4, <1>5

\* Any one element can be taken out of a sum.
LEMMA SumRemove ==
    ASSUME NEW S, IsFiniteSet(S), NEW f, \A x \in S : f[x] \in Int, NEW x \in S
    PROVE  SumOf(f, S) = f[x] + SumOf(f, S \ {x})
  <1> DEFINE Bad == {T \in SUBSET S : \E z \in T : SumOf(f, T) # f[z] + SumOf(f, T \ {z})}
  <1> SUFFICES ASSUME Bad # {} PROVE FALSE
    OBVIOUS
  <1>1. PICK T \in Bad : \A U \in SUBSET T : U # T => U \notin Bad
    <2>1. Bad \in SUBSET (SUBSET S)
      OBVIOUS
    <2> HIDE DEF Bad
    <2> QED BY <2>1, LeastBad
  <1>2. IsFiniteSet(T) /\ T \in SUBSET S
    BY <1>1, FS_Subset
  <1>3. PICK z \in T : SumOf(f, T) # f[z] + SumOf(f, T \ {z})
    BY <1>1
  <1> DEFINE y == OneOf(T)
             Both == T \ {z, y}
  <1>4. y \in T /\ SumOf(f, T) = f[y] + SumOf(f, T \ {y})
    BY <1>2, <1>3, OneOfIs, SumStep
  <1> HIDE DEF y
  <1>5. z # y
    BY <1>3, <1>4
  <1>6. SumOf(f, T \ {y}) = f[z] + SumOf(f, Both)
    <2>1. T \ {y} \in SUBSET T /\ T \ {y} # T /\ z \in T \ {y} /\ (T \ {y}) \ {z} = Both
      BY <1>4, <1>5
    <2> HIDE DEF Both
    <2> QED BY <1>1, <1>2, <2>1
  <1>7. SumOf(f, T \ {z}) = f[y] + SumOf(f, Both)
    <2>1. T \ {z} \in SUBSET T /\ T \ {z} # T /\ y \in T \ {z} /\ (T \ {z}) \ {y} = Both
      BY <1>3, <1>4, <1>5
    <2> HIDE DEF Both
    <2> QED BY <1>1, <1>2, <2>1
  <1>8. SumOf(f, Both) \in Int /\ f[z] \in Int /\ f[y] \in Int
    <2>1. IsFiniteSet(Both) /\ \A w \in Both : f[w] \in Int
      BY <1>2, FS_Subset
    <2> HIDE DEF Both
    <2> QED BY <1>2, <1>3, <1>4, <2>1, SumType
  <1> HIDE DEF Both
  <1> QED BY <1>3, <1>4, <1>6, <1>7, <1>8

\* One element more.
LEMMA SumAdd ==
    ASSUME NEW S, IsFiniteSet(S), NEW f, \A y \in S : f[y] \in Int,
           NEW x, x \notin S, f[x] \in Int
    PROVE  SumOf(f, S \cup {x}) = f[x] + SumOf(f, S)
  <1>1. IsFiniteSet(S \cup {x}) /\ x \in S \cup {x} /\ (S \cup {x}) \ {x} = S
    BY FS_AddElement
  <1>2. \A y \in S \cup {x} : f[y] \in Int
    OBVIOUS
  <1> HIDE DEF SumOf
  <1>3. SumOf(f, S \cup {x}) = f[x] + SumOf(f, (S \cup {x}) \ {x})
    BY <1>1, <1>2, SumRemove
  <1> QED BY <1>1, <1>3

\* Only the values at the elements matter.
LEMMA SumSame ==
    ASSUME NEW S, IsFiniteSet(S), NEW f, NEW g, \A x \in S : f[x] = g[x]
    PROVE  SumOf(f, S) = SumOf(g, S)
  <1> DEFINE Bad == {T \in SUBSET S : SumOf(f, T) # SumOf(g, T)}
  <1> SUFFICES ASSUME Bad # {} PROVE FALSE
    OBVIOUS
  <1>1. PICK T \in Bad : \A U \in SUBSET T : U # T => U \notin Bad
    <2>1. Bad \in SUBSET (SUBSET S)
      OBVIOUS
    <2> HIDE DEF Bad
    <2> QED BY <2>1, LeastBad
  <1>2. IsFiniteSet(T) /\ T \in SUBSET S
    BY <1>1, FS_Subset
  <1>3. T # {}
    <2>1. T = {} => SumOf(f, T) = 0 /\ SumOf(g, T) = 0
      BY SumEmpty
    <2> QED BY <1>1, <2>1
  <1>4. /\ OneOf(T) \in S /\ T \ {OneOf(T)} \in SUBSET S
        /\ SumOf(f, T \ {OneOf(T)}) = SumOf(g, T \ {OneOf(T)})
    BY <1>1, <1>2, <1>3, OneOfIs
  <1>5. /\ SumOf(f, T) = f[OneOf(T)] + SumOf(f, T \ {OneOf(T)})
        /\ SumOf(g, T) = g[OneOf(T)] + SumOf(g, T \ {OneOf(T)})
    BY <1>2, <1>3, SumStep
  <1> QED BY <1>1, <1>4, <1>5

\* The sum of sums is the sum.
LEMMA SumPlus ==
    ASSUME NEW S, IsFiniteSet(S), NEW f, NEW g, NEW h,
           \A x \in S : f[x] \in Int /\ g[x] \in Int /\ h[x] = f[x] + g[x]
    PROVE  SumOf(h, S) = SumOf(f, S) + SumOf(g, S)
  <1> DEFINE Bad == {T \in SUBSET S : SumOf(h, T) # SumOf(f, T) + SumOf(g, T)}
  <1> SUFFICES ASSUME Bad # {} PROVE FALSE
    OBVIOUS
  <1>1. PICK T \in Bad : \A U \in SUBSET T : U # T => U \notin Bad
    <2>1. Bad \in SUBSET (SUBSET S)
      OBVIOUS
    <2> HIDE DEF Bad
    <2> QED BY <2>1, LeastBad
  <1>2. IsFiniteSet(T) /\ T \in SUBSET S
    BY <1>1, FS_Subset
  <1>3. T # {}
    <2>1. T = {} => SumOf(f, T) = 0 /\ SumOf(g, T) = 0 /\ SumOf(h, T) = 0
      BY SumEmpty
    <2> QED BY <1>1, <2>1
  <1> DEFINE x == OneOf(T)
             U == T \ {x}
  <1>4. x \in S /\ U \in SUBSET S /\ IsFiniteSet(U) /\ SumOf(h, U) = SumOf(f, U) + SumOf(g, U)
    BY <1>1, <1>2, <1>3, OneOfIs, FS_Subset
  <1>5. /\ SumOf(f, T) = f[x] + SumOf(f, U)
        /\ SumOf(g, T) = g[x] + SumOf(g, U)
        /\ SumOf(h, T) = h[x] + SumOf(h, U)
    BY <1>2, <1>3, SumStep
  <1> HIDE DEF x, U
  <1>6. SumOf(f, U) \in Int /\ SumOf(g, U) \in Int
    <2>1. \A y \in U : f[y] \in Int /\ g[y] \in Int
      BY <1>4
    <2> QED BY <1>4, <2>1, SumType
  <1>7. f[x] \in Int /\ g[x] \in Int /\ h[x] = f[x] + g[x]
    BY <1>4
  <1> QED BY <1>1, <1>4, <1>5, <1>6, <1>7

\* Two sets without a common element.
LEMMA SumUnion ==
    ASSUME NEW S, IsFiniteSet(S), NEW R, IsFiniteSet(R), S \cap R = {},
           NEW f, \A x \in S \cup R : f[x] \in Int
    PROVE  SumOf(f, S \cup R) = SumOf(f, S) + SumOf(f, R)
  <1> DEFINE Bad == {T \in SUBSET S : SumOf(f, T \cup R) # SumOf(f, T) + SumOf(f, R)}
  <1> SUFFICES ASSUME Bad # {} PROVE FALSE
    OBVIOUS
  <1>1. PICK T \in Bad : \A U \in SUBSET T : U # T => U \notin Bad
    <2>1. Bad \in SUBSET (SUBSET S)
      OBVIOUS
    <2> HIDE DEF Bad
    <2> QED BY <2>1, LeastBad
  <1>2. IsFiniteSet(T) /\ T \in SUBSET S /\ SumOf(f, R) \in Int
    BY <1>1, FS_Subset, SumType
  <1>3. T # {}
    <2>1. T = {} => SumOf(f, T) = 0 /\ T \cup R = R
      BY SumEmpty
    <2>2. T = {} => SumOf(f, T \cup R) = SumOf(f, R)
      BY <2>1, Zenon
    <2> QED BY <1>1, <1>2, <2>1, <2>2
  <1> DEFINE x == OneOf(T)
             U == T \ {x}
  <1>4. x \in T /\ U \in SUBSET S /\ IsFiniteSet(U) /\ SumOf(f, U \cup R) = SumOf(f, U) + SumOf(f, R)
    BY <1>1, <1>2, <1>3, OneOfIs, FS_Subset
  <1>5. SumOf(f, T) = f[x] + SumOf(f, U)
    BY <1>2, <1>3, SumStep
  <1>6. x \notin U \cup R /\ T \cup R = (U \cup R) \cup {x} /\ IsFiniteSet(U \cup R)
    BY <1>2, <1>4, FS_Union
  <1> HIDE DEF x, U
  <1>7. SumOf(f, U) \in Int /\ f[x] \in Int /\ \A y \in U \cup R : f[y] \in Int
    <2>1. \A y \in U \cup R : f[y] \in Int
      BY <1>4
    <2>2. f[x] \in Int
      BY <1>2, <1>4
    <2> QED BY <1>4, <2>1, <2>2, SumType
  <1>8. SumOf(f, T \cup R) = f[x] + SumOf(f, U \cup R)
    BY <1>6, <1>7, SumAdd
  <1> QED BY <1>1, <1>2, <1>4, <1>5, <1>7, <1>8

\* Summands that are not negative.
LEMMA SumNat ==
    ASSUME NEW S, IsFiniteSet(S), NEW f, \A x \in S : f[x] \in Nat
    PROVE  SumOf(f, S) \in Nat
  <1> DEFINE Bad == {T \in SUBSET S : SumOf(f, T) \notin Nat}
  <1> SUFFICES ASSUME Bad # {} PROVE FALSE
    OBVIOUS
  <1>1. PICK T \in Bad : \A U \in SUBSET T : U # T => U \notin Bad
    <2>1. Bad \in SUBSET (SUBSET S)
      OBVIOUS
    <2> HIDE DEF Bad
    <2> QED BY <2>1, LeastBad
  <1>2. IsFiniteSet(T) /\ T \in SUBSET S
    BY <1>1, FS_Subset
  <1>3. T # {}
    <2>1. T = {} => SumOf(f, T) = 0
      BY SumEmpty
    <2> QED BY <1>1, <2>1
  <1>4. /\ OneOf(T) \in S /\ T \ {OneOf(T)} \in SUBSET S
        /\ SumOf(f, T \ {OneOf(T)}) \in Nat
    BY <1>1, <1>2, <1>3, OneOfIs
  <1>5. SumOf(f, T) = f[OneOf(T)] + SumOf(f, T \ {OneOf(T)})
    BY <1>2, <1>3, SumStep
  <1> QED BY <1>1, <1>4, <1>5

\* A part of what is not negative is no more than the whole.
LEMMA SumSubset ==
    ASSUME NEW S, IsFiniteSet(S), NEW f, \A x \in S : f[x] \in Nat, NEW T \in SUBSET S
    PROVE  SumOf(f, T) <= SumOf(f, S)
  <1>1. /\ IsFiniteSet(T) /\ IsFiniteSet(S \ T) /\ T \cap (S \ T) = {} /\ T \cup (S \ T) = S
        /\ \A x \in T : f[x] \in Nat
        /\ \A x \in S \ T : f[x] \in Nat
    BY FS_Subset
  <1>2. SumOf(f, T) \in Nat /\ SumOf(f, S \ T) \in Nat
    BY <1>1, SumNat
  <1>3. SumOf(f, T \cup (S \ T)) = SumOf(f, T) + SumOf(f, S \ T)
    <2>1. \A x \in T \cup (S \ T) : f[x] \in Int
      BY <1>1
    <2> QED BY <1>1, <2>1, SumUnion
  <1>4. SumOf(f, T \cup (S \ T)) = SumOf(f, S)
    BY <1>1, Zenon
  <1> QED BY <1>2, <1>3, <1>4

\* The value at one element changes.
LEMMA SumChange ==
    ASSUME NEW S, IsFiniteSet(S), NEW x \in S, NEW f, NEW g,
           \A y \in S : f[y] \in Int /\ g[y] \in Int,
           \A y \in S \ {x} : f[y] = g[y]
    PROVE  SumOf(g, S) = SumOf(f, S) - f[x] + g[x]
  <1>1. IsFiniteSet(S \ {x})
    BY FS_Subset
  <1>2. SumOf(f, S) = f[x] + SumOf(f, S \ {x}) /\ SumOf(g, S) = g[x] + SumOf(g, S \ {x})
    BY SumRemove
  <1>3. SumOf(f, S \ {x}) = SumOf(g, S \ {x})
    BY <1>1, SumSame
  <1>4. SumOf(f, S \ {x}) \in Int
    <2>1. \A y \in S \ {x} : f[y] \in Int
      OBVIOUS
    <2> QED BY <1>1, <2>1, SumType
  <1> QED BY <1>2, <1>3, <1>4

\* Larger summands.
LEMMA SumMonotone ==
    ASSUME NEW S, IsFiniteSet(S), NEW f, NEW g,
           \A x \in S : f[x] \in Int /\ g[x] \in Int /\ f[x] <= g[x]
    PROVE  SumOf(f, S) <= SumOf(g, S)
  <1> DEFINE d == [x \in S |-> g[x] - f[x]]
  <1>1. \A x \in S : d[x] \in Nat /\ g[x] = f[x] + d[x]
    OBVIOUS
  <1> HIDE DEF d
  <1>2. SumOf(d, S) \in Nat /\ SumOf(f, S) \in Int
    BY <1>1, SumNat, SumType
  <1>3. SumOf(g, S) = SumOf(f, S) + SumOf(d, S)
    <2>1. \A x \in S : f[x] \in Int /\ d[x] \in Int /\ g[x] = f[x] + d[x]
      BY <1>1
    <2> HIDE DEF SumOf
    <2> QED BY <2>1, SumPlus
  <1> QED BY <1>2, <1>3

\* Zeros add up to zero.
LEMMA SumZero ==
    ASSUME NEW S, IsFiniteSet(S), NEW f, \A x \in S : f[x] = 0
    PROVE  SumOf(f, S) = 0
  <1>1. SumOf(f, S) \in Nat
    BY SumNat
  <1> DEFINE d == [x \in S |-> 0]
  <1>2. SumOf(d, S) = SumOf(f, S) + SumOf(f, S)
    <2>1. \A x \in S : f[x] \in Int /\ f[x] \in Int /\ d[x] = f[x] + f[x]
      OBVIOUS
    <2> HIDE DEF d
    <2> QED BY <2>1, SumPlus
  <1>3. SumOf(d, S) = SumOf(f, S)
    BY SumSame
  <1> QED BY <1>1, <1>2, <1>3, SMTT(30)

\* The sum over classes of the sums over their elements.  (The class of x is k[x].)
LEMMA SumPartition ==
    ASSUME NEW S, IsFiniteSet(S), NEW C, IsFiniteSet(C), NEW k, \A x \in S : k[x] \in C,
           NEW f, \A x \in S : f[x] \in Int
    PROVE  SumOf([c \in C |-> SumOf(f, {x \in S : k[x] = c})], C) = SumOf(f, S)
  <1> DEFINE Class(T, c) == {x \in T : k[x] = c}
             Sums(T) == [c \in C |-> SumOf(f, Class(T, c))]
             Bad == {T \in SUBSET S : SumOf(Sums(T), C) # SumOf(f, T)}
  <1> SUFFICES ASSUME Bad # {} PROVE FALSE
    OBVIOUS
  <1>1. PICK T \in Bad : \A U \in SUBSET T : U # T => U \notin Bad
    <2>1. Bad \in SUBSET (SUBSET S)
      OBVIOUS
    <2> HIDE DEF Bad
    <2> QED BY <2>1, LeastBad
  <1>2. IsFiniteSet(T) /\ T \in SUBSET S
    BY <1>1, FS_Subset
  <1>3. T # {}
    <2> SUFFICES ASSUME T = {} PROVE FALSE
      OBVIOUS
    <2>1. \A c \in C : Class(T, c) = {}
      OBVIOUS
    <2>2. \A c \in C : Sums(T)[c] = 0
      <3> SUFFICES ASSUME NEW c \in C PROVE SumOf(f, Class(T, c)) = 0
        OBVIOUS
      <3> HIDE DEF Class
      <3> QED BY <2>1, SumEmpty
    <2> HIDE DEF Sums
    <2>3. SumOf(Sums(T), C) = 0 /\ SumOf(f, T) = 0
      BY <2>2, SumZero, SumEmpty
    <2> QED BY <1>1, <2>3
  <1> DEFINE x == OneOf(T)
             U == T \ {x}
  <1>4. x \in T /\ U \in SUBSET T /\ U # T
    BY <1>3, OneOfIs
  <1>5. SumOf(f, T) = f[x] + SumOf(f, U)
    BY <1>2, <1>3, SumStep
  <1> HIDE DEF x
  <1>6. SumOf(Sums(U), C) = SumOf(f, U)
    BY <1>1, <1>2, <1>4
  <1>7. ASSUME NEW V \in SUBSET T, NEW c \in C
        PROVE  IsFiniteSet(Class(V, c)) /\ Sums(V)[c] \in Int /\ Sums(V)[c] = SumOf(f, Class(V, c))
    <2>1. IsFiniteSet(Class(V, c)) /\ \A y \in Class(V, c) : f[y] \in Int
      BY <1>2, FS_Subset
    <2>2. SumOf(f, Class(V, c)) \in Int
      <3> HIDE DEF Class
      <3> QED BY <2>1, SumType
    <2> QED BY <2>1, <2>2
  <1>8. ASSUME NEW c \in C, c # k[x]
        PROVE  Sums(T)[c] = Sums(U)[c]
    <2>1. Class(T, c) = Class(U, c)
      BY <1>8
    <2> QED BY <2>1
  <1>9. k[x] \in C /\ f[x] \in Int
    BY <1>2, <1>4
  <1>10. Sums(T)[k[x]] = f[x] + Sums(U)[k[x]]
    <2>0. PICK c \in C : c = k[x]
      BY <1>9
    <2>1. x \in Class(T, c) /\ Class(U, c) = Class(T, c) \ {x}
      BY <1>4, <2>0
    <2>2. IsFiniteSet(Class(T, c)) /\ \A y \in Class(T, c) : f[y] \in Int
      BY <1>2, <1>7
    <2>3. Sums(T)[c] = SumOf(f, Class(T, c)) /\ Sums(U)[c] = SumOf(f, Class(T, c) \ {x})
      BY <2>1, Zenon
    <2> HIDE DEF Class, Sums
    <2> QED BY <2>0, <2>1, <2>2, <2>3, SumRemove
  <1>11. SumOf(Sums(T), C) = SumOf(Sums(U), C) - Sums(U)[k[x]] + Sums(T)[k[x]]
    <2>1. \A c \in C : Sums(U)[c] \in Int /\ Sums(T)[c] \in Int
      BY <1>4, <1>7
    <2> HIDE DEF Sums, U
    <2> QED BY <1>8, <1>9, <2>1, SumChange
  <1>12. Sums(U)[k[x]] \in Int /\ SumOf(f, U) \in Int
    <2>1. Sums(U)[k[x]] \in Int
      BY <1>4, <1>7, <1>9
    <2>2. IsFiniteSet(U) /\ \A y \in U : f[y] \in Int
      BY <1>2, <1>4, FS_Subset
    <2> HIDE DEF U
    <2> QED BY <2>1, <2>2, SumType
  <1>13. SumOf(Sums(T), C) = SumOf(f, T)
    <2> HIDE DEF Sums, U
    <2> QED BY <1>5, <1>6, <1>9, <1>10, <1>11, <1>12
  <1> QED BY <1>1, <1>13

\* Counting is summing ones.
LEMMA SumOfOnes ==
    ASSUME NEW S, IsFiniteSet(S), NEW f, \A x \in S : f[x] = 1
    PROVE  SumOf(f, S) = Cardinality(S)
  <1> DEFINE Bad == {T \in SUBSET S : SumOf(f, T) # Cardinality(T)}
  <1> SUFFICES ASSUME Bad # {} PROVE FALSE
    OBVIOUS
  <1>1. PICK T \in Bad : \A U \in SUBSET T : U # T => U \notin Bad
    <2>1. Bad \in SUBSET (SUBSET S)
      OBVIOUS
    <2> HIDE DEF Bad
    <2> QED BY <2>1, LeastBad
  <1>2. IsFiniteSet(T) /\ T \in SUBSET S /\ Cardinality(T) \in Nat
    BY <1>1, FS_Subset, FS_CardinalityType
  <1>3. T # {}
    <2>1. T = {} => SumOf(f, T) = 0 /\ Cardinality(T) = 0
      BY SumEmpty, FS_EmptySet
    <2> QED BY <1>1, <2>1
  <1> DEFINE x == OneOf(T)
             U == T \ {x}
  <1>4. x \in T /\ U \in SUBSET T /\ U # T
    BY <1>3, OneOfIs
  <1>5. SumOf(f, T) = f[x] + SumOf(f, U)
    BY <1>2, <1>3, SumStep
  <1> HIDE DEF x
  <1>6. SumOf(f, U) = Cardinality(U)
    BY <1>1, <1>2, <1>4
  <1>7. Cardinality(U) = Cardinality(T) - 1
    BY <1>2, <1>4, FS_RemoveElement
  <1> QED BY <1>1, <1>2, <1>4, <1>5, <1>6, <1>7

\* Equal summands.
LEMMA SumOfEqual ==
    ASSUME NEW S, IsFiniteSet(S), NEW c \in Int, NEW f, \A x \in S : f[x] = c
    PROVE  SumOf(f, S) = Cardinality(S) * c /\ Cardinality(S) \in Nat
  <1> DEFINE Bad == {T \in SUBSET S : SumOf(f, T) # Cardinality(T) * c}
  <1>0. Cardinality(S) \in Nat
    BY FS_CardinalityType
  <1> SUFFICES ASSUME Bad # {} PROVE FALSE
    BY <1>0
  <1>1. PICK T \in Bad : \A U \in SUBSET T : U # T => U \notin Bad
    <2>1. Bad \in SUBSET (SUBSET S)
      OBVIOUS
    <2> HIDE DEF Bad
    <2> QED BY <2>1, LeastBad
  <1>2. IsFiniteSet(T) /\ T \in SUBSET S /\ Cardinality(T) \in Nat
    BY <1>1, FS_Subset, FS_CardinalityType
  <1>3. T # {}
    <2>1. T = {} => SumOf(f, T) = 0 /\ Cardinality(T) = 0
      BY SumEmpty, FS_EmptySet
    <2>2. 0 * c = 0
      OBVIOUS
    <2> QED BY <1>1, <2>1, <2>2
  <1> DEFINE x == OneOf(T)
             U == T \ {x}
  <1>4. x \in T /\ U \in SUBSET T /\ U # T
    BY <1>3, OneOfIs
  <1>5. SumOf(f, T) = f[x] + SumOf(f, U)
    BY <1>2, <1>3, SumStep
  <1> HIDE DEF x
  <1>6. SumOf(f, U) = Cardinality(U) * c
    BY <1>1, <1>2, <1>4
  <1>7. Cardinality(U) = Cardinality(T) - 1
    BY <1>2, <1>4, FS_RemoveElement
  <1>8. (Cardinality(T) - 1) * c = Cardinality(T) * c - c
    BY <1>2
  <1>9. f[x] = c
    BY <1>2, <1>4
  <1>10. Cardinality(T) * c \in Int
    BY <1>2
  <1>11. SumOf(f, T) = Cardinality(T) * c
    <2> DEFINE a == Cardinality(T) * c
    <2>1. SumOf(f, T) = c + (a - c) /\ a \in Int
      BY <1>5, <1>6, <1>7, <1>8, <1>9, <1>10
    <2> HIDE DEF a
    <2>2. SumOf(f, T) = a
      BY <2>1
    <2> QED BY <2>2 DEF a
  <1> QED BY <1>1, <1>11

\* g is, for each key in C, the sum of f over the members of S with that key.
SummedByKey(g, C, own, part, k, f, S) ==
    /\ IsFiniteSet(S) /\ IsFiniteSet(C)
    /\ \A x \in S : k[x] \in C /\ f[x] \in Int
    /\ \A c \in C : /\ own[c] = {x \in S : k[x] = c}
                    /\ \A x \in own[c] : part[c][x] = f[x]
                    /\ g[c] = SumOf(part[c], own[c])

\* Summing up by key what was summed up for each key gives the sum.
LEMMA SumByKey ==
    ASSUME NEW S, NEW C, NEW k, NEW f, NEW own, NEW part, NEW g,
           SummedByKey(g, C, own, part, k, f, S)
    PROVE  SumOf(g, C) = SumOf(f, S)
  <1> USE DEF SummedByKey
  <1> DEFINE h == [c \in C |-> SumOf(f, {x \in S : k[x] = c})]
  <1>1. ASSUME NEW c \in C PROVE g[c] = h[c]
    <2>1. PICK T, e : T = own[c] /\ e = part[c]
      OBVIOUS
    <2>2. T = {x \in S : k[x] = c}
      BY <2>1
    <2>3. IsFiniteSet(T)
      BY <2>2, FS_Subset
    <2>4. \A x \in T : e[x] = f[x]
      BY <2>1
    <2>5. SumOf(e, T) = SumOf(f, T)
      BY <2>3, <2>4, SumSame
    <2>6. h[c] = SumOf(f, T)
      BY <2>2, Zenon
    <2> HIDE DEF h
    <2> QED BY <2>1, <2>5, <2>6
  <1>2. SumOf(h, C) = SumOf(f, S)
    BY SumPartition
  <1> HIDE DEF h
  <1> QED BY <1>1, <1>2, SumSame

-----------------------------------------------------------------------------
\* Counting up from zero one comes by every number.
LEMMA Climbing ==
    ASSUME NEW n \in Nat, NEW Good, 0 \in Good, \A m \in 1..n : m - 1 \in Good => m \in Good
    PROVE  \A m \in 0..n : m \in Good
  <1> DEFINE Bad == {m \in 0..n : m \notin Good}
             Less == {p \in Nat \X Nat : p[1] < p[2]}
  <1> SUFFICES ASSUME Bad # {} PROVE FALSE
    OBVIOUS
  <1>1. IsWellFoundedOn(Less, Nat)
    <2>1. Less = OpToRel(<, Nat)
      BY DEF OpToRel
    <2> QED BY <2>1, NatLessThanWellFounded
  <1>2. PICK m \in Bad : \A k \in Bad : <<k, m>> \notin Less
    <2>1. Bad \in SUBSET Nat
      OBVIOUS
    <2> HIDE DEF Bad, Less
    <2> QED BY <1>1, <2>1, WFMin
  <1>3. m \in 1..n /\ m - 1 \notin Bad
    <2>1. <<m - 1, m>> \in Nat \X Nat \/ m = 0
      OBVIOUS
    <2> QED BY <1>2, <2>1
  <1> QED BY <1>3

-----------------------------------------------------------------------------
\* before compares the members of S as a sort needs them compared.
Ordered(S, before) ==
    /\ \A a \in S : <<a, a>> \notin before
    /\ \A a, b \in S : a # b => <<a, b>> \in before \/ <<b, a>> \in before
    /\ \A a, b, c \in S : <<a, b>> \in before /\ <<b, c>> \in before => <<a, c>> \in before

\* s has every member of S once, in the order of before.
Sorts(s, S, before) ==
    /\ s \in Seq(S) /\ DOMAIN s = 1..Len(s) /\ Len(s) \in Nat
    /\ ToSet(s) = S
    /\ \A i, j \in 1..Len(s) : i < j => <<s[i], s[j]>> \in before /\ s[i] # s[j]

\* What comes before a member is a smaller set the earlier it is.
LEMMA RanksGrow ==
    ASSUME NEW S, IsFiniteSet(S), NEW before, Ordered(S, before)
    PROVE  LET rank == [a \in S |-> Cardinality({b \in S : <<b, a>> \in before})]
           IN  /\ rank \in [S -> 0..(Cardinality(S) - 1)]
               /\ \A a, b \in S : <<a, b>> \in before => rank[a] < rank[b]
  <1> DEFINE below == [a \in S |-> {b \in S : <<b, a>> \in before}]
             rank == [a \in S |-> Cardinality({b \in S : <<b, a>> \in before})]
  <1>1. ASSUME NEW a \in S
        PROVE  /\ IsFiniteSet(below[a]) /\ rank[a] = Cardinality(below[a]) /\ rank[a] \in Nat
               /\ rank[a] < Cardinality(S)
    <2>1. below[a] \in SUBSET S /\ a \notin below[a]
      BY DEF Ordered
    <2>2. /\ IsFiniteSet(below[a]) /\ Cardinality(below[a]) <= Cardinality(S)
          /\ Cardinality(S) = Cardinality(below[a]) => S = below[a]
      <3> HIDE DEF below
      <3> QED BY <2>1, FS_Subset
    <2>3. Cardinality(below[a]) \in Nat /\ Cardinality(S) \in Nat
      BY <2>2, FS_CardinalityType
    <2>4. rank[a] = Cardinality(below[a])
      OBVIOUS
    <2>5. Cardinality(S) # Cardinality(below[a])
      BY <2>1, <2>2
    <2> HIDE DEF rank, below
    <2> QED BY <2>2, <2>3, <2>4, <2>5
  <1>2. ASSUME NEW a \in S, NEW b \in S, <<a, b>> \in before
        PROVE  rank[a] < rank[b]
    <2>1. below[a] \in SUBSET below[b] /\ a \in below[b] /\ a \notin below[a]
      BY <1>2 DEF Ordered
    <2>2. IsFiniteSet(below[b])
      BY <1>1
    <2>3. /\ Cardinality(below[a]) <= Cardinality(below[b])
          /\ Cardinality(below[b]) = Cardinality(below[a]) => below[b] = below[a]
      <3> HIDE DEF below
      <3> QED BY <2>1, <2>2, FS_Subset
    <2>4. /\ rank[a] = Cardinality(below[a]) /\ rank[a] \in Nat
          /\ rank[b] = Cardinality(below[b]) /\ rank[b] \in Nat
      BY <1>1
    <2>5. Cardinality(below[b]) # Cardinality(below[a])
      BY <2>1, <2>3
    <2> HIDE DEF rank, below
    <2> QED BY <2>3, <2>4, <2>5
  <1>3. Cardinality(S) \in Nat
    BY FS_CardinalityType
  <1>4. rank \in [S -> 0..(Cardinality(S) - 1)]
    <2>1. \A a \in S : rank[a] \in 0..(Cardinality(S) - 1)
      <3> HIDE DEF rank, below
      <3> QED BY <1>1, <1>3
    <2> QED BY <2>1
  <1> QED BY <1>2, <1>4

\* Sorting a finite set gives each of its members once, in order.
LEMMA InOrderSorts ==
    ASSUME NEW S, IsFiniteSet(S), NEW before, Ordered(S, before)
    PROVE  Sorts(InOrder(S, before), S, before)
  <1> DEFINE n == Cardinality(S)
             rank == [a \in S |-> Cardinality({b \in S : <<b, a>> \in before})]
             s == InOrder(S, before)
  <1>1. rank \in [S -> 0..(n - 1)] /\ \A a, b \in S : <<a, b>> \in before => rank[a] < rank[b]
    BY RanksGrow
  <1>2. n \in Nat
    BY FS_CardinalityType
  <1>3. rank \in Injection(S, 0..(n - 1))
    <2>1. \A a, b \in S : rank[a] \in Int /\ rank[b] \in Int
      <3> HIDE DEF rank
      <3> QED BY <1>1, <1>2
    <2>2. ASSUME NEW a \in S, NEW b \in S, rank[a] = rank[b], a # b
          PROVE  FALSE
      <3>1. <<a, b>> \in before \/ <<b, a>> \in before
        BY <2>2 DEF Ordered
      <3>2. rank[a] < rank[b] \/ rank[b] < rank[a]
        <4> HIDE DEF rank
        <4> QED BY <1>1, <3>1
      <3> HIDE DEF rank
      <3> QED BY <2>1, <2>2, <3>2
    <2> HIDE DEF rank
    <2> QED BY <1>1, <2>2 DEF Injection, IsInjective
  <1>4. rank \in Surjection(S, 0..(n - 1))
    <2>1. IsFiniteSet(0..(n - 1)) /\ Cardinality(0..(n - 1)) = n
      BY <1>2, FS_Interval
    <2> HIDE DEF rank
    <2> QED BY <1>3, <2>1, FS_Injection
  <1>5. \A i \in 1..n : \E a \in S : rank[a] = i - 1
    <2>1. \A i \in 1..n : i - 1 \in 0..(n - 1)
      BY <1>2
    <2> HIDE DEF rank
    <2> QED BY <1>4, <2>1 DEF Surjection
  <1>6. DOMAIN s = 1..n /\ \A i \in 1..n : s[i] \in S /\ rank[s[i]] = i - 1
    <2>1. DOMAIN s = 1..n
      BY DEF InOrder
    <2>2. ASSUME NEW i \in 1..n
          PROVE  s[i] \in S /\ rank[s[i]] = i - 1
      <3> DEFINE a == CHOOSE c \in S : Cardinality({b \in S : <<b, c>> \in before}) = i - 1
      <3>1. \E c \in S : Cardinality({b \in S : <<b, c>> \in before}) = i - 1
        BY <1>5
      <3>2. a \in S /\ Cardinality({b \in S : <<b, a>> \in before}) = i - 1
        BY <3>1, Zenon
      <3>3. s[i] = a
        BY DEF InOrder
      <3> HIDE DEF a, s
      <3>4. rank[a] = i - 1
        BY <3>2
      <3> QED BY <3>2, <3>3, <3>4
    <2> QED BY <2>1, <2>2
  <1>7. s \in Seq(S) /\ Len(s) = n
    <2>1. s \in [1..n -> S]
      <3> DEFINE Chosen(i) == CHOOSE a \in S : Cardinality({b \in S : <<b, a>> \in before}) = i - 1
      <3>1. s = [i \in 1..n |-> Chosen(i)]
        BY DEF InOrder
      <3>2. \A i \in 1..n : Chosen(i) = s[i]
        BY <3>1
      <3>3. \A i \in 1..n : Chosen(i) \in S
        <4> HIDE DEF s, n, rank, Chosen
        <4> QED BY <1>6, <3>2
      <3> HIDE DEF s, n, rank, Chosen
      <3> QED BY <3>1, <3>3
    <2> HIDE DEF s, n
    <2>2. s \in Seq(S)
      BY <1>2, <2>1
    <2> QED BY <1>2, <1>6, <2>2
  <1>8. \A a \in S : rank[a] + 1 \in 1..n /\ s[rank[a] + 1] = a
    <2> SUFFICES ASSUME NEW a \in S PROVE rank[a] + 1 \in 1..n /\ s[rank[a] + 1] = a
      OBVIOUS
    <2>1. rank[a] + 1 \in 1..n /\ (rank[a] + 1) - 1 = rank[a]
      <3> HIDE DEF rank
      <3> QED BY <1>1, <1>2
    <2>2. s[rank[a] + 1] \in S /\ rank[s[rank[a] + 1]] = rank[a]
      <3> HIDE DEF rank, s, n
      <3> QED BY <1>6, <2>1
    <2> HIDE DEF rank, s, n
    <2> QED BY <1>3, <2>1, <2>2 DEF Injection, IsInjective
  <1>9. ASSUME NEW i \in 1..n, NEW j \in 1..n, i < j
        PROVE  <<s[i], s[j]>> \in before /\ s[i] # s[j]
    <2>1. s[i] \in S /\ s[j] \in S /\ rank[s[i]] = i - 1 /\ rank[s[j]] = j - 1
      <3> HIDE DEF s, n, rank
      <3> QED BY <1>6
    <2>2. i \in Int /\ j \in Int
      BY <1>2
    <2>3. ~ (rank[s[j]] < rank[s[i]]) /\ s[i] # s[j]
      <3> HIDE DEF s, n, rank
      <3> QED BY <1>9, <2>1, <2>2
    <2>4. <<s[j], s[i]>> \notin before
      <3> HIDE DEF s, n, rank
      <3> QED BY <1>1, <2>1, <2>3
    <2> HIDE DEF s, n, rank
    <2> QED BY <2>1, <2>3, <2>4 DEF Ordered
  <1>10. ToSet(s) = S
    <2> HIDE DEF rank, s, n
    <2> QED BY <1>6, <1>8 DEF ToSet
  <1>11. Sorts(s, S, before)
    <2> HIDE DEF s, n, rank
    <2> QED BY <1>2, <1>6, <1>7, <1>9, <1>10 DEF Sorts
  <1> QED BY <1>11

\* A sequence that sorts a set is the only one that does.
LEMMA SortsAgree ==
    ASSUME NEW S, NEW before, Ordered(S, before),
           NEW s, Sorts(s, S, before), NEW t, Sorts(t, S, before)
    PROVE  s = t
  <1> DEFINE Good == {m \in 0..Len(s) : \A k \in 1..m : k \in 1..Len(t) /\ s[k] = t[k]}
  <1>0. /\ Len(s) \in Nat /\ Len(t) \in Nat
        /\ \A i \in 1..Len(s) : s[i] \in S /\ \E j \in 1..Len(t) : t[j] = s[i]
        /\ \A j \in 1..Len(t) : t[j] \in S /\ \E i \in 1..Len(s) : s[i] = t[j]
    BY DEF Sorts, ToSet
  <1>1. 0 \in Good
    BY <1>0
  <1>2. ASSUME NEW m \in 1..Len(s), m - 1 \in Good
        PROVE  m \in Good
    <2>1. PICK j \in 1..Len(t) : t[j] = s[m]
      BY <1>0
    <2>2. \A k \in 1..(m - 1) : k \in 1..Len(t) /\ s[k] = t[k]
      BY <1>2
    <2>3. ASSUME j < m PROVE FALSE
      <3>1. s[j] = s[m] /\ j \in 1..Len(s)
        BY <1>0, <2>1, <2>2, <2>3
      <3> QED BY <2>3, <3>1 DEF Sorts
    <2>4. m \in 1..Len(t)
      BY <1>0, <2>3
    <2>5. PICK i \in 1..Len(s) : s[i] = t[m]
      BY <1>0, <2>4
    <2>6. ASSUME i < m PROVE FALSE
      <3>1. t[i] = t[m] /\ i \in 1..Len(t)
        BY <1>0, <2>2, <2>5, <2>6
      <3> QED BY <2>4, <2>6, <3>1 DEF Sorts
    <2>7. ASSUME i > m PROVE FALSE
      <3>1. <<s[m], t[m]>> \in before /\ s[m] # t[m]
        BY <2>5, <2>7 DEF Sorts
      <3>2. j > m
        <4>1. j # m
          BY <2>1, <3>1
        <4> QED BY <1>0, <2>3, <4>1
      <3>3. <<t[m], s[m]>> \in before
        BY <2>1, <2>4, <3>2 DEF Sorts
      <3> QED BY <1>0, <2>4, <3>1, <3>3 DEF Ordered
    <2>8. s[m] = t[m]
      BY <1>0, <2>5, <2>6, <2>7, SMTT(30)
    <2>9. \A k \in 1..m : k \in 1..Len(t) /\ s[k] = t[k]
      BY <2>2, <2>4, <2>8
    <2> QED BY <2>9
  <1>3. \A k \in 1..Len(s) : k \in 1..Len(t) /\ s[k] = t[k]
    <2> HIDE DEF Good
    <2>1. \A m \in 0..Len(s) : m \in Good
      BY <1>0, <1>1, <1>2, Climbing
    <2>2. Len(s) \in Good
      BY <1>0, <2>1
    <2> QED BY <2>2 DEF Good
  <1>4. Len(s) = Len(t)
    <2>1. Len(s) <= Len(t)
      BY <1>0, <1>3
    <2>2. ASSUME Len(s) < Len(t) PROVE FALSE
      <3>1. Len(s) + 1 \in 1..Len(t)
        BY <1>0, <2>2
      <3>2. PICK i \in 1..Len(s) : s[i] = t[Len(s) + 1]
        BY <1>0, <3>1
      <3>3. t[i] = t[Len(s) + 1] /\ i < Len(s) + 1 /\ i \in 1..Len(t)
        BY <1>0, <1>3, <3>2
      <3> QED BY <3>1, <3>3 DEF Sorts
    <2> QED BY <1>0, <2>1, <2>2
  <1>5. s \in Seq(S) /\ t \in Seq(S)
    BY DEF Sorts
  <1> QED BY <1>3, <1>4, <1>5

-----------------------------------------------------------------------------
\* A finite set of numbers has a least and a largest one.
LEMMA Extremes ==
    ASSUME NEW V \in SUBSET Int, IsFiniteSet(V), V # {}
    PROVE  /\ Min(V) \in V /\ \A v \in V : Min(V) <= v
           /\ Max(V) \in V /\ \A v \in V : v <= Max(V)
  <1> DEFINE Has(T) == \E a, b \in T : \A v \in T : a <= v /\ v <= b
             Bad == {T \in SUBSET V : T # {} /\ ~Has(T)}
  <1>1. ASSUME Bad # {} PROVE FALSE
    <2>1. PICK T \in Bad : \A U \in SUBSET T : U # T => U \notin Bad
      <3>1. Bad \in SUBSET (SUBSET V)
        OBVIOUS
      <3> HIDE DEF Bad
      <3> QED BY <1>1, <3>1, LeastBad
    <2>2. T \in SUBSET V /\ T # {} /\ ~Has(T)
      BY <2>1
    <2>3. PICK x \in T : TRUE
      BY <2>2
    <2>4. T \ {x} = {} \/ Has(T \ {x})
      <3>1. T \ {x} \in SUBSET T /\ T \ {x} # T
        BY <2>3
      <3> QED BY <2>1, <2>2, <3>1
    <2>5. CASE T \ {x} = {}
      <3>1. \A v \in T : v = x
        BY <2>5
      <3>2. x \in Int
        BY <2>2, <2>3
      <3> QED BY <2>2, <2>3, <3>1, <3>2
    <2>6. CASE Has(T \ {x})
      <3>1. PICK a, b \in T \ {x} : \A v \in T \ {x} : a <= v /\ v <= b
        BY <2>6
      <3>2. a \in Int /\ b \in Int /\ x \in Int /\ \A v \in T : v \in Int
        BY <2>2, <2>3, <3>1
      <3>3. PICK lo \in {x, a} : lo <= x /\ lo <= a
        BY <3>2
      <3>4. PICK hi \in {x, b} : x <= hi /\ b <= hi
        BY <3>2
      <3>5. lo \in T /\ hi \in T /\ lo \in Int /\ hi \in Int
        BY <2>3, <3>1, <3>2, <3>3, <3>4
      <3>6. ASSUME NEW v \in T PROVE lo <= v /\ v <= hi
        <4>1. v \in Int
          BY <3>2
        <4>2. CASE v = x
          BY <3>3, <3>4, <4>2
        <4>3. CASE v # x
          <5>1. a <= v /\ v <= b
            BY <3>1, <4>3
          <5>2. lo <= a /\ b <= hi
            BY <3>3, <3>4
          <5>3. a \in Int /\ b \in Int /\ lo \in Int /\ hi \in Int
            BY <3>2, <3>5
          <5> HIDE DEF Has, Bad
          <5> QED BY <4>1, <5>1, <5>2, <5>3
        <4> QED BY <4>2, <4>3
      <3> QED BY <2>2, <3>5, <3>6
    <2> QED BY <2>4, <2>5, <2>6
  <1>2. Has(V)
    BY <1>1
  <1>3. PICK a, b \in V : \A v \in V : a <= v /\ v <= b
    BY <1>2
  <1>4. (\E w \in V : \A v \in V : w <= v) /\ (\E w \in V : \A v \in V : w >= v)
    BY <1>3
  <1>5. Min(V) \in V /\ \A v \in V : Min(V) <= v
    BY <1>4 DEF Min
  <1>6. Max(V) \in V /\ \A v \in V : Max(V) >= v
    BY <1>4 DEF Max
  <1>7. \A v \in V : v <= Max(V)
    BY <1>6
  <1> QED BY <1>5, <1>6, <1>7

\* The values of a function on a finite set are finitely many.
LEMMA ImageIsFinite ==
    ASSUME NEW S, IsFiniteSet(S), NEW f
    PROVE  IsFiniteSet({f[x] : x \in S})
  <1> DEFINE T == {f[x] : x \in S}
             g == [x \in S |-> f[x]]
  <1>1. g \in [S -> T] /\ \A t \in T : \E x \in S : g[x] = t
    OBVIOUS
  <1> HIDE DEF g, T
  <1>2. g \in Surjection(S, T)
    BY <1>1 DEF Surjection
  <1>3. IsFiniteSet(T)
    BY <1>2, FS_Surjection
  <1> QED BY <1>3 DEF T
=============================================================================
