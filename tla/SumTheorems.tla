----------------------------- MODULE SumTheorems -----------------------------
(***************************************************************************)
(* Sums over finite sets.  SumFunctionOnSet(f, S) is a recursion that      *)
(* takes the elements of S in some order; the lemmas below say what the    *)
(* sum is without it: any element may be taken first, so that the sum of   *)
(* a balance's postings follows each posting that is added, changed or     *)
(* removed.  The induction over the subsets of a set is done with the      *)
(* least counterexample, which exists because strict inclusion is          *)
(* well-founded.                                                           *)
(***************************************************************************)
EXTENDS Integers, FiniteSets, Functions, FiniteSetTheorems, NaturalsInduction, TLAPS

\* The least number of a set.
LEMMA LeastNumber ==
  ASSUME NEW S \in SUBSET Nat, S # {}
  PROVE  \E m \in S : \A k \in S : m <= k
<1>1. IsWellFoundedOn(OpToRel(<, Nat), Nat)
  BY NatLessThanWellFounded, Zenon
<1>2. PICK m \in S : \A k \in S : <<k, m>> \notin OpToRel(<, Nat)
  BY <1>1, WFMin, Zenon
<1>3. \A k \in S : ~(k < m)
  BY <1>2 DEF OpToRel
<1> QED BY <1>3

\* A set of subsets of a finite set that is not empty has a least member.
LEMMA LeastSubset ==
  ASSUME NEW S, IsFiniteSet(S), NEW Bad \in SUBSET SUBSET S, Bad # {}
  PROVE  \E T \in Bad : \A U \in SUBSET T : U # T => U \notin Bad
<1>1. FiniteSubsetsOf(S) = SUBSET S
  BY FS_FiniteSubsetsOfFinite
<1>2. IsWellFoundedOn(StrictSubsetOrdering(S), SUBSET S)
  BY <1>1, FS_StrictSubsetOrderingWellFounded
<1>3. PICK T \in Bad : \A U \in Bad : <<U, T>> \notin StrictSubsetOrdering(S)
  BY <1>2, WFMin
<1>4. ASSUME NEW U \in SUBSET T, U # T, U \in Bad PROVE FALSE
  BY <1>3, <1>4 DEF StrictSubsetOrdering
<1> QED BY <1>3, <1>4

\* The element that the recursion takes first.
First(s) == CHOOSE x \in s : TRUE

\* The element a sum begins with is one of its set.
LEMMA FirstIn == \A s : s # {} => First(s) \in s
BY DEF First

\* F sums f over each subset of S.
Sums(F, f, S) ==
    F = [s \in SUBSET S |-> IF s = {} THEN 0
                            ELSE f[First(s)] + F[s \ {First(s)}]]

\* Two such functions agree where both are defined.
LEMMA SumsAgree ==
  ASSUME NEW f, NEW A, NEW B, IsFiniteSet(A), NEW F, NEW G,
         Sums(F, f, A), Sums(G, f, B)
  PROVE  \A s \in SUBSET A : s \in SUBSET B => F[s] = G[s]
<1> DEFINE Bad == {s \in SUBSET A : s \in SUBSET B /\ F[s] # G[s]}
<1> SUFFICES ASSUME Bad # {} PROVE FALSE
  OBVIOUS
<1>1. PICK T \in Bad : \A U \in SUBSET T : U # T => U \notin Bad
  <2>1. Bad \in SUBSET SUBSET A
    OBVIOUS
  <2> HIDE DEF Bad
  <2> QED BY <2>1, LeastSubset
<1>2. T # {}
  BY DEF Sums
<1>3. /\ F[T] = f[First(T)] + F[T \ {First(T)}]
      /\ G[T] = f[First(T)] + G[T \ {First(T)}]
  BY <1>2 DEF Sums
<1>4. F[T \ {First(T)}] = G[T \ {First(T)}]
  BY <1>1, <1>2, FirstIn
<1> QED BY <1>3, <1>4

\* There is such a function for every finite set.
LEMMA SumsExist ==
  ASSUME NEW f, NEW S, IsFiniteSet(S)
  PROVE  \E F : Sums(F, f, S)
<1> DEFINE Bad == {s \in SUBSET S : ~ \E F : Sums(F, f, s)}
<1> SUFFICES ASSUME Bad # {} PROVE FALSE
  OBVIOUS
<1>1. PICK T \in Bad : \A U \in SUBSET T : U # T => U \notin Bad
  <2>1. Bad \in SUBSET SUBSET S
    OBVIOUS
  <2> HIDE DEF Bad
  <2> QED BY <2>1, LeastSubset
<1> DEFINE G(s) == CHOOSE F : Sums(F, f, s)
           H == [s \in SUBSET T |->
                   IF s = {} THEN 0
                   ELSE f[First(s)] + G(s \ {First(s)})[s \ {First(s)}]]
<1>2. ASSUME NEW U \in SUBSET T, U # T PROVE Sums(G(U), f, U)
  <2>1. \E F : Sums(F, f, U)
    BY <1>1, <1>2
  <2> QED BY <2>1
<1>3. ASSUME NEW s \in SUBSET T, s # {}
      PROVE  H[s \ {First(s)}] = G(s \ {First(s)})[s \ {First(s)}]
  <2> DEFINE U == s \ {First(s)}
  <2>1. U \in SUBSET T /\ U # T
    BY <1>3, FirstIn
  <2>2. Sums(G(U), f, U)
    BY <1>2, <2>1
  <2>3. CASE U = {}
    BY <2>1, <2>2, <2>3 DEF Sums
  <2>4. CASE U # {}
    <3> DEFINE V == U \ {First(U)}
    <3>1. V \in SUBSET U /\ V \in SUBSET T /\ V # T /\ First(U) \in U
      BY <2>1, <2>4, FirstIn
    <3>2. Sums(G(V), f, V)
      BY <1>2, <3>1
    <3>3. IsFiniteSet(U)
      BY <2>1, FS_Subset
    <3> HIDE DEF G
    <3>4. G(U)[V] = G(V)[V]
      BY <2>2, <3>1, <3>2, <3>3, SumsAgree
    <3>5. G(U)[U] = f[First(U)] + G(U)[V]
      BY <2>2, <2>4 DEF Sums
    <3>6. H[U] = f[First(U)] + G(V)[V]
      BY <2>1, <2>4
    <3> QED BY <3>4, <3>5, <3>6
  <2> QED BY <2>3, <2>4
<1>4. Sums(H, f, T)
  <2> HIDE DEF G
  <2> QED BY <1>3 DEF Sums
<1> QED BY <1>4

\* The sum of f over S is what every such function has for S.
LEMMA SumIs ==
  ASSUME NEW f, NEW S, IsFiniteSet(S), NEW A \in SUBSET S, NEW F, Sums(F, f, S)
  PROVE  SumFunctionOnSet(f, A) = F[A]
<1> DEFINE G == CHOOSE H : Sums(H, f, A)
<1>1. IsFiniteSet(A)
  BY FS_Subset
<1>2. Sums(G, f, A)
  BY <1>1, SumsExist
<1>3. SumFunctionOnSet(f, A) = G[A]
  BY DEF SumFunctionOnSet, FoldFunctionOnSet, MapThenFoldSet, Sums, First
<1> HIDE DEF G
<1> QED BY <1>1, <1>2, <1>3, SumsAgree

-----------------------------------------------------------------------------
(* What the users of sums need                                             *)

\* Nothing adds up to nothing.
THEOREM SumEmpty == \A f : SumFunctionOnSet(f, {}) = 0
<1> TAKE f
<1>1. IsFiniteSet({}) /\ {} \in SUBSET {}
  BY FS_EmptySet
<1>2. PICK F : Sums(F, f, {})
  BY <1>1, SumsExist
<1>3. SumFunctionOnSet(f, {}) = F[{}]
  BY <1>1, <1>2, SumIs
<1> QED BY <1>2, <1>3 DEF Sums

\* The sum depends on what f is on S, and on nothing else.
THEOREM SumEqual ==
  ASSUME NEW S, IsFiniteSet(S), NEW f, NEW g, \A x \in S : f[x] = g[x]
  PROVE  SumFunctionOnSet(f, S) = SumFunctionOnSet(g, S)
<1>1. PICK F : Sums(F, f, S)
  BY SumsExist
<1>2. Sums(F, g, S)
  <2>1. \A s \in SUBSET S : s # {} => f[First(s)] = g[First(s)]
    BY FirstIn
  <2> QED BY <1>1, <2>1 DEF Sums
<1>3. SumFunctionOnSet(f, S) = F[S] /\ SumFunctionOnSet(g, S) = F[S]
  BY <1>1, <1>2, SumIs
<1> QED BY <1>3

\* A sum of integers is an integer, and any element may be taken first.
THEOREM SumTake ==
  ASSUME NEW S, IsFiniteSet(S), NEW f, \A x \in S : f[x] \in Int
  PROVE  /\ SumFunctionOnSet(f, S) \in Int
         /\ \A x \in S : SumFunctionOnSet(f, S) =
                           f[x] + SumFunctionOnSet(f, S \ {x})
<1>1. PICK F : Sums(F, f, S)
  BY SumsExist
<1>2. \A T \in SUBSET S : T # {} => F[T] = f[First(T)] + F[T \ {First(T)}]
  BY <1>1 DEF Sums
<1>3. F[{}] = 0
  BY <1>1 DEF Sums
<1>4. \A T \in SUBSET S : F[T] \in Int
  <2> DEFINE Bad == {T \in SUBSET S : F[T] \notin Int}
  <2> SUFFICES ASSUME Bad # {} PROVE FALSE
    OBVIOUS
  <2>1. PICK T \in Bad : \A U \in SUBSET T : U # T => U \notin Bad
    <3>1. Bad \in SUBSET SUBSET S
      OBVIOUS
    <3> HIDE DEF Bad
    <3> QED BY <3>1, LeastSubset
  <2>2. T # {}
    BY <1>3
  <2>3. /\ First(T) \in T /\ T \ {First(T)} \in SUBSET T
        /\ T \ {First(T)} # T
    BY <2>2, FirstIn
  <2>4. F[T \ {First(T)}] \in Int /\ f[First(T)] \in Int
    BY <2>1, <2>3
  <2>5. F[T] \in Int
    <3>1. F[T] = f[First(T)] + F[T \ {First(T)}]
      BY <1>2, <2>2
    <3> QED BY <2>4, <3>1
  <2> QED BY <2>5
<1>5. \A T \in SUBSET S : \A x \in T : F[T] = f[x] + F[T \ {x}]
  <2> DEFINE Bad == {T \in SUBSET S : \E x \in T : F[T] # f[x] + F[T \ {x}]}
  <2> SUFFICES ASSUME Bad # {} PROVE FALSE
    OBVIOUS
  <2>1. PICK T \in Bad : \A U \in SUBSET T : U # T => U \notin Bad
    <3>1. Bad \in SUBSET SUBSET S
      OBVIOUS
    <3> HIDE DEF Bad
    <3> QED BY <3>1, LeastSubset
  <2>2. PICK x \in T : F[T] # f[x] + F[T \ {x}]
    OBVIOUS
  <2> DEFINE c == First(T)
  <2>3. c \in T /\ F[T] = f[c] + F[T \ {c}]
    BY <1>2, <2>2, FirstIn
  <2>4. c # x
    BY <2>2, <2>3
  <2>5. F[T \ {c}] = f[x] + F[(T \ {c}) \ {x}]
    <3>1. T \ {c} \in SUBSET T /\ T \ {c} # T /\ x \in T \ {c}
      BY <2>2, <2>3, <2>4
    <3> HIDE DEF c
    <3> QED BY <2>1, <3>1
  <2>6. F[T \ {x}] = f[c] + F[(T \ {x}) \ {c}]
    <3>1. T \ {x} \in SUBSET T /\ T \ {x} # T /\ c \in T \ {x}
      BY <2>2, <2>3, <2>4
    <3> HIDE DEF c
    <3> QED BY <2>1, <3>1
  <2>7. (T \ {c}) \ {x} = (T \ {x}) \ {c}
    OBVIOUS
  <2>8. f[c] \in Int /\ f[x] \in Int /\ F[(T \ {c}) \ {x}] \in Int
    BY <1>4, <2>2, <2>3
  <2> HIDE DEF c
  <2>9. F[T \ {x}] = f[c] + F[(T \ {c}) \ {x}]
    BY <2>6, <2>7
  <2> QED BY <2>2, <2>3, <2>5, <2>8, <2>9
<1>6. \A T \in SUBSET S : SumFunctionOnSet(f, T) = F[T]
  BY <1>1, SumIs
<1> QED BY <1>4, <1>5, <1>6

\* Zeroes add up to zero.
THEOREM SumZero ==
  ASSUME NEW S, IsFiniteSet(S), NEW f, \A x \in S : f[x] = 0
  PROVE  SumFunctionOnSet(f, S) = 0
<1> DEFINE Bad == {T \in SUBSET S : SumFunctionOnSet(f, T) # 0}
<1> SUFFICES ASSUME Bad # {} PROVE FALSE
  OBVIOUS
<1>1. PICK T \in Bad : \A U \in SUBSET T : U # T => U \notin Bad
  <2>1. Bad \in SUBSET SUBSET S
    OBVIOUS
  <2> HIDE DEF Bad
  <2> QED BY <2>1, LeastSubset
<1>2. PICK x \in T : TRUE
  BY SumEmpty
<1>3. T \in SUBSET S /\ IsFiniteSet(T) /\ \A y \in T : f[y] \in Int
  BY FS_Subset
<1>4. SumFunctionOnSet(f, T) = f[x] + SumFunctionOnSet(f, T \ {x})
  BY <1>3, SumTake
<1>5. SumFunctionOnSet(f, T \ {x}) = 0 /\ f[x] = 0
  BY <1>1, <1>3
<1> QED BY <1>4, <1>5

\* Only the elements with another value than zero count.
THEOREM SumSupport ==
  ASSUME NEW S, IsFiniteSet(S), NEW A \in SUBSET S, NEW f,
         \A x \in S : f[x] \in Int, \A x \in S \ A : f[x] = 0
  PROVE  SumFunctionOnSet(f, S) = SumFunctionOnSet(f, A)
<1> DEFINE Bad == {T \in SUBSET S : A \subseteq T /\
                     SumFunctionOnSet(f, T) # SumFunctionOnSet(f, A)}
<1> SUFFICES ASSUME Bad # {} PROVE FALSE
  OBVIOUS
<1>1. PICK T \in Bad : \A U \in SUBSET T : U # T => U \notin Bad
  <2>1. Bad \in SUBSET SUBSET S
    OBVIOUS
  <2> HIDE DEF Bad
  <2> QED BY <2>1, LeastSubset
<1>2. PICK x \in T \ A : TRUE
  OBVIOUS
<1>3. IsFiniteSet(T) /\ IsFiniteSet(T \ {x}) /\ \A y \in T : f[y] \in Int
  BY FS_Subset
<1>4. SumFunctionOnSet(f, T) = 0 + SumFunctionOnSet(f, T \ {x})
  BY <1>2, <1>3, SumTake
<1>5. SumFunctionOnSet(f, T \ {x}) \in Int
  BY <1>3, SumTake
<1>6. SumFunctionOnSet(f, T) = SumFunctionOnSet(f, T \ {x})
  BY <1>4, <1>5
<1>7. T \ {x} \in SUBSET T /\ T \ {x} # T /\ A \subseteq T \ {x}
  BY <1>2
<1>8. T \ {x} \notin Bad
  BY <1>1, <1>7
<1> QED BY <1>6, <1>7, <1>8

\* One more element adds its value.
THEOREM SumAdd ==
  ASSUME NEW S, IsFiniteSet(S), NEW x, x \notin S, NEW f,
         \A y \in S \cup {x} : f[y] \in Int
  PROVE  SumFunctionOnSet(f, S \cup {x}) = f[x] + SumFunctionOnSet(f, S)
<1>1. IsFiniteSet(S \cup {x})
  BY FS_AddElement
<1>2. (S \cup {x}) \ {x} = S
  OBVIOUS
<1> QED BY <1>1, <1>2, SumTake

\* When the value of one element changes, the sum changes by as much.
THEOREM SumChange ==
  ASSUME NEW S, IsFiniteSet(S), NEW x \in S, NEW f, NEW g,
         \A y \in S : f[y] \in Int /\ g[y] \in Int,
         \A y \in S \ {x} : f[y] = g[y]
  PROVE  SumFunctionOnSet(g, S) = SumFunctionOnSet(f, S) + (g[x] - f[x])
<1> DEFINE rest == S \ {x}
<1>1. IsFiniteSet(rest)
  BY FS_RemoveElement
<1>2. SumFunctionOnSet(f, rest) = SumFunctionOnSet(g, rest)
  BY <1>1, SumEqual
<1>3. SumFunctionOnSet(f, rest) \in Int
  BY <1>1, SumTake
<1>4. /\ SumFunctionOnSet(f, S) = f[x] + SumFunctionOnSet(f, rest)
      /\ SumFunctionOnSet(g, S) = g[x] + SumFunctionOnSet(g, rest)
  BY SumTake
<1> HIDE DEF rest
<1> QED BY <1>2, <1>3, <1>4

\* Values that are not negative add up to as much as any one of them at least.
THEOREM SumNatural ==
  ASSUME NEW S, IsFiniteSet(S), NEW f, \A x \in S : f[x] \in Nat
  PROVE  /\ SumFunctionOnSet(f, S) \in Nat
         /\ \A x \in S : f[x] <= SumFunctionOnSet(f, S)
<1> DEFINE Bad == {T \in SUBSET S : SumFunctionOnSet(f, T) \notin Nat}
<1>1. \A T \in SUBSET S : \A x \in T :
         SumFunctionOnSet(f, T) = f[x] + SumFunctionOnSet(f, T \ {x})
  <2> SUFFICES ASSUME NEW T \in SUBSET S
               PROVE  \A x \in T : SumFunctionOnSet(f, T) =
                                     f[x] + SumFunctionOnSet(f, T \ {x})
    OBVIOUS
  <2>1. IsFiniteSet(T) /\ \A x \in T : f[x] \in Int
    BY FS_Subset
  <2> QED BY <2>1, SumTake
<1>2. Bad = {}
  <2> SUFFICES ASSUME Bad # {} PROVE FALSE
    OBVIOUS
  <2>1. PICK T \in Bad : \A U \in SUBSET T : U # T => U \notin Bad
    <3>1. Bad \in SUBSET SUBSET S
      OBVIOUS
    <3> HIDE DEF Bad
    <3> QED BY <3>1, LeastSubset
  <2>2. T # {}
    BY SumEmpty
  <2>3. PICK x \in T : TRUE
    BY <2>2
  <2>4. SumFunctionOnSet(f, T) = f[x] + SumFunctionOnSet(f, T \ {x})
    BY <1>1
  <2>5. T \ {x} \in SUBSET T /\ T \ {x} # T
    BY <2>3
  <2>6. SumFunctionOnSet(f, T \ {x}) \in Nat
    BY <2>1, <2>5
  <2>7. f[x] \in Nat
    BY <2>3
  <2> QED BY <2>4, <2>6, <2>7
<1>3. ASSUME NEW x \in S PROVE f[x] <= SumFunctionOnSet(f, S)
  <2>1. SumFunctionOnSet(f, S \ {x}) \in Nat
    BY <1>2
  <2>2. SumFunctionOnSet(f, S) = f[x] + SumFunctionOnSet(f, S \ {x})
    BY <1>1
  <2> QED BY <2>1, <2>2
<1> QED BY <1>2, <1>3

\* What is at most a multiple of something, one by one, is so in sum.
THEOREM SumAtMost ==
  ASSUME NEW S, IsFiniteSet(S), NEW c \in Int, NEW f, NEW g,
         \A x \in S : f[x] \in Int /\ g[x] \in Int /\ f[x] <= c * g[x]
  PROVE  SumFunctionOnSet(f, S) <= c * SumFunctionOnSet(g, S)
<1> DEFINE Bad == {T \in SUBSET S : ~(SumFunctionOnSet(f, T) <= c * SumFunctionOnSet(g, T))}
<1> SUFFICES ASSUME Bad # {} PROVE FALSE
  OBVIOUS
<1>1. PICK T \in Bad : \A U \in SUBSET T : U # T => U \notin Bad
  <2>1. Bad \in SUBSET SUBSET S
    OBVIOUS
  <2> HIDE DEF Bad
  <2> QED BY <2>1, LeastSubset
<1>2. T # {}
  <2> SUFFICES ASSUME T = {} PROVE FALSE
    OBVIOUS
  <2>1. SumFunctionOnSet(f, T) = 0 /\ SumFunctionOnSet(g, T) = 0
    BY SumEmpty
  <2> QED BY <2>1
<1>3. PICK x \in T : TRUE
  BY <1>2
<1>4. /\ T \ {x} \in SUBSET T /\ T \ {x} # T /\ T \ {x} \in SUBSET S
      /\ IsFiniteSet(T) /\ IsFiniteSet(T \ {x})
  BY <1>3, FS_Subset
<1>5. \A y \in T : f[y] \in Int /\ g[y] \in Int
  OBVIOUS
<1>6. PICK a, b, m, n : /\ a = SumFunctionOnSet(f, T \ {x}) /\ m = SumFunctionOnSet(f, T)
                        /\ b = SumFunctionOnSet(g, T \ {x}) /\ n = SumFunctionOnSet(g, T)
  OBVIOUS
<1>7. /\ a \in Int /\ b \in Int /\ m = f[x] + a /\ n = g[x] + b
  BY <1>3, <1>4, <1>5, <1>6, SumTake
<1>8. a <= c * b /\ ~(m <= c * n)
  BY <1>1, <1>4, <1>6
<1>9. PICK u \in Int, v \in Int : u = f[x] /\ v = g[x] /\ u <= c * v
  BY <1>3
<1>10. c * (v + b) = c * v + c * b
  BY <1>7, <1>9
<1>11. c * v \in Int /\ c * b \in Int /\ c * n = c * v + c * b
  BY <1>7, <1>9, <1>10
<1> QED BY <1>7, <1>8, <1>9, <1>11

\* Sums over two sets without a common element add up.
THEOREM SumUnion ==
  ASSUME NEW S, IsFiniteSet(S), NEW A, IsFiniteSet(A), S \cap A = {}, NEW f,
         \A y \in S \cup A : f[y] \in Int
  PROVE  SumFunctionOnSet(f, S \cup A) = SumFunctionOnSet(f, S) + SumFunctionOnSet(f, A)
<1> DEFINE Bad == {T \in SUBSET A : SumFunctionOnSet(f, S \cup T) #
                                      SumFunctionOnSet(f, S) + SumFunctionOnSet(f, T)}
<1> SUFFICES ASSUME Bad # {} PROVE FALSE
  OBVIOUS
<1>1. PICK T \in Bad : \A U \in SUBSET T : U # T => U \notin Bad
  <2>1. Bad \in SUBSET SUBSET A
    OBVIOUS
  <2> HIDE DEF Bad
  <2> QED BY <2>1, LeastSubset
<1>2. T # {}
  <2>1. SumFunctionOnSet(f, S) \in Int
    BY SumTake
  <2>2. S \cup {} = S /\ SumFunctionOnSet(f, {}) = 0
    BY SumEmpty
  <2>3. SumFunctionOnSet(f, S \cup {}) = SumFunctionOnSet(f, S) + SumFunctionOnSet(f, {})
    BY <2>1, <2>2
  <2>4. {} \notin Bad
    BY <2>3
  <2> QED BY <2>4
<1>3. PICK x \in T : TRUE
  BY <1>2
<1>4. /\ IsFiniteSet(T) /\ IsFiniteSet(S \cup T) /\ x \in S \cup T
      /\ (S \cup T) \ {x} = S \cup (T \ {x})
      /\ \A y \in S \cup T : f[y] \in Int
  BY FS_Subset, FS_Union
<1>5. /\ SumFunctionOnSet(f, T) = f[x] + SumFunctionOnSet(f, T \ {x})
      /\ SumFunctionOnSet(f, S \cup T) = f[x] + SumFunctionOnSet(f, S \cup (T \ {x}))
  BY <1>4, SumTake
<1>6. SumFunctionOnSet(f, S \cup (T \ {x})) =
        SumFunctionOnSet(f, S) + SumFunctionOnSet(f, T \ {x})
  BY <1>1
<1>7. /\ f[x] \in Int /\ SumFunctionOnSet(f, S) \in Int
      /\ SumFunctionOnSet(f, T \ {x}) \in Int
  <2>1. IsFiniteSet(T \ {x})
    BY <1>4, FS_Subset
  <2> QED BY <1>4, <2>1, SumTake
<1> QED BY <1>5, <1>6, <1>7

=============================================================================
