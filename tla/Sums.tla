-------------------------------- MODULE Sums --------------------------------
(***************************************************************************)
(* Sums over finite sets, SumFunctionOnSet(f, S) of the community module   *)
(* Functions: what a stock balance, a reserve and the total of a batch are *)
(* made of.                                                                *)
(*                                                                         *)
(* The library's induction theorems take the property as an operator; the  *)
(* argument here is about sets alone.  Strict inclusion is well founded on *)
(* the subsets of a finite set, so among the subsets that lack a property  *)
(* there is a smallest one.  That gives first that the recursion behind    *)
(* the sum has one solution, then each of its laws.                        *)
(***************************************************************************)
EXTENDS Integers, FiniteSets, Functions, FiniteSetTheorems, WellFoundedInduction, TLAPS

(* The element the recursion takes off a set first, and the recursion.     *)
Pick(s) == CHOOSE x \in s : TRUE

Recursion(g, f, S) ==
  g = [s \in SUBSET S |-> IF s = {} THEN 0 ELSE f[Pick(s)] + g[s \ {Pick(s)}]]

(* The library defines a sum by a CHOOSE of the function that solves it.   *)
LEMMA SumIsChosen ==
  ASSUME NEW f, NEW S
  PROVE  SumFunctionOnSet(f, S) = (CHOOSE g : Recursion(g, f, S))[S]
BY Zenon DEF SumFunctionOnSet, FoldFunctionOnSet, MapThenFoldSet, Recursion, Pick

(* Among some subsets of a finite set there is one no other is inside of.  *)
LEMMA MinimalSubset ==
  ASSUME NEW S, IsFiniteSet(S), NEW X \in SUBSET (SUBSET S), X # {}
  PROVE  \E T \in X : \A U \in X : U \subseteq T => U = T
<1>1. IsWellFoundedOn(StrictSubsetOrdering(S), SUBSET S)
  BY FS_StrictSubsetOrderingWellFounded, FS_FiniteSubsetsOfFinite
<1>2. PICK T \in X : \A U \in X : ~(<<U, T>> \in StrictSubsetOrdering(S))
  BY <1>1, WFMin
<1>3. QED
  BY <1>2 DEF StrictSubsetOrdering

(* Two solutions agree wherever both are defined, whatever set each was    *)
(* made for.                                                               *)
LEMMA RecursionUnique ==
  ASSUME NEW f, NEW S, NEW T, IsFiniteSet(S), NEW g, NEW h,
         Recursion(g, f, S), Recursion(h, f, T), NEW U, U \subseteq S, U \subseteq T
  PROVE  g[U] = h[U]
<1> DEFINE X == {V \in SUBSET U : g[V] # h[V]}
<1>1. ASSUME X # {} PROVE FALSE
  <2>1. IsFiniteSet(U)
    BY FS_Subset
  <2> X \in SUBSET (SUBSET U)
    OBVIOUS
  <2>2. PICK V \in X : \A W \in X : W \subseteq V => W = V
    <3> HIDE DEF X
    <3>1. QED
      BY <1>1, <2>1, MinimalSubset
  <2>3. V \subseteq S /\ V \subseteq T /\ V \subseteq U
    OBVIOUS
  <2>4. CASE V = {}
    BY <2>3, <2>4 DEF Recursion
  <2>5. CASE V # {}
    <3> DEFINE x == Pick(V)
    <3>1. x \in V
      BY <2>5 DEF Pick
    <3> HIDE DEF x
    <3>2. V \ {x} \in SUBSET U /\ V \ {x} # V
      BY <3>1
    <3>3. g[V \ {x}] = h[V \ {x}]
      BY <2>2, <3>2
    <3>4. g[V] = f[x] + g[V \ {x}] /\ h[V] = f[x] + h[V \ {x}]
      BY <2>3, <2>5 DEF Recursion, x
    <3>5. QED
      BY <3>3, <3>4
  <2>6. QED
    BY <2>4, <2>5
<1>2. QED
  BY <1>1

(* Where there is a solution, the sum is a value of one.                   *)
LEMMA RecursionSolved ==
  ASSUME NEW f, NEW T, \E g : Recursion(g, f, T)
  PROVE  \E g : Recursion(g, f, T) /\ SumFunctionOnSet(f, T) = g[T]
<1>1. Recursion(CHOOSE g : Recursion(g, f, T), f, T)
  OBVIOUS
<1>2. QED
  BY <1>1, SumIsChosen

(* There always is one: a smallest subset without could be given one, from *)
(* the sums of its own subsets.                                            *)
LEMMA RecursionExists ==
  ASSUME NEW f, NEW S, IsFiniteSet(S)
  PROVE  \E g : Recursion(g, f, S)
<1> DEFINE V(s) == SumFunctionOnSet(f, s)
           X == {T \in SUBSET S : ~\E g : Recursion(g, f, T)}
<1>1. SUFFICES ASSUME X # {} PROVE FALSE
  OBVIOUS
<1>2. X \in SUBSET (SUBSET S)
  OBVIOUS
<1>3. PICK T \in X : \A U \in X : U \subseteq T => U = T
  <2> HIDE DEF X
  <2>1. QED
    BY <1>1, <1>2, MinimalSubset
<1>4. T \subseteq S /\ IsFiniteSet(T) /\ ~\E g : Recursion(g, f, T)
  BY FS_Subset
<1>5. ASSUME NEW U, U \subseteq T, U # T
      PROVE  \E g : Recursion(g, f, U)
  BY <1>3, <1>4, <1>5
<1> HIDE DEF X
<1>6. ASSUME NEW U, U \subseteq T, U # T
      PROVE  V(U) = IF U = {} THEN 0 ELSE f[Pick(U)] + V(U \ {Pick(U)})
  <2>1. PICK g : Recursion(g, f, U) /\ V(U) = g[U]
    BY <1>5, <1>6, RecursionSolved
  <2>2. CASE U = {}
    BY <2>1, <2>2 DEF Recursion
  <2>3. CASE U # {}
    <3> DEFINE x == Pick(U)
    <3>1. x \in U
      BY <2>3 DEF Pick
    <3>2. V(U) = f[x] + g[U \ {x}]
      BY <2>1, <2>3 DEF Recursion
    <3> HIDE DEF x, V
    <3>3. U \ {x} \subseteq T /\ U \ {x} # T
      BY <1>6
    <3>4. PICK h : Recursion(h, f, U \ {x}) /\ V(U \ {x}) = h[U \ {x}]
      BY <1>5, <3>3, RecursionSolved DEF V
    <3>5. IsFiniteSet(U)
      BY <1>4, <1>6, FS_Subset
    <3>6. g[U \ {x}] = h[U \ {x}]
      BY <2>1, <3>4, <3>5, RecursionUnique
    <3>7. QED
      BY <2>3, <3>2, <3>4, <3>6 DEF x
  <2>4. QED
    BY <2>2, <2>3
<1> DEFINE last == IF T = {} THEN 0 ELSE f[Pick(T)] + V(T \ {Pick(T)})
           G == [s \in SUBSET T |-> IF s = T THEN last ELSE V(s)]
<1>7. ASSUME NEW s \in SUBSET T
      PROVE  G[s] = IF s = {} THEN 0 ELSE f[Pick(s)] + G[s \ {Pick(s)}]
  <2> HIDE DEF V
  <2>1. CASE s = {}
    BY <1>6, <2>1
  <2>2. CASE s # {}
    <3>1. Pick(s) \in s
      BY <2>2 DEF Pick
    <3>2. s \ {Pick(s)} \in SUBSET T /\ s \ {Pick(s)} # T
      BY <3>1
    <3>3. G[s \ {Pick(s)}] = V(s \ {Pick(s)})
      BY <3>2
    <3>4. QED
      BY <1>6, <2>2, <3>3
  <2>3. QED
    BY <2>1, <2>2
<1>8. Recursion(G, f, T)
  <2> G = [s \in SUBSET T |-> G[s]]
    OBVIOUS
  <2> HIDE DEF G
  <2> QED
    BY <1>7 DEF Recursion
<1>9. QED
  BY <1>4, <1>8

-----------------------------------------------------------------------------
(* Induction over the subsets of a finite set, with the property given as  *)
(* the set of the subsets that have it: what holds of nothing, and of a set*)
(* once it holds of the set less any one element, holds of the whole set.  *)
LEMMA SubsetInduction ==
  ASSUME NEW S, IsFiniteSet(S), NEW Good \in SUBSET (SUBSET S), {} \in Good,
         \A T \in SUBSET S :
             T # {} /\ (\A x \in T : T \ {x} \in Good) => T \in Good
  PROVE  S \in Good
<1> DEFINE X == (SUBSET S) \ Good
<1>1. SUFFICES ASSUME X # {} PROVE FALSE
  OBVIOUS
<1>2. X \in SUBSET (SUBSET S)
  OBVIOUS
<1>3. PICK T \in X : \A U \in X : U \subseteq T => U = T
  <2> HIDE DEF X
  <2>1. QED
    BY <1>1, <1>2, MinimalSubset
<1>4. \A x \in T : T \ {x} \in Good
  BY <1>3
<1>5. QED
  BY <1>3, <1>4

(* Nothing adds up to zero.                                                *)
LEMMA SumEmpty ==
  ASSUME NEW f
  PROVE  SumFunctionOnSet(f, {}) = 0
<1>1. IsFiniteSet({})
  BY FS_EmptySet
<1>2. PICK g : Recursion(g, f, {}) /\ SumFunctionOnSet(f, {}) = g[{}]
  BY <1>1, RecursionExists, RecursionSolved
<1>3. QED
  BY <1>2 DEF Recursion

(* One element of the set, the same for every function, is taken off first.*)
LEMMA SumPick ==
  ASSUME NEW f, NEW S, IsFiniteSet(S), S # {}
  PROVE  /\ Pick(S) \in S
         /\ SumFunctionOnSet(f, S) = f[Pick(S)] + SumFunctionOnSet(f, S \ {Pick(S)})
<1> DEFINE x == Pick(S)
<1>1. x \in S
  BY DEF Pick
<1>2. PICK g : Recursion(g, f, S) /\ SumFunctionOnSet(f, S) = g[S]
  BY RecursionExists, RecursionSolved
<1>3. g[S] = f[x] + g[S \ {x}]
  BY <1>2 DEF Recursion
<1> HIDE DEF x
<1>4. IsFiniteSet(S \ {x})
  BY FS_RemoveElement
<1>5. PICK h : Recursion(h, f, S \ {x}) /\ SumFunctionOnSet(f, S \ {x}) = h[S \ {x}]
  BY <1>4, RecursionExists, RecursionSolved
<1>6. g[S \ {x}] = h[S \ {x}]
  BY <1>2, <1>5, RecursionUnique
<1>7. QED
  BY <1>1, <1>2, <1>3, <1>5, <1>6 DEF x

(* The same, without saying which element.                                 *)
LEMMA SumStep ==
  ASSUME NEW f, NEW S, IsFiniteSet(S), S # {}
  PROVE  \E x \in S : SumFunctionOnSet(f, S) = f[x] + SumFunctionOnSet(f, S \ {x})
BY SumPick

(* A sum of integers is an integer.                                        *)
LEMMA SumInt ==
  ASSUME NEW f, NEW S, IsFiniteSet(S), \A x \in S : f[x] \in Int
  PROVE  SumFunctionOnSet(f, S) \in Int
<1> DEFINE Good == {T \in SUBSET S : SumFunctionOnSet(f, T) \in Int}
<1>1. {} \in Good
  BY SumEmpty
<1>2. ASSUME NEW T \in SUBSET S, T # {}, \A x \in T : T \ {x} \in Good
      PROVE  T \in Good
  <2>1. IsFiniteSet(T)
    BY FS_Subset
  <2>2. PICK x \in T : SumFunctionOnSet(f, T) = f[x] + SumFunctionOnSet(f, T \ {x})
    BY <1>2, <2>1, SumStep
  <2>3. QED
    BY <1>2, <2>2
<1>3. Good \in SUBSET (SUBSET S)
  OBVIOUS
<1> HIDE DEF Good
<1>4. S \in Good
  BY <1>1, <1>2, <1>3, SubsetInduction
<1>5. QED
  BY <1>4 DEF Good

(* Whichever element is taken off first, the sum is the same: addition     *)
(* forgets the order.                                                      *)
LEMMA SumRemove ==
  ASSUME NEW f, NEW S, IsFiniteSet(S), \A x \in S : f[x] \in Int, NEW x \in S
  PROVE  SumFunctionOnSet(f, S) = f[x] + SumFunctionOnSet(f, S \ {x})
<1> DEFINE V(T) == SumFunctionOnSet(f, T)
           Good == {T \in SUBSET S : \A y \in T : V(T) = f[y] + V(T \ {y})}
<1>0. ASSUME NEW T \in SUBSET S PROVE V(T) \in Int /\ IsFiniteSet(T)
  BY FS_Subset, SumInt
<1>1. {} \in Good
  OBVIOUS
<1>2. ASSUME NEW T \in SUBSET S, T # {}, \A z \in T : T \ {z} \in Good
      PROVE  T \in Good
  <2> SUFFICES ASSUME NEW y \in T PROVE V(T) = f[y] + V(T \ {y})
    OBVIOUS
  <2>1. PICK p \in T : V(T) = f[p] + V(T \ {p})
    BY <1>0, <1>2, SumStep
  <2>2. CASE y = p
    BY <2>1, <2>2
  <2>3. CASE y # p
    <3> DEFINE R == (T \ {p}) \ {y}
    <3>1. V(T \ {p}) = f[y] + V(R)
      BY <1>2, <2>3
    <3>2. (T \ {y}) \ {p} = R
      OBVIOUS
    <3>3. V(T \ {y}) = f[p] + V(R)
      BY <1>2, <2>3, <3>2
    <3>4. f[y] \in Int /\ f[p] \in Int /\ V(R) \in Int
      BY <1>0
    <3> HIDE DEF V, R
    <3>5. QED
      BY <2>1, <3>1, <3>3, <3>4
  <2>4. QED
    BY <2>2, <2>3
<1>3. Good \in SUBSET (SUBSET S)
  OBVIOUS
<1> HIDE DEF Good
<1>4. S \in Good
  BY <1>1, <1>2, <1>3, SubsetInduction
<1>5. QED
  BY <1>4 DEF Good

(* A new element adds its own value.                                       *)
LEMMA SumAdd ==
  ASSUME NEW f, NEW S, IsFiniteSet(S), NEW x, x \notin S,
         \A y \in S \cup {x} : f[y] \in Int
  PROVE  SumFunctionOnSet(f, S \cup {x}) = f[x] + SumFunctionOnSet(f, S)
<1>1. IsFiniteSet(S \cup {x})
  BY FS_AddElement
<1>2. (S \cup {x}) \ {x} = S
  OBVIOUS
<1>3. QED
  BY <1>1, <1>2, SumRemove

(* One element adds up to itself.                                          *)
LEMMA SumSingleton ==
  ASSUME NEW f, NEW x, f[x] \in Int
  PROVE  SumFunctionOnSet(f, {x}) = f[x]
<1>1. IsFiniteSet({}) /\ {} \cup {x} = {x}
  BY FS_EmptySet
<1>2. QED
  BY <1>1, SumAdd, SumEmpty

(* A sum depends on the values over its set and on nothing else.           *)
LEMMA SumSame ==
  ASSUME NEW f, NEW g, NEW S, IsFiniteSet(S), \A x \in S : f[x] = g[x]
  PROVE  SumFunctionOnSet(f, S) = SumFunctionOnSet(g, S)
<1> DEFINE Good == {T \in SUBSET S : SumFunctionOnSet(f, T) = SumFunctionOnSet(g, T)}
<1>1. {} \in Good
  BY SumEmpty
<1>2. ASSUME NEW T \in SUBSET S, T # {}, \A x \in T : T \ {x} \in Good
      PROVE  T \in Good
  <2>1. IsFiniteSet(T)
    BY FS_Subset
  <2> DEFINE x == Pick(T)
  <2>2. /\ x \in T
        /\ SumFunctionOnSet(f, T) = f[x] + SumFunctionOnSet(f, T \ {x})
        /\ SumFunctionOnSet(g, T) = g[x] + SumFunctionOnSet(g, T \ {x})
    BY <1>2, <2>1, SumPick
  <2> HIDE DEF x
  <2>3. QED
    BY <1>2, <2>2
<1>3. Good \in SUBSET (SUBSET S)
  OBVIOUS
<1> HIDE DEF Good
<1>4. S \in Good
  BY <1>1, <1>2, <1>3, SubsetInduction
<1>5. QED
  BY <1>4 DEF Good

(* Two sets that share nothing add up apart.                               *)
LEMMA SumUnion ==
  ASSUME NEW f, NEW S, NEW R, IsFiniteSet(S), IsFiniteSet(R), S \cap R = {},
         \A x \in S \cup R : f[x] \in Int
  PROVE  SumFunctionOnSet(f, S \cup R) = SumFunctionOnSet(f, S) + SumFunctionOnSet(f, R)
<1> DEFINE V(T) == SumFunctionOnSet(f, T)
           Good == {T \in SUBSET R : V(S \cup T) = V(S) + V(T)}
<1>0. V(S) \in Int
  BY SumInt
<1>1. {} \in Good
  <2>1. S \cup {} = S /\ V({}) = 0
    BY SumEmpty
  <2> HIDE DEF V
  <2>2. QED
    BY <1>0, <2>1
<1>2. ASSUME NEW T \in SUBSET R, T # {}, \A x \in T : T \ {x} \in Good
      PROVE  T \in Good
  <2>1. PICK x : x \in T
    BY <1>2
  <2>2. IsFiniteSet(T) /\ IsFiniteSet(S \cup T)
    BY FS_Subset, FS_Union
  <2>3. (S \cup T) \ {x} = S \cup (T \ {x})
    BY <2>1
  <2>4. V(T) = f[x] + V(T \ {x})
    BY <2>1, <2>2, SumRemove
  <2>5. V(S \cup T) = f[x] + V(S \cup (T \ {x}))
    BY <2>1, <2>2, <2>3, SumRemove
  <2>6. V(S \cup (T \ {x})) = V(S) + V(T \ {x})
    BY <1>2, <2>1
  <2>7. IsFiniteSet(T \ {x})
    BY <2>2, FS_RemoveElement
  <2>8. V(T \ {x}) \in Int /\ f[x] \in Int
    BY <2>1, <2>7, SumInt
  <2> HIDE DEF V
  <2>9. QED
    BY <1>0, <2>4, <2>5, <2>6, <2>8
<1>3. Good \in SUBSET (SUBSET R)
  OBVIOUS
<1> HIDE DEF Good
<1>4. R \in Good
  BY <1>1, <1>2, <1>3, SubsetInduction
<1>5. QED
  BY <1>4 DEF Good

(* A sum grows with its terms.                                             *)
LEMMA SumLeq ==
  ASSUME NEW f, NEW g, NEW S, IsFiniteSet(S),
         \A x \in S : f[x] \in Int /\ g[x] \in Int /\ f[x] <= g[x]
  PROVE  SumFunctionOnSet(f, S) <= SumFunctionOnSet(g, S)
<1> DEFINE V(T) == SumFunctionOnSet(f, T)
           W(T) == SumFunctionOnSet(g, T)
           Good == {T \in SUBSET S : V(T) <= W(T)}
<1>0. ASSUME NEW T \in SUBSET S PROVE IsFiniteSet(T) /\ V(T) \in Int /\ W(T) \in Int
  BY FS_Subset, SumInt
<1>1. {} \in Good
  BY SumEmpty
<1>2. ASSUME NEW T \in SUBSET S, T # {}, \A x \in T : T \ {x} \in Good
      PROVE  T \in Good
  <2>1. PICK x : x \in T
    BY <1>2
  <2>2. V(T) = f[x] + V(T \ {x}) /\ W(T) = g[x] + W(T \ {x})
    BY <1>0, <2>1, SumRemove
  <2>3. V(T \ {x}) <= W(T \ {x}) /\ V(T \ {x}) \in Int /\ W(T \ {x}) \in Int
    BY <1>0, <1>2, <2>1
  <2>4. f[x] \in Int /\ g[x] \in Int /\ f[x] <= g[x]
    BY <2>1
  <2> HIDE DEF V, W
  <2>5. QED
    BY <2>2, <2>3, <2>4
<1>3. Good \in SUBSET (SUBSET S)
  OBVIOUS
<1> HIDE DEF Good
<1>4. S \in Good
  BY <1>1, <1>2, <1>3, SubsetInduction
<1>5. QED
  BY <1>4 DEF Good

(* Zeros add up to zero.                                                   *)
LEMMA SumZero ==
  ASSUME NEW f, NEW S, IsFiniteSet(S), \A x \in S : f[x] = 0
  PROVE  SumFunctionOnSet(f, S) = 0
<1> DEFINE Good == {T \in SUBSET S : SumFunctionOnSet(f, T) = 0}
<1>1. {} \in Good
  BY SumEmpty
<1>2. ASSUME NEW T \in SUBSET S, T # {}, \A x \in T : T \ {x} \in Good
      PROVE  T \in Good
  <2>1. IsFiniteSet(T)
    BY FS_Subset
  <2>2. PICK x \in T : SumFunctionOnSet(f, T) = f[x] + SumFunctionOnSet(f, T \ {x})
    BY <1>2, <2>1, SumStep
  <2>3. QED
    BY <1>2, <2>2
<1>3. Good \in SUBSET (SUBSET S)
  OBVIOUS
<1> HIDE DEF Good
<1>4. S \in Good
  BY <1>1, <1>2, <1>3, SubsetInduction
<1>5. QED
  BY <1>4 DEF Good

(* A sum of naturals is a natural.                                         *)
LEMMA SumNat ==
  ASSUME NEW f, NEW S, IsFiniteSet(S), \A x \in S : f[x] \in Nat
  PROVE  SumFunctionOnSet(f, S) \in Nat
<1> DEFINE zero == [x \in S |-> 0]
<1>1. SumFunctionOnSet(zero, S) = 0
  BY SumZero
<1>2. SumFunctionOnSet(zero, S) <= SumFunctionOnSet(f, S)
  BY SumLeq
<1>3. SumFunctionOnSet(f, S) \in Int
  BY SumInt
<1>4. QED
  BY <1>1, <1>2, <1>3

(* Renaming the elements one to one changes no sum.                        *)
LEMMA SumImage ==
  ASSUME NEW S, IsFiniteSet(S), NEW F, \A x, y \in S : F[x] = F[y] => x = y,
         NEW f, NEW g, \A x \in S : f[x] \in Int /\ g[F[x]] = f[x]
  PROVE  /\ IsFiniteSet({F[x] : x \in S})
         /\ SumFunctionOnSet(g, {F[x] : x \in S}) = SumFunctionOnSet(f, S)
<1> DEFINE Image(T) == {F[x] : x \in T}
           Good == {T \in SUBSET S :
                      /\ IsFiniteSet(Image(T))
                      /\ SumFunctionOnSet(g, Image(T)) = SumFunctionOnSet(f, T)}
<1>1. {} \in Good
  <2>1. Image({}) = {}
    OBVIOUS
  <2>2. QED
    BY <2>1, SumEmpty, FS_EmptySet
<1>2. ASSUME NEW T \in SUBSET S, T # {}, \A x \in T : T \ {x} \in Good
      PROVE  T \in Good
  <2>1. PICK x : x \in T
    BY <1>2
  <2>2. Image(T) = Image(T \ {x}) \cup {F[x]} /\ F[x] \notin Image(T \ {x})
    BY <2>1
  <2>3. /\ IsFiniteSet(Image(T \ {x}))
        /\ SumFunctionOnSet(g, Image(T \ {x})) = SumFunctionOnSet(f, T \ {x})
    BY <1>2, <2>1
  <2>4. \A y \in Image(T \ {x}) \cup {F[x]} : g[y] \in Int
    BY <2>1
  <2> HIDE DEF Image
  <2>a. IsFiniteSet(Image(T \ {x}) \cup {F[x]})
    BY <2>3, FS_AddElement
  <2>5. IsFiniteSet(Image(T))
    BY <2>2, <2>a
  <2>6. SumFunctionOnSet(g, Image(T)) = g[F[x]] + SumFunctionOnSet(g, Image(T \ {x}))
    BY <2>2, <2>3, <2>4, SumAdd
  <2>7. SumFunctionOnSet(f, T) = f[x] + SumFunctionOnSet(f, T \ {x})
    BY <2>1, SumRemove, FS_Subset
  <2>8. QED
    BY <2>1, <2>3, <2>5, <2>6, <2>7
<1>3. Good \in SUBSET (SUBSET S)
  OBVIOUS
<1> HIDE DEF Good
<1>4. S \in Good
  BY <1>1, <1>2, <1>3, SubsetInduction
<1>5. QED
  BY <1>4 DEF Good

(* Turning every sign turns the sum's.                                     *)
LEMMA SumNegated ==
  ASSUME NEW f, NEW g, NEW S, IsFiniteSet(S),
         \A x \in S : f[x] \in Int /\ g[x] = -f[x]
  PROVE  SumFunctionOnSet(g, S) = -SumFunctionOnSet(f, S)
<1> DEFINE V(T) == SumFunctionOnSet(f, T)
           W(T) == SumFunctionOnSet(g, T)
           Good == {T \in SUBSET S : W(T) = -V(T)}
<1>0. ASSUME NEW T \in SUBSET S PROVE IsFiniteSet(T) /\ V(T) \in Int /\ W(T) \in Int
  BY FS_Subset, SumInt
<1>1. {} \in Good
  BY SumEmpty
<1>2. ASSUME NEW T \in SUBSET S, T # {}, \A x \in T : T \ {x} \in Good
      PROVE  T \in Good
  <2>1. PICK x : x \in T
    BY <1>2
  <2>2. V(T) = f[x] + V(T \ {x}) /\ W(T) = g[x] + W(T \ {x})
    BY <1>0, <2>1, SumRemove
  <2>3. W(T \ {x}) = -V(T \ {x}) /\ V(T \ {x}) \in Int
    BY <1>0, <1>2, <2>1
  <2>4. f[x] \in Int /\ g[x] = -f[x]
    BY <2>1
  <2> HIDE DEF V, W
  <2>5. QED
    BY <2>2, <2>3, <2>4
<1>3. Good \in SUBSET (SUBSET S)
  OBVIOUS
<1> HIDE DEF Good
<1>4. S \in Good
  BY <1>1, <1>2, <1>3, SubsetInduction
<1>5. QED
  BY <1>4 DEF Good

(* The image of a finite set under a function is finite, one to one or not.*)
LEMMA ImageFinite ==
  ASSUME NEW S, IsFiniteSet(S), NEW F
  PROVE  IsFiniteSet({F[x] : x \in S})
<1> DEFINE T == {F[x] : x \in S}
           G == [x \in S |-> F[x]]
<1>1. G \in Surjection(S, T)
  BY DEF Surjection
<1>2. QED
  BY <1>1, FS_Surjection
=============================================================================
