---------------------------- MODULE FiniteLemmas ----------------------------
(***************************************************************************)
(* What the proofs need about finite sets: sums over them, and the place   *)
(* of an element in an order on them; and about steps that are counted.    *)
(*                                                                         *)
(* The library's induction on finite sets takes the property as an         *)
(* operator; SetInduction takes it as a set, which the provers can         *)
(* instantiate.  A sum is a recursive function on the subsets; there is    *)
(* one, and it does not depend on which element is taken out first.  What  *)
(* a recursive function on 0 .. n computes has a history likewise.         *)
(***************************************************************************)
EXTENDS FiniteSetTheorems, TLAPS

\* What holds of a subset whenever it holds of all smaller ones holds of all.
LEMMA SetInduction ==
    ASSUME NEW X, IsFiniteSet(X), NEW Good,
           \A T \in SUBSET X : (\A U \in SUBSET T : U # T => U \in Good) => T \in Good
    PROVE  SUBSET X \subseteq Good
<1> DEFINE Bad == (SUBSET X) \ Good
<1> SUFFICES ASSUME Bad # {} PROVE FALSE
  OBVIOUS
<1>1. IsWellFoundedOn(StrictSubsetOrdering(X), SUBSET X)
  <2> HIDE DEF Bad
  <2>1. IsWellFoundedOn(StrictSubsetOrdering(X), FiniteSubsetsOf(X))
    BY FS_StrictSubsetOrderingWellFounded
  <2>2. FiniteSubsetsOf(X) = SUBSET X
    BY FS_FiniteSubsetsOfFinite
  <2> QED
    BY <2>1, <2>2
<1>2. PICK T \in Bad : \A U \in Bad : ~ (<<U, T>> \in StrictSubsetOrdering(X))
  <2> HIDE DEF Bad
  <2>1. Bad \subseteq SUBSET X
    BY DEF Bad
  <2> QED
    BY <1>1, <2>1, WFMin
<1>3. \A U \in SUBSET T : U # T => U \in Good
  BY <1>2 DEF StrictSubsetOrdering
<1> QED
  BY <1>3

-----------------------------------------------------------------------------
(* Sums, as the function the library defines them by.                      *)

\* The element a fold takes out first.
Pick(s) == CHOOSE x \in s : TRUE

\* g gives the sum of f over each subset of X.
Sums(g, f, X) ==
    g = [s \in SUBSET X |-> IF s = {} THEN 0 ELSE f[Pick(s)] + g[s \ {Pick(s)}]]

Total(f, X) == SumFunctionOnSet(f, X)

\* A total is what some such function says of the whole set.
LEMMA TotalIs ==
    ASSUME NEW f, NEW X
    PROVE  Total(f, X) = (CHOOSE g : Sums(g, f, X))[X]
BY DEF Total, SumFunctionOnSet, FoldFunctionOnSet, MapThenFoldSet, Sums, Pick

\* Two such functions agree on a common subset on which the summands agree.
LEMMA SumsAgree ==
    ASSUME NEW X, IsFiniteSet(X), NEW Y, NEW f, NEW e, NEW g, NEW h,
           Sums(g, f, X), Sums(h, e, Y), 
           NEW Z \in SUBSET X, Z \in SUBSET Y, \A x \in Z : e[x] = f[x]
    PROVE  g[Z] = h[Z]
<1> DEFINE Good == {s \in SUBSET Z : g[s] = h[s]}
<1>1. ASSUME NEW T \in SUBSET Z, \A U \in SUBSET T : U # T => U \in Good
      PROVE  T \in Good
  <2>1. T \in SUBSET X /\ T \in SUBSET Y
    OBVIOUS
  <2>2. /\ g[T] = IF T = {} THEN 0 ELSE f[Pick(T)] + g[T \ {Pick(T)}]
        /\ h[T] = IF T = {} THEN 0 ELSE e[Pick(T)] + h[T \ {Pick(T)}]
    BY <2>1 DEF Sums
  <2>3. CASE T = {}
    BY <2>2, <2>3
  <2>4. CASE T # {}
    <3>1. Pick(T) \in T
      BY <2>4 DEF Pick
    <3>2. T \ {Pick(T)} \in SUBSET T /\ T \ {Pick(T)} # T
      BY <3>1
    <3>3. g[T \ {Pick(T)}] = h[T \ {Pick(T)}]
      BY <1>1, <3>2
    <3> QED
      BY <2>2, <2>4, <3>1, <3>3
  <2> QED
    BY <2>3, <2>4
<1>2. IsFiniteSet(Z)
  BY FS_Subset
<1> HIDE DEF Good
<1>3. SUBSET Z \subseteq Good
  BY <1>1, <1>2, SetInduction
<1> QED
  BY <1>3 DEF Good

\* There is one for every finite set, put together from those of its subsets.
LEMMA SumsExist ==
    ASSUME NEW X, IsFiniteSet(X), NEW f
    PROVE  \E g : Sums(g, f, X)
<1> DEFINE Good == {s \in SUBSET X : \E g : Sums(g, f, s)}
<1>1. ASSUME NEW T \in SUBSET X, \A U \in SUBSET T : U # T => U \in Good
      PROVE  \E g : Sums(g, f, T)
  <2> DEFINE of(U) == CHOOSE g : Sums(g, f, U)
             val(s) == IF s = {} THEN 0
                       ELSE f[Pick(s)] + of(s \ {Pick(s)})[s \ {Pick(s)}]
             h == [s \in SUBSET T |-> val(s)]
  <2>1. ASSUME NEW U \in SUBSET T, U # T
        PROVE  Sums(of(U), f, U)
    <3>1. \E g : Sums(g, f, U)
      BY <1>1, <2>1
    <3> QED
      BY <3>1
  <2>2. ASSUME NEW U \in SUBSET T, U # T
        PROVE  h[U] = of(U)[U]
    <3> HIDE DEF of, h
    <3>1. Sums(of(U), f, U)
      BY <2>1, <2>2
    <3>2. h[U] = val(U)
      BY DEF h
    <3>3. CASE U = {}
      BY <3>1, <3>2, <3>3 DEF Sums
    <3>4. CASE U # {}
      <4> DEFINE V == U \ {Pick(U)}
      <4>1. Pick(U) \in U
        BY <3>4 DEF Pick
      <4>2. V \in SUBSET T /\ V # T /\ V \in SUBSET U
        BY <4>1
      <4>3. Sums(of(V), f, V)
        BY <2>1, <4>2
      <4>4. of(U)[U] = f[Pick(U)] + of(U)[V]
        BY <3>1, <3>4 DEF Sums
      <4>5. IsFiniteSet(U)
        BY FS_Subset
      <4> HIDE DEF V
      <4>6. of(U)[V] = of(V)[V]
        BY <3>1, <4>2, <4>3, <4>5, SumsAgree
      <4>7. val(U) = f[Pick(U)] + of(V)[V]
        BY <3>4 DEF V
      <4> HIDE DEF val
      <4> QED
        BY <3>2, <4>4, <4>6, <4>7
    <3> QED
      BY <3>3, <3>4
  <2>3. ASSUME NEW s \in SUBSET T
        PROVE  h[s] = IF s = {} THEN 0 ELSE f[Pick(s)] + h[s \ {Pick(s)}]
    <3>1. CASE s = {}
      BY <3>1
    <3>2. CASE s # {}
      <4>1. Pick(s) \in s
        BY <3>2 DEF Pick
      <4>2. s \ {Pick(s)} \in SUBSET T /\ s \ {Pick(s)} # T
        BY <4>1
      <4>3. h[s] = f[Pick(s)] + of(s \ {Pick(s)})[s \ {Pick(s)}]
        BY <3>2
      <4> HIDE DEF h, of
      <4>4. h[s \ {Pick(s)}] = of(s \ {Pick(s)})[s \ {Pick(s)}]
        BY <2>2, <4>2
      <4> QED
        BY <3>2, <4>3, <4>4
    <3> QED
      BY <3>1, <3>2
  <2>4. DOMAIN h = SUBSET T /\ h = [s \in DOMAIN h |-> h[s]]
    OBVIOUS
  <2> HIDE DEF h
  <2>5. Sums(h, f, T)
    BY <2>3, <2>4 DEF Sums
  <2> QED
    BY <2>5
<1>2. \A T \in SUBSET X : (\A U \in SUBSET T : U # T => U \in Good) => T \in Good
  BY <1>1
<1> HIDE DEF Good
<1>3. X \in Good
  BY <1>2, SetInduction
<1> QED
  BY <1>3 DEF Good

\* A total is a sum in this sense.
LEMMA TotalSums ==
    ASSUME NEW X, IsFiniteSet(X), NEW f
    PROVE  \E g : Sums(g, f, X) /\ Total(f, X) = g[X]
<1>1. Sums(CHOOSE g : Sums(g, f, X), f, X)
  BY SumsExist
<1> QED
  BY <1>1, TotalIs

\* Nothing adds up to nothing.
LEMMA TotalEmpty == ASSUME NEW f PROVE Total(f, {}) = 0
<1>1. PICK g : Sums(g, f, {}) /\ Total(f, {}) = g[{}]
  BY TotalSums, FS_EmptySet
<1> QED
  BY <1>1 DEF Sums

\* A total depends on the summands only.
LEMMA TotalSame ==
    ASSUME NEW X, IsFiniteSet(X), NEW e, NEW f, \A x \in X : e[x] = f[x]
    PROVE  Total(e, X) = Total(f, X)
<1>1. PICK g : Sums(g, f, X) /\ Total(f, X) = g[X]
  BY TotalSums
<1>2. PICK h : Sums(h, e, X) /\ Total(e, X) = h[X]
  BY TotalSums
<1> QED
  BY <1>1, <1>2, SumsAgree

\* The element picked is one summand, the others are the rest.
LEMMA TotalStep ==
    ASSUME NEW X, IsFiniteSet(X), NEW f, X # {}
    PROVE  Total(f, X) = f[Pick(X)] + Total(f, X \ {Pick(X)})
<1> DEFINE Y == X \ {Pick(X)}
<1>1. PICK g : Sums(g, f, X) /\ Total(f, X) = g[X]
  BY TotalSums
<1>2. IsFiniteSet(Y) /\ Y \in SUBSET X
  BY FS_Subset
<1>3. PICK h : Sums(h, f, Y) /\ Total(f, Y) = h[Y]
  BY <1>2, TotalSums
<1>4. Total(f, X) = f[Pick(X)] + g[Y]
  BY <1>1 DEF Sums
<1> HIDE DEF Y
<1>5. g[Y] = h[Y]
  BY <1>1, <1>2, <1>3, SumsAgree
<1> QED
  BY <1>3, <1>4, <1>5 DEF Y

\* Naturals add up to a natural.
LEMMA TotalNat ==
    ASSUME NEW X, IsFiniteSet(X), NEW f, \A x \in X : f[x] \in Nat
    PROVE  Total(f, X) \in Nat
<1> DEFINE Good == {s \in SUBSET X : Total(f, s) \in Nat}
<1>1. ASSUME NEW T \in SUBSET X, \A U \in SUBSET T : U # T => U \in Good
      PROVE  Total(f, T) \in Nat
  <2>1. CASE T = {}
    BY <2>1, TotalEmpty
  <2>2. CASE T # {}
    <3>1. Pick(T) \in T
      BY <2>2 DEF Pick
    <3>2. Total(f, T \ {Pick(T)}) \in Nat
      BY <1>1, <3>1
    <3>3. f[Pick(T)] \in Nat
      BY <3>1
    <3>4. IsFiniteSet(T)
      BY FS_Subset
    <3>5. Total(f, T) = f[Pick(T)] + Total(f, T \ {Pick(T)})
      BY <2>2, <3>4, TotalStep
    <3> QED
      BY <3>2, <3>3, <3>5
  <2> QED
    BY <2>1, <2>2
<1>2. \A T \in SUBSET X : (\A U \in SUBSET T : U # T => U \in Good) => T \in Good
  BY <1>1
<1> HIDE DEF Good
<1>3. X \in Good
  BY <1>2, SetInduction
<1> QED
  BY <1>3 DEF Good

\* Any element may be taken out first.
LEMMA TotalRemove ==
    ASSUME NEW X, IsFiniteSet(X), NEW f, \A x \in X : f[x] \in Nat, NEW y \in X
    PROVE  Total(f, X) = f[y] + Total(f, X \ {y})
<1> DEFINE Good == {s \in SUBSET X : \A z \in s : Total(f, s) = f[z] + Total(f, s \ {z})}
<1>1. ASSUME NEW T \in SUBSET X, \A U \in SUBSET T : U # T => U \in Good, NEW z \in T
      PROVE  Total(f, T) = f[z] + Total(f, T \ {z})
  <2> DEFINE p == Pick(T)
             U == T \ {p}
             V == T \ {z}
             W == (T \ {p}) \ {z}
  <2>1. p \in T
    BY DEF Pick
  <2>2. IsFiniteSet(T) /\ IsFiniteSet(U) /\ IsFiniteSet(V) /\ IsFiniteSet(W)
    BY FS_Subset
  <2>3. Total(f, T) = f[p] + Total(f, U)
    BY <2>2, TotalStep
  <2>4. CASE z = p
    BY <2>3, <2>4
  <2>5. CASE z # p
    <3>1. U \in Good /\ V \in Good
      BY <1>1, <2>1
    <3>2. z \in U /\ p \in V /\ V \ {p} = W /\ U \ {z} = W
      BY <2>1, <2>5
    <3>3. f[z] \in Nat /\ f[p] \in Nat /\ Total(f, W) \in Nat
      BY <2>1, <2>2, TotalNat
    <3> HIDE DEF U, V, W, p
    <3>4. Total(f, U) = f[z] + Total(f, W)
      BY <3>1, <3>2
    <3>5. Total(f, V) = f[p] + Total(f, W)
      BY <3>1, <3>2
    <3>6. Total(f, T) = f[z] + Total(f, V)
      BY <2>3, <3>3, <3>4, <3>5
    <3> QED
      BY <3>6 DEF V
  <2> QED
    BY <2>4, <2>5
<1>2. \A T \in SUBSET X : (\A U \in SUBSET T : U # T => U \in Good) => T \in Good
  BY <1>1
<1> HIDE DEF Good
<1>3. X \in Good
  BY <1>2, SetInduction
<1> QED
  BY <1>3 DEF Good

-----------------------------------------------------------------------------
(* The sum of the values of a function, which is what a total over rows is. *)

\* No summands.
LEMMA SumOfNone ==
    ASSUME NEW f, DOMAIN f = {}
    PROVE  SumFunction(f) = 0
BY TotalEmpty DEF SumFunction, Total

\* One more summand.
LEMMA SumOfMore ==
    ASSUME NEW X, IsFiniteSet(X), NEW y, y \notin X, NEW f \in [X -> Nat],
           NEW g \in [X \cup {y} -> Nat], \A x \in X : g[x] = f[x]
    PROVE  SumFunction(g) = SumFunction(f) + g[y]
<1> DEFINE Y == X \cup {y}
<1>1. IsFiniteSet(Y) /\ Y \ {y} = X /\ y \in Y
  BY FS_AddElement
<1>2. Total(g, Y) = g[y] + Total(g, X)
  <2>1. \A x \in Y : g[x] \in Nat
    OBVIOUS
  <2> HIDE DEF Y
  <2> QED
    BY <1>1, <2>1, TotalRemove
<1>3. Total(g, X) = Total(f, X)
  BY TotalSame
<1>4. Total(f, X) \in Nat /\ g[y] \in Nat
  BY TotalNat
<1> QED
  BY <1>2, <1>3, <1>4 DEF SumFunction, Total

-----------------------------------------------------------------------------
(* Places in an order R, a set of pairs.                                    *)

\* R orders S strictly and totally.
StrictlyOrders(R, S) ==
    /\ \A x \in S : <<x, x>> \notin R
    /\ \A x, y, z \in S : <<x, y>> \in R /\ <<y, z>> \in R => <<x, z>> \in R
    /\ \A x, y \in S : x # y => <<x, y>> \in R \/ <<y, x>> \in R

\* What comes before x.
Ahead(R, S, x) == {y \in S : <<y, x>> \in R}

\* What is ahead of x is also ahead of what comes after x, and so is x.
LEMMA AheadGrows ==
    ASSUME NEW S, IsFiniteSet(S), NEW R, StrictlyOrders(R, S), NEW x \in S, NEW y \in S,
           <<x, y>> \in R
    PROVE  Cardinality(Ahead(R, S, x)) < Cardinality(Ahead(R, S, y))
<1> DEFINE A == Ahead(R, S, x)
           B == Ahead(R, S, y)
<1>1. A \in SUBSET B /\ x \in B /\ x \notin A /\ B \in SUBSET S
  BY DEF Ahead, StrictlyOrders
<1> HIDE DEF A, B
<1>2. IsFiniteSet(B)
  BY <1>1, FS_Subset
<1>3. Cardinality(A) <= Cardinality(B) /\ Cardinality(A) # Cardinality(B)
  BY <1>1, <1>2, FS_Subset
<1>4. Cardinality(A) \in Nat /\ Cardinality(B) \in Nat
  BY <1>1, <1>2, FS_Subset, FS_CardinalityType
<1> QED
  BY <1>3, <1>4 DEF A, B

\* An element is ahead of another exactly when fewer are ahead of it.
LEMMA AheadCounts ==
    ASSUME NEW S, IsFiniteSet(S), NEW R, StrictlyOrders(R, S), NEW x \in S, NEW y \in S
    PROVE  /\ Cardinality(Ahead(R, S, x)) \in 0 .. Cardinality(S) - 1
           /\ <<x, y>> \in R => Cardinality(Ahead(R, S, x)) < Cardinality(Ahead(R, S, y))
           /\ Cardinality(Ahead(R, S, x)) < Cardinality(Ahead(R, S, y)) => <<x, y>> \in R
           /\ Cardinality(Ahead(R, S, x)) = Cardinality(Ahead(R, S, y)) => x = y
<1>1. \A z \in S : Cardinality(Ahead(R, S, z)) \in 0 .. Cardinality(S) - 1
  <2> SUFFICES ASSUME NEW z \in S PROVE Cardinality(Ahead(R, S, z)) \in 0 .. Cardinality(S) - 1
    OBVIOUS
  <2> DEFINE A == Ahead(R, S, z)
  <2>1. A \in SUBSET S /\ z \notin A
    BY DEF Ahead, StrictlyOrders
  <2> HIDE DEF A
  <2>2. Cardinality(A) <= Cardinality(S) /\ Cardinality(A) # Cardinality(S) /\ IsFiniteSet(A)
    BY <2>1, FS_Subset
  <2>3. Cardinality(A) \in Nat /\ Cardinality(S) \in Nat
    BY <2>2, FS_CardinalityType
  <2> QED
    BY <2>2, <2>3 DEF A
<1>2. <<x, y>> \in R => Cardinality(Ahead(R, S, x)) < Cardinality(Ahead(R, S, y))
  BY AheadGrows
<1>3. <<y, x>> \in R => Cardinality(Ahead(R, S, y)) < Cardinality(Ahead(R, S, x))
  BY AheadGrows
<1>4. x = y \/ <<x, y>> \in R \/ <<y, x>> \in R
  BY DEF StrictlyOrders
<1>5. ~ <<x, x>> \in R
  BY DEF StrictlyOrders
<1>6. Cardinality(Ahead(R, S, x)) \in Int /\ Cardinality(Ahead(R, S, y)) \in Int
  BY <1>1, FS_CardinalityType
<1> QED
  BY <1>1, <1>2, <1>3, <1>4, <1>5, <1>6

\* Every place is taken.
LEMMA PlacesTaken ==
    ASSUME NEW S, IsFiniteSet(S), NEW R, StrictlyOrders(R, S),
           NEW k \in 0 .. Cardinality(S) - 1
    PROVE  \E x \in S : Cardinality(Ahead(R, S, x)) = k
<1> DEFINE T == 0 .. Cardinality(S) - 1
           f == [x \in S |-> Cardinality(Ahead(R, S, x))]
<1>1. f \in Injection(S, T)
  <2>1. f \in [S -> T]
    BY AheadCounts
  <2>2. \A x, y \in S : Cardinality(Ahead(R, S, x)) = Cardinality(Ahead(R, S, y)) => x = y
    <3> HIDE DEF f, T
    <3> SUFFICES ASSUME NEW x \in S, NEW y \in S,
                        Cardinality(Ahead(R, S, x)) = Cardinality(Ahead(R, S, y))
                 PROVE  x = y
      OBVIOUS
    <3> QED
      BY AheadCounts
  <2>3. \A x, y \in S : f[x] = f[y] => x = y
    BY <2>2
  <2> HIDE DEF f, T
  <2> QED
    BY <2>1, <2>3 DEF Injection, IsInjective
<1>2. Cardinality(S) \in Nat
  BY FS_CardinalityType
<1>3. IsFiniteSet(T) /\ Cardinality(T) = Cardinality(S)
  BY <1>2, FS_Interval
<1>4. f \in Surjection(S, T)
  <2> HIDE DEF f, T
  <2> QED
    BY <1>1, <1>3, FS_Injection
<1>5. PICK x \in S : f[x] = k
  BY <1>4 DEF Surjection
<1> QED
  BY <1>5

-----------------------------------------------------------------------------
(* Counting: steps one after the other.                                   *)

\* What holds of 0 and is handed on from each number below n to the next holds
\* of all numbers up to n.
LEMMA CountingUp ==
    ASSUME NEW n \in Nat, NEW Good, 0 \in Good,
           \A i \in 0 .. n : i # 0 /\ i - 1 \in Good => i \in Good
    PROVE  0 .. n \subseteq Good
<1> DEFINE Bad == (0 .. n) \ Good
<1> SUFFICES ASSUME Bad # {} PROVE FALSE
  OBVIOUS
<1>1. PICK i \in Bad : \A j \in Bad : ~ (<<j, i>> \in OpToRel(<, Nat))
  <2> HIDE DEF Bad
  <2>1. Bad \subseteq Nat
    BY DEF Bad
  <2> QED
    BY <2>1, NatLessThanWellFounded, WFMin
<1>2. i # 0 /\ i - 1 \in 0 .. n
  OBVIOUS
<1>3. <<i - 1, i>> \in OpToRel(<, Nat)
  <2>1. i - 1 \in Nat /\ i \in Nat /\ i - 1 < i
    BY <1>2
  <2> HIDE DEF Bad
  <2> QED
    BY <2>1 DEF OpToRel
<1>4. i - 1 \notin Bad
  <2> HIDE DEF Bad
  <2> QED
    BY <1>1, <1>3
<1> QED
  BY <1>2, <1>4

\* f is the history of the steps T[1], T[2], ... that are taken from s0 on.
IsHistory(f, n, S, s0, T) ==
    /\ f \in [0 .. n -> S]
    /\ f[0] = s0
    /\ \A i \in 1 .. n : f[i] = T[i][f[i - 1]]

\* Steps that can be taken have a history.
LEMMA HistoryExists ==
    ASSUME NEW n \in Nat, NEW S, NEW s0 \in S, NEW T, T \in [1 .. n -> [S -> S]]
    PROVE  \E f : IsHistory(f, n, S, s0, T)
<1> DEFINE Good == {k \in 0 .. n : \E f : IsHistory(f, k, S, s0, T)}
<1>1. 0 \in Good
  <2> DEFINE f == [i \in 0 .. 0 |-> s0]
  <2>1. f \in [0 .. 0 -> S] /\ f[0] = s0
    OBVIOUS
  <2>2. 1 .. 0 = {}
    OBVIOUS
  <2> HIDE DEF f
  <2>3. IsHistory(f, 0, S, s0, T)
    BY <2>1, <2>2 DEF IsHistory
  <2> QED
    BY <2>3
<1>2. ASSUME NEW k \in 0 .. n, k # 0, k - 1 \in Good
      PROVE  k \in Good
  <2>1. PICK f : IsHistory(f, k - 1, S, s0, T)
    BY <1>2
  <2>2. /\ f \in [0 .. k - 1 -> S]
        /\ f[0] = s0
        /\ \A i \in 1 .. k - 1 : f[i] = T[i][f[i - 1]]
    BY <2>1 DEF IsHistory
  <2> DEFINE g == [i \in 0 .. k |-> IF i = k THEN T[k][f[k - 1]] ELSE f[i]]
  <2>3. T[k][f[k - 1]] \in S
    <3>1. k \in 1 .. n /\ k - 1 \in 0 .. k - 1
      BY <1>2
    <3> QED
      BY <2>2, <3>1
  <2>4. g \in [0 .. k -> S]
    BY <1>2, <2>2, <2>3
  <2>5. g[0] = s0
    BY <1>2, <2>2
  <2>6. ASSUME NEW i \in 1 .. k
        PROVE  g[i] = T[i][g[i - 1]]
    <3>1. i \in 0 .. k /\ i - 1 \in 0 .. k /\ i - 1 # k
      BY <1>2
    <3>2. g[i - 1] = f[i - 1]
      BY <3>1
    <3>3. CASE i = k
      BY <3>1, <3>2, <3>3
    <3>4. CASE i # k
      <4>1. i \in 1 .. k - 1
        BY <1>2, <3>4
      <4> QED
        BY <2>2, <3>1, <3>2, <3>4, <4>1
    <3> QED
      BY <3>3, <3>4
  <2> HIDE DEF g
  <2>7. IsHistory(g, k, S, s0, T)
    BY <2>4, <2>5, <2>6 DEF IsHistory
  <2> QED
    BY <2>7
<1>3. 0 .. n \subseteq Good
  <2> HIDE DEF Good
  <2> QED
    BY <1>1, <1>2, CountingUp
<1> QED
  BY <1>3
=============================================================================
