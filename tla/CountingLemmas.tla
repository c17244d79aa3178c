---------------------------- MODULE CountingLemmas ----------------------------
(***************************************************************************)
(* Lemmas on counting that the proofs of the components share.              *)
(*                                                                          *)
(* A limit that is checked in one step and used up in a later one: the set  *)
(* a of what exists and the set w of the threads that have passed the check *)
(* are counted together; the lemmas say what a step does to the sum.        *)
(*                                                                          *)
(* The sum of a function over a finite set.  It is defined by recursion on  *)
(* the set; that it is a natural is shown by induction on the size of the   *)
(* set, with the property to be shown given as a set of naturals.           *)
(*                                                                          *)
(* The fold of a step over a sequence, as the community modules define it:  *)
(* by recursion on the set of the positions that remain.  The step is given *)
(* as a function; the lemmas say that the recursion has a solution, and     *)
(* that its value on the whole sequence is reached position by position.    *)
(***************************************************************************)
EXTENDS Naturals, FiniteSets, Functions, FiniteSetTheorems, TLAPS

\* Neither set grows.
LEMMA NoneAdded ==
    ASSUME NEW a, NEW w, NEW c, NEW v, NEW n \in Nat, IsFiniteSet(a), IsFiniteSet(w),
           c \subseteq a, v \subseteq w, Cardinality(a) + Cardinality(w) < n
    PROVE  Cardinality(c) + Cardinality(v) < n
<1>1. /\ IsFiniteSet(c) /\ Cardinality(c) <= Cardinality(a)
      /\ IsFiniteSet(v) /\ Cardinality(v) <= Cardinality(w)
  BY FS_Subset
<1>2. /\ Cardinality(a) \in Nat /\ Cardinality(w) \in Nat
      /\ Cardinality(c) \in Nat /\ Cardinality(v) \in Nat
  BY <1>1, FS_CardinalityType
<1> QED
  BY <1>1, <1>2

\* A set that grows by at most one element.
LEMMA OneMore ==
    ASSUME NEW S, NEW T, NEW x, IsFiniteSet(S), T \subseteq S \cup {x}
    PROVE  IsFiniteSet(T) /\ Cardinality(S) \in Nat /\ Cardinality(T) \in Nat
           /\ Cardinality(T) <= Cardinality(S) + 1
<1>1. /\ IsFiniteSet(S \cup {x})
      /\ Cardinality(S \cup {x}) = IF x \in S THEN Cardinality(S) ELSE Cardinality(S) + 1
  BY FS_AddElement
<1>2. IsFiniteSet(T) /\ Cardinality(T) <= Cardinality(S \cup {x})
  BY <1>1, FS_Subset
<1>3. Cardinality(S) \in Nat /\ Cardinality(T) \in Nat
  BY <1>2, FS_CardinalityType
<1> QED
  BY <1>1, <1>2, <1>3

\* Thread t adds x and leaves those that have passed the check.
LEMMA OneAdded ==
    ASSUME NEW a, NEW w, NEW c, NEW v, NEW n \in Nat, IsFiniteSet(a), IsFiniteSet(w),
           NEW x, NEW t \in w, c \subseteq a \cup {x}, v \subseteq w \ {t},
           Cardinality(a) + Cardinality(w) < n
    PROVE  Cardinality(c) + Cardinality(v) < n
<1>1. /\ IsFiniteSet(a \cup {x}) /\ IsFiniteSet(w \ {t})
      /\ Cardinality(a \cup {x}) <= Cardinality(a) + 1
      /\ Cardinality(w \ {t}) = Cardinality(w) - 1
  <2>1. Cardinality(a) \in Nat
    BY FS_CardinalityType
  <2>2. IsFiniteSet(a \cup {x}) /\ Cardinality(a \cup {x}) <= Cardinality(a) + 1
    BY OneMore
  <2>3. IsFiniteSet(w \ {t}) /\ Cardinality(w \ {t}) = Cardinality(w) - 1
    BY FS_RemoveElement
  <2> QED
    BY <2>2, <2>3
<1>2. Cardinality(a) \in Nat /\ Cardinality(w) \in Nat /\ Cardinality(a \cup {x}) \in Nat
  BY <1>1, FS_CardinalityType
<1>3. Cardinality(a \cup {x}) + Cardinality(w \ {t}) < n
  BY <1>1, <1>2
<1> QED
  BY <1>1, <1>3, NoneAdded

\* The check has just been passed: the others past it are among all threads.
LEMMA BelowLimit ==
    ASSUME NEW a, NEW v, NEW all, NEW limit \in Nat, Cardinality(a) \in Nat,
           IsFiniteSet(all), v \subseteq all, Cardinality(a) < limit
    PROVE  Cardinality(a) + Cardinality(v) < limit + Cardinality(all)
<1>1. IsFiniteSet(v) /\ Cardinality(v) <= Cardinality(all)
  BY FS_Subset
<1>2. Cardinality(v) \in Nat /\ Cardinality(all) \in Nat
  BY <1>1, FS_CardinalityType
<1> QED
  BY <1>1, <1>2

----------------------------------------------------------------------------
\* A set of naturals that is not empty has a least element: the intervals 0..n of
\* its elements n are finite sets, and among those inclusion is well-founded.
LEMMA LeastNatural ==
    ASSUME NEW T \in SUBSET Nat, T # {}
    PROVE  \E n \in T : \A m \in T : n <= m
<1> DEFINE U == {0..n : n \in T}
           R == StrictSubsetOrdering(Nat)
<1>1. IsWellFoundedOn(R, FiniteSubsetsOf(Nat))
  BY FS_StrictSubsetOrderingWellFounded
<1>2. U \subseteq FiniteSubsetsOf(Nat) /\ U # {}
  <2>1. \A n \in T : 0..n \subseteq Nat /\ IsFiniteSet(0..n)
    BY FS_Interval
  <2> QED
    BY <2>1 DEF FiniteSubsetsOf
<1>3. PICK u \in U : \A v \in U : ~(<<v, u>> \in R)
  <2> HIDE DEF U, R
  <2> QED
    BY <1>1, <1>2, WFMin
<1>4. PICK n \in T : u = 0..n
  BY <1>3
<1>5. ASSUME NEW m \in T PROVE n <= m
  <2>1. ~(<<0..m, 0..n>> \in R)
    BY <1>3, <1>4
  <2>2. CASE m < n
    <3>1. 0..m \subseteq 0..n /\ 0..m # 0..n /\ 0..m \subseteq Nat /\ 0..n \subseteq Nat
      BY <2>2
    <3> QED
      BY <2>1, <3>1 DEF StrictSubsetOrdering
  <2> QED
    BY <2>2
<1> QED
  BY <1>5

\* Induction, for a property given as the set of the numbers that have it.
LEMMA Induction ==
    ASSUME NEW G, 0 \in G, \A n \in Nat : n \in G => n + 1 \in G
    PROVE  \A n \in Nat : n \in G
<1> SUFFICES ASSUME Nat \ G # {} PROVE FALSE
  OBVIOUS
<1>1. PICK n \in Nat \ G : \A m \in Nat \ G : n <= m
  BY LeastNatural
<1>2. n # 0
  OBVIOUS
<1>3. n - 1 \in Nat /\ n - 1 \in G
  BY <1>1, <1>2
<1>4. n - 1 + 1 = n
  OBVIOUS
<1> QED
  BY <1>3, <1>4

\* What remains to be summed, and an element of it.
Pick(s) == CHOOSE x \in s : TRUE

\* g adds up f on the subsets of W of at most n elements.
AddsUp(W, f, g, n) ==
    \A s \in SUBSET W :
        Cardinality(s) <= n => g[s] = IF s = {} THEN 0 ELSE f[Pick(s)] + g[s \ {Pick(s)}]

\* The recursion by which SumFunction is defined.
Sums(W, f, g) ==
    g = [s \in SUBSET W |-> IF s = {} THEN 0 ELSE f[Pick(s)] + g[s \ {Pick(s)}]]

\* A part of a finite set becomes smaller by the element picked.
LEMMA PickFacts ==
    ASSUME NEW W, IsFiniteSet(W), NEW s \in SUBSET W
    PROVE  /\ IsFiniteSet(s) /\ Cardinality(s) \in Nat
           /\ Cardinality(s) <= Cardinality(W)
           /\ s # {} => /\ Pick(s) \in s
                        /\ s \ {Pick(s)} \in SUBSET W
                        /\ Cardinality(s \ {Pick(s)}) = Cardinality(s) - 1
           /\ Cardinality(s) = 0 <=> s = {}
<1>1. IsFiniteSet(s) /\ Cardinality(s) <= Cardinality(W)
  BY FS_Subset
<1>2. Cardinality(s) \in Nat /\ (Cardinality(s) = 0 <=> s = {})
  BY <1>1, FS_CardinalityType, FS_EmptySet
<1>3. s # {} => Pick(s) \in s
  BY DEF Pick
<1>4. s # {} => Cardinality(s \ {Pick(s)}) = Cardinality(s) - 1
  BY <1>1, <1>3, FS_RemoveElement
<1> QED
  BY <1>1, <1>2, <1>3, <1>4

\* The recursion has a solution, since it has one on the sets of n elements for all n.
LEMMA SumExists ==
    ASSUME NEW W, IsFiniteSet(W), NEW f \in [W -> Nat]
    PROVE  \E g : Sums(W, f, g)
<1> DEFINE G == {n \in Nat : \E g \in [SUBSET W -> Nat] : AddsUp(W, f, g, n)}
<1>1. 0 \in G
  <2> DEFINE g == [s \in SUBSET W |-> 0]
  <2>1. g \in [SUBSET W -> Nat] /\ AddsUp(W, f, g, 0)
    BY PickFacts DEF AddsUp
  <2> QED
    BY <2>1
<1>2. ASSUME NEW n \in Nat, n \in G PROVE n + 1 \in G
  <2>1. PICK g \in [SUBSET W -> Nat] : AddsUp(W, f, g, n)
    BY <1>2
  <2> DEFINE h == [s \in SUBSET W |-> IF s = {} THEN 0 ELSE f[Pick(s)] + g[s \ {Pick(s)}]]
  <2>2. h \in [SUBSET W -> Nat]
    <3>1. \A s \in SUBSET W : s # {} => Pick(s) \in W /\ s \ {Pick(s)} \in SUBSET W
      BY PickFacts
    <3>2. \A s \in SUBSET W : s # {} => f[Pick(s)] + g[s \ {Pick(s)}] \in Nat
      BY <3>1
    <3> QED
      BY <3>2
  <2>3. \A s \in SUBSET W : Cardinality(s) <= n => h[s] = g[s]
    BY <2>1 DEF AddsUp
  <2>4. AddsUp(W, f, h, n + 1)
    <3> SUFFICES ASSUME NEW s \in SUBSET W, Cardinality(s) <= n + 1, s # {}
                 PROVE  h[s] = f[Pick(s)] + h[s \ {Pick(s)}]
      BY DEF AddsUp
    <3>1. s \ {Pick(s)} \in SUBSET W /\ Cardinality(s \ {Pick(s)}) <= n
      BY PickFacts
    <3> QED
      BY <2>3, <3>1
  <2> HIDE DEF h
  <2> QED
    BY <2>2, <2>4
<1> HIDE DEF G
<1>3. Cardinality(W) \in G
  BY <1>1, <1>2, Induction, FS_CardinalityType
<1>4. PICK g \in [SUBSET W -> Nat] : AddsUp(W, f, g, Cardinality(W))
  BY <1>3 DEF G
<1>5. \A s \in SUBSET W : g[s] = IF s = {} THEN 0 ELSE f[Pick(s)] + g[s \ {Pick(s)}]
  BY <1>4, PickFacts DEF AddsUp
<1> QED
  BY <1>5 DEF Sums

\* A sum of naturals is a natural, and no less than any of them.
LEMMA SumFacts ==
    ASSUME NEW W, IsFiniteSet(W), NEW f \in [W -> Nat]
    PROVE  /\ SumFunction(f) \in Nat
           /\ \A w \in W : f[w] <= SumFunction(f)
<1> DEFINE g == CHOOSE h : Sums(W, f, h)
<1>0. Sums(W, f, g)
  BY SumExists
<1>2. SumFunction(f) = g[W]
  BY DEF SumFunction, SumFunctionOnSet, FoldFunctionOnSet, MapThenFoldSet, Sums, Pick
<1>1. \A s \in SUBSET W : g[s] = IF s = {} THEN 0 ELSE f[Pick(s)] + g[s \ {Pick(s)}]
  BY <1>0 DEF Sums
<1> HIDE DEF g
<1> DEFINE Right(s) == g[s] \in Nat /\ \A w \in s : f[w] <= g[s]
           G == {n \in Nat : \A s \in SUBSET W : Cardinality(s) <= n => Right(s)}
<1>3. 0 \in G
  <2>1. ASSUME NEW s \in SUBSET W, Cardinality(s) <= 0 PROVE s = {}
    <3>1. IsFiniteSet(s) /\ Cardinality(s) \in Nat
      BY FS_Subset, FS_CardinalityType
    <3>2. Cardinality(s) = 0
      BY <2>1, <3>1
    <3> QED
      BY <3>1, <3>2, FS_EmptySet
  <2>2. Right({})
    <3>1. {} \in SUBSET W
      OBVIOUS
    <3>2. g[{}] = 0
      BY <1>1, <3>1
    <3> QED
      BY <3>2
  <2>3. \A s \in SUBSET W : Cardinality(s) <= 0 => Right(s)
    <3> TAKE s \in SUBSET W
    <3> HAVE Cardinality(s) <= 0
    <3>1. s = {}
      BY <2>1
    <3> QED
      BY <2>2, <3>1
  <2> HIDE DEF Right
  <2> QED
    BY <2>3
<1>4. ASSUME NEW n \in Nat, n \in G PROVE n + 1 \in G
  <2> SUFFICES ASSUME NEW s \in SUBSET W, Cardinality(s) <= n + 1 PROVE Right(s)
    OBVIOUS
  <2>1. CASE s = {}
    <3>1. g[s] = 0
      BY <1>1, <2>1
    <3> QED
      BY <2>1, <3>1
  <2>2. CASE s # {}
    <3> DEFINE x == Pick(s)
               t == s \ {x}
    <3>1. x \in s /\ t \in SUBSET W /\ Cardinality(t) <= n
      BY <2>2, PickFacts
    <3>2. g[t] \in Nat /\ \A w \in t : f[w] <= g[t]
      BY <1>4, <3>1
    <3>3. g[s] = f[x] + g[t]
      BY <1>1, <2>2
    <3>4. \A w \in s : w = x \/ w \in t
      OBVIOUS
    <3> HIDE DEF x, t
    <3>5. \A w \in s : f[w] \in Nat
      OBVIOUS
    <3> QED
      BY <3>1, <3>2, <3>3, <3>4, <3>5
  <2> QED
    BY <2>1, <2>2
<1> HIDE DEF G
<1>5. Cardinality(W) \in G /\ Cardinality(W) \in Nat
  BY <1>3, <1>4, Induction, FS_CardinalityType
<1>6. Right(W)
  BY <1>5 DEF G
<1> QED
  BY <1>2, <1>6

----------------------------------------------------------------------------
\* A property of 0 that goes from one position to the next is one of all positions.
LEMMA Positions ==
    ASSUME NEW n \in Nat, NEW G, 0 \in G, \A i \in 1..n : i - 1 \in G => i \in G
    PROVE  \A i \in 0..n : i \in G
<1> DEFINE U == {i \in Nat : i <= n => i \in G}
<1>1. 0 \in U
  OBVIOUS
<1>2. ASSUME NEW i \in Nat, i \in U PROVE i + 1 \in U
  <2>1. CASE i + 1 <= n
    <3>1. i + 1 \in 1..n /\ i + 1 - 1 = i
      BY <2>1
    <3>2. i \in G
      BY <1>2, <2>1
    <3> QED
      BY <3>1, <3>2
  <2>2. CASE ~(i + 1 <= n)
    BY <2>2
  <2> QED
    BY <2>1, <2>2
<1> HIDE DEF U
<1>3. \A i \in Nat : i \in U
  BY <1>1, <1>2, Induction
<1> QED
  BY <1>3 DEF U

\* The value of a fold on the set s of the positions 1..n that remain: the step H
\* for the last of them, last[s], from the value on the others.
Folds(n, base, H, last, g, s) ==
    g[s] = IF s = {} THEN base ELSE H[<<last[s], g[s \ {last[s]}]>>]

\* A fold over a sequence of length n has a value on every set of its positions.
LEMMA FoldExists ==
    ASSUME NEW n \in Nat, NEW A, NEW base \in A, NEW H \in [(1..n) \X A -> A], NEW last,
           \A s \in SUBSET (1..n) : s # {} => last[s] \in s
    PROVE  \E g \in [SUBSET (1..n) -> A] :
             \A s \in SUBSET (1..n) : Folds(n, base, H, last, g, s)
<1> DEFINE W == 1..n
           Right(g, m) == \A s \in SUBSET W : Cardinality(s) <= m => Folds(n, base, H, last, g, s)
           G == {m \in Nat : \E g \in [SUBSET W -> A] : Right(g, m)}
<1>0. /\ IsFiniteSet(W)
      /\ \A s \in SUBSET W : /\ IsFiniteSet(s) /\ Cardinality(s) \in Nat
                             /\ Cardinality(s) <= Cardinality(W)
                             /\ Cardinality(s) = 0 <=> s = {}
      /\ \A s \in SUBSET W : s # {} =>
           /\ last[s] \in W /\ s \ {last[s]} \in SUBSET W
           /\ Cardinality(s \ {last[s]}) = Cardinality(s) - 1
  <2>1. 1 \in Int /\ n \in Int
    OBVIOUS
  <2>2. IsFiniteSet(W)
    BY <2>1, FS_Interval
  <2> HIDE DEF W
  <2>3. ASSUME NEW s \in SUBSET W
        PROVE  /\ IsFiniteSet(s) /\ Cardinality(s) \in Nat
               /\ Cardinality(s) <= Cardinality(W)
               /\ Cardinality(s) = 0 <=> s = {}
    BY <2>2, PickFacts
  <2>4. ASSUME NEW s \in SUBSET W, s # {}
        PROVE  /\ last[s] \in W /\ s \ {last[s]} \in SUBSET W
               /\ Cardinality(s \ {last[s]}) = Cardinality(s) - 1
    <3>1. last[s] \in s
      BY <2>4 DEF W
    <3> QED
      BY <2>3, <3>1, FS_RemoveElement
  <2> QED
    BY <2>2, <2>3, <2>4
<1> HIDE DEF W
<1>1. 0 \in G
  <2> DEFINE g == [s \in SUBSET W |-> base]
  <2>1. g \in [SUBSET W -> A] /\ Right(g, 0)
    BY <1>0 DEF Folds
  <2> QED
    BY <2>1
<1>2. ASSUME NEW m \in Nat, m \in G PROVE m + 1 \in G
  <2>1. PICK g \in [SUBSET W -> A] : Right(g, m)
    BY <1>2
  <2> DEFINE h == [s \in SUBSET W |-> IF s = {} THEN base ELSE H[<<last[s], g[s \ {last[s]}]>>]]
  <2>2. h \in [SUBSET W -> A]
    <3>1. \A s \in SUBSET W : s # {} => <<last[s], g[s \ {last[s]}]>> \in W \X A
      BY <1>0
    <3>2. \A s \in SUBSET W : s # {} => H[<<last[s], g[s \ {last[s]}]>>] \in A
      BY <3>1 DEF W
    <3> QED
      BY <3>2
  <2>3. \A s \in SUBSET W : Cardinality(s) <= m => h[s] = g[s]
    BY <2>1 DEF Folds
  <2>4. Right(h, m + 1)
    <3> SUFFICES ASSUME NEW s \in SUBSET W, Cardinality(s) <= m + 1, s # {}
                 PROVE  h[s] = H[<<last[s], h[s \ {last[s]}]>>]
      BY DEF Folds
    <3>1. s \ {last[s]} \in SUBSET W /\ Cardinality(s \ {last[s]}) <= m
      BY <1>0
    <3> QED
      BY <2>3, <3>1
  <2> HIDE DEF h
  <2> QED
    BY <2>2, <2>4
<1> HIDE DEF G
<1>3. Cardinality(W) \in G
  BY <1>0, <1>1, <1>2, Induction, FS_CardinalityType
<1>4. PICK g \in [SUBSET W -> A] : Right(g, Cardinality(W))
  BY <1>3 DEF G
<1>5. \A s \in SUBSET W : Folds(n, base, H, last, g, s)
  BY <1>0, <1>4
<1> QED
  BY <1>5 DEF W

\* A fold g on the sets of positions, read along the sequence: its value f[i] on the
\* first i positions comes from the one on the first i - 1 and position i.
GoesOn(n, A, H, g) ==
    /\ g[{}] \in A
    /\ \A i \in 1..n : g[1..(i - 1)] \in A => g[1..i] = H[<<i, g[1..(i - 1)]>>]
Along(n, H, g, f) ==
    /\ f[0] = g[{}] /\ f[n] = g[1..n]
    /\ \A i \in 1..n : f[i] = H[<<i, f[i - 1]>>]

LEMMA FoldChain ==
    ASSUME NEW n \in Nat, NEW A, NEW H \in [(1..n) \X A -> A], NEW g, GoesOn(n, A, H, g)
    PROVE  \E f \in [0..n -> A] : Along(n, H, g, f)
<1> DEFINE f == [i \in 0..n |-> g[1..i]]
           G == {i \in 0..n : f[i] \in A}
<1>1. 0 \in G
  BY 1..0 = {} DEF GoesOn
<1>2. ASSUME NEW i \in 1..n, i - 1 \in G PROVE i \in G
  <2>1. g[1..(i - 1)] \in A
    BY <1>2
  <2>2. H[<<i, g[1..(i - 1)]>>] \in A
    BY <2>1
  <2> QED
    BY <2>1, <2>2 DEF GoesOn
<1> HIDE DEF G
<1>3. \A i \in 0..n : i \in G
  BY <1>1, <1>2, Positions
<1>4. f \in [0..n -> A]
  BY <1>3 DEF G
<1>5. f[0] = g[{}] /\ f[n] = g[1..n]
  BY 1..0 = {}
<1>6. ASSUME NEW i \in 1..n PROVE f[i] = H[<<i, f[i - 1]>>]
  <2>1. i - 1 \in 0..n /\ f[i - 1] = g[1..(i - 1)]
    OBVIOUS
  <2>2. g[1..(i - 1)] \in A
    BY <1>4, <2>1
  <2> QED
    BY <2>1, <2>2 DEF GoesOn
<1> HIDE DEF f
<1> QED
  BY <1>4, <1>5, <1>6 DEF Along
===============================================================================
