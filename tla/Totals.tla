------------------------------- MODULE Totals -------------------------------
(***************************************************************************)
(* Facts about SumFunctionOnSet, the sum of a function over a finite set,  *)
(* and the induction they rest on.  The induction principles are stated    *)
(* for sets rather than for predicates: a proof by induction forms the set *)
(* of the numbers, or of the subsets, for which its claim holds.           *)
(***************************************************************************)
EXTENDS Integers, FiniteSets, Functions, FiniteSetTheorems, WellFoundedInduction, TLAPS

\* A set of naturals that has 0, and n + 1 with n, has all of them.
LEMMA SetInduction ==
  ASSUME NEW T \in SUBSET Nat, 0 \in T, \A n \in T : n + 1 \in T
  PROVE  T = Nat
  <1> DEFINE U == Nat \ T
  <1>1. SUFFICES ASSUME U # {} PROVE FALSE
    BY DEF U
  <1>2. U \subseteq Nat
    BY DEF U
  <1> HIDE DEF U
  <1>3. PICK x \in U : \A y \in U : ~ (<<y, x>> \in OpToRel(<, Nat))
    BY <1>1, <1>2, NatLessThanWellFounded, WFMin
  <1>4. \A y \in U : ~ (y < x)
    BY <1>2, <1>3 DEF OpToRel
  <1>5. x \in Nat /\ x \notin T /\ x # 0
    BY <1>2, <1>3 DEF U
  <1>6. x - 1 \in Nat /\ x - 1 \in T
    BY <1>4, <1>5 DEF U
  <1>7. x = (x - 1) + 1
    BY <1>5
  <1> QED
    BY <1>5, <1>6, <1>7

\* A set of subsets of a finite set has them all if it has each of those from
\* which any element may be taken away to leave one of the set.
LEMMA SubsetInduction ==
  ASSUME NEW S, IsFiniteSet(S), NEW F \in SUBSET SUBSET S,
         \A T \in SUBSET S : (\A x \in T : T \ {x} \in F) => T \in F
  PROVE  F = SUBSET S
  <1> DEFINE N == {n \in Nat : \A T \in SUBSET S : Cardinality(T) = n => T \in F}
  <1>1. \A T \in SUBSET S : IsFiniteSet(T) /\ Cardinality(T) \in Nat
    BY FS_Subset, FS_CardinalityType
  <1>2. 0 \in N
    <2>1. ASSUME NEW T \in SUBSET S, Cardinality(T) = 0 PROVE T \in F
      <3>1. T = {}
        BY <1>1, <2>1, FS_EmptySet
      <3> QED
        BY <3>1
    <2> QED
      BY <2>1
  <1>3. ASSUME NEW n \in N PROVE n + 1 \in N
    <2>1. ASSUME NEW T \in SUBSET S, Cardinality(T) = n + 1 PROVE T \in F
      <3>1. ASSUME NEW x \in T PROVE T \ {x} \in F
        <4>1. Cardinality(T \ {x}) = Cardinality(T) - 1
          BY <1>1, FS_RemoveElement
        <4>2. Cardinality(T \ {x}) = n
          BY <2>1, <4>1
        <4> QED
          BY <4>2
      <3> QED
        BY <3>1
    <2> QED
      BY <2>1
  <1> HIDE DEF N
  <1>4. N \in SUBSET Nat
    BY DEF N
  <1>5. N = Nat
    BY <1>2, <1>3, <1>4, SetInduction
  <1>6. ASSUME NEW T \in SUBSET S PROVE T \in F
    BY <1>1, <1>5 DEF N
  <1> QED
    BY <1>6

(***************************************************************************)
(* The sum satisfies the equation it is defined by.                        *)
(***************************************************************************)
Any(T) == CHOOSE x \in T : TRUE

\* g tells the sums of f over the subsets of S.
Tells(g, f, S) ==
  g = [T \in SUBSET S |-> IF T = {} THEN 0 ELSE f[Any(T)] + g[T \ {Any(T)}]]
Told(f, S) == CHOOSE g : Tells(g, f, S)

LEMMA AnyIsOne == \A T : T # {} => Any(T) \in T
  BY DEF Any

LEMMA SumIsTold == \A f, S : SumFunctionOnSet(f, S) = Told(f, S)[S]
  BY DEF SumFunctionOnSet, FoldFunctionOnSet, MapThenFoldSet, Told, Tells, Any

LEMMA SumsTell == \A f, S : (\E g : Tells(g, f, S)) => Tells(Told(f, S), f, S)
  BY Zenon DEF Told

LEMMA TellsAt ==
  ASSUME NEW f, NEW S, NEW g, Tells(g, f, S), NEW T \in SUBSET S
  PROVE  g[T] = IF T = {} THEN 0 ELSE f[Any(T)] + g[T \ {Any(T)}]
  BY DEF Tells

\* What is told of a set does not depend on the set it is a part of.
LEMMA ToldOnce ==
  ASSUME NEW f, NEW S, NEW U, NEW g, NEW h, Tells(g, f, S), Tells(h, f, U),
         IsFiniteSet(S), NEW T \in SUBSET S, T \in SUBSET U
  PROVE  g[T] = h[T]
  <1> DEFINE F == {V \in SUBSET S : V \subseteq U => g[V] = h[V]}
  <1>1. ASSUME NEW V \in SUBSET S, \A x \in V : V \ {x} \in F, V \subseteq U
        PROVE  g[V] = h[V]
    <2>1. CASE V = {}
      BY <1>1, <2>1, TellsAt
    <2>2. CASE V # {}
      <3> DEFINE x == Any(V)
      <3>1. x \in V
        BY <2>2, AnyIsOne
      <3>2. g[V] = f[x] + g[V \ {x}]
        BY <2>2, TellsAt
      <3>3. h[V] = f[x] + h[V \ {x}]
        BY <1>1, <2>2, TellsAt
      <3>4. V \ {x} \in F /\ V \ {x} \subseteq U
        BY <1>1, <3>1
      <3>5. g[V \ {x}] = h[V \ {x}]
        BY <3>4
      <3> QED
        BY <3>2, <3>3, <3>5
    <2> QED
      BY <2>1, <2>2
  <1>2. \A V \in SUBSET S : (\A x \in V : V \ {x} \in F) => V \in F
    BY <1>1
  <1>3. F \in SUBSET SUBSET S
    OBVIOUS
  <1> HIDE DEF F
  <1>4. F = SUBSET S
    BY <1>2, <1>3, SubsetInduction
  <1> QED
    BY <1>4 DEF F

\* A part of what tells the sums tells them of a part.
LEMMA ToldOfPart ==
  ASSUME NEW f, NEW S, NEW g, Tells(g, f, S), NEW T \in SUBSET S
  PROVE  \E h : Tells(h, f, T)
  <1> DEFINE h == [V \in SUBSET T |-> g[V]]
  <1>1. ASSUME NEW V \in SUBSET T
        PROVE  h[V] = IF V = {} THEN 0 ELSE f[Any(V)] + h[V \ {Any(V)}]
    <2>1. g[V] = IF V = {} THEN 0 ELSE f[Any(V)] + g[V \ {Any(V)}]
      BY TellsAt
    <2> QED
      BY <2>1
  <1>2. Tells(h, f, T)
    BY <1>1 DEF Tells
  <1> QED
    BY <1>2

LEMMA SumsExist ==
  ASSUME NEW f, NEW S, IsFiniteSet(S)
  PROVE  Tells(Told(f, S), f, S)
  <1> DEFINE F == {T \in SUBSET S : \E g : Tells(g, f, T)}
  <1>1. ASSUME NEW T \in SUBSET S, \A x \in T : T \ {x} \in F
        PROVE  \E g : Tells(g, f, T)
    <2> DEFINE w(V) == Told(f, V)[V]
               g == [V \in SUBSET T |-> IF V = {} THEN 0 ELSE f[Any(V)] + w(V \ {Any(V)})]
    <2>1. ASSUME NEW V \in SUBSET T, V # T
          PROVE  Tells(Told(f, V), f, V) /\ IsFiniteSet(V)
      <3>1. PICK x \in T : x \notin V
        BY <2>1
      <3>2. PICK h : Tells(h, f, T \ {x})
        BY <1>1
      <3>3. V \in SUBSET (T \ {x})
        BY <3>1
      <3>4. \E k : Tells(k, f, V)
        BY <3>2, <3>3, ToldOfPart
      <3>5. IsFiniteSet(V)
        BY FS_Subset
      <3> QED
        BY <3>4, <3>5, SumsTell
    <2>2. ASSUME NEW V \in SUBSET T, V # T
          PROVE  g[V] = w(V)
      <3> DEFINE q == Told(f, V)
      <3>5. Tells(q, f, V) /\ V \in SUBSET V
        BY <2>1, <2>2
      <3> HIDE DEF q
      <3>6. q[V] = IF V = {} THEN 0 ELSE f[Any(V)] + q[V \ {Any(V)}]
        BY <3>5, TellsAt
      <3>1. w(V) = IF V = {} THEN 0 ELSE f[Any(V)] + Told(f, V)[V \ {Any(V)}]
        BY <3>6 DEF q
      <3>2. CASE V = {}
        BY <3>1, <3>2
      <3>3. CASE V # {}
        <4> DEFINE W == V \ {Any(V)}
        <4>1. Any(V) \in V
          BY <3>3, AnyIsOne
        <4>2. W \in SUBSET T /\ W # T /\ W \in SUBSET V /\ W \in SUBSET W
          BY <4>1
        <4>3. Told(f, V)[W] = Told(f, W)[W]
          <5>1. Tells(Told(f, V), f, V) /\ IsFiniteSet(V)
            BY <2>1, <2>2
          <5>2. Tells(Told(f, W), f, W)
            BY <2>1, <4>2
          <5> HIDE DEF W
          <5> QED
            BY <5>1, <5>2, <4>2, ToldOnce
        <4> QED
          BY <3>1, <3>3, <4>3
      <3> QED
        BY <3>2, <3>3
    <2>3. ASSUME NEW V \in SUBSET T
          PROVE  g[V] = IF V = {} THEN 0 ELSE f[Any(V)] + g[V \ {Any(V)}]
      <3>1. CASE V = {}
        BY <3>1
      <3>2. CASE V # {}
        <4>1. Any(V) \in V
          BY <3>2, AnyIsOne
        <4>2. V \ {Any(V)} \in SUBSET T /\ V \ {Any(V)} # T
          BY <4>1
        <4>3. g[V \ {Any(V)}] = w(V \ {Any(V)})
          BY <2>2, <4>2
        <4> QED
          BY <3>2, <4>3
      <3> QED
        BY <3>1, <3>2
    <2>4. Tells(g, f, T)
      BY <2>3 DEF Tells
    <2> QED
      BY <2>4
  <1>2. \A T \in SUBSET S : (\A x \in T : T \ {x} \in F) => T \in F
    BY <1>1
  <1>3. F \in SUBSET SUBSET S
    OBVIOUS
  <1> HIDE DEF F
  <1>4. F = SUBSET S
    BY <1>2, <1>3, SubsetInduction
  <1>5. \E g : Tells(g, f, S)
    BY <1>4 DEF F
  <1> QED
    BY <1>5, SumsTell

(***************************************************************************)
(* What a sum is.                                                          *)
(***************************************************************************)
LEMMA SumStep ==
  ASSUME NEW f, NEW S, IsFiniteSet(S)
  PROVE  SumFunctionOnSet(f, S) =
           IF S = {} THEN 0 ELSE f[Any(S)] + SumFunctionOnSet(f, S \ {Any(S)})
  <1> DEFINE q == Told(f, S)
             T == S \ {Any(S)}
  <1>1. Tells(q, f, S) /\ S \in SUBSET S
    BY SumsExist
  <1>2. SumFunctionOnSet(f, S) = q[S] /\ SumFunctionOnSet(f, T) = Told(f, T)[T]
    BY SumIsTold
  <1>3. T \in SUBSET S /\ IsFiniteSet(T)
    BY FS_Subset
  <1>4. Tells(Told(f, T), f, T)
    BY <1>3, SumsExist
  <1> HIDE DEF q
  <1>5. q[S] = IF S = {} THEN 0 ELSE f[Any(S)] + q[T]
    BY <1>1, TellsAt
  <1> HIDE DEF T
  <1>6. q[T] = Told(f, T)[T]
    BY <1>1, <1>3, <1>4, ToldOnce
  <1> QED
    BY <1>2, <1>5, <1>6 DEF T

LEMMA SumEmpty == \A f : SumFunctionOnSet(f, {}) = 0
  BY SumStep, FS_EmptySet

LEMMA SumInt ==
  ASSUME NEW S, IsFiniteSet(S), NEW f, \A x \in S : f[x] \in Int
  PROVE  SumFunctionOnSet(f, S) \in Int
  <1> DEFINE F == {T \in SUBSET S : SumFunctionOnSet(f, T) \in Int}
  <1>1. ASSUME NEW T \in SUBSET S, \A x \in T : T \ {x} \in F
        PROVE  T \in F
    <2>1. SumFunctionOnSet(f, T) =
            IF T = {} THEN 0 ELSE f[Any(T)] + SumFunctionOnSet(f, T \ {Any(T)})
      BY FS_Subset, SumStep
    <2>2. T # {} => Any(T) \in T
      BY AnyIsOne
    <2> QED
      BY <1>1, <2>1, <2>2
  <1> HIDE DEF F
  <1>2. F \in SUBSET SUBSET S
    BY DEF F
  <1>3. F = SUBSET S
    BY <1>1, <1>2, SubsetInduction
  <1> QED
    BY <1>3 DEF F

\* Any element may be taken out of a sum, not only the one its definition takes.
LEMMA SumRemove ==
  ASSUME NEW S, IsFiniteSet(S), NEW f, \A x \in S : f[x] \in Int, NEW a \in S
  PROVE  SumFunctionOnSet(f, S) = f[a] + SumFunctionOnSet(f, S \ {a})
  <1> DEFINE F == {T \in SUBSET S :
                     \A x \in T : SumFunctionOnSet(f, T) = f[x] + SumFunctionOnSet(f, T \ {x})}
  <1>1. ASSUME NEW T \in SUBSET S, \A x \in T : T \ {x} \in F
        PROVE  T \in F
    <2>1. SUFFICES ASSUME NEW x \in T
                   PROVE  SumFunctionOnSet(f, T) = f[x] + SumFunctionOnSet(f, T \ {x})
      OBVIOUS
    <2> DEFINE y == Any(T)
    <2>2. y \in T
      BY AnyIsOne
    <2>3. SumFunctionOnSet(f, T) = f[y] + SumFunctionOnSet(f, T \ {y})
      BY FS_Subset, SumStep
    <2> HIDE DEF y
    <2>4. CASE x = y
      BY <2>3, <2>4
    <2>5. CASE x # y
      <3>1. SumFunctionOnSet(f, T \ {y}) = f[x] + SumFunctionOnSet(f, (T \ {y}) \ {x})
        BY <1>1, <2>2, <2>5
      <3>2. SumFunctionOnSet(f, T \ {x}) = f[y] + SumFunctionOnSet(f, (T \ {x}) \ {y})
        BY <1>1, <2>2, <2>5
      <3>3. (T \ {y}) \ {x} = (T \ {x}) \ {y}
        OBVIOUS
      <3> DEFINE R == (T \ {x}) \ {y}
      <3>4. SumFunctionOnSet(f, R) \in Int /\ f[x] \in Int /\ f[y] \in Int
        <4>1. IsFiniteSet(R) /\ \A z \in R : f[z] \in Int
          BY FS_Subset
        <4> HIDE DEF R
        <4> QED
          BY <2>2, <4>1, SumInt
      <3> DEFINE q == SumFunctionOnSet(f, R)
      <3>5. /\ SumFunctionOnSet(f, T) = f[y] + (f[x] + q)
            /\ f[x] + SumFunctionOnSet(f, T \ {x}) = f[x] + (f[y] + q)
            /\ q \in Int
        BY <2>3, <3>1, <3>2, <3>3, <3>4
      <3> HIDE DEF q, R
      <3> QED
        BY <3>4, <3>5
    <2> QED
      BY <2>4, <2>5
  <1> HIDE DEF F
  <1>2. F \in SUBSET SUBSET S
    BY DEF F
  <1>3. F = SUBSET S
    BY <1>1, <1>2, SubsetInduction
  <1> QED
    BY <1>3 DEF F

LEMMA SumAdd ==
  ASSUME NEW S, IsFiniteSet(S), NEW f, \A x \in S : f[x] \in Int, NEW a, a \notin S, f[a] \in Int
  PROVE  SumFunctionOnSet(f, S \cup {a}) = f[a] + SumFunctionOnSet(f, S)
  <1>1. IsFiniteSet(S \cup {a}) /\ (S \cup {a}) \ {a} = S /\ a \in S \cup {a}
    BY FS_AddElement
  <1>2. \A x \in S \cup {a} : f[x] \in Int
    OBVIOUS
  <1> DEFINE T == S \cup {a}
  <1> HIDE DEF T
  <1>3. SumFunctionOnSet(f, T) = f[a] + SumFunctionOnSet(f, T \ {a})
    BY <1>1, <1>2, SumRemove DEF T
  <1> QED
    BY <1>1, <1>3 DEF T

LEMMA SumSingle ==
  ASSUME NEW f, NEW a, f[a] \in Int
  PROVE  SumFunctionOnSet(f, {a}) = f[a]
  <1>1. IsFiniteSet({a}) /\ a \in {a} /\ \A x \in {a} : f[x] \in Int
    BY FS_Singleton
  <1>2. {a} \ {a} = {}
    OBVIOUS
  <1> DEFINE T == {a}
  <1> HIDE DEF T
  <1>3. SumFunctionOnSet(f, T) = f[a] + SumFunctionOnSet(f, T \ {a})
    BY <1>1, SumRemove DEF T
  <1> QED
    BY <1>2, <1>3, SumEmpty DEF T

\* What is nothing everywhere but on a part sums up to what it is there.
LEMMA SumSupport ==
  ASSUME NEW S, IsFiniteSet(S), NEW T \in SUBSET S, NEW f, NEW g,
         \A x \in T : f[x] = g[x] /\ g[x] \in Int, \A x \in S \ T : f[x] = 0
  PROVE  SumFunctionOnSet(f, S) = SumFunctionOnSet(g, T)
  <1> DEFINE F == {V \in SUBSET S : SumFunctionOnSet(f, V) = SumFunctionOnSet(g, V \cap T)}
  <1>1. ASSUME NEW V \in SUBSET S, \A x \in V : V \ {x} \in F
        PROVE  V \in F
    <2>1. CASE V = {}
      BY <2>1, SumEmpty
    <2>2. CASE V # {}
      <3>1. PICK x \in V : SumFunctionOnSet(f, V) = f[x] + SumFunctionOnSet(f, V \ {x})
        BY <2>2, AnyIsOne, FS_Subset, SumStep
      <3>2. SumFunctionOnSet(f, V \ {x}) = SumFunctionOnSet(g, (V \ {x}) \cap T)
        BY <1>1
      <3>3. IsFiniteSet(V \cap T) /\ \A y \in V \cap T : g[y] \in Int
        BY FS_Subset
      <3>4. CASE x \in T
        <4> DEFINE W == V \cap T
        <4>1. x \in W /\ (V \ {x}) \cap T = W \ {x}
          BY <3>4
        <4> HIDE DEF W
        <4>2. SumFunctionOnSet(g, W) = g[x] + SumFunctionOnSet(g, W \ {x})
          BY <3>3, <4>1, SumRemove DEF W
        <4> QED
          BY <3>1, <3>2, <3>4, <4>1, <4>2 DEF W
      <3>5. CASE x \notin T
        <4>1. f[x] = 0 /\ (V \ {x}) \cap T = V \cap T
          BY <3>5
        <4>2. SumFunctionOnSet(g, V \cap T) \in Int
          <5> DEFINE W == V \cap T
          <5> HIDE DEF W
          <5>1. SumFunctionOnSet(g, W) \in Int
            BY <3>3, SumInt DEF W
          <5> QED
            BY <5>1 DEF W
        <4> QED
          BY <3>1, <3>2, <4>1, <4>2
      <3> QED
        BY <3>4, <3>5
    <2> QED
      BY <2>1, <2>2
  <1> HIDE DEF F
  <1>2. F \in SUBSET SUBSET S
    BY DEF F
  <1>3. F = SUBSET S
    BY <1>1, <1>2, SubsetInduction
  <1>4. S \cap T = T /\ S \in SUBSET S
    OBVIOUS
  <1> QED
    BY <1>3, <1>4 DEF F

LEMMA SumNegated ==
  ASSUME NEW S, IsFiniteSet(S), NEW f, NEW g, \A x \in S : f[x] \in Int /\ g[x] = -f[x]
  PROVE  SumFunctionOnSet(g, S) = -SumFunctionOnSet(f, S)
  <1> DEFINE F == {T \in SUBSET S : SumFunctionOnSet(g, T) = -SumFunctionOnSet(f, T)}
  <1>1. ASSUME NEW T \in SUBSET S, \A x \in T : T \ {x} \in F
        PROVE  T \in F
    <2>1. CASE T = {}
      BY <2>1, SumEmpty
    <2>2. CASE T # {}
      <3> DEFINE x == Any(T)
                 R == T \ {x}
      <3>1. x \in T /\ R \in F
        BY <1>1, <2>2, AnyIsOne
      <3>2. /\ SumFunctionOnSet(g, T) = g[x] + SumFunctionOnSet(g, R)
            /\ SumFunctionOnSet(f, T) = f[x] + SumFunctionOnSet(f, R)
        BY <2>2, FS_Subset, SumStep
      <3>3. IsFiniteSet(R) /\ \A y \in R : f[y] \in Int
        BY FS_Subset
      <3> HIDE DEF x, R
      <3>4. SumFunctionOnSet(f, R) \in Int
        BY <3>3, SumInt
      <3> QED
        BY <3>1, <3>2, <3>4
    <2> QED
      BY <2>1, <2>2
  <1> HIDE DEF F
  <1>2. F \in SUBSET SUBSET S
    BY DEF F
  <1>3. F = SUBSET S
    BY <1>1, <1>2, SubsetInduction
  <1> QED
    BY <1>3 DEF F

\* A sum of naturals is a natural, and no less than each of them.
LEMMA SumOfNaturals ==
  ASSUME NEW S, IsFiniteSet(S), NEW f, \A x \in S : f[x] \in Nat
  PROVE  /\ SumFunctionOnSet(f, S) \in Nat
         /\ \A x \in S : f[x] <= SumFunctionOnSet(f, S)
  <1> DEFINE F == {T \in SUBSET S : SumFunctionOnSet(f, T) \in Nat}
  <1>1. ASSUME NEW T \in SUBSET S, \A x \in T : T \ {x} \in F
        PROVE  T \in F
    <2>1. SumFunctionOnSet(f, T) =
            IF T = {} THEN 0 ELSE f[Any(T)] + SumFunctionOnSet(f, T \ {Any(T)})
      BY FS_Subset, SumStep
    <2>2. T # {} => Any(T) \in T
      BY AnyIsOne
    <2> QED
      BY <1>1, <2>1, <2>2
  <1> HIDE DEF F
  <1>2. F \in SUBSET SUBSET S
    BY DEF F
  <1>3. F = SUBSET S
    BY <1>1, <1>2, SubsetInduction
  <1>4. \A T \in SUBSET S : SumFunctionOnSet(f, T) \in Nat
    BY <1>3 DEF F
  <1>5. ASSUME NEW x \in S PROVE f[x] <= SumFunctionOnSet(f, S)
    <2>1. SumFunctionOnSet(f, S) = f[x] + SumFunctionOnSet(f, S \ {x})
      BY SumRemove
    <2>2. SumFunctionOnSet(f, S \ {x}) \in Nat
      BY <1>4
    <2> QED
      BY <2>1, <2>2
  <1> QED
    BY <1>4, <1>5
=============================================================================
