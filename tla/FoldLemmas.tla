------------------------------ MODULE FoldLemmas ------------------------------
(***************************************************************************)
(* What the folds of the community modules compute: the sums and the       *)
(* replays of the models are folds of a binary operator over a finite set  *)
(* of indices, taken in the order that Choose gives.  A module that        *)
(* reasons about one of them instantiates Op, Initial and Choose with it.  *)
(***************************************************************************)
EXTENDS Integers, Sequences, FiniteSetsExt,
        FiniteSetTheorems, WellFoundedInduction, TLAPS

CONSTANTS
    Op(_, _),    \* combines an element with what is folded so far
    Initial,     \* the fold of nothing
    Choose(_)    \* the element of a set that is folded last

Fold(f, S) == MapThenFoldSet(Op, Initial, LAMBDA i : f[i], Choose, S)

\* The same from any other beginning
FoldFrom(base, f, S) == MapThenFoldSet(Op, base, LAMBDA i : f[i], Choose, S)

\* Choose gives an element of each set it is asked about.
Chooses(S) == \A T \in SUBSET S : T # {} => Choose(T) \in T

\* f gives an element of Elem for every index in S.
Values(f, S, Elem) == \A x \in S : f[x] \in Elem

\* Folding elements of Elem stays in Typ.
Keeps(Elem, Typ) == Initial \in Typ /\ \A x \in Elem, y \in Typ : Op(x, y) \in Typ

\* The order in which elements of Typ are folded does not matter.
AnyOrder(Typ) == \A x, y, z \in Typ : Op(x, Op(y, z)) = Op(y, Op(x, z))

\* g is the function by which a fold over S is computed.
Computes(g, base, f, S) ==
    g = [s \in SUBSET S |->
            IF s = {} THEN base ELSE Op(f[Choose(s)], g[s \ {Choose(s)}])]

-----------------------------------------------------------------------------

\* A family of subsets of a finite set has a smallest one.  Every induction
\* below takes the smallest set for which a statement fails.
LEMMA SmallestSet ==
    ASSUME NEW S, IsFiniteSet(S), NEW T, T \subseteq SUBSET S, T # {}
    PROVE  \E x \in T : \A y \in T : ~(y \subseteq x /\ y # x)
<1>1. IsWellFoundedOn(StrictSubsetOrdering(S), FiniteSubsetsOf(S))
  BY FS_StrictSubsetOrderingWellFounded
<1>2. T \subseteq FiniteSubsetsOf(S)
  BY FS_Subset DEF FiniteSubsetsOf
<1>3. \E x \in T : \A y \in T : ~(<<y, x>> \in StrictSubsetOrdering(S))
  BY <1>1, <1>2, WFMin
<1> QED
  BY <1>3 DEF StrictSubsetOrdering

\* A fold is the value of such a function.
LEMMA FoldIsComputed ==
    ASSUME NEW base, NEW f, NEW S
    PROVE  FoldFrom(base, f, S) = (CHOOSE g : Computes(g, base, f, S))[S]
BY DEF FoldFrom, MapThenFoldSet, Computes

\* Two functions that compute a fold agree where both are defined.
LEMMA ComputedOnce ==
    ASSUME NEW base, NEW f, NEW A, NEW B, NEW g, NEW h,
           Computes(g, base, f, A), Computes(h, base, f, B),
           NEW u, u \subseteq A, u \subseteq B, IsFiniteSet(u), Chooses(u)
    PROVE  g[u] = h[u]
<1> DEFINE T == {v \in SUBSET u : g[v] # h[v]}
<1>1. SUFFICES ASSUME g[u] # h[u] PROVE FALSE
  OBVIOUS
<1>2. T \subseteq SUBSET u /\ T # {}
  BY <1>1
<1> HIDE DEF T
<1>3. PICK x \in T : \A y \in T : ~(y \subseteq x /\ y # x)
  BY <1>2, SmallestSet
<1> USE DEF T
<1>4. x \in SUBSET A /\ x \in SUBSET B
  OBVIOUS
<1>5. x # {}
  BY <1>4 DEF Computes
<1>6. /\ g[x] = Op(f[Choose(x)], g[x \ {Choose(x)}])
      /\ h[x] = Op(f[Choose(x)], h[x \ {Choose(x)}])
  BY <1>4, <1>5 DEF Computes
<1>7. Choose(x) \in x
  BY <1>5 DEF Chooses
<1>8. g[x \ {Choose(x)}] = h[x \ {Choose(x)}]
  BY <1>3, <1>7
<1> QED
  BY <1>6, <1>8

\* There is such a function for every finite set.
LEMMA FoldExists ==
    ASSUME NEW base, NEW f, NEW S, IsFiniteSet(S), Chooses(S)
    PROVE  \E g : Computes(g, base, f, S)
<1> DEFINE T == {v \in SUBSET S : ~ \E g : Computes(g, base, f, v)}
<1>1. SUFFICES ASSUME ~ \E g : Computes(g, base, f, S) PROVE FALSE
  OBVIOUS
<1>2. T \subseteq SUBSET S /\ T # {}
  BY <1>1
<1> HIDE DEF T
<1>3. PICK u \in T : \A y \in T : ~(y \subseteq u /\ y # u)
  BY <1>2, SmallestSet
<1> USE DEF T
<1>4. u \subseteq S /\ IsFiniteSet(u)
  BY FS_Subset
<1> DEFINE W(v) == CHOOSE g : Computes(g, base, f, v)
           G == [t \in SUBSET u |->
                   IF t = {} THEN base
                   ELSE Op(f[Choose(t)], W(t \ {Choose(t)})[t \ {Choose(t)}])]
<1> HIDE DEF W
<1>5. ASSUME NEW v, v \subseteq u, v # u
      PROVE  Computes(W(v), base, f, v)
  <2>1. \E g : Computes(g, base, f, v)
    BY <1>3, <1>4, <1>5
  <2> QED
    BY <2>1 DEF W
<1>6. ASSUME NEW v, v \subseteq u, v # u
      PROVE  G[v] = W(v)[v]
  <2>1. CASE v = {}
    BY <2>1, <1>5, <1>6 DEF Computes
  <2>2. CASE v # {}
    <3> DEFINE p == v \ {Choose(v)}
    <3>1. p \subseteq v /\ p # v /\ p \subseteq u /\ p # u
      BY <2>2, <1>4, <1>6 DEF Chooses
    <3>2. Computes(W(v), base, f, v) /\ Computes(W(p), base, f, p)
      BY <1>5, <1>6, <3>1
    <3>3. IsFiniteSet(p) /\ Chooses(p)
      BY <3>1, <1>4, FS_Subset DEF Chooses
    <3>4. W(v)[p] = W(p)[p]
      <4> HIDE DEF p
      <4> QED
        BY <3>1, <3>2, <3>3, ComputedOnce
    <3>5. W(v)[v] = Op(f[Choose(v)], W(v)[p])
      BY <3>2, <2>2 DEF Computes
    <3>6. G[v] = Op(f[Choose(v)], W(p)[p])
      BY <1>6, <2>2
    <3> QED
      BY <3>4, <3>5, <3>6
  <2> QED
    BY <2>1, <2>2
<1>7. ASSUME NEW t \in SUBSET u
      PROVE  G[t] = IF t = {} THEN base ELSE Op(f[Choose(t)], G[t \ {Choose(t)}])
  <2>1. CASE t = {}
    BY <2>1
  <2>2. CASE t # {}
    <3> DEFINE p == t \ {Choose(t)}
    <3>1. p \subseteq u /\ p # u
      BY <2>2, <1>4 DEF Chooses
    <3>2. G[p] = W(p)[p]
      BY <3>1, <1>6
    <3>3. G[t] = Op(f[Choose(t)], W(p)[p])
      BY <2>2
    <3> QED
      BY <2>2, <3>2, <3>3
  <2> QED
    BY <2>1, <2>2
<1>8. G = [t \in SUBSET u |-> IF t = {} THEN base ELSE Op(f[Choose(t)], G[t \ {Choose(t)}])]
  BY <1>7
<1>9. Computes(G, base, f, u)
  <2> HIDE DEF G
  <2> QED
    BY <1>8 DEF Computes
<1> QED
  BY <1>9

-----------------------------------------------------------------------------

\* The equation by which a fold is defined, from any beginning.
THEOREM FromStep ==
    ASSUME NEW base, NEW f, NEW S, IsFiniteSet(S), Chooses(S)
    PROVE  FoldFrom(base, f, S) = IF S = {} THEN base
                                  ELSE Op(f[Choose(S)], FoldFrom(base, f, S \ {Choose(S)}))
<1> DEFINE W(v) == CHOOSE g : Computes(g, base, f, v)
<1>1. Computes(W(S), base, f, S)
  BY FoldExists
<1>2. FoldFrom(base, f, S) = W(S)[S]
  BY FoldIsComputed
<1> HIDE DEF W
<1>3. CASE S = {}
  BY <1>1, <1>2, <1>3 DEF Computes
<1>4. CASE S # {}
  <2> DEFINE p == S \ {Choose(S)}
  <2>1. p \subseteq S /\ IsFiniteSet(p) /\ Chooses(p)
    BY FS_Subset DEF Chooses
  <2>2. Computes(W(p), base, f, p)
    BY <2>1, FoldExists DEF W
  <2>3. FoldFrom(base, f, p) = W(p)[p]
    BY FoldIsComputed DEF W
  <2>4. W(S)[p] = W(p)[p]
    <3> HIDE DEF p
    <3> QED
      BY <1>1, <2>1, <2>2, ComputedOnce
  <2>5. W(S)[S] = Op(f[Choose(S)], W(S)[p])
    BY <1>1, <1>4 DEF Computes
  <2> QED
    BY <1>2, <1>4, <2>3, <2>4, <2>5
<1> QED
  BY <1>3, <1>4

\* The same from the constant.
THEOREM FoldStep ==
    ASSUME NEW f, NEW S, IsFiniteSet(S), Chooses(S)
    PROVE  Fold(f, S) = IF S = {} THEN Initial
                        ELSE Op(f[Choose(S)], Fold(f, S \ {Choose(S)}))
<1>1. \A T : Fold(f, T) = FoldFrom(Initial, f, T)
  BY DEF Fold, FoldFrom
<1> QED
  BY <1>1, FromStep

\* The fold over no element.
THEOREM FoldEmpty ==
    ASSUME NEW f
    PROVE  Fold(f, {}) = Initial
<1>1. Chooses({})
  BY DEF Chooses
<1> QED
  BY <1>1, FoldStep, FS_EmptySet

\* A fold depends on the elements alone.
THEOREM FoldSame ==
    ASSUME NEW f, NEW g, NEW S, IsFiniteSet(S), Chooses(S), \A x \in S : f[x] = g[x]
    PROVE  Fold(f, S) = Fold(g, S)
<1> DEFINE T == {v \in SUBSET S : Fold(f, v) # Fold(g, v)}
<1>1. SUFFICES ASSUME Fold(f, S) # Fold(g, S) PROVE FALSE
  OBVIOUS
<1>2. T \subseteq SUBSET S /\ T # {}
  BY <1>1
<1> HIDE DEF T
<1>3. PICK u \in T : \A y \in T : ~(y \subseteq u /\ y # u)
  BY <1>2, SmallestSet
<1> USE DEF T
<1>4. u \subseteq S /\ IsFiniteSet(u) /\ Chooses(u)
  BY FS_Subset DEF Chooses
<1>5. u # {}
  BY FoldEmpty
<1>6. Choose(u) \in u
  BY <1>4, <1>5 DEF Chooses
<1>7. Fold(f, u \ {Choose(u)}) = Fold(g, u \ {Choose(u)})
  BY <1>3, <1>4, <1>6
<1>8. Fold(f, u) = Op(f[Choose(u)], Fold(f, u \ {Choose(u)}))
  BY <1>4, <1>5, FoldStep
<1>9. Fold(g, u) = Op(g[Choose(u)], Fold(g, u \ {Choose(u)}))
  BY <1>4, <1>5, FoldStep
<1>10. f[Choose(u)] = g[Choose(u)]
  BY <1>4, <1>6
<1> QED
  BY <1>7, <1>8, <1>9, <1>10

\* What Op keeps, the fold keeps.
THEOREM FoldType ==
    ASSUME NEW Elem, NEW Typ, Keeps(Elem, Typ),
           NEW f, NEW S, IsFiniteSet(S), Chooses(S), Values(f, S, Elem)
    PROVE  Fold(f, S) \in Typ
<1> DEFINE T == {v \in SUBSET S : Fold(f, v) \notin Typ}
<1>1. SUFFICES ASSUME Fold(f, S) \notin Typ PROVE FALSE
  OBVIOUS
<1>2. T \subseteq SUBSET S /\ T # {}
  BY <1>1
<1> HIDE DEF T
<1>3. PICK u \in T : \A y \in T : ~(y \subseteq u /\ y # u)
  BY <1>2, SmallestSet
<1> USE DEF T
<1>4. u \subseteq S /\ IsFiniteSet(u) /\ Chooses(u)
  BY FS_Subset DEF Chooses
<1>5. u # {}
  BY FoldEmpty DEF Keeps
<1>6. Choose(u) \in u
  BY <1>4, <1>5 DEF Chooses
<1>7. Fold(f, u \ {Choose(u)}) \in Typ
  BY <1>3, <1>4, <1>6
<1>8. Fold(f, u) = Op(f[Choose(u)], Fold(f, u \ {Choose(u)}))
  BY <1>4, <1>5, FoldStep
<1>9. f[Choose(u)] \in Elem
  BY <1>4, <1>6 DEF Values
<1> QED
  BY <1>7, <1>8, <1>9 DEF Keeps

\* Where the order of the elements does not matter, any of them can be split
\* off: this is what sums are used for.
THEOREM FoldSplit ==
    ASSUME NEW Typ, Keeps(Typ, Typ), AnyOrder(Typ),
           NEW f, NEW S, IsFiniteSet(S), Chooses(S), Values(f, S, Typ),
           NEW e \in S
    PROVE  Fold(f, S) = Op(f[e], Fold(f, S \ {e}))
<1> DEFINE Fails(v) == \E x \in v : Fold(f, v) # Op(f[x], Fold(f, v \ {x}))
           T == {v \in SUBSET S : Fails(v)}
<1>1. SUFFICES ASSUME Fold(f, S) # Op(f[e], Fold(f, S \ {e})) PROVE FALSE
  OBVIOUS
<1>2. T \subseteq SUBSET S /\ T # {}
  BY <1>1
<1> HIDE DEF T
<1>3. PICK u \in T : \A y \in T : ~(y \subseteq u /\ y # u)
  BY <1>2, SmallestSet
<1> USE DEF T
<1>4. u \subseteq S /\ IsFiniteSet(u) /\ Chooses(u)
  BY FS_Subset DEF Chooses
<1>5. PICK x \in u : Fold(f, u) # Op(f[x], Fold(f, u \ {x}))
  OBVIOUS
<1> DEFINE p == Choose(u)
<1>6. p \in u /\ Fold(f, u) = Op(f[p], Fold(f, u \ {p}))
  BY <1>4, FoldStep DEF Chooses
<1>7. p # x
  BY <1>5, <1>6
<1> HIDE DEF p
<1> DEFINE rest == (u \ {p}) \ {x}
<1>8. ~Fails(u \ {p}) /\ ~Fails(u \ {x})
  <2>1. u \ {p} \notin T /\ u \ {x} \notin T
    <3> HIDE DEF T
    <3> QED
      BY <1>3, <1>6
  <2> HIDE DEF Fails
  <2> QED
    BY <1>4, <2>1
<1>9. Fold(f, u \ {p}) = Op(f[x], Fold(f, rest))
  BY <1>7, <1>8
<1>10. Fold(f, u \ {x}) = Op(f[p], Fold(f, rest))
  <2>1. rest = (u \ {x}) \ {p} /\ p \in u \ {x}
    BY <1>6, <1>7
  <2> QED
    BY <1>8, <2>1
<1>11. f[x] \in Typ /\ f[p] \in Typ
  BY <1>4, <1>6 DEF Values
<1>12. Fold(f, rest) \in Typ
  <2>1. IsFiniteSet(rest) /\ Chooses(rest) /\ Values(f, rest, Typ)
    BY <1>4, FS_Subset DEF Chooses, Values
  <2> HIDE DEF rest
  <2> QED
    BY <2>1, FoldType
<1> HIDE DEF rest
<1>13. Op(f[p], Op(f[x], Fold(f, rest))) = Op(f[x], Op(f[p], Fold(f, rest)))
  BY <1>11, <1>12 DEF AnyOrder
<1> QED
  BY <1>5, <1>6, <1>9, <1>10, <1>13

-----------------------------------------------------------------------------
\* Sums: the fold adds integers.
IsSum == Initial = 0 /\ \A x, y \in Int : Op(x, y) = x + y

\* The sum of integers is an integer, that of naturals a natural number.
THEOREM SumType ==
    ASSUME IsSum, NEW f, NEW S, IsFiniteSet(S), Chooses(S)
    PROVE  /\ Values(f, S, Int) => Fold(f, S) \in Int
           /\ Values(f, S, Nat) => Fold(f, S) \in Nat
<1>1. Keeps(Int, Int) /\ Keeps(Nat, Nat)
  <2>1. ASSUME NEW x \in Nat, NEW y \in Nat PROVE Op(x, y) \in Nat
    <3>1. x \in Int /\ y \in Int /\ x + y \in Nat
      OBVIOUS
    <3> QED
      BY <3>1 DEF IsSum
  <2> QED
    BY <2>1 DEF IsSum, Keeps
<1> QED
  BY <1>1, FoldType

\* One summand split off.
THEOREM SumSplit ==
    ASSUME IsSum, NEW f, NEW S, IsFiniteSet(S), Chooses(S), Values(f, S, Int), NEW e \in S
    PROVE  /\ Fold(f, S \ {e}) \in Int
           /\ Fold(f, S) = f[e] + Fold(f, S \ {e})
<1>1. Keeps(Int, Int) /\ AnyOrder(Int)
  BY DEF IsSum, Keeps, AnyOrder
<1>2. Fold(f, S) = Op(f[e], Fold(f, S \ {e}))
  BY <1>1, FoldSplit
<1>3. Fold(f, S \ {e}) \in Int
  <2>1. IsFiniteSet(S \ {e}) /\ Chooses(S \ {e}) /\ Values(f, S \ {e}, Int)
    BY FS_Subset DEF Chooses, Values
  <2> QED
    BY <2>1, SumType
<1>4. f[e] \in Int
  BY DEF Values
<1> QED
  BY <1>2, <1>3, <1>4 DEF IsSum

\* The sum over two sets that have no element in common.
THEOREM SumUnion ==
    ASSUME IsSum, NEW f, NEW A, NEW B, IsFiniteSet(A), IsFiniteSet(B), A \cap B = {},
           Chooses(A \cup B), Values(f, A \cup B, Int)
    PROVE  /\ Fold(f, A) \in Int /\ Fold(f, B) \in Int
           /\ Fold(f, A \cup B) = Fold(f, A) + Fold(f, B)
<1> DEFINE T == {v \in SUBSET B : Fold(f, A \cup v) # Fold(f, A) + Fold(f, v)}
<1>1. ASSUME NEW v \in SUBSET B
      PROVE  /\ IsFiniteSet(v) /\ Chooses(v) /\ Values(f, v, Int)
             /\ IsFiniteSet(A \cup v) /\ Chooses(A \cup v) /\ Values(f, A \cup v, Int)
  <2>1. IsFiniteSet(v)
    BY FS_Subset
  <2>2. IsFiniteSet(A \cup v)
    BY <2>1, FS_Union
  <2> QED
    BY <2>1, <2>2 DEF Chooses, Values
<1>2. \A v \in SUBSET B : Fold(f, v) \in Int /\ Fold(f, A \cup v) \in Int
  BY <1>1, SumType
<1>3. Fold(f, A) \in Int /\ Fold(f, B) \in Int
  <2>1. A \cup {} = A /\ {} \in SUBSET B /\ B \in SUBSET B
    OBVIOUS
  <2> QED
    BY <1>2, <2>1
<1>4. SUFFICES ASSUME Fold(f, A \cup B) # Fold(f, A) + Fold(f, B) PROVE FALSE
  BY <1>3
<1>5. T \subseteq SUBSET B /\ T # {}
  BY <1>4
<1> HIDE DEF T
<1>6. PICK u \in T : \A y \in T : ~(y \subseteq u /\ y # u)
  BY <1>5, SmallestSet
<1> USE DEF T
<1>7. u \in SUBSET B /\ Fold(f, A \cup u) # Fold(f, A) + Fold(f, u)
  OBVIOUS
<1>8. u # {}
  <2>1. A \cup {} = A /\ Fold(f, {}) = 0
    BY FoldEmpty DEF IsSum
  <2> QED
    BY <1>3, <1>7, <2>1
<1>9. PICK x : x \in u
  BY <1>8
<1> DEFINE rest == u \ {x}
<1>10. rest \in SUBSET B /\ rest \notin T
  <2>1. rest \subseteq u /\ rest # u /\ rest \in SUBSET B
    BY <1>7, <1>9
  <2> HIDE DEF rest, T
  <2> QED
    BY <1>6, <2>1
<1>11. Fold(f, A \cup rest) = Fold(f, A) + Fold(f, rest)
  BY <1>10
<1>12. Fold(f, u) = f[x] + Fold(f, rest)
  BY <1>1, <1>7, <1>9, SumSplit
<1>13. Fold(f, A \cup u) = f[x] + Fold(f, A \cup rest)
  <2>1. x \in A \cup u /\ A \cup rest = (A \cup u) \ {x}
    BY <1>7, <1>9
  <2>2. IsFiniteSet(A \cup u) /\ Chooses(A \cup u) /\ Values(f, A \cup u, Int)
    BY <1>1, <1>7
  <2> DEFINE all == A \cup u
  <2> HIDE DEF rest, T, all
  <2>3. Fold(f, all) = f[x] + Fold(f, all \ {x})
    BY <2>1, <2>2, SumSplit DEF all
  <2> QED
    BY <2>1, <2>3 DEF all
<1>14. f[x] \in Int
  BY <1>7, <1>9 DEF Values
<1> HIDE DEF rest, T
<1> QED
  BY <1>2, <1>3, <1>7, <1>10, <1>11, <1>12, <1>13, <1>14

\* More natural numbers have no smaller sum.
THEOREM SumMonotone ==
    ASSUME IsSum, NEW f, NEW S, IsFiniteSet(S), Chooses(S), Values(f, S, Nat),
           NEW T \in SUBSET S
    PROVE  /\ Fold(f, T) \in Nat /\ Fold(f, S) \in Nat
           /\ Fold(f, T) <= Fold(f, S)
<1>1. /\ IsFiniteSet(T) /\ Chooses(T) /\ Values(f, T, Nat)
      /\ IsFiniteSet(S \ T) /\ Chooses(S \ T) /\ Values(f, S \ T, Nat)
      /\ Values(f, S, Int)
  BY FS_Subset DEF Chooses, Values
<1>2. Fold(f, T) \in Nat /\ Fold(f, S \ T) \in Nat /\ Fold(f, S) \in Nat
  BY <1>1, SumType
<1>3. T \cup (S \ T) = S /\ T \cap (S \ T) = {}
  OBVIOUS
<1>4. Fold(f, S) = Fold(f, T) + Fold(f, S \ T)
  <2> DEFINE R == S \ T
  <2>1. T \cup R = S /\ T \cap R = {} /\ IsFiniteSet(R)
    BY <1>1, <1>3
  <2> HIDE DEF R
  <2>2. Fold(f, T \cup R) = Fold(f, T) + Fold(f, R)
    BY <1>1, <2>1, SumUnion
  <2> QED
    BY <2>1, <2>2 DEF R
<1> QED
  BY <1>2, <1>4

\* A sum of zeros is zero.
THEOREM SumOfZeros ==
    ASSUME IsSum, NEW f, NEW S, IsFiniteSet(S), Chooses(S), Values(f, S, {0})
    PROVE  Fold(f, S) = 0
<1>1. Keeps({0}, {0})
  BY DEF IsSum, Keeps
<1> QED
  BY <1>1, FoldType

\* A sum of numbers of at most m is no more than m for each of them.
THEOREM SumBounded ==
    ASSUME IsSum, NEW f, NEW S, IsFiniteSet(S), Chooses(S), Values(f, S, Nat),
           NEW m \in Nat, \A x \in S : f[x] <= m
    PROVE  Fold(f, S) \in Nat /\ Fold(f, S) <= m * Cardinality(S)
<1> DEFINE T == {v \in SUBSET S : ~(Fold(f, v) <= m * Cardinality(v))}
<1>1. ASSUME NEW v \in SUBSET S
      PROVE  /\ IsFiniteSet(v) /\ Chooses(v) /\ Values(f, v, Int) /\ Values(f, v, Nat)
             /\ Fold(f, v) \in Nat /\ Cardinality(v) \in Nat
  <2>1. IsFiniteSet(v)
    BY FS_Subset
  <2>2. Chooses(v) /\ Values(f, v, Int) /\ Values(f, v, Nat)
    BY DEF Chooses, Values
  <2> QED
    BY <2>1, <2>2, SumType, FS_CardinalityType
<1>2. SUFFICES ASSUME ~(Fold(f, S) <= m * Cardinality(S)) PROVE FALSE
  BY <1>1
<1>3. T \subseteq SUBSET S /\ T # {}
  BY <1>2
<1> HIDE DEF T
<1>4. PICK u \in T : \A y \in T : ~(y \subseteq u /\ y # u)
  BY <1>3, SmallestSet
<1> USE DEF T
<1>5. u \in SUBSET S /\ ~(Fold(f, u) <= m * Cardinality(u))
  OBVIOUS
<1>6. u # {}
  <2>1. Fold(f, {}) = 0 /\ Cardinality({}) = 0
    BY FoldEmpty, FS_EmptySet DEF IsSum
  <2> QED
    BY <1>5, <2>1
<1>7. PICK x : x \in u
  BY <1>6
<1> DEFINE rest == u \ {x}
<1>8. rest \in SUBSET S /\ rest \notin T
  <2>1. rest \subseteq u /\ rest # u /\ rest \in SUBSET S
    BY <1>5, <1>7
  <2> HIDE DEF rest, T
  <2> QED
    BY <1>4, <2>1
<1>9. Fold(f, rest) <= m * Cardinality(rest)
  BY <1>8
<1>10. Fold(f, u) = f[x] + Fold(f, rest)
  BY <1>1, <1>5, <1>7, SumSplit
<1>11. Cardinality(rest) = Cardinality(u) - 1
  BY <1>1, <1>5, <1>7, FS_RemoveElement
<1>12. f[x] \in Nat /\ f[x] <= m
  BY <1>5, <1>7 DEF Values
<1> DEFINE a == Fold(f, rest)
           b == Fold(f, u)
           j == Cardinality(rest)
           k == Cardinality(u)
<1>13. a \in Nat /\ b \in Nat /\ j \in Nat /\ k \in Nat
  BY <1>1, <1>5, <1>8
<1>14. a <= m * j /\ b = f[x] + a /\ k = j + 1 /\ ~(b <= m * k)
  BY <1>5, <1>9, <1>10, <1>11, <1>13
<1> HIDE DEF a, b, j, k, rest, T
<1>15. m * (j + 1) = m * j + m /\ m * j \in Nat
  BY <1>13
<1> QED
  BY <1>12, <1>13, <1>14, <1>15

-----------------------------------------------------------------------------
\* Where the last index is folded last, each one continues the fold of those
\* before it.
THEOREM FoldNext ==
    ASSUME \A n \in Nat : Chooses(1 .. n) /\ (n > 0 => Choose(1 .. n) = n),
           NEW f, NEW n \in Nat
    PROVE  Fold(f, 1 .. n + 1) = Op(f[n + 1], Fold(f, 1 .. n))
<1>1. Choose(1 .. n + 1) = n + 1 /\ (1 .. n + 1) \ {n + 1} = 1 .. n /\ 1 .. n + 1 # {}
  <2>1. n + 1 \in Nat /\ n + 1 > 0 /\ n + 1 \in 1 .. n + 1
    OBVIOUS
  <2> QED
    BY <2>1
<1>2. IsFiniteSet(1 .. n + 1) /\ Chooses(1 .. n + 1)
  BY FS_Interval
<1> QED
  BY <1>1, <1>2, FoldStep

\* From any beginning.
THEOREM FromNext ==
    ASSUME \A n \in Nat : Chooses(1 .. n) /\ (n > 0 => Choose(1 .. n) = n),
           NEW base, NEW f, NEW n \in Nat
    PROVE  /\ FoldFrom(base, f, {}) = base
           /\ FoldFrom(base, f, 1 .. n + 1) = Op(f[n + 1], FoldFrom(base, f, 1 .. n))
<1>1. Choose(1 .. n + 1) = n + 1 /\ (1 .. n + 1) \ {n + 1} = 1 .. n /\ 1 .. n + 1 # {}
  <2>1. n + 1 \in Nat /\ n + 1 > 0 /\ n + 1 \in 1 .. n + 1
    OBVIOUS
  <2> QED
    BY <2>1
<1>2. IsFiniteSet(1 .. n + 1) /\ Chooses(1 .. n + 1)
  BY FS_Interval
<1>3. FoldFrom(base, f, {}) = base
  <2>1. IsFiniteSet({}) /\ Chooses({})
    BY FS_EmptySet DEF Chooses
  <2> QED
    BY <2>1, FromStep
<1>4. FoldFrom(base, f, 1 .. n + 1) = Op(f[n + 1], FoldFrom(base, f, 1 .. n))
  BY <1>1, <1>2, FromStep
<1> QED
  BY <1>3, <1>4

\* The fold over a sequence takes its elements from left to right.
THEOREM FoldAppend ==
    ASSUME \A n \in Nat : Chooses(1 .. n) /\ (n > 0 => Choose(1 .. n) = n),
           NEW Elem, NEW s \in Seq(Elem), NEW e \in Elem
    PROVE  Fold(Append(s, e), DOMAIN Append(s, e)) = Op(e, Fold(s, DOMAIN s))
<1> DEFINE n == Len(s)
           t == Append(s, e)
<1>1. n \in Nat /\ DOMAIN s = 1 .. n /\ DOMAIN t = 1 .. n + 1
  OBVIOUS
<1>2. t[n + 1] = e /\ \A i \in 1 .. n : t[i] = s[i]
  OBVIOUS
<1> HIDE DEF n, t
<1>3. IsFiniteSet(1 .. n) /\ Chooses(1 .. n)
  BY <1>1, FS_Interval
<1>4. Fold(t, 1 .. n + 1) = Op(t[n + 1], Fold(t, 1 .. n))
  BY <1>1, FoldNext
<1>5. Fold(t, 1 .. n) = Fold(s, 1 .. n)
  BY <1>2, <1>3, FoldSame
<1> QED
  BY <1>1, <1>2, <1>4, <1>5 DEF t

-----------------------------------------------------------------------------

\* A finite set of integers that is not empty has a greatest element.
THEOREM MaxIsGreatest ==
    ASSUME NEW S, IsFiniteSet(S)
    PROVE  S \subseteq Int /\ S # {} => Max(S) \in S /\ \A y \in S : Max(S) >= y
<1> DEFINE HasMax(v) == \E x \in v : \A y \in v : x >= y
           T == {v \in SUBSET S : v # {} /\ ~HasMax(v)}
<1>1. SUFFICES ASSUME S \subseteq Int, S # {}, ~HasMax(S) PROVE FALSE
  BY DEF Max
<1>2. T \subseteq SUBSET S /\ T # {}
  BY <1>1
<1> HIDE DEF T, HasMax
<1>3. PICK u \in T : \A y \in T : ~(y \subseteq u /\ y # u)
  BY <1>2, SmallestSet
<1> USE DEF T, HasMax
<1>4. PICK x : x \in u
  OBVIOUS
<1>5. CASE u \ {x} = {}
  BY <1>1, <1>4, <1>5
<1>6. CASE u \ {x} # {}
  <2>1. HasMax(u \ {x})
    <3>1. u \ {x} \notin T
      <4> HIDE DEF T
      <4> QED
        BY <1>3, <1>4
    <3> HIDE DEF HasMax
    <3> QED
      BY <1>6, <3>1
  <2>2. PICK m \in u \ {x} : \A y \in u \ {x} : m >= y
    BY <2>1
  <2>3. m \in Int /\ x \in Int /\ u \subseteq Int
    BY <1>1, <1>4
  <2>4. CASE x >= m
    <3>1. \A y \in u : x >= y
      BY <2>2, <2>3, <2>4
    <3> QED
      BY <1>4, <3>1
  <2>5. CASE ~(x >= m)
    <3>1. \A y \in u : m >= y
      BY <2>2, <2>3, <2>5
    <3> QED
      BY <2>2, <3>1
  <2> QED
    BY <2>4, <2>5
<1> QED
  BY <1>5, <1>6

\* Max chooses the last index of a sequence, and chooses from every interval.
THEOREM MaxOfInterval ==
    ASSUME NEW n \in Nat
    PROVE  /\ n > 0 => Max(1 .. n) = n
           /\ \A T \in SUBSET (1 .. n) : T # {} => Max(T) \in T
<1>1. ASSUME NEW T \in SUBSET (1 .. n), T # {} PROVE Max(T) \in T /\ \A y \in T : Max(T) >= y
  <2>1. IsFiniteSet(1 .. n) /\ T \subseteq 1 .. n
    BY FS_Interval
  <2>2. IsFiniteSet(T)
    BY <2>1, FS_Subset
  <2>3. T \subseteq Int
    BY <2>1
  <2> QED
    BY <1>1, <2>2, <2>3, MaxIsGreatest
<1>2. ASSUME n > 0 PROVE Max(1 .. n) = n
  <2>1. 1 .. n \in SUBSET (1 .. n) /\ 1 .. n # {}
    BY <1>2
  <2>2. Max(1 .. n) \in 1 .. n /\ \A y \in 1 .. n : Max(1 .. n) >= y
    BY <1>1, <2>1
  <2> QED
    BY <1>2, <2>2
<1> QED
  BY <1>1, <1>2

\* Numbers that begin with 0 and go on reach n: the induction over a fold, one
\* element after the other.
THEOREM Reaches ==
    ASSUME NEW n \in Nat, NEW K, 0 \in K, \A k \in 0 .. n : k \in K /\ k < n => k + 1 \in K
    PROVE  n \in K
<1> DEFINE Begun == {k \in 0 .. n : \A j \in 0 .. k : j \in K}
<1>1. 0 \in Begun /\ Begun \subseteq Int /\ Begun # {}
  <2>1. 0 \in 0 .. n /\ \A j \in 0 .. 0 : j \in K
    <3>1. \A j \in 0 .. 0 : j = 0
      OBVIOUS
    <3> QED
      BY <3>1
  <2>2. 0 \in Begun
    BY <2>1
  <2>3. Begun \subseteq Int
    OBVIOUS
  <2> QED
    BY <2>2, <2>3
<1>2. IsFiniteSet(Begun)
  <2>1. IsFiniteSet(0 .. n)
    BY FS_Interval
  <2> QED
    BY <2>1, FS_Subset
<1> DEFINE m == Max(Begun)
<1>3. m \in Begun /\ \A k \in Begun : m >= k
  <2> HIDE DEF Begun
  <2> QED
    BY <1>1, <1>2, MaxIsGreatest
<1> HIDE DEF m
<1>4. m \in 0 .. n /\ \A j \in 0 .. m : j \in K
  BY <1>3
<1>5. CASE m = n
  BY <1>4, <1>5
<1>6. CASE m < n
  <2>1. m + 1 \in K /\ m + 1 \in 0 .. n
    BY <1>4, <1>6
  <2>2. \A j \in 0 .. m + 1 : j \in 0 .. m \/ j = m + 1
    BY <1>4
  <2>3. m + 1 \in Begun
    BY <1>4, <2>1, <2>2
  <2>4. m >= m + 1
    <3> HIDE DEF Begun
    <3> QED
      BY <1>3, <2>3
  <2> QED
    BY <1>4, <2>4
<1> QED
  BY <1>4, <1>5, <1>6
=============================================================================
