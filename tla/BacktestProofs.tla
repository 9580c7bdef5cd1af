---------------------------- MODULE BacktestProofs -----------------------------
(***************************************************************************)
(* Proofs about what the platform does with an account before it is let    *)
(* near a market, and about the guards that stay with it afterwards: the   *)
(* guards of risk/, the shadow study, the loop of the portfolio's agents.  *)
(*                                                                         *)
(* Each is a fold over the calls, rounds or choices it is given, of any    *)
(* number, so that what it promises of the whole history is proved by what *)
(* it keeps over one step; the account of a backtest is a state of the     *)
(* run, and what the loop keeps over one hour is its invariant.  As in     *)
(* GateProofs, the theorems are about the operators for any input, and the *)
(* invariants of the run follow once its inputs are known to be of their   *)
(* kind.                                                                   *)
(***************************************************************************)
EXTENDS MCResearch, FiniteSetTheorems, TLAPS

Plus(x, y) == x + y
AnyOf(S) == CHOOSE x \in S : TRUE
Sums == INSTANCE FoldLemmas WITH Op <- Plus, Initial <- 0, Choose <- AnyOf
Largest(S) == Max(S)

-----------------------------------------------------------------------------
(* Arithmetic *)

\* The smaller of two numbers.
LEMMA MinOfTwo ==
    ASSUME NEW a \in Int, NEW b \in Int
    PROVE  Min({a, b}) \in {a, b} /\ Min({a, b}) <= a /\ Min({a, b}) <= b /\ Min({a, b}) \in Int
<1>1. \E x \in {a, b} : \A y \in {a, b} : x <= y
  OBVIOUS
<1> QED
  BY <1>1 DEF Min

\* The greater of two numbers.
LEMMA MaxOfTwo ==
    ASSUME NEW a \in Int, NEW b \in Int
    PROVE  Max({a, b}) \in {a, b} /\ Max({a, b}) >= a /\ Max({a, b}) >= b /\ Max({a, b}) \in Int
<1>1. \E x \in {a, b} : \A y \in {a, b} : x >= y
  OBVIOUS
<1> QED
  BY <1>1 DEF Max

\* What the arithmetic of whole numbers gives.
LEMMA Division ==
    ASSUME NEW x \in Nat, NEW s \in Nat \ {0}
    PROVE  /\ x \div s \in Nat /\ s * (x \div s) \in Nat /\ s * (x \div s) <= x
           /\ x < s * (x \div s) + s /\ x % s = x - s * (x \div s)
OBVIOUS

\* Products grow with a factor.
LEMMA ProductGrows ==
    ASSUME NEW s \in Nat, NEW a \in Nat, NEW b \in Nat, a <= b
    PROVE  s * a <= s * b /\ s * a \in Nat /\ s * b \in Nat
<1>1. PICK d \in Nat : b = a + d
  <2>1. b - a \in Nat /\ b = a + (b - a)
    OBVIOUS
  <2> QED
    BY <2>1
<1>2. s * b = s * a + s * d /\ s * a \in Nat /\ s * d \in Nat
  BY <1>1
<1> QED
  BY <1>2

\* Products grow with a factor, by a whole factor at the least.
LEMMA Grows ==
    ASSUME NEW a \in Nat, NEW b \in Nat, a < b, NEW s \in Nat \ {0}
    PROVE  a * s \in Nat /\ b * s \in Nat /\ a * s + s <= b * s
<1> DEFINE d == b - a - 1
<1>1. d \in Nat /\ b = a + 1 + d
  OBVIOUS
<1> HIDE DEF d
<1>2. b * s = a * s + s + d * s /\ d * s \in Nat /\ a * s \in Nat
  BY <1>1
<1> QED
  BY <1>2

\* What a sum of one side counts.
LEMMA PositivePart ==
    ASSUME NEW x \in Int
    PROVE  Max({0, x}) = IF x > 0 THEN x ELSE 0
<1>1. Max({0, x}) \in {0, x} /\ Max({0, x}) >= 0 /\ Max({0, x}) >= x
  BY MaxOfTwo
<1> QED
  BY <1>1

\* The sum of a function is a fold the lemmas speak of.
LEMMA SumOfNaturals ==
    ASSUME NEW S, IsFiniteSet(S), NEW f \in [S -> Nat]
    PROVE  /\ SumFunction(f) = Sums!Fold(f, S)
           /\ Sums!IsSum /\ Sums!IsFiniteSet(S) /\ Sums!Chooses(S) /\ Sums!Values(f, S, Nat)
           /\ Sums!Values(f, S, Int)
<1>1. DOMAIN f = S
  OBVIOUS
<1>2. SumFunction(f) = SumFunctionOnSet(f, S)
  BY <1>1 DEF SumFunction
<1>3. SumFunctionOnSet(f, S) = Sums!Fold(f, S)
  BY DEF SumFunctionOnSet, FoldFunctionOnSet, MapThenFoldSet, Sums!Fold, Sums!MapThenFoldSet, Plus, AnyOf
<1>4. /\ Sums!IsSum /\ Sums!IsFiniteSet(S) /\ Sums!Chooses(S) /\ Sums!Values(f, S, Nat)
      /\ Sums!Values(f, S, Int)
  BY DEF Sums!IsSum, Sums!IsFiniteSet, IsFiniteSet, Sums!Chooses, Sums!Values, Plus, AnyOf
<1> QED
  BY <1>2, <1>3, <1>4

\* Only accounts see steps: an input of any other kind stays as it is.
LEMMA InputsStay ==
    ASSUME NEW kind \in {"drift", "health", "policy", "folds", "windows", "ranks", "vols", "curve",
                         "trade", "targets", "calls", "days", "wishes", "study", "shadow"},
           [ResearchNext]_<<vars, input>>
    PROVE  Given(kind)' => Given(kind) /\ input' = input
BY DEF ResearchNext, Trade, Validate, Rebalance, Given

-----------------------------------------------------------------------------
(* The guards of risk *)

OneCall(call, breaker) == L!Called(breaker, call)
Calling == INSTANCE FoldLemmas WITH Op <- OneCall, Initial <- L!Armed, Choose <- Largest

\* The breaker after the first k calls
BreakerAfter(calls, k) == Calling!Fold(calls, 1 .. k)

\* The breaker after one more call.
LEMMA BreakerNext ==
    ASSUME NEW calls, NEW k \in Nat
    PROVE  /\ BreakerAfter(calls, 0) = L!Armed
           /\ BreakerAfter(calls, k + 1) = L!Called(BreakerAfter(calls, k), calls[k + 1])
<1>1. \A n \in Nat : Calling!Chooses(1 .. n) /\ (n > 0 => Largest(1 .. n) = n)
  BY Calling!MaxOfInterval DEF Largest, Calling!Chooses, Max, Calling!Max
<1>2. Calling!Fold(calls, 1 .. k + 1) = OneCall(calls[k + 1], Calling!Fold(calls, 1 .. k))
  BY <1>1, Calling!FoldNext
<1>3. Calling!Fold(calls, {}) = L!Armed /\ 1 .. 0 = {}
  BY Calling!FoldEmpty
<1> QED
  BY <1>2, <1>3 DEF BreakerAfter, OneCall

LEMMA BreakerIs ==
    ASSUME NEW n \in Nat, NEW calls, DOMAIN calls = 1 .. n
    PROVE  L!Breaker(calls) = BreakerAfter(calls, n)
<1>1. L!FoldLeft(L!Called, L!Armed, calls) = Calling!Fold(calls, DOMAIN calls)
  BY DEF L!FoldLeft, L!MapThenFoldSet, Calling!Fold, Calling!MapThenFoldSet, OneCall, Largest, L!Max, Max
<1> QED
  BY <1>1 DEF L!Breaker, BreakerAfter

\* A sequence of calls of the breaker.
IsCalls(calls, n) ==
    /\ n \in Nat /\ DOMAIN calls = 1 .. n
    /\ \A i \in 1 .. n : calls[i].kind \in {"success", "error", "reset", "fill"}

Erred(calls, i) == calls[i].kind = "error"
Slipped(calls, i) == calls[i].kind = "fill" /\ L!TooFar(calls[i].slip)
Unbroken(calls, l, i) == \A m \in l .. i : calls[m].kind # "success"
TwoErrors(calls, since, i) ==
    \E l, m \in since + 1 .. i : l < m /\ Erred(calls, l) /\ Erred(calls, m) /\ Unbroken(calls, l, i)

\* What the breaker knows of the first k calls, s of which were before the last
\* reset: whether an error is still to be followed by another, and whether two
\* followed each other or a fill slipped.
BreakerKnows(b, calls, k, s) ==
    /\ b \in [errors : Nat, tripped : BOOLEAN]
    /\ s \in 0 .. k /\ (s > 0 => calls[s].kind = "reset")
    /\ \A i \in s + 1 .. k : calls[i].kind # "reset"
    /\ b.errors > 0 <=> \E l \in s + 1 .. k : Erred(calls, l) /\ Unbroken(calls, l, k)
    /\ b.tripped <=> \E i \in s + 1 .. k : TwoErrors(calls, s, i) \/ Slipped(calls, i)

\* The four methods of the breaker.
LEMMA CalledIs ==
    ASSUME NEW b \in [errors : Nat, tripped : BOOLEAN], NEW call,
           call.kind \in {"success", "error", "reset", "fill"}
    PROVE  /\ L!Called(b, call) \in [errors : Nat, tripped : BOOLEAN]
           /\ L!Called(b, call).errors = IF call.kind = "error" THEN b.errors + 1
                                         ELSE IF call.kind = "fill" THEN b.errors ELSE 0
           /\ L!Called(b, call).tripped <=>
                  /\ call.kind # "reset"
                  /\ \/ b.tripped
                     \/ call.kind = "error" /\ b.errors > 0
                     \/ call.kind = "fill" /\ L!TooFar(call.slip)
<1>1. b.errors \in Nat /\ b.tripped \in BOOLEAN
  OBVIOUS
<1>2. CASE call.kind = "success"
  <2>1. L!Called(b, call) = [b EXCEPT !.errors = 0]
    BY <1>2 DEF L!Called
  <2> QED
    BY <1>2, <2>1
<1>3. CASE call.kind = "error"
  <2>1. L!Called(b, call) = [errors |-> b.errors + 1, tripped |-> b.tripped \/ b.errors + 1 >= 2]
    BY <1>3 DEF L!Called, L!MaxErrors
  <2>2. b.errors + 1 >= 2 <=> b.errors > 0
    BY <1>1
  <2> DEFINE tripped == b.tripped \/ b.errors + 1 >= 2
  <2>3. tripped \in BOOLEAN /\ b.errors + 1 \in Nat /\ (tripped <=> b.tripped \/ b.errors > 0)
    BY <1>1, <2>2
  <2> HIDE DEF tripped
  <2>4. L!Called(b, call) = [errors |-> b.errors + 1, tripped |-> tripped]
    BY <2>1 DEF tripped
  <2>5. /\ L!Called(b, call) \in [errors : Nat, tripped : BOOLEAN]
        /\ L!Called(b, call).errors = b.errors + 1 /\ L!Called(b, call).tripped = tripped
    BY <2>3, <2>4
  <2> QED
    BY <1>3, <2>3, <2>5
<1>4. CASE call.kind = "reset"
  <2>1. L!Called(b, call) = [errors |-> 0, tripped |-> FALSE]
    BY <1>4 DEF L!Called, L!Armed
  <2> QED
    BY <1>4, <2>1
<1>5. CASE call.kind = "fill"
  <2>1. L!Called(b, call) = [b EXCEPT !.tripped = @ \/ L!TooFar(call.slip)]
    BY <1>5 DEF L!Called
  <2>2. L!TooFar(call.slip) \in BOOLEAN
    BY DEF L!TooFar
  <2> QED
    BY <1>5, <2>1, <2>2
<1> QED
  BY <1>2, <1>3, <1>4, <1>5

\* It knows them after the next call, too.
LEMMA BreakerKnowsNext ==
    ASSUME NEW n, NEW calls, IsCalls(calls, n), NEW k \in 0 .. n, k < n,
           NEW b, NEW s, BreakerKnows(b, calls, k, s)
    PROVE  \E t \in 0 .. k + 1 : BreakerKnows(L!Called(b, calls[k + 1]), calls, k + 1, t)
<1> DEFINE call == calls[k + 1]
           c == L!Called(b, call)
<1>1. k \in Nat /\ k + 1 \in 1 .. n /\ call.kind \in {"success", "error", "reset", "fill"}
  BY DEF IsCalls
<1>2. /\ b \in [errors : Nat, tripped : BOOLEAN]
      /\ s \in 0 .. k /\ (s > 0 => calls[s].kind = "reset")
      /\ \A i \in s + 1 .. k : calls[i].kind # "reset"
      /\ b.errors > 0 <=> \E l \in s + 1 .. k : Erred(calls, l) /\ Unbroken(calls, l, k)
      /\ b.tripped <=> \E i \in s + 1 .. k : TwoErrors(calls, s, i) \/ Slipped(calls, i)
  BY DEF BreakerKnows
<1>3. /\ c \in [errors : Nat, tripped : BOOLEAN]
      /\ c.errors = IF call.kind = "error" THEN b.errors + 1
                    ELSE IF call.kind = "fill" THEN b.errors ELSE 0
      /\ c.tripped <=> /\ call.kind # "reset"
                       /\ \/ b.tripped
                          \/ call.kind = "error" /\ b.errors > 0
                          \/ call.kind = "fill" /\ L!TooFar(call.slip)
  BY <1>1, <1>2, CalledIs
<1> HIDE DEF c
<1>4. CASE call.kind = "reset"
  <2>1. /\ k + 1 \in 0 .. k + 1 /\ \A i \in k + 1 + 1 .. k + 1 : FALSE
        /\ calls[k + 1].kind = "reset"
    BY <1>1, <1>4
  <2>2. c.errors = 0 /\ ~c.tripped
    BY <1>3, <1>4
  <2>3. BreakerKnows(c, calls, k + 1, k + 1)
    BY <1>3, <2>1, <2>2 DEF BreakerKnows
  <2> QED
    BY <2>1, <2>3 DEF c
<1>5. CASE call.kind # "reset"
  <2>1. /\ s \in 0 .. k + 1 /\ \A i \in s + 1 .. k + 1 : calls[i].kind # "reset"
    BY <1>1, <1>2, <1>5
  <2>2. \A l \in s + 1 .. k : Unbroken(calls, l, k + 1) <=> Unbroken(calls, l, k) /\ call.kind # "success"
    BY <1>1, <1>2 DEF Unbroken
  <2>3. Unbroken(calls, k + 1, k + 1) <=> call.kind # "success"
    BY <1>1 DEF Unbroken
  <2>4. \A i : i \in s + 1 .. k + 1 <=> i \in s + 1 .. k \/ i = k + 1
    BY <1>1, <1>2
  <2>5. c.errors > 0 <=> \E l \in s + 1 .. k + 1 : Erred(calls, l) /\ Unbroken(calls, l, k + 1)
    <3>1. (\E l \in s + 1 .. k + 1 : Erred(calls, l) /\ Unbroken(calls, l, k + 1)) <=>
              \/ call.kind = "error"
              \/ call.kind # "success" /\ b.errors > 0
      BY <1>2, <2>2, <2>3, <2>4 DEF Erred
    <3>2. b.errors \in Nat
      BY <1>2
    <3> QED
      BY <1>1, <1>3, <1>5, <3>1, <3>2
  <2>6. TwoErrors(calls, s, k + 1) <=> \/ call.kind = "error" /\ b.errors > 0
                                       \/ call.kind # "success" /\ TwoErrors(calls, s, k)
    <3>1. ASSUME TwoErrors(calls, s, k + 1)
          PROVE  call.kind # "success" /\ ((call.kind = "error" /\ b.errors > 0) \/ TwoErrors(calls, s, k))
      <4>1. PICK l, m \in s + 1 .. k + 1 :
                   l < m /\ Erred(calls, l) /\ Erred(calls, m) /\ Unbroken(calls, l, k + 1)
        BY <3>1 DEF TwoErrors
      <4>2. l \in s + 1 .. k
        BY <1>1, <1>2, <4>1
      <4>3. Unbroken(calls, l, k) /\ call.kind # "success"
        BY <2>2, <4>1, <4>2
      <4>4. CASE m = k + 1
        BY <1>2, <4>1, <4>2, <4>3, <4>4 DEF Erred
      <4>5. CASE m \in s + 1 .. k
        BY <4>1, <4>2, <4>3, <4>5 DEF TwoErrors
      <4> QED
        BY <2>4, <4>4, <4>5
    <3>2. ASSUME call.kind = "error", b.errors > 0 PROVE TwoErrors(calls, s, k + 1)
      <4>1. PICK l \in s + 1 .. k : Erred(calls, l) /\ Unbroken(calls, l, k)
        BY <1>2, <3>2
      <4>2. l \in s + 1 .. k + 1 /\ k + 1 \in s + 1 .. k + 1 /\ l < k + 1
        BY <1>1, <1>2
      <4>3. Unbroken(calls, l, k + 1) /\ Erred(calls, k + 1)
        BY <2>2, <3>2, <4>1 DEF Erred
      <4> QED
        BY <4>1, <4>2, <4>3 DEF TwoErrors
    <3>3. ASSUME call.kind # "success", TwoErrors(calls, s, k) PROVE TwoErrors(calls, s, k + 1)
      <4>1. PICK l, m \in s + 1 .. k :
                   l < m /\ Erred(calls, l) /\ Erred(calls, m) /\ Unbroken(calls, l, k)
        BY <3>3 DEF TwoErrors
      <4>2. l \in s + 1 .. k + 1 /\ m \in s + 1 .. k + 1
        BY <2>4
      <4>3. Unbroken(calls, l, k + 1)
        BY <2>2, <3>3, <4>1
      <4> QED
        BY <4>1, <4>2, <4>3 DEF TwoErrors
    <3> QED
      BY <3>1, <3>2, <3>3
  <2>7. TwoErrors(calls, s, k) => b.tripped
    <3>1. ASSUME TwoErrors(calls, s, k) PROVE k \in s + 1 .. k
      BY <1>1, <1>2, <3>1 DEF TwoErrors
    <3> QED
      BY <1>2, <3>1
  <2>8. c.tripped <=> \E i \in s + 1 .. k + 1 : TwoErrors(calls, s, i) \/ Slipped(calls, i)
    <3>1. (\E i \in s + 1 .. k + 1 : TwoErrors(calls, s, i) \/ Slipped(calls, i)) <=>
              b.tripped \/ TwoErrors(calls, s, k + 1) \/ Slipped(calls, k + 1)
      BY <1>2, <2>4
    <3>2. Slipped(calls, k + 1) <=> call.kind = "fill" /\ L!TooFar(call.slip)
      BY DEF Slipped
    <3> QED
      BY <1>3, <1>5, <2>6, <2>7, <3>1, <3>2
  <2>9. BreakerKnows(c, calls, k + 1, s)
    BY <1>2, <1>3, <2>1, <2>5, <2>8 DEF BreakerKnows
  <2> QED
    BY <2>1, <2>9 DEF c
<1> QED
  BY <1>4, <1>5

\* Two errors in a row: counting them finds them.
LEMMA TwoAreCounted ==
    ASSUME NEW n, NEW calls, IsCalls(calls, n), NEW s \in 0 .. n, NEW i \in s + 1 .. n
    PROVE  TwoErrors(calls, s, i) <=>
               \E k \in s + 1 .. i : /\ Unbroken(calls, k, i)
                                     /\ Cardinality({l \in k .. i : Erred(calls, l)}) = 2
<1> DEFINE E(k) == {l \in k .. i : Erred(calls, l)}
<1>0. n \in Nat /\ i \in Nat /\ s \in Nat
  BY DEF IsCalls
<1>1. ASSUME NEW k \in s + 1 .. i PROVE IsFiniteSet(E(k)) /\ E(k) \subseteq Int
  <2>1. k \in Int /\ i \in Int
    BY <1>0
  <2>2. IsFiniteSet(k .. i)
    BY <2>1, FS_Interval
  <2> QED
    BY <2>2, FS_Subset
<1>2. ASSUME NEW k \in s + 1 .. i, Unbroken(calls, k, i), Cardinality(E(k)) = 2
      PROVE  TwoErrors(calls, s, i)
  <2> DEFINE F == E(k)
  <2>1. IsFiniteSet(F) /\ Cardinality(F) = 2 /\ F \subseteq Int
    BY <1>1, <1>2
  <2>2. PICK l, m \in F : l # m
    <3> HIDE DEF F
    <3>1. F # {}
      BY <2>1, FS_EmptySet
    <3>2. PICK l \in F : TRUE
      BY <3>1
    <3>3. IsFiniteSet(F \ {l}) /\ Cardinality(F \ {l}) = 1
      BY <2>1, <3>2, FS_RemoveElement
    <3>4. F \ {l} # {}
      BY <3>3, FS_EmptySet
    <3> QED
      BY <3>2, <3>4
  <2>3. l \in k .. i /\ m \in k .. i /\ Erred(calls, l) /\ Erred(calls, m)
    OBVIOUS
  <2>4. l \in s + 1 .. i /\ m \in s + 1 .. i /\ (l < m \/ m < l)
    BY <1>0, <2>2, <2>3
  <2>5. Unbroken(calls, l, i) /\ Unbroken(calls, m, i)
    BY <1>0, <1>2, <2>3 DEF Unbroken
  <2> QED
    BY <2>3, <2>4, <2>5 DEF TwoErrors
<1>3. ASSUME TwoErrors(calls, s, i)
      PROVE  \E k \in s + 1 .. i : Unbroken(calls, k, i) /\ Cardinality(E(k)) = 2
  <2>1. PICK l, m \in s + 1 .. i : l < m /\ Erred(calls, l) /\ Erred(calls, m) /\ Unbroken(calls, l, i)
    BY <1>3 DEF TwoErrors
  <2> DEFINE F == E(l)
             last == Max(F)
             G == {x \in F : x < last}
             prev == Max(G)
  <2>2. IsFiniteSet(F) /\ F \subseteq Int /\ l \in F /\ m \in F
    BY <1>0, <1>1, <2>1
  <2>3. last \in F /\ \A x \in F : last >= x
    <3> HIDE DEF F
    <3>1. Sums!IsFiniteSet(F)
      BY <2>2 DEF Sums!IsFiniteSet, IsFiniteSet
    <3>2. Sums!Max(F) \in F /\ \A x \in F : Sums!Max(F) >= x
      BY <2>2, <3>1, Sums!MaxIsGreatest
    <3> QED
      BY <3>2 DEF Max, Sums!Max
  <2>4. G # {} /\ G \subseteq F
    <3> HIDE DEF F, last
    <3> QED
      BY <2>1, <2>2, <2>3
  <2>5. prev \in G /\ \A x \in G : prev >= x
    <3> HIDE DEF G, F
    <3>1. IsFiniteSet(G)
      BY <2>2, <2>4, FS_Subset
    <3>2. Sums!IsFiniteSet(G) /\ G \subseteq Int
      BY <2>2, <2>4, <3>1 DEF Sums!IsFiniteSet, IsFiniteSet
    <3>3. Sums!Max(G) \in G /\ \A x \in G : Sums!Max(G) >= x
      BY <2>4, <3>2, Sums!MaxIsGreatest
    <3> QED
      BY <3>3 DEF Max, Sums!Max
  <2>6. prev \in F /\ prev < last /\ \A x \in F : x < last => prev >= x
    <3> HIDE DEF F, last, prev
    <3> QED
      BY <2>5
  <2> HIDE DEF last, prev, G
  <2>7. prev \in l .. i /\ Erred(calls, prev) /\ last \in l .. i /\ Erred(calls, last)
    BY <2>3, <2>6
  <2>8. prev \in s + 1 .. i
    BY <1>0, <2>1, <2>7
  <2>9. Unbroken(calls, prev, i)
    BY <1>0, <2>1, <2>7 DEF Unbroken
  <2>10. E(prev) = {prev, last}
    <3>1. \A x \in prev .. i : x \in l .. i
      BY <1>0, <2>1, <2>7
    <3>2. \A x \in E(prev) : x \in F /\ x >= prev /\ x \in Int
      BY <1>0, <2>8, <3>1
    <3>3. prev \in E(prev) /\ last \in E(prev)
      BY <1>0, <2>6, <2>7
    <3> HIDE DEF E, F
    <3>4. prev \in Int /\ last \in Int
      BY <1>0, <2>1, <2>7
    <3>5. ASSUME NEW x \in E(prev) PROVE x = prev \/ x = last
      BY <2>3, <2>6, <3>2, <3>4, <3>5
    <3> QED
      BY <3>3, <3>5
  <2>11. Cardinality({prev, last}) = 2
    <3>1. prev # last
      BY <1>0, <2>1, <2>6, <2>7
    <3>2. IsFiniteSet({last}) /\ Cardinality({last}) = 1
      BY FS_Singleton
    <3>3. Cardinality({last} \cup {prev}) = 1 + 1
      BY <3>1, <3>2, FS_AddElement
    <3>4. {last} \cup {prev} = {prev, last}
      OBVIOUS
    <3> QED
      BY <3>3, <3>4
  <2> QED
    BY <2>8, <2>9, <2>10, <2>11
<1> QED
  BY <1>2, <1>3

\* What the breaker knows after all the calls, for some last reset.
LEMMA BreakerKnowsAll ==
    ASSUME NEW n, NEW calls, IsCalls(calls, n)
    PROVE  \E s \in 0 .. n : BreakerKnows(L!Breaker(calls), calls, n, s)
<1> DEFINE K == {k \in 0 .. n : \E s \in 0 .. k : BreakerKnows(BreakerAfter(calls, k), calls, k, s)}
<1>0. n \in Nat /\ DOMAIN calls = 1 .. n
  BY DEF IsCalls
<1>1. 0 \in K
  <2>1. BreakerAfter(calls, 0) = [errors |-> 0, tripped |-> FALSE]
    BY BreakerNext DEF L!Armed
  <2>2. BreakerKnows(BreakerAfter(calls, 0), calls, 0, 0)
    <3> DEFINE b == BreakerAfter(calls, 0)
    <3>1. b \in [errors : Nat, tripped : BOOLEAN] /\ b.errors = 0 /\ ~b.tripped
      <4> DEFINE tripped == FALSE
      <4>1. b = [errors |-> 0, tripped |-> tripped] /\ tripped \in BOOLEAN /\ ~tripped
        BY <2>1
      <4> HIDE DEF b, tripped
      <4>2. b.tripped = tripped
        BY <4>1
      <4>3. b \in [errors : Nat, tripped : BOOLEAN] /\ b.errors = 0
        BY <4>1
      <4> QED
        BY <4>1, <4>2, <4>3
    <3>2. 0 \in 0 .. 0 /\ ~(0 > 0) /\ \A i \in 0 + 1 .. 0 : FALSE
      OBVIOUS
    <3> HIDE DEF b
    <3> QED
      BY <3>1, <3>2 DEF BreakerKnows, b
  <2> QED
    BY <1>0, <2>2
<1>2. ASSUME NEW k \in 0 .. n, k \in K, k < n PROVE k + 1 \in K
  <2>1. PICK s \in 0 .. k : BreakerKnows(BreakerAfter(calls, k), calls, k, s)
    BY <1>2
  <2>2. \E t \in 0 .. k + 1 : BreakerKnows(L!Called(BreakerAfter(calls, k), calls[k + 1]), calls, k + 1, t)
    BY <1>2, <2>1, BreakerKnowsNext
  <2>3. BreakerAfter(calls, k + 1) = L!Called(BreakerAfter(calls, k), calls[k + 1])
    BY <1>0, BreakerNext
  <2> QED
    BY <1>0, <1>2, <2>2, <2>3
<1> HIDE DEF K
<1>3. n \in K
  BY <1>0, <1>1, <1>2, Calling!Reaches
<1> QED
  BY <1>0, <1>3, BreakerIs DEF K

\* CircuitBreaker, for any number of calls: it is tripped exactly when, since the
\* last reset, errors followed each other without a success between them or a fill
\* slipped too far, whatever came after.
THEOREM BreakerTrips ==
    ASSUME NEW calls, IsCalls(calls, Len(calls))
    PROVE  L!TripsWhenItShould(calls)
<1> DEFINE n == Len(calls)
           resets == {i \in DOMAIN calls : calls[i].kind = "reset"}
           R == {0} \cup resets
<1>0. n \in Nat /\ DOMAIN calls = 1 .. n
  BY DEF IsCalls
<1>1. PICK s \in 0 .. n : BreakerKnows(L!Breaker(calls), calls, n, s)
  BY BreakerKnowsAll
<1>2. /\ s > 0 => calls[s].kind = "reset"
      /\ \A i \in s + 1 .. n : calls[i].kind # "reset"
      /\ L!Breaker(calls).tripped <=> \E i \in s + 1 .. n : TwoErrors(calls, s, i) \/ Slipped(calls, i)
  BY <1>1 DEF BreakerKnows
<1>3. L!Max(R) = s
  <2>1. s \in R /\ \A x \in R : x \in Nat /\ s >= x
    BY <1>0, <1>2
  <2> HIDE DEF R
  <2>2. \A x \in R : (\A y \in R : x >= y) => x = s
    BY <1>0, <2>1
  <2> QED
    BY <2>1, <2>2 DEF L!Max
<1> DEFINE inARow(i) == \E k \in s + 1 .. i :
                            /\ \A l \in k .. i : ~(calls[l].kind = "success")
                            /\ Cardinality({l \in k .. i : calls[l].kind = "error"}) = 2
<1>4. ASSUME NEW i \in s + 1 .. n PROVE inARow(i) <=> TwoErrors(calls, s, i)
  <2>1. TwoErrors(calls, s, i) <=>
            \E k \in s + 1 .. i : /\ Unbroken(calls, k, i)
                                  /\ Cardinality({l \in k .. i : Erred(calls, l)}) = 2
    BY TwoAreCounted
  <2> QED
    BY <2>1 DEF Unbroken, Erred
<1>5. L!Breaker(calls).tripped <=>
          \E i \in s + 1 .. n : inARow(i) \/ (calls[i].kind = "fill" /\ L!TooFar(calls[i].slip))
  BY <1>2, <1>4 DEF Slipped
<1>6. \A S : L!Cardinality(S) = Cardinality(S)
  BY DEF L!Cardinality, Cardinality
<1> QED
  BY <1>3, <1>5, <1>6 DEF L!TripsWhenItShould, L!MaxErrors

-----------------------------------------------------------------------------
(* The drawdown monitor *)
OneBar(bar, monitor) == L!Updated(monitor, bar)
Watched == INSTANCE FoldLemmas WITH Op <- OneBar, Initial <- L!NoEquity, Choose <- Largest

\* The monitor after the first k bars
MonitorAfter(bars, k) == Watched!Fold(bars, 1 .. k)

\* The monitor after one more bar.
LEMMA MonitorNext ==
    ASSUME NEW bars, NEW k \in Nat
    PROVE  /\ MonitorAfter(bars, 0) = L!NoEquity
           /\ MonitorAfter(bars, k + 1) = L!Updated(MonitorAfter(bars, k), bars[k + 1])
<1>1. \A n \in Nat : Watched!Chooses(1 .. n) /\ (n > 0 => Largest(1 .. n) = n)
  BY Watched!MaxOfInterval DEF Largest, Watched!Chooses, Max, Watched!Max
<1>2. Watched!Fold(bars, 1 .. k + 1) = OneBar(bars[k + 1], Watched!Fold(bars, 1 .. k))
  BY <1>1, Watched!FoldNext
<1>3. Watched!Fold(bars, {}) = L!NoEquity /\ 1 .. 0 = {}
  BY Watched!FoldEmpty
<1> QED
  BY <1>2, <1>3 DEF MonitorAfter, OneBar

\* Bars of an account that is worth something.
IsDays(bars, n) ==
    /\ n \in Nat /\ DOMAIN bars = 1 .. n
    /\ \A i \in 1 .. n : bars[i].equity \in Nat \ {0} /\ bars[i].newDay \in BOOLEAN

\* The bar d is the first of the day of bar k.
Begins(bars, d, k) ==
    /\ d \in 1 .. k /\ (d > 1 => bars[d].newDay)
    /\ \A i \in d + 1 .. k : ~bars[i].newDay

\* What the monitor knows of the first k bars.
MonitorKnows(m, bars, k) ==
    /\ m.peak \in Nat /\ m.dayStart \in Nat
    /\ k = 0 => m.peak = 0
    /\ k > 0 => /\ m.peak > 0
                /\ \A i \in 1 .. k : bars[i].equity <= m.peak
                /\ \E i \in 1 .. k : bars[i].equity = m.peak
                /\ \E d \in 1 .. k : Begins(bars, d, k) /\ m.dayStart = bars[d].equity
                /\ m.safe <=> /\ 5 * bars[k].equity > 4 * m.peak
                              /\ 100 * bars[k].equity > 95 * m.dayStart

\* It knows them after the next bar, too.
LEMMA MonitorKnowsNext ==
    ASSUME NEW n, NEW bars, IsDays(bars, n), NEW k \in 0 .. n, k < n,
           NEW m, MonitorKnows(m, bars, k)
    PROVE  MonitorKnows(L!Updated(m, bars[k + 1]), bars, k + 1)
<1> DEFINE bar == bars[k + 1]
           e == bar.equity
           u == L!Updated(m, bar)
           start == IF m.peak = 0 THEN e ELSE IF bar.newDay THEN e ELSE m.dayStart
           peak == L!Max({e, m.peak})
<1>1. k \in Nat /\ k + 1 \in 1 .. n /\ e \in Nat \ {0} /\ bar.newDay \in BOOLEAN
  BY DEF IsDays
<1>2. /\ m.peak \in Nat /\ m.dayStart \in Nat
      /\ k = 0 => m.peak = 0
      /\ k > 0 => /\ m.peak > 0
                  /\ \A i \in 1 .. k : bars[i].equity <= m.peak
                  /\ \E i \in 1 .. k : bars[i].equity = m.peak
                  /\ \E d \in 1 .. k : Begins(bars, d, k) /\ m.dayStart = bars[d].equity
  BY DEF MonitorKnows
<1>3. peak = Max({e, m.peak})
  BY DEF L!Max, Max
<1>4. peak \in {e, m.peak} /\ peak >= e /\ peak >= m.peak
  <2> DEFINE p == m.peak
  <2>1. e \in Int /\ p \in Int
    BY <1>1, <1>2
  <2> HIDE DEF e, p
  <2>2. Max({e, p}) \in {e, p} /\ Max({e, p}) >= e /\ Max({e, p}) >= p
    BY <2>1, MaxOfTwo
  <2> HIDE DEF peak
  <2> QED
    BY <1>3, <2>2 DEF p
<1> HIDE DEF peak
<1>5. /\ u.peak = peak /\ u.dayStart = start
      /\ u.safe <=> 100 * (peak - e) < 20 * peak /\ 100 * (start - e) < 5 * start
  BY DEF L!Updated, peak
<1>6. start \in Nat /\ peak \in Nat /\ peak > 0
  BY <1>1, <1>2, <1>4
<1>7. \E d \in 1 .. k + 1 : Begins(bars, d, k + 1) /\ start = bars[d].equity
  <2>1. CASE k = 0
    <3>1. 1 \in 1 .. 1 /\ Begins(bars, 1, 1)
      BY DEF Begins
    <3>2. start = bars[1].equity
      BY <1>2, <2>1
    <3> QED
      BY <2>1, <3>1, <3>2
  <2>2. CASE k > 0 /\ bar.newDay
    <3>1. Begins(bars, k + 1, k + 1) /\ k + 1 \in 1 .. k + 1
      BY <1>1, <2>2 DEF Begins
    <3>2. start = e
      BY <2>2
    <3> QED
      BY <3>1, <3>2
  <2>3. CASE k > 0 /\ ~bar.newDay
    <3>1. PICK d \in 1 .. k : Begins(bars, d, k) /\ m.dayStart = bars[d].equity
      BY <1>2, <2>3
    <3>2. \A i : i \in d + 1 .. k + 1 <=> i \in d + 1 .. k \/ i = k + 1
      BY <1>1
    <3>3. Begins(bars, d, k + 1) /\ d \in 1 .. k + 1
      BY <1>1, <2>3, <3>1, <3>2 DEF Begins
    <3>4. start = m.dayStart
      BY <1>2, <2>3
    <3> QED
      BY <3>1, <3>3, <3>4
  <2> QED
    BY <1>1, <2>1, <2>2, <2>3
<1>8. \A i : i \in 1 .. k + 1 <=> i \in 1 .. k \/ i = k + 1
  BY <1>1
<1>9. \A i \in 1 .. k + 1 : bars[i].equity <= peak
  <2>1. ASSUME NEW i \in 1 .. k PROVE bars[i].equity <= peak
    <3>1. bars[i].equity \in Nat /\ bars[i].equity <= m.peak
      BY <1>1, <1>2, <2>1 DEF IsDays
    <3> QED
      BY <1>2, <1>4, <1>6, <3>1
  <2> QED
    BY <1>4, <1>8, <2>1
<1>10. \E i \in 1 .. k + 1 : bars[i].equity = peak
  <2>1. CASE peak = e
    BY <1>8, <2>1
  <2>2. CASE peak = m.peak /\ k > 0
    BY <1>2, <1>8, <2>2
  <2>3. CASE k = 0
    BY <1>1, <1>2, <1>4, <1>6, <1>8, <2>3
  <2> QED
    BY <1>1, <1>4, <2>1, <2>2, <2>3
<1>11. u.safe <=> 5 * e > 4 * peak /\ 100 * e > 95 * start
  <2> HIDE DEF u, start
  <2>1. 100 * (peak - e) < 20 * peak <=> 5 * e > 4 * peak
    BY <1>1, <1>6
  <2>2. 100 * (start - e) < 5 * start <=> 100 * e > 95 * start
    BY <1>1, <1>6
  <2> QED
    BY <1>5, <2>1, <2>2
<1> HIDE DEF u, start
<1> QED
  BY <1>1, <1>5, <1>6, <1>7, <1>9, <1>10, <1>11 DEF MonitorKnows, u

\* DrawdownMonitor, for any number of bars: it judges the last equity against every
\* one it has seen and against the first of the day.
THEOREM MonitorJudges ==
    ASSUME NEW bars, IsDays(bars, Len(bars)), Len(bars) > 0
    PROVE  L!JudgesAllItSaw(bars)
<1> DEFINE n == Len(bars)
           K == {k \in 0 .. n : MonitorKnows(MonitorAfter(bars, k), bars, k)}
           m == L!Monitor(bars)
           seen == {bars[i].equity : i \in 1 .. n}
           D == {1} \cup {i \in 1 .. n : bars[i].newDay}
<1>0. n \in Nat /\ n > 0 /\ n \in 1 .. n /\ DOMAIN bars = 1 .. n
  BY DEF IsDays
<1>1. 0 \in K
  <2>1. MonitorKnows(MonitorAfter(bars, 0), bars, 0)
    BY MonitorNext DEF L!NoEquity, MonitorKnows
  <2> QED
    BY <1>0, <2>1
<1>2. ASSUME NEW k \in 0 .. n, k \in K, k < n PROVE k + 1 \in K
  <2>1. MonitorKnows(L!Updated(MonitorAfter(bars, k), bars[k + 1]), bars, k + 1)
    BY <1>2, MonitorKnowsNext
  <2> QED
    BY <1>0, <1>2, <2>1, MonitorNext
<1>3. MonitorKnows(MonitorAfter(bars, n), bars, n)
  <2> HIDE DEF K
  <2>1. n \in K
    BY <1>0, <1>1, <1>2, Watched!Reaches
  <2> QED
    BY <2>1 DEF K
<1>4. m = MonitorAfter(bars, n)
  <2>1. L!FoldLeft(L!Updated, L!NoEquity, bars) = Watched!Fold(bars, DOMAIN bars)
    BY DEF L!FoldLeft, L!MapThenFoldSet, Watched!Fold, Watched!MapThenFoldSet, OneBar, Largest, L!Max, Max
  <2> QED
    BY <1>0, <2>1 DEF L!Monitor, MonitorAfter
<1> HIDE DEF m
<1>5. /\ m.peak \in Nat
      /\ \A i \in 1 .. n : bars[i].equity <= m.peak
      /\ \E i \in 1 .. n : bars[i].equity = m.peak
      /\ \E d \in 1 .. n : Begins(bars, d, n) /\ m.dayStart = bars[d].equity
      /\ m.safe <=> 5 * bars[n].equity > 4 * m.peak /\ 100 * bars[n].equity > 95 * m.dayStart
  BY <1>0, <1>3, <1>4 DEF MonitorKnows
<1>6. L!Max(seen) = m.peak
  <2> DEFINE p == m.peak
  <2>1. p \in seen /\ \A x \in seen : x \in Nat /\ p >= x
    BY <1>5 DEF IsDays
  <2> HIDE DEF seen, p
  <2>2. \A x \in seen : (\A y \in seen : x >= y) => x = p
    BY <2>1
  <2> QED
    BY <2>1, <2>2 DEF L!Max, p
<1>7. PICK d \in 1 .. n : Begins(bars, d, n) /\ m.dayStart = bars[d].equity
  BY <1>5
<1>8. L!Max(D) = d
  <2>1. d \in D /\ \A x \in D : x \in Nat /\ d >= x
    BY <1>0, <1>7 DEF Begins
  <2> HIDE DEF D
  <2>2. \A x \in D : (\A y \in D : x >= y) => x = d
    BY <1>0, <2>1
  <2> QED
    BY <2>1, <2>2 DEF L!Max
<1> QED
  BY <1>5, <1>6, <1>7, <1>8 DEF L!JudgesAllItSaw, m

-----------------------------------------------------------------------------
(* The exposure manager and the position sizer *)

OneOrder(order, held) == L!Ordered(held, order)

\* Sums of what is held.
LEMMA HeldSum ==
    ASSUME NEW S, IsFiniteSet(S), NEW f \in [S -> Nat]
    PROVE  L!SumFunction(f) = Sums!Fold(f, S) /\ L!SumFunction(f) \in Nat
<1>1. DOMAIN f = S
  OBVIOUS
<1>2. L!SumFunction(f) = L!SumFunctionOnSet(f, S)
  BY <1>1 DEF L!SumFunction
<1>3. L!SumFunctionOnSet(f, S) = Sums!Fold(f, S)
  BY DEF L!SumFunctionOnSet, L!FoldFunctionOnSet, L!MapThenFoldSet, Sums!Fold, Sums!MapThenFoldSet, Plus, AnyOf
<1>4. Sums!Fold(f, S) \in Nat
  BY SumOfNaturals, Sums!SumType
<1> QED
  BY <1>2, <1>3, <1>4

\* An order adds its notional to the sum.
LEMMA HeldGrows ==
    ASSUME NEW S, IsFiniteSet(S), NEW f \in [S -> Nat], NEW x \in S, NEW d \in Nat
    PROVE  /\ [f EXCEPT ![x] = @ + d] \in [S -> Nat]
           /\ L!SumFunction([f EXCEPT ![x] = @ + d]) = L!SumFunction(f) + d
<1> DEFINE g == [f EXCEPT ![x] = @ + d]
           R == S \ {x}
<1>1. g \in [S -> Nat] /\ g[x] = f[x] + d /\ \A y \in R : g[y] = f[y]
  OBVIOUS
<1> HIDE DEF g
<1>2. IsFiniteSet(R) /\ R \in SUBSET S
  BY FS_Subset
<1>3. Sums!Fold(f, S) = f[x] + Sums!Fold(f, R) /\ Sums!Fold(f, R) \in Int
  BY SumOfNaturals, Sums!SumSplit
<1>4. Sums!Fold(g, S) = g[x] + Sums!Fold(g, R)
  BY <1>1, SumOfNaturals, Sums!SumSplit
<1>5. Sums!Fold(g, R) = Sums!Fold(f, R)
  <2>1. Sums!IsFiniteSet(R) /\ Sums!Chooses(R)
    BY <1>2 DEF Sums!IsFiniteSet, IsFiniteSet, Sums!Chooses, AnyOf
  <2> HIDE DEF R
  <2> QED
    BY <1>1, <2>1, Sums!FoldSame
<1>6. f[x] \in Nat
  OBVIOUS
<1>7. L!SumFunction(g) = Sums!Fold(g, S) /\ L!SumFunction(f) = Sums!Fold(f, S)
  BY <1>1, HeldSum
<1> QED
  BY <1>1, <1>3, <1>4, <1>5, <1>6, <1>7 DEF g

\* Positions within both limits of an equity.
Within(held, symbols, top) ==
    /\ held \in [symbols -> Nat]
    /\ L!SumFunction(held) <= top
    /\ \A s \in symbols : 20 * held[s] <= 7 * top

\* One more order, checked against no larger equity, keeps them within.
LEMMA OrderedStaysWithin ==
    ASSUME NEW symbols, IsFiniteSet(symbols), NEW top \in Nat, NEW held,
           Within(held, symbols, top), NEW order, order.symbol \in symbols,
           order.notional \in Nat, order.equity \in Int, order.equity <= top
    PROVE  Within(L!Ordered(held, order), symbols, top)
<1> DEFINE x == order.symbol
           d == order.notional
           g == [held EXCEPT ![x] = @ + d]
<1>1. held \in [symbols -> Nat] /\ x \in symbols /\ d \in Nat
  BY DEF Within
<1>2. CASE ~L!Allowed(held, order)
  BY <1>2 DEF L!Ordered
<1>3. CASE L!Allowed(held, order)
  <2>1. /\ L!SumFunction(held) + d <= order.equity
        /\ 100 * (held[x] + d) <= 35 * order.equity
    BY <1>3 DEF L!Allowed
  <2>2. L!SumFunction(held) \in Nat
    BY <1>1, HeldSum
  <2>3. g \in [symbols -> Nat] /\ L!SumFunction(g) = L!SumFunction(held) + d
    <3>1. \A f \in [symbols -> Nat], y \in symbols, e \in Nat :
              /\ [f EXCEPT ![y] = @ + e] \in [symbols -> Nat]
              /\ L!SumFunction([f EXCEPT ![y] = @ + e]) = L!SumFunction(f) + e
      BY HeldGrows
    <3> QED
      BY <1>1, <3>1, Zenon
  <2>4. ASSUME NEW s \in symbols PROVE 20 * g[s] <= 7 * top
    <3>1. CASE s = x
      <4>1. g[s] = held[x] + d /\ held[x] \in Nat
        BY <1>1, <3>1
      <4> HIDE DEF g
      <4> QED
        BY <1>1, <2>1, <4>1
    <3>2. CASE s # x
      <4>1. g[s] = held[s] /\ held[s] \in Nat /\ 20 * held[s] <= 7 * top
        BY <1>1, <3>2 DEF Within
      <4> QED
        BY <4>1
    <3> QED
      BY <3>1, <3>2
  <2>5. L!Ordered(held, order) = g
    BY <1>3 DEF L!Ordered
  <2> HIDE DEF g
  <2> QED
    BY <1>1, <2>1, <2>2, <2>3, <2>4, <2>5 DEF Within
<1> QED
  BY <1>2, <1>3

Ordering == INSTANCE FoldLemmas
    WITH Op <- OneOrder, Initial <- [s \in {"x", "y", "z"} |-> 0], Choose <- Largest

\* The positions after the first k orders
OrderedTo(orders, k) == Ordering!Fold(orders, 1 .. k)

\* The positions after one more order.
LEMMA OrderingNext ==
    ASSUME NEW orders, NEW k \in Nat
    PROVE  /\ OrderedTo(orders, 0) = [s \in {"x", "y", "z"} |-> 0]
           /\ OrderedTo(orders, k + 1) = L!Ordered(OrderedTo(orders, k), orders[k + 1])
<1>1. \A n \in Nat : Ordering!Chooses(1 .. n) /\ (n > 0 => Largest(1 .. n) = n)
  BY Ordering!MaxOfInterval DEF Largest, Ordering!Chooses, Max, Ordering!Max
<1>2. Ordering!Fold(orders, 1 .. k + 1) = OneOrder(orders[k + 1], Ordering!Fold(orders, 1 .. k))
  BY <1>1, Ordering!FoldNext
<1>3. Ordering!Fold(orders, {}) = [s \in {"x", "y", "z"} |-> 0] /\ 1 .. 0 = {}
  BY Ordering!FoldEmpty
<1> QED
  BY <1>2, <1>3 DEF OrderedTo, OneOrder

\* Orders of the three symbols.
IsOrders(orders, n) ==
    /\ n \in Nat /\ DOMAIN orders = 1 .. n
    /\ \A i \in 1 .. n : /\ orders[i].symbol \in {"x", "y", "z"} /\ orders[i].notional \in Nat
                         /\ orders[i].equity \in Int

\* However many orders are placed, the positions stay within both limits.
LEMMA OrdersStayWithin ==
    ASSUME NEW orders, NEW n, IsOrders(orders, n),
           NEW top \in Nat, \A i \in 1 .. n : orders[i].equity <= top
    PROVE  Within(OrderedTo(orders, n), {"x", "y", "z"}, top)
<1> DEFINE symbols == {"x", "y", "z"}
           K == {k \in 0 .. n : Within(OrderedTo(orders, k), symbols, top)}
<1>0. n \in Nat /\ IsFiniteSet(symbols)
  <2>1. IsFiniteSet(({"x"} \cup {"y"}) \cup {"z"})
    BY FS_Singleton, FS_AddElement
  <2>2. symbols = ({"x"} \cup {"y"}) \cup {"z"}
    OBVIOUS
  <2> HIDE DEF symbols
  <2> QED
    BY <2>1, <2>2 DEF IsOrders
<1>1. 0 \in K
  <2> DEFINE f == [s \in symbols |-> 0]
  <2>1. f \in [symbols -> Nat] /\ \A s \in symbols : f[s] = 0
    OBVIOUS
  <2>2. L!SumFunction(f) = 0
    <3> HIDE DEF symbols, f
    <3>1. L!SumFunction(f) = Sums!Fold(f, symbols)
      BY <1>0, <2>1, HeldSum
    <3>2. /\ Sums!IsSum /\ Sums!IsFiniteSet(symbols) /\ Sums!Chooses(symbols)
          /\ Sums!Values(f, symbols, {0})
      BY <1>0, <2>1, SumOfNaturals DEF Sums!Values
    <3> QED
      BY <3>1, <3>2, Sums!SumOfZeros
  <2>4. f = OrderedTo(orders, 0)
    BY OrderingNext
  <2> HIDE DEF f
  <2>5. Within(f, symbols, top)
    BY <2>1, <2>2 DEF Within
  <2> QED
    BY <1>0, <2>4, <2>5
<1>2. ASSUME NEW k \in 0 .. n, k \in K, k < n PROVE k + 1 \in K
  <2> DEFINE order == orders[k + 1]
  <2>1. /\ order.symbol \in symbols /\ order.notional \in Nat
        /\ order.equity \in Int /\ order.equity <= top
    BY <1>0, <1>2 DEF IsOrders
  <2> HIDE DEF order, symbols
  <2>2. Within(L!Ordered(OrderedTo(orders, k), order), symbols, top)
    BY <1>0, <1>2, <2>1, OrderedStaysWithin
  <2> QED
    BY <1>0, <1>2, <2>2, OrderingNext DEF order
<1> HIDE DEF K
<1>3. n \in K
  BY <1>0, <1>1, <1>2, Ordering!Reaches
<1> QED
  BY <1>3 DEF K

\* What the sizer may give: no more than the slot, three times the equity and the
\* notional whose stop, two ATR away, loses 1.5% of the equity.
Bounded(n, e, price, atr) ==
    /\ n <= Max({0, 3 * e}) /\ n <= 500
    /\ 2000 * atr * n <= 15 * Max({0, e}) * price

\* It gives no more.
LEMMA SizesAreBounded ==
    ASSUME NEW e \in Int, NEW price \in Nat, NEW atr \in Nat
    PROVE  Bounded(L!AtrNotional(e, price, atr, 500), e, price, atr)
<1> DEFINE n == L!AtrNotional(e, price, atr, 500)
           risk == 15 * e * price
           loss == 2000 * atr
           q == risk \div loss
<1>0. 15 * Max({0, e}) * price \in Nat /\ Max({0, 3 * e}) \in Nat
  <2>1. Max({0, e}) \in Nat /\ Max({0, 3 * e}) \in Nat
    BY PositivePart
  <2> HIDE DEF n
  <2> QED
    BY <2>1
<1>1. CASE e <= 0 \/ price <= 0 \/ atr <= 0
  <2>1. n = 0
    BY <1>1 DEF L!AtrNotional
  <2> HIDE DEF n
  <2>2. 2000 * atr * n = 0
    BY <2>1
  <2> QED
    BY <1>0, <2>1, <2>2 DEF n, Bounded
<1>2. CASE ~(e <= 0 \/ price <= 0 \/ atr <= 0)
  <2>1. risk \in Nat /\ loss \in Nat \ {0}
    BY <1>2
  <2>2. Max({0, e}) = e /\ Max({0, 3 * e}) = 3 * e
    BY <1>2, PositivePart
  <2>3. n = L!Min({q, 500, 3 * e})
    BY <1>2 DEF L!AtrNotional
  <2> HIDE DEF n, risk, loss
  <2>4. q \in Nat /\ loss * q <= risk /\ loss * q \in Nat
    BY <2>1, Division
  <2> HIDE DEF q
  <2>5. n \in {q, 500, 3 * e} /\ n <= q /\ n <= 500 /\ n <= 3 * e
    <3> DEFINE T == {q, 500, 3 * e}
    <3>1. T \subseteq Int /\ q \in T /\ 500 \in T /\ 3 * e \in T
      BY <1>2, <2>4
    <3>2. \E m \in T : \A y \in T : m <= y
      BY <1>2, <2>4
    <3> HIDE DEF T
    <3>3. n \in T /\ \A y \in T : n <= y
      BY <2>3, <3>2 DEF L!Min, T
    <3> QED
      BY <3>1, <3>3 DEF T
  <2>6. n \in Nat
    BY <1>2, <2>4, <2>5
  <2>7. loss * n <= loss * q
    BY <2>1, <2>4, <2>5, <2>6, ProductGrows
  <2>8. loss * n \in Nat
    BY <2>1, <2>6
  <2>9. loss * n <= risk
    BY <2>1, <2>4, <2>7, <2>8
  <2> QED
    BY <2>2, <2>5, <2>9 DEF n, loss, risk, Bounded
<1> QED
  BY <1>1, <1>2

\* ExposureManager and PositionSizer, for any orders and equities: the positions that
\* are let happen stay within the largest equity they were checked against and each
\* symbol's part of it, and what the sizer gives within its three limits.
THEOREM LimitsAreKept ==
    ASSUME NEW orders, IsOrders(orders, Len(orders))
    PROVE  L!LimitsHold(orders)
<1> DEFINE symbols == {"x", "y", "z"}
           n == Len(orders)
           held == L!Positions(symbols, orders)
           E == {0} \cup {orders[i].equity : i \in DOMAIN orders}
           top == L!Max(E)
<1>0. n \in Nat /\ DOMAIN orders = 1 .. n
  BY DEF IsOrders
<1>1. held = OrderedTo(orders, n)
  <2>1. held = Ordering!Fold(orders, DOMAIN orders)
    BY DEF L!Positions, L!FoldLeft, L!MapThenFoldSet, Ordering!Fold, Ordering!MapThenFoldSet,
           OneOrder, Largest, L!Max, Max
  <2> QED
    BY <1>0, <2>1 DEF OrderedTo
<1>2. top \in Nat /\ \A i \in 1 .. n : orders[i].equity <= top
  <2> DEFINE F == {orders[i].equity : i \in 1 .. n}
  <2>1. IsFiniteSet(F)
    <3>1. IsFiniteSet(1 .. n)
      BY <1>0, FS_Interval
    <3>2. [i \in 1 .. n |-> orders[i].equity] \in Surjection(1 .. n, F)
      BY DEF Surjection
    <3> HIDE DEF F
    <3> QED
      BY <3>1, <3>2, FS_Surjection
  <2>2. IsFiniteSet(E) /\ E = {0} \cup F
    <3>1. IsFiniteSet({0} \cup F)
      BY <2>1, FS_AddElement
    <3> QED
      BY <1>0, <3>1
  <2>3. E \subseteq Int /\ 0 \in E
    BY <1>0 DEF IsOrders
  <2> HIDE DEF E, F
  <2>4. Max(E) \in E /\ \A y \in E : Max(E) >= y
    <3>1. Sums!IsFiniteSet(E) /\ E # {}
      BY <2>2, <2>3 DEF Sums!IsFiniteSet, IsFiniteSet
    <3>2. Sums!Max(E) \in E /\ \A y \in E : Sums!Max(E) >= y
      BY <2>3, <3>1, Sums!MaxIsGreatest
    <3> QED
      BY <3>2 DEF Max, Sums!Max
  <2>5. top = Max(E)
    BY DEF L!Max, Max
  <2>6. top \in Nat /\ \A y \in E : y <= top
    <3> DEFINE m == Max(E)
    <3>1. m \in E /\ m >= 0 /\ m \in Int /\ \A y \in E : y \in Int /\ m >= y
      BY <2>3, <2>4
    <3> HIDE DEF top, m
    <3>2. m \in Nat /\ \A y \in E : y <= m
      BY <3>1
    <3> QED
      BY <2>5, <3>2 DEF m
  <2> HIDE DEF top
  <2> QED
    BY <1>0, <2>2, <2>6 DEF F
<1> HIDE DEF top, E
<1>3. Within(held, symbols, top)
  <2> HIDE DEF held
  <2> QED
    BY <1>0, <1>1, <1>2, OrdersStayWithin
<1>4. /\ L!SumFunction(held) <= top
      /\ \A s \in DOMAIN held : 20 * held[s] <= 7 * top
  <2> HIDE DEF held
  <2> QED
    BY <1>3 DEF Within
<1>5. ASSUME NEW i \in DOMAIN orders, NEW price \in {0, 1, 50}, NEW atr \in {0, 1, 7}
      PROVE  LET e == orders[i].equity
                 k == L!AtrNotional(e, price, atr, 500)
             IN  /\ k <= L!Max({0, 3 * e}) /\ k <= 500
                 /\ 2000 * atr * k <= 15 * L!Max({0, e}) * price
  <2> DEFINE e == orders[i].equity
             k == L!AtrNotional(e, price, atr, 500)
  <2>1. e \in Int /\ price \in Nat /\ atr \in Nat
    BY <1>0 DEF IsOrders
  <2> HIDE DEF e
  <2>2. Bounded(k, e, price, atr)
    BY <2>1, SizesAreBounded
  <2>3. L!Max({0, e}) = Max({0, e}) /\ L!Max({0, 3 * e}) = Max({0, 3 * e})
    BY DEF L!Max, Max
  <2> HIDE DEF k
  <2> QED
    BY <2>2, <2>3 DEF Bounded, k, e
<1> QED
  BY <1>4, <1>5 DEF L!LimitsHold, held, top, E

-----------------------------------------------------------------------------
GuardInput ==
    /\ Given("calls") => input[2] \in Calls
    /\ Given("days") => input[2] \in Days
    /\ Given("wishes") => input[2] \in Wishes

\* What the guards are asked about.
LEMMA GuardInputTyped == ResearchSpec => []GuardInput
<1>1. ASSUME ResearchInit PROVE GuardInput
  <2>1. CASE input \in Inputs
    BY <2>1 DEF Inputs, GuardInput, Given
  <2>2. CASE input = NoInput
    BY <2>2 DEF NoInput, GuardInput, Given
  <2> QED
    BY <1>1, <2>1, <2>2 DEF ResearchInit
<1>2. ASSUME GuardInput, [ResearchNext]_<<vars, input>> PROVE GuardInput'
  <2>1. /\ Given("calls")' => Given("calls") /\ input' = input
        /\ Given("days")' => Given("days") /\ input' = input
        /\ Given("wishes")' => Given("wishes") /\ input' = input
    BY <1>2, InputsStay
  <2> QED
    BY <1>2, <2>1 DEF GuardInput
<1> QED
  BY <1>1, <1>2, PTL DEF ResearchSpec

\* The guards of risk/ hold after every history of calls of the run.
THEOREM GuardsAlwaysHold == ResearchSpec => []GuardsHold
<1>1. ASSUME NEW x \in Calls PROVE L!TripsWhenItShould(x)
  <2>1. PICK n \in 0 .. 4 : x \in [1 .. n -> Call]
    BY DEF Calls
  <2>2. x \in Seq(Call) /\ Len(x) = n /\ DOMAIN x = 1 .. n
    BY <2>1
  <2>3. \A c \in Call : c.kind \in {"success", "error", "reset", "fill"}
    BY DEF Call
  <2>4. IsCalls(x, Len(x))
    BY <2>1, <2>2, <2>3 DEF IsCalls
  <2> QED
    BY <2>4, BreakerTrips
<1>2. ASSUME NEW x \in Days PROVE L!JudgesAllItSaw(x)
  <2> DEFINE Day == [equity : {79, 80, 95, 96, 100}, newDay : BOOLEAN]
  <2>1. PICK n \in 1 .. 3 : x \in [1 .. n -> Day]
    BY DEF Days
  <2>2. \A d \in Day : d.equity \in Nat \ {0} /\ d.newDay \in BOOLEAN
    OBVIOUS
  <2> HIDE DEF Day
  <2>3. x \in Seq(Day) /\ Len(x) = n /\ DOMAIN x = 1 .. n
    BY <2>1
  <2>4. IsDays(x, Len(x)) /\ Len(x) > 0
    BY <2>1, <2>2, <2>3 DEF IsDays
  <2> QED
    BY <2>4, MonitorJudges
<1>3. ASSUME NEW x \in Wishes PROVE L!LimitsHold(x)
  <2> DEFINE Wish == [symbol : {"x", "y", "z"}, notional : {20, 35, 40}, equity : {0, 100}]
  <2>1. PICK n \in 0 .. 3 : x \in [1 .. n -> Wish]
    BY DEF Wishes
  <2>2. \A w \in Wish : w.symbol \in {"x", "y", "z"} /\ w.notional \in Nat /\ w.equity \in Int
    OBVIOUS
  <2> HIDE DEF Wish
  <2>3. x \in Seq(Wish) /\ Len(x) = n /\ DOMAIN x = 1 .. n
    BY <2>1
  <2>4. IsOrders(x, Len(x))
    BY <2>1, <2>2, <2>3 DEF IsOrders
  <2> QED
    BY <2>4, LimitsAreKept
<1>4. GuardInput => GuardsHold
  BY <1>1, <1>2, <1>3 DEF GuardInput, GuardsHold
<1> QED
  BY <1>4, GuardInputTyped, PTL

-----------------------------------------------------------------------------
(* The shadow study *)

\* Studies of any length, scores and prices.
IsStudy(study) ==
    /\ study \in [champion : Seq([W!Symbols -> Int]), challenger : Seq([W!Symbols -> Int]),
                  present : Seq(SUBSET W!Symbols), interval : Nat \ {0},
                  price : Seq([W!Symbols -> Nat \ {0}])]
    /\ Len(study.price) > 0
    /\ (Len(study.price) - 1) \div study.interval <= Len(study.present)

OneRound(round, result) == W!Observed(result, round)
Shadowing == INSTANCE FoldLemmas WITH Op <- OneRound, Initial <- W!NoResult, Choose <- Largest

\* The result after the first k rebalances
ResultAfter(rounds, k) == Shadowing!Fold(rounds, 1 .. k)

\* The result after one more rebalance.
LEMMA ResultNext ==
    ASSUME NEW rounds, NEW k \in Nat
    PROVE  /\ ResultAfter(rounds, 0) = W!NoResult
           /\ ResultAfter(rounds, k + 1) = W!Observed(ResultAfter(rounds, k), rounds[k + 1])
<1>1. \A n \in Nat : Shadowing!Chooses(1 .. n) /\ (n > 0 => Largest(1 .. n) = n)
  BY Shadowing!MaxOfInterval DEF Largest, Shadowing!Chooses, Max, Shadowing!Max
<1>2. Shadowing!Fold(rounds, 1 .. k + 1) = OneRound(rounds[k + 1], Shadowing!Fold(rounds, 1 .. k))
  BY <1>1, Shadowing!FoldNext
<1>3. Shadowing!Fold(rounds, {}) = W!NoResult /\ 1 .. 0 = {}
  BY Shadowing!FoldEmpty
<1> QED
  BY <1>2, <1>3 DEF ResultAfter, OneRound

\* The model's result is the one after all its rebalances.
LEMMA ResultIs ==
    ASSUME NEW study, NEW n \in Nat, DOMAIN W!Rounds(study) = 1 .. n
    PROVE  W!Studied(study) = ResultAfter(W!Rounds(study), n)
<1>1. W!FoldLeft(W!Observed, W!NoResult, W!Rounds(study))
        = Shadowing!Fold(W!Rounds(study), DOMAIN W!Rounds(study))
  BY DEF W!FoldLeft, W!MapThenFoldSet, Shadowing!Fold, Shadowing!MapThenFoldSet, OneRound, Largest, W!Max, Max
<1> QED
  BY <1>1 DEF W!Studied, ResultAfter

\* No portfolio moves more than the whole of it.
LEMMA TurnoverIsBounded ==
    ASSUME NEW old \in [W!Symbols -> {0, 50}], NEW new \in [W!Symbols -> {0, 50}]
    PROVE  W!Turnover(old, new) \in Nat /\ W!Turnover(old, new) <= 200
<1> DEFINE S == W!Symbols
           f == [s \in S |-> W!Max({new[s] - old[s], old[s] - new[s]})]
<1>1. S = 1 .. 3
  BY DEF W!Symbols
<1>2. IsFiniteSet(S) /\ Cardinality(S) = 3
  <2>1. \A n \in Nat : IsFiniteSet(1 .. n) /\ Cardinality(1 .. n) = n
    BY FS_Interval
  <2>2. IsFiniteSet(1 .. 3) /\ Cardinality(1 .. 3) = 3
    <3>1. 3 \in Nat
      OBVIOUS
    <3> QED
      BY <2>1, <3>1, Zenon
  <2> QED
    BY <1>1, <2>2
<1>3. ASSUME NEW s \in S PROVE f[s] \in Nat /\ f[s] <= 50
  <2> DEFINE a == new[s] - old[s]
             b == old[s] - new[s]
  <2>1. a \in Int /\ b \in Int /\ a <= 50 /\ b <= 50 /\ a + b = 0
    OBVIOUS
  <2>2. f[s] = Max({a, b})
    BY DEF Max, W!Max
  <2> HIDE DEF a, b, f
  <2>3. Max({a, b}) \in {a, b} /\ Max({a, b}) >= a /\ Max({a, b}) >= b
    BY <2>1, MaxOfTwo
  <2>4. f[s] \in {a, b} /\ f[s] >= a /\ f[s] >= b
    BY <2>2, <2>3
  <2> QED
    BY <2>1, <2>4
<1>4. W!Turnover(old, new) = Sums!Fold(f, S)
  <2>1. W!Turnover(old, new) = W!SumFunction(f)
    BY DEF W!Turnover
  <2>2. DOMAIN f = S
    OBVIOUS
  <2> HIDE DEF f, S
  <2>3. W!SumFunction(f) = W!SumFunctionOnSet(f, S)
    BY <2>2 DEF W!SumFunction
  <2>4. W!SumFunctionOnSet(f, S) = Sums!Fold(f, S)
    BY DEF W!SumFunctionOnSet, W!FoldFunctionOnSet, W!MapThenFoldSet, Sums!Fold, Sums!MapThenFoldSet,
           Plus, AnyOf
  <2> QED
    BY <2>1, <2>3, <2>4
<1>5. Sums!IsSum /\ Sums!IsFiniteSet(S) /\ Sums!Chooses(S) /\ Sums!Values(f, S, Nat)
  <2>1. Sums!IsSum
    BY DEF Sums!IsSum, Plus
  <2>2. Sums!IsFiniteSet(S) /\ Sums!Chooses(S)
    BY <1>2 DEF Sums!IsFiniteSet, IsFiniteSet, Sums!Chooses, AnyOf
  <2> HIDE DEF f, S
  <2> QED
    BY <1>3, <2>1, <2>2 DEF Sums!Values
<1> HIDE DEF f, S
<1>6. Sums!Fold(f, S) \in Nat /\ Sums!Fold(f, S) <= 50 * Sums!Cardinality(S)
  BY <1>3, <1>5, Sums!SumBounded
<1>7. Sums!Cardinality(S) = 3
  BY <1>2 DEF Sums!Cardinality, Cardinality
<1> QED
  BY <1>4, <1>6, <1>7

\* A result after k rebalances, well formed, in which no turnover is more than the
\* whole and agreement is an overlap of 1.
IsResult(r, k) ==
    /\ r.champion.weights \in [W!Symbols -> {0, 50}]
    /\ r.challenger.weights \in [W!Symbols -> {0, 50}]
    /\ r.champion.turnover \in Seq(0 .. 200) /\ Len(r.champion.turnover) = k
    /\ r.agree \in Seq(BOOLEAN) /\ Len(r.agree) = k
    /\ r.overlap \in Seq(Nat \X Nat) /\ Len(r.overlap) = k
    /\ r.alike \in Seq(SUBSET W!Symbols) /\ Len(r.alike) = k
    /\ r.errors \in Nat
    /\ \A j \in 1 .. k : r.agree[j] <=> r.overlap[j][1] = r.overlap[j][2]
    /\ (\A j \in 1 .. k : r.agree[j]) => r.champion = r.challenger

\* Two finite sets are one if they have as many elements in common as together.
LEMMA OverlapTells ==
    ASSUME NEW F, NEW G, IsFiniteSet(F), IsFiniteSet(G)
    PROVE  /\ Cardinality(F \cap G) \in Nat /\ Cardinality(F \cup G) \in Nat
           /\ F = G <=> Cardinality(F \cap G) = Cardinality(F \cup G)
<1>1. IsFiniteSet(F \cup G) /\ F \cap G \subseteq F \cup G
  BY FS_Union
<1>2. IsFiniteSet(F \cap G)
  BY <1>1, FS_Subset
<1>3. Cardinality(F \cap G) = Cardinality(F \cup G) => F \cap G = F \cup G
  BY <1>1, FS_Subset
<1> QED
  BY <1>1, <1>2, <1>3, FS_CardinalityType

\* Subsets of the symbols are finite.
LEMMA SymbolsAreFinite ==
    ASSUME NEW F \in SUBSET W!Symbols
    PROVE  IsFiniteSet(F) /\ Cardinality(F) \in Nat
<1>1. \A n \in Nat : IsFiniteSet(1 .. n)
  BY FS_Interval
<1>2. IsFiniteSet(W!Symbols)
  <2>1. 3 \in Nat
    OBVIOUS
  <2> QED
    BY <1>1, <2>1, Zenon DEF W!Symbols
<1> QED
  BY <1>2, FS_Subset, FS_CardinalityType

Chosen(scores, round) == W!Top2(scores, round.present)
Shared(F, G) == <<Cardinality(F \cap G), Cardinality(F \cup G)>>
Alikes(round) ==
    {s \in round.present : W!Probability(round.champion[s]) >= 50
                           <=> W!Probability(round.challenger[s]) >= 50}
Raised(scores, round) == {s \in round.present : scores[s] = W!Fails}

\* What a rebalance changes.
LEMMA ObservedIs ==
    ASSUME NEW r, NEW round
    PROVE  LET q == W!Observed(r, round)
               F == Chosen(round.champion, round)
               G == Chosen(round.challenger, round)
           IN  /\ q.champion = W!Rebalanced(r.champion, F, round.start, round.end)
               /\ q.challenger = W!Rebalanced(r.challenger, G, round.start, round.end)
               /\ q.overlap = Append(r.overlap, Shared(F, G))
               /\ q.agree = Append(r.agree, F = G)
               /\ q.alike = Append(r.alike, Alikes(round))
               /\ q.errors = r.errors + Cardinality(Raised(round.champion, round))
                                      + Cardinality(Raised(round.challenger, round))
<1> DEFINE q == W!Observed(r, round)
           F == Chosen(round.champion, round)
           G == Chosen(round.challenger, round)
<1>1. \A S : W!Cardinality(S) = Cardinality(S)
  BY DEF W!Cardinality, Cardinality
<1>2. /\ q.champion = W!Rebalanced(r.champion, F, round.start, round.end)
      /\ q.challenger = W!Rebalanced(r.challenger, G, round.start, round.end)
  BY DEF W!Observed, Chosen
<1>3. q.overlap = Append(r.overlap, Shared(F, G)) /\ q.agree = Append(r.agree, F = G)
  BY <1>1 DEF W!Observed, Chosen, Shared
<1>4. q.alike = Append(r.alike, Alikes(round))
  BY DEF W!Observed, Alikes
<1>5. q.errors = r.errors + Cardinality(Raised(round.champion, round))
                          + Cardinality(Raised(round.challenger, round))
  BY <1>1 DEF W!Observed, Raised
<1> QED
  BY <1>2, <1>3, <1>4, <1>5

\* What it changes of an account.
LEMMA RebalancedIs ==
    ASSUME NEW account, NEW top, NEW start, NEW end
    PROVE  /\ W!Rebalanced(account, top, start, end).weights = W!Held(top)
           /\ W!Rebalanced(account, top, start, end).turnover
                 = Append(account.turnover, W!Turnover(account.weights, W!Held(top)))
BY DEF W!Rebalanced

\* One rebalance keeps a result well formed.
LEMMA ResultKept ==
    ASSUME NEW k \in Nat, NEW r, IsResult(r, k), NEW round, round.present \in SUBSET W!Symbols
    PROVE  IsResult(W!Observed(r, round), k + 1)
<1> DEFINE q == W!Observed(r, round)
           F == Chosen(round.champion, round)
           G == Chosen(round.challenger, round)
           both == Shared(F, G)
           turn == W!Turnover(r.champion.weights, W!Held(F))
<1>1. F \in SUBSET W!Symbols /\ G \in SUBSET W!Symbols
  BY DEF W!Top2, Chosen
<1>2. W!Held(F) \in [W!Symbols -> {0, 50}] /\ W!Held(G) \in [W!Symbols -> {0, 50}]
  BY DEF W!Held
<1>3. turn \in 0 .. 200
  <2>1. r.champion.weights \in [W!Symbols -> {0, 50}]
    BY DEF IsResult
  <2>2. turn \in Nat /\ turn <= 200
    BY <1>2, <2>1, TurnoverIsBounded
  <2> HIDE DEF turn
  <2> QED
    BY <2>2
<1>4. both \in Nat \X Nat /\ (F = G <=> both[1] = both[2])
  <2> HIDE DEF F, G
  <2> QED
    BY <1>1, SymbolsAreFinite, OverlapTells DEF Shared
<1>5. /\ q.champion = W!Rebalanced(r.champion, F, round.start, round.end)
      /\ q.challenger = W!Rebalanced(r.challenger, G, round.start, round.end)
      /\ q.overlap = Append(r.overlap, both)
      /\ q.agree = Append(r.agree, F = G)
      /\ q.alike = Append(r.alike, Alikes(round)) /\ Alikes(round) \in SUBSET W!Symbols
      /\ q.errors = r.errors + Cardinality(Raised(round.champion, round))
                             + Cardinality(Raised(round.challenger, round))
  <2>1. Alikes(round) \in SUBSET W!Symbols
    BY DEF Alikes
  <2> QED
    BY <2>1, ObservedIs
<1>6. /\ Cardinality(Raised(round.champion, round)) \in Nat
      /\ Cardinality(Raised(round.challenger, round)) \in Nat
  <2>1. \A scores : Raised(scores, round) \in SUBSET W!Symbols
    BY DEF Raised
  <2> QED
    BY <2>1, SymbolsAreFinite
<1>7. q.errors \in Nat
  <2> HIDE DEF q
  <2> QED
    BY <1>5, <1>6 DEF IsResult
<1>8. /\ q.champion.weights = W!Held(F) /\ q.challenger.weights = W!Held(G)
      /\ q.champion.turnover = Append(r.champion.turnover, turn)
  <2> HIDE DEF q, F, G
  <2> QED
    BY <1>5, RebalancedIs
<1> HIDE DEF q, F, G, both, turn
<1>9. /\ q.champion.turnover \in Seq(0 .. 200) /\ Len(q.champion.turnover) = k + 1
      /\ q.agree \in Seq(BOOLEAN) /\ Len(q.agree) = k + 1
      /\ q.overlap \in Seq(Nat \X Nat) /\ Len(q.overlap) = k + 1
      /\ q.alike \in Seq(SUBSET W!Symbols) /\ Len(q.alike) = k + 1
  <2>1. q.champion.turnover \in Seq(0 .. 200) /\ Len(q.champion.turnover) = k + 1
    BY <1>3, <1>8 DEF IsResult
  <2>2. q.agree \in Seq(BOOLEAN) /\ Len(q.agree) = k + 1
    BY <1>5 DEF IsResult
  <2>3. q.overlap \in Seq(Nat \X Nat) /\ Len(q.overlap) = k + 1
    BY <1>4, <1>5 DEF IsResult
  <2>4. q.alike \in Seq(SUBSET W!Symbols) /\ Len(q.alike) = k + 1
    BY <1>5 DEF IsResult
  <2> QED
    BY <2>1, <2>2, <2>3, <2>4
<1>10. /\ \A j \in 1 .. k : q.agree[j] = r.agree[j] /\ q.overlap[j] = r.overlap[j]
       /\ q.agree[k + 1] = (F = G) /\ q.overlap[k + 1] = both
  <2>1. ASSUME NEW S, NEW s \in Seq(S), Len(s) = k, NEW e \in S
        PROVE  Append(s, e)[k + 1] = e /\ \A j \in 1 .. k : Append(s, e)[j] = s[j]
    BY <2>1
  <2>2. r.agree \in Seq(BOOLEAN) /\ Len(r.agree) = k
    BY DEF IsResult
  <2>3. r.overlap \in Seq(Nat \X Nat) /\ Len(r.overlap) = k
    BY DEF IsResult
  <2>4. (F = G) \in BOOLEAN
    OBVIOUS
  <2>5. q.agree[k + 1] = (F = G) /\ \A j \in 1 .. k : q.agree[j] = r.agree[j]
    BY <1>5, <2>1, <2>2, <2>4
  <2>6. q.overlap[k + 1] = both /\ \A j \in 1 .. k : q.overlap[j] = r.overlap[j]
    BY <1>4, <1>5, <2>1, <2>3
  <2> QED
    BY <2>5, <2>6
<1>11. \A j \in 1 .. k + 1 : q.agree[j] <=> q.overlap[j][1] = q.overlap[j][2]
  <2> TAKE j \in 1 .. k + 1
  <2>1. CASE j \in 1 .. k
    BY <1>10, <2>1 DEF IsResult
  <2>2. CASE j = k + 1
    BY <1>4, <1>10, <2>2
  <2> QED
    BY <2>1, <2>2
<1>12. ASSUME \A j \in 1 .. k + 1 : q.agree[j]
       PROVE  q.champion = q.challenger
  <2>1. F = G
    <3>1. q.agree[k + 1]
      BY <1>12
    <3> QED
      BY <1>10, <3>1
  <2>2. r.champion = r.challenger
    <3>1. \A j \in 1 .. k : r.agree[j]
      <4> TAKE j \in 1 .. k
      <4>1. j \in 1 .. k + 1
        OBVIOUS
      <4> QED
        BY <1>10, <1>12, <4>1
    <3> QED
      BY <3>1 DEF IsResult
  <2> QED
    BY <1>5, <2>1, <2>2
<1> QED
  BY <1>2, <1>7, <1>8, <1>9, <1>11, <1>12 DEF IsResult, q

\* What a study of a model beside itself, and the study with the parts exchanged,
\* know after k rebalances.
IsSelf(x, r, rounds, k) ==
    /\ x.champion = r.champion /\ x.challenger = r.champion
    /\ \A j \in 1 .. k : x.agree[j] /\ x.alike[j] = rounds[j].present

IsMirror(x, r) ==
    /\ x.champion = r.challenger /\ x.challenger = r.champion
    /\ x.errors = r.errors /\ x.overlap = r.overlap /\ x.alike = r.alike

\* One rebalance keeps what a model beside itself knows.
LEMMA SelfKept ==
    ASSUME NEW k \in Nat, NEW rounds, NEW r, NEW x, IsResult(x, k), IsSelf(x, r, rounds, k),
           NEW round, rounds[k + 1] = round,
           NEW own, own.champion = round.champion, own.challenger = round.champion,
           own.present = round.present, own.start = round.start, own.end = round.end
    PROVE  IsSelf(W!Observed(x, own), W!Observed(r, round), rounds, k + 1)
<1> DEFINE q == W!Observed(x, own)
           p == W!Observed(r, round)
           F == Chosen(round.champion, round)
<1>1. Chosen(own.champion, own) = F /\ Chosen(own.challenger, own) = F
  BY DEF Chosen
<1>2. /\ q.champion = W!Rebalanced(x.champion, F, round.start, round.end)
      /\ q.challenger = W!Rebalanced(x.challenger, F, round.start, round.end)
      /\ q.agree = Append(x.agree, F = F) /\ q.alike = Append(x.alike, Alikes(own))
  <2> HIDE DEF F
  <2> QED
    BY <1>1, ObservedIs
<1>3. p.champion = W!Rebalanced(r.champion, F, round.start, round.end)
  BY ObservedIs
<1>4. Alikes(own) = round.present
  BY DEF Alikes
<1> HIDE DEF q, p, F
<1>5. q.champion = p.champion /\ q.challenger = p.champion
  BY <1>2, <1>3 DEF IsSelf
<1>6. ASSUME NEW j \in 1 .. k + 1 PROVE q.agree[j] /\ q.alike[j] = rounds[j].present
  <2>1. /\ x.agree \in Seq(BOOLEAN) /\ Len(x.agree) = k
        /\ x.alike \in Seq(SUBSET W!Symbols) /\ Len(x.alike) = k
    BY DEF IsResult
  <2>2. CASE j \in 1 .. k
    <3>1. q.agree[j] = x.agree[j] /\ q.alike[j] = x.alike[j]
      BY <1>2, <2>1, <2>2
    <3> QED
      BY <2>2, <3>1 DEF IsSelf
  <2>3. CASE j = k + 1
    <3>1. q.agree[j] = (F = F) /\ q.alike[j] = Alikes(own)
      BY <1>2, <2>1, <2>3
    <3> QED
      BY <1>4, <2>3, <3>1
  <2> QED
    BY <2>2, <2>3
<1> QED
  BY <1>5, <1>6 DEF IsSelf, q, p

\* One rebalance keeps what the study with the parts exchanged knows.
LEMMA MirrorKept ==
    ASSUME NEW r, r.errors \in Nat, NEW x, IsMirror(x, r),
           NEW round, round.present \in SUBSET W!Symbols,
           NEW other, other.champion = round.challenger, other.challenger = round.champion,
           other.present = round.present, other.start = round.start, other.end = round.end
    PROVE  IsMirror(W!Observed(x, other), W!Observed(r, round))
<1> DEFINE q == W!Observed(x, other)
           p == W!Observed(r, round)
           F == Chosen(round.champion, round)
           G == Chosen(round.challenger, round)
           a == Cardinality(Raised(round.champion, round))
           b == Cardinality(Raised(round.challenger, round))
<1>1. Chosen(other.champion, other) = G /\ Chosen(other.challenger, other) = F
  BY DEF Chosen
<1>2. Shared(G, F) = Shared(F, G)
  <2>1. G \cap F = F \cap G /\ G \cup F = F \cup G
    OBVIOUS
  <2> QED
    BY <2>1 DEF Shared
<1>3. Alikes(other) = Alikes(round)
  BY DEF Alikes
<1>4. /\ Raised(other.champion, other) = Raised(round.challenger, round)
      /\ Raised(other.challenger, other) = Raised(round.champion, round)
  BY DEF Raised
<1>5. a \in Nat /\ b \in Nat
  <2>1. \A scores : Raised(scores, round) \in SUBSET W!Symbols
    BY DEF Raised
  <2> QED
    BY <2>1, SymbolsAreFinite
<1>6. /\ q.champion = W!Rebalanced(x.champion, G, round.start, round.end)
      /\ q.challenger = W!Rebalanced(x.challenger, F, round.start, round.end)
      /\ q.overlap = Append(x.overlap, Shared(G, F))
      /\ q.alike = Append(x.alike, Alikes(round))
      /\ q.errors = x.errors + b + a
  <2> HIDE DEF F, G
  <2> QED
    BY <1>1, <1>3, <1>4, ObservedIs
<1>7. /\ p.champion = W!Rebalanced(r.champion, F, round.start, round.end)
      /\ p.challenger = W!Rebalanced(r.challenger, G, round.start, round.end)
      /\ p.overlap = Append(r.overlap, Shared(F, G))
      /\ p.alike = Append(r.alike, Alikes(round))
      /\ p.errors = r.errors + a + b
  BY ObservedIs
<1> HIDE DEF q, p, F, G, a, b
<1> QED
  BY <1>2, <1>5, <1>6, <1>7 DEF IsMirror, q, p

\* The rebalances of a study.
LEMMA RoundsAre ==
    ASSUME NEW study, IsStudy(study)
    PROVE  LET n == (Len(study.price) - 1) \div study.interval
               rounds == W!Rounds(study)
           IN  /\ n \in Nat /\ DOMAIN rounds = 1 .. n
               /\ DOMAIN W!Rebalances(Len(study.price), study.interval) = 1 .. n
               /\ \A k \in 1 .. n : rounds[k].present \in SUBSET W!Symbols
<1> DEFINE bars == Len(study.price)
           n == (bars - 1) \div study.interval
           rounds == W!Rounds(study)
<1>1. bars \in Nat \ {0} /\ study.interval \in Nat \ {0} /\ study.present \in Seq(SUBSET W!Symbols)
  BY DEF IsStudy
<1>2. n \in Nat /\ n <= Len(study.present)
  <2> HIDE DEF bars
  <2>1. n \in Nat
    BY <1>1
  <2> QED
    BY <2>1 DEF IsStudy, bars
<1> HIDE DEF n
<1>3. DOMAIN W!Rebalances(bars, study.interval) = 1 .. n
  BY DEF W!Rebalances, n
<1>4. DOMAIN rounds = 1 .. n
  BY <1>3 DEF W!Rounds
<1>5. ASSUME NEW k \in 1 .. n PROVE rounds[k].present \in SUBSET W!Symbols
  <2>1. rounds[k].present = study.present[k]
    BY <1>3 DEF W!Rounds
  <2>2. k \in 1 .. Len(study.present)
    BY <1>1, <1>2
  <2> HIDE DEF rounds
  <2> QED
    BY <1>1, <2>1, <2>2
<1> QED
  BY <1>2, <1>3, <1>4, <1>5 DEF n

\* The prices at which the k-th weights are bought and sold
PeriodOf(study, k) ==
    W!Period(Len(study.price), study.interval, W!Rebalances(Len(study.price), study.interval)[k])
Bought(study, k) == study.price[PeriodOf(study, k).from]
Sold(study, k) == study.price[PeriodOf(study, k).to]

\* The number of rebalances
Number(study) == (Len(study.price) - 1) \div study.interval

\* What a rebalance sees.
LEMMA RoundIs ==
    ASSUME NEW study, IsStudy(study), NEW k \in 1 .. Number(study)
    PROVE  /\ W!Rounds(study)[k].champion = study.champion[k]
           /\ W!Rounds(study)[k].challenger = study.challenger[k]
           /\ W!Rounds(study)[k].present = study.present[k]
           /\ W!Rounds(study)[k].start = Bought(study, k) /\ W!Rounds(study)[k].end = Sold(study, k)
<1>1. k \in DOMAIN W!Rebalances(Len(study.price), study.interval)
  BY RoundsAre DEF Number
<1> QED
  BY <1>1 DEF W!Rounds, Bought, Sold, PeriodOf

\* After every rebalance of a study its result is well formed, a model beside itself
\* does what it does beside the other, and exchanged parts exchange the accounts.
LEMMA StudyGoesOn ==
    ASSUME NEW study, IsStudy(study),
           NEW own, own = [study EXCEPT !.challenger = study.champion],
           NEW other, other = W!Exchanged(study)
    PROVE  LET n == Number(study)
               r == W!Studied(study)
           IN  /\ n \in Nat /\ IsResult(r, n) /\ IsResult(W!Studied(own), n)
               /\ IsSelf(W!Studied(own), r, W!Rounds(study), n) /\ IsMirror(W!Studied(other), r)
<1> DEFINE n == Number(study)
           rounds == W!Rounds(study)
           owns == W!Rounds(own)
           others == W!Rounds(other)
           r(k) == ResultAfter(rounds, k)
           x(k) == ResultAfter(owns, k)
           y(k) == ResultAfter(others, k)
           Fine(k) == /\ IsResult(r(k), k) /\ IsResult(x(k), k)
                      /\ IsSelf(x(k), r(k), rounds, k) /\ IsMirror(y(k), r(k))
           K == {k \in 0 .. n : Fine(k)}
<1>1. IsStudy(own) /\ Len(own.price) = Len(study.price) /\ own.interval = study.interval
  BY DEF IsStudy
<1>2. IsStudy(other) /\ Len(other.price) = Len(study.price) /\ other.interval = study.interval
  BY DEF IsStudy, W!Exchanged
<1>3. /\ n \in Nat /\ DOMAIN rounds = 1 .. n /\ DOMAIN owns = 1 .. n /\ DOMAIN others = 1 .. n
      /\ \A k \in 1 .. n : rounds[k].present \in SUBSET W!Symbols
  BY <1>1, <1>2, RoundsAre DEF Number
<1>4. W!Studied(study) = r(n) /\ W!Studied(own) = x(n) /\ W!Studied(other) = y(n)
  <2> HIDE DEF n
  <2> QED
    BY <1>3, ResultIs
<1>5. ASSUME NEW k \in 1 .. n
      PROVE  /\ owns[k].champion = rounds[k].champion /\ owns[k].challenger = rounds[k].champion
             /\ owns[k].present = rounds[k].present
             /\ owns[k].start = rounds[k].start /\ owns[k].end = rounds[k].end
  <2>1. /\ own.champion[k] = study.champion[k] /\ own.challenger[k] = study.champion[k]
        /\ own.present = study.present /\ own.price = study.price
    BY DEF IsStudy
  <2>2. Number(own) = Number(study) /\ Bought(own, k) = Bought(study, k) /\ Sold(own, k) = Sold(study, k)
    BY <1>1, <2>1 DEF Number, Bought, Sold, PeriodOf
  <2>3. k \in 1 .. Number(own) /\ k \in 1 .. Number(study)
    BY <2>2
  <2>4. /\ owns[k].champion = own.champion[k] /\ owns[k].challenger = own.challenger[k]
        /\ owns[k].present = own.present[k]
        /\ owns[k].start = Bought(own, k) /\ owns[k].end = Sold(own, k)
    BY <1>1, <2>3, RoundIs
  <2>5. /\ rounds[k].champion = study.champion[k] /\ rounds[k].challenger = study.challenger[k]
        /\ rounds[k].present = study.present[k]
        /\ rounds[k].start = Bought(study, k) /\ rounds[k].end = Sold(study, k)
    BY <2>3, RoundIs
  <2> HIDE DEF rounds, owns
  <2> QED
    BY <2>1, <2>2, <2>4, <2>5
<1>6. ASSUME NEW k \in 1 .. n
      PROVE  /\ others[k].champion = rounds[k].challenger
             /\ others[k].challenger = rounds[k].champion
             /\ others[k].present = rounds[k].present
             /\ others[k].start = rounds[k].start /\ others[k].end = rounds[k].end
  <2>1. /\ other.champion[k] = study.challenger[k] /\ other.challenger[k] = study.champion[k]
        /\ other.present = study.present /\ other.price = study.price
    BY DEF IsStudy, W!Exchanged
  <2>2. Number(other) = Number(study) /\ Bought(other, k) = Bought(study, k) /\ Sold(other, k) = Sold(study, k)
    BY <1>2, <2>1 DEF Number, Bought, Sold, PeriodOf
  <2>3. k \in 1 .. Number(other) /\ k \in 1 .. Number(study)
    BY <2>2
  <2>4. /\ others[k].champion = other.champion[k] /\ others[k].challenger = other.challenger[k]
        /\ others[k].present = other.present[k]
        /\ others[k].start = Bought(other, k) /\ others[k].end = Sold(other, k)
    BY <1>2, <2>3, RoundIs
  <2>5. /\ rounds[k].champion = study.champion[k] /\ rounds[k].challenger = study.challenger[k]
        /\ rounds[k].present = study.present[k]
        /\ rounds[k].start = Bought(study, k) /\ rounds[k].end = Sold(study, k)
    BY <2>3, RoundIs
  <2> HIDE DEF rounds, others
  <2> QED
    BY <2>1, <2>2, <2>4, <2>5
<1>7. Fine(0)
  <2>1. r(0) = W!NoResult /\ x(0) = W!NoResult /\ y(0) = W!NoResult
    BY ResultNext
  <2>2. IsResult(W!NoResult, 0)
    <3>1. W!Held({}) \in [W!Symbols -> {0, 50}]
      BY DEF W!Held
    <3>2. /\ W!NoResult.champion = W!NoAccount /\ W!NoResult.challenger = W!NoAccount
          /\ W!NoResult.overlap = << >> /\ W!NoResult.agree = << >> /\ W!NoResult.alike = << >>
          /\ W!NoResult.errors = 0
          /\ W!NoAccount.weights = W!Held({}) /\ W!NoAccount.turnover = << >>
      BY DEF W!NoResult, W!NoAccount
    <3>3. \A S : << >> \in Seq(S) /\ Len(<< >>) = 0
      OBVIOUS
    <3>4. 1 .. 0 = {}
      OBVIOUS
    <3> QED
      BY <3>1, <3>2, <3>3, <3>4 DEF IsResult
  <2>3. IsSelf(W!NoResult, W!NoResult, rounds, 0) /\ IsMirror(W!NoResult, W!NoResult)
    BY DEF W!NoResult, IsSelf, IsMirror
  <2> HIDE DEF r, x, y
  <2> QED
    BY <2>1, <2>2, <2>3
<1> HIDE DEF n, rounds, owns, others
<1>8. ASSUME NEW k \in 0 .. n, k < n, Fine(k)
      PROVE  Fine(k + 1)
  <2>1. k \in Nat /\ k + 1 \in 1 .. n
    BY <1>3, <1>8
  <2>2. /\ r(k + 1) = W!Observed(r(k), rounds[k + 1])
        /\ x(k + 1) = W!Observed(x(k), owns[k + 1])
        /\ y(k + 1) = W!Observed(y(k), others[k + 1])
    BY <2>1, ResultNext
  <2> HIDE DEF r, x, y
  <2>3. rounds[k + 1].present \in SUBSET W!Symbols /\ owns[k + 1].present \in SUBSET W!Symbols
    BY <1>3, <1>5, <2>1
  <2>4. IsResult(r(k + 1), k + 1) /\ IsResult(x(k + 1), k + 1)
    BY <1>8, <2>1, <2>2, <2>3, ResultKept
  <2>5. IsSelf(x(k + 1), r(k + 1), rounds, k + 1)
    BY <1>5, <1>8, <2>1, <2>2, SelfKept
  <2>6. r(k).errors \in Nat
    BY <1>8 DEF IsResult
  <2>7. IsMirror(y(k + 1), r(k + 1))
    BY <1>6, <1>8, <2>1, <2>2, <2>3, <2>6, MirrorKept
  <2> QED
    BY <2>4, <2>5, <2>7
<1>9. n \in K
  <2> HIDE DEF Fine
  <2>1. 0 \in K
    BY <1>3, <1>7
  <2>2. \A k \in 0 .. n : k \in K /\ k < n => k + 1 \in K
    BY <1>3, <1>8
  <2> HIDE DEF K
  <2> QED
    BY <1>3, <2>1, <2>2, Shadowing!Reaches
<1>10. Fine(n)
  <2> HIDE DEF Fine
  <2> QED
    BY <1>9
<1> HIDE DEF r, x, y
<1>11. n \in Nat /\ IsResult(r(n), n) /\ IsResult(x(n), n) /\ IsSelf(x(n), r(n), rounds, n)
       /\ IsMirror(y(n), r(n))
  BY <1>3, <1>10
<1> QED
  BY <1>4, <1>11 DEF n, rounds

\* "Non-Interfering Comparison", for every study: of any length, with any scores,
\* failures, missing symbols and prices.  What it says of one model does not depend on
\* the other, on its failures, nor on their parts; a model agrees with itself; two
\* that always select alike earn alike; agreement is an overlap of 1.
THEOREM ShadowKeepsApart ==
    ASSUME NEW study, IsStudy(study)
    PROVE  W!ShadowIsIsolated(study)
<1> DEFINE n == Number(study)
           r == W!Studied(study)
           own == [study EXCEPT !.challenger = study.champion]
           self == W!Studied(own)
           mirror == W!Studied(W!Exchanged(study))
<1>1. n \in Nat /\ IsResult(r, n) /\ IsResult(self, n)
  BY StudyGoesOn
<1>2. IsSelf(self, r, W!Rounds(study), n) /\ IsMirror(mirror, r)
  BY StudyGoesOn
<1>3. \A k \in 1 .. n : W!Rounds(study)[k].present = study.present[k]
  BY RoundIs DEF Number
<1> HIDE DEF n, r, self, mirror, own
<1>4. self.champion = r.champion /\ self.challenger = r.champion
  BY <1>2 DEF IsSelf
<1>5. /\ mirror.champion = r.challenger /\ mirror.challenger = r.champion
      /\ mirror.errors = r.errors /\ mirror.overlap = r.overlap /\ mirror.alike = r.alike
  BY <1>2 DEF IsMirror
<1>6. /\ DOMAIN self.agree = 1 .. n /\ DOMAIN r.agree = 1 .. n
      /\ DOMAIN r.champion.turnover = 1 .. n
  BY <1>1 DEF IsResult
<1>7. \A k \in DOMAIN self.agree : self.agree[k] /\ self.alike[k] = study.present[k]
  BY <1>2, <1>3, <1>6 DEF IsSelf
<1>8. \A k \in DOMAIN r.agree : r.agree[k] <=> r.overlap[k][1] = r.overlap[k][2]
  BY <1>1, <1>6 DEF IsResult
<1>9. (\A k \in DOMAIN r.agree : r.agree[k]) => r.champion = r.challenger
  BY <1>1, <1>6 DEF IsResult
<1>10. \A k \in DOMAIN r.champion.turnover : r.champion.turnover[k] <= 200
  <2> DEFINE t == r.champion.turnover
  <2>1. t \in Seq(0 .. 200) /\ Len(t) = n
    BY <1>1 DEF IsResult
  <2>2. DOMAIN t = 1 .. n
    BY <1>6
  <2> HIDE DEF t
  <2>3. \A S : \A q \in Seq(S) : \A k \in 1 .. Len(q) : q[k] \in S
    OBVIOUS
  <2>4. ASSUME NEW k \in DOMAIN t PROVE t[k] <= 200
    <3>1. t[k] \in 0 .. 200
      BY <2>1, <2>2, <2>3, Zenon
    <3> QED
      BY <3>1
  <2> QED
    BY <2>4 DEF t
<1> QED
  BY <1>4, <1>5, <1>7, <1>8, <1>9, <1>10 DEF W!ShadowIsIsolated, r, self, mirror, own

\* The periods of a study of any length follow each other without a gap, each begins
\* after the bar it was decided on, and less than one interval is left over.
THEOREM PeriodsFollow ==
    ASSUME NEW bars \in Nat \ {0}, NEW interval \in Nat \ {0}
    PROVE  W!PeriodsTile(bars, interval)
<1> DEFINE at == W!Rebalances(bars, interval)
           n == (bars - 1) \div interval
           period(k) == W!Period(bars, interval, at[k])
           begun(k) == 2 + (k - 1) * interval
<1>1. n \in Nat /\ n * interval \in Nat /\ n * interval <= bars - 1 /\ bars - 1 < n * interval + interval
  <2> DEFINE x == bars - 1
  <2>1. x \in Nat
    OBVIOUS
  <2> HIDE DEF x
  <2>2. /\ x \div interval \in Nat /\ interval * (x \div interval) \in Nat
        /\ interval * (x \div interval) <= x /\ x < interval * (x \div interval) + interval
    BY <2>1, Division
  <2>3. interval * (x \div interval) = (x \div interval) * interval
    BY <2>2
  <2> QED
    BY <2>1, <2>2, <2>3 DEF x
<1> HIDE DEF n
<1>2. DOMAIN at = 1 .. n /\ \A k \in 1 .. n : at[k] = 1 + (k - 1) * interval
  BY DEF W!Rebalances, n
<1>3. Len(at) = n /\ (at # << >> => n > 0)
  <2>1. at = [k \in 1 .. n |-> 1 + (k - 1) * interval]
    BY DEF W!Rebalances, n
  <2>2. \A k \in 1 .. n : 1 + (k - 1) * interval \in Int
    OBVIOUS
  <2> HIDE DEF at
  <2>3. at \in Seq(Int) /\ Len(at) = n
    BY <1>1, <2>1, <2>2
  <2>4. n = 0 => at = << >>
    BY <2>3
  <2> QED
    BY <1>1, <2>3, <2>4
<1> HIDE DEF at
<1>4. ASSUME NEW k \in 1 .. n
      PROVE  /\ (k - 1) * interval \in Nat /\ (k - 1) * interval + interval <= n * interval
             /\ k * interval = (k - 1) * interval + interval
             /\ at[k] = begun(k) - 1 /\ begun(k) \in Nat /\ begun(k) <= bars
             /\ period(k).from = begun(k)
             /\ period(k).to = Min({bars, begun(k) + interval})
  <2>1. k - 1 \in Nat /\ k - 1 < n
    BY <1>1
  <2> DEFINE a == (k - 1) * interval
  <2>2. a \in Nat /\ a + interval <= n * interval
    BY <1>1, <2>1, Grows
  <2>3. k * interval = a + interval
    BY <2>1
  <2>4. at[k] = 1 + a
    BY <1>2
  <2>5. /\ period(k).from = at[k] + 1
        /\ period(k).to = Min({bars, at[k] + interval + 1})
    BY DEF W!Period, W!Min, Min
  <2> HIDE DEF a, period
  <2>6. at[k] + 1 = 2 + a /\ at[k] + interval + 1 = (2 + a) + interval
    BY <2>2, <2>4
  <2>7. 2 + a \in Nat /\ 2 + a <= bars /\ at[k] = (2 + a) - 1
    BY <1>1, <2>2, <2>4
  <2>8. /\ period(k).from = 2 + a
        /\ period(k).to = Min({bars, (2 + a) + interval})
    BY <2>5, <2>6
  <2> QED
    BY <2>2, <2>3, <2>7, <2>8 DEF a
<1> HIDE DEF period
<1>5. ASSUME NEW k \in 1 .. n
      PROVE  at[k] < period(k).from /\ period(k).from <= period(k).to
  <2> DEFINE to == Min({bars, begun(k) + interval})
  <2>1. begun(k) \in Nat /\ begun(k) <= bars /\ at[k] = begun(k) - 1
    BY <1>4
  <2> HIDE DEF begun
  <2>2. to \in {bars, begun(k) + interval}
    <3> DEFINE e == begun(k) + interval
    <3>1. bars \in Int /\ e \in Int /\ to = Min({bars, e})
      BY <2>1
    <3> HIDE DEF e, to
    <3>2. Min({bars, e}) \in {bars, e}
      BY <3>1, MinOfTwo
    <3> QED
      BY <3>1, <3>2 DEF e
  <2>3. period(k).from = begun(k) /\ period(k).to = to
    BY <1>4
  <2> HIDE DEF to
  <2> QED
    BY <2>1, <2>2, <2>3
<1>6. ASSUME NEW k \in (1 .. n) \ {1}
      PROVE  period(k).from = period(k - 1).to
  <2>1. k \in 1 .. n /\ k - 1 \in 1 .. n
    BY <1>1
  <2>2. begun(k) = begun(k - 1) + interval
    <3>1. (k - 1) * interval = (k - 1 - 1) * interval + interval /\ (k - 1 - 1) * interval \in Nat
      BY <1>4, <2>1
    <3> QED
      BY <3>1
  <2>3. /\ begun(k) \in Nat /\ begun(k) <= bars /\ period(k).from = begun(k)
        /\ period(k - 1).to = Min({bars, begun(k - 1) + interval})
    BY <1>4, <2>1
  <2> HIDE DEF begun
  <2> DEFINE e == begun(k)
  <2>4. bars \in Int /\ e \in Int /\ e <= bars /\ begun(k - 1) + interval = e
    BY <2>2, <2>3
  <2> HIDE DEF e
  <2>5. Min({bars, e}) \in {bars, e} /\ Min({bars, e}) <= e
    BY <2>4, MinOfTwo
  <2>6. Min({bars, e}) = e
    BY <2>4, <2>5
  <2>7. period(k - 1).to = e /\ period(k).from = e
    BY <2>3, <2>4, <2>6 DEF e
  <2> QED
    BY <2>7
<1>7. ASSUME n > 0 PROVE bars - period(n).to < interval
  <2>1. n \in 1 .. n
    BY <1>1, <1>7
  <2>2. begun(n) + interval = 2 + n * interval /\ begun(n) \in Nat
    <3>1. n * interval = (n - 1) * interval + interval /\ (n - 1) * interval \in Nat
      BY <1>4, <2>1
    <3> QED
      BY <3>1
  <2>3. period(n).to = Min({bars, begun(n) + interval})
    BY <1>4, <2>1
  <2> HIDE DEF begun
  <2>4. period(n).to \in {bars, begun(n) + interval}
    <3> DEFINE e == begun(n) + interval
    <3>1. bars \in Int /\ e \in Int /\ period(n).to = Min({bars, e})
      BY <2>2, <2>3
    <3> HIDE DEF e
    <3>2. Min({bars, e}) \in {bars, e}
      BY <3>1, MinOfTwo
    <3> QED
      BY <3>1, <3>2 DEF e
  <2> QED
    BY <1>1, <2>2, <2>4
<1>8. \A k \in DOMAIN at : at[k] < period(k).from /\ period(k).from <= period(k).to
  BY <1>2, <1>5
<1>9. \A k \in DOMAIN at \ {1} : period(k).from = period(k - 1).to
  BY <1>2, <1>6
<1>10. at # << >> => bars - period(Len(at)).to < interval
  BY <1>3, <1>7
<1> QED
  BY <1>8, <1>9, <1>10 DEF W!PeriodsTile, at, period

StudyInput ==
    /\ Given("study") => input[2] \in Studies
    /\ Given("shadow") => input[2] \in (1 .. 12) \X (1 .. 4)

\* What the shadow study is asked about.
LEMMA StudyInputTyped == ResearchSpec => []StudyInput
<1>1. ASSUME ResearchInit PROVE StudyInput
  <2>1. CASE input \in Inputs
    BY <2>1 DEF Inputs, StudyInput, Given
  <2>2. CASE input = NoInput
    BY <2>2 DEF NoInput, StudyInput, Given
  <2> QED
    BY <1>1, <2>1, <2>2 DEF ResearchInit
<1>2. ASSUME StudyInput, [ResearchNext]_<<vars, input>> PROVE StudyInput'
  <2>1. /\ Given("study")' => Given("study") /\ input' = input
        /\ Given("shadow")' => Given("shadow") /\ input' = input
    BY <1>2, InputsStay
  <2> QED
    BY <1>2, <2>1 DEF StudyInput
<1> QED
  BY <1>1, <1>2, PTL DEF ResearchSpec

\* The studies of the run are studies.
LEMMA StudiesAreStudies ==
    ASSUME NEW x \in Studies
    PROVE  IsStudy(x)
<1>1. /\ x.champion \in [1 .. 2 -> StudyScores] /\ x.challenger \in [1 .. 2 -> StudyScores]
      /\ x.present \in {<<1 .. 3, 1 .. 3>>, <<1 .. 3, {2, 3}>>, <<{1}, 1 .. 3>>, <<{}, {3}>>}
      /\ x.interval = 2
  BY DEF Studies
<1>2. x = [champion |-> x.champion, challenger |-> x.challenger, present |-> x.present,
           interval |-> x.interval, price |-> x.price]
  BY DEF Studies
<1>3. StudyScores \subseteq [W!Symbols -> Int]
  BY DEF StudyScores, W!Symbols, W!Fails
<1>4. /\ x.champion \in Seq([W!Symbols -> Int]) /\ x.challenger \in Seq([W!Symbols -> Int])
  <2>1. ASSUME NEW n \in Nat, NEW f \in [1 .. n -> StudyScores] PROVE f \in Seq(StudyScores)
    OBVIOUS
  <2>2. x.champion \in Seq(StudyScores) /\ x.challenger \in Seq(StudyScores)
    BY <1>1, <2>1
  <2>3. \A S, T, q : S \subseteq T /\ q \in Seq(S) => q \in Seq(T)
    OBVIOUS
  <2> QED
    BY <1>3, <2>2, <2>3, Zenon
<1>5. x.present \in Seq(SUBSET W!Symbols) /\ Len(x.present) = 2
  <2> DEFINE R == SUBSET W!Symbols
  <2>1. 1 .. 3 \in R /\ {2, 3} \in R /\ {1} \in R /\ {} \in R /\ {3} \in R
    BY DEF W!Symbols
  <2> HIDE DEF R
  <2>2. \A a, b \in R : <<a, b>> \in Seq(R) /\ Len(<<a, b>>) = 2
    OBVIOUS
  <2>3. x.present \in Seq(R) /\ Len(x.present) = 2
    BY <1>1, <2>1, <2>2, Zenon
  <2> QED
    BY <2>3 DEF R
<1>6. /\ x.price \in Seq([W!Symbols -> Nat \ {0}])
      /\ Len(x.price) \in {5, 6}
  <2> DEFINE R == [W!Symbols -> Nat \ {0}]
             a == <<2, 2, 2>>
             b == <<1, 2, 4>>
             c == <<4, 1, 2>>
             d == <<2, 4, 1>>
             e == <<1, 1, 1>>
             f == <<4, 2, 1>>
             g == <<1, 4, 4>>
  <2>1. a \in R /\ b \in R /\ c \in R /\ d \in R /\ e \in R /\ f \in R /\ g \in R
    BY DEF W!Symbols
  <2>2. x.price \in {<<a, b, a, c, d>>, <<e, f, e, a, g, c>>}
    BY DEF Studies
  <2> HIDE DEF R, a, b, c, d, e, f, g
  <2>3. <<a, b, a, c, d>> \in Seq(R) /\ Len(<<a, b, a, c, d>>) = 5
    BY <2>1
  <2>4. <<e, f, e, a, g, c>> \in Seq(R) /\ Len(<<e, f, e, a, g, c>>) = 6
    BY <2>1
  <2>5. x.price \in Seq(R) /\ Len(x.price) \in {5, 6}
    BY <2>2, <2>3, <2>4
  <2> QED
    BY <2>5 DEF R
<1>7. Len(x.price) > 0 /\ (Len(x.price) - 1) \div x.interval <= Len(x.present)
  <2>1. CASE Len(x.price) = 5
    BY <1>1, <1>5, <2>1
  <2>2. CASE Len(x.price) = 6
    BY <1>1, <1>5, <2>2
  <2> QED
    BY <1>6, <2>1, <2>2
<1> QED
  BY <1>1, <1>2, <1>4, <1>5, <1>6, <1>7 DEF IsStudy

\* In every study of the run the models are judged apart, over periods that tile it.
THEOREM StudiesStayApart == ResearchSpec => []StudiesAreIsolated
<1>1. ASSUME NEW x \in Studies PROVE W!ShadowIsIsolated(x)
  BY StudiesAreStudies, ShadowKeepsApart
<1>2. ASSUME NEW x \in (1 .. 12) \X (1 .. 4) PROVE W!PeriodsTile(x[1], x[2])
  <2>1. x[1] \in Nat \ {0} /\ x[2] \in Nat \ {0}
    OBVIOUS
  <2> QED
    BY <2>1, PeriodsFollow
<1>3. StudyInput => StudiesAreIsolated
  BY <1>1, <1>2 DEF StudyInput, StudiesAreIsolated
<1> QED
  BY <1>3, StudyInputTyped, PTL

-----------------------------------------------------------------------------
(* The portfolio of the agents *)

\* Accounts of any size, with any prices.
IsPlan(x) ==
    x \in [cash : Int, held : [P!Assets -> Nat], entry : [P!Assets -> Nat],
           high : [P!Assets -> Nat], cycle : Nat \ {0}, base : Int, floor : Int, worth : Int,
           step : Nat, price : [P!Assets -> Nat], trail : Int]

\* Hours of any market, with any targets of the agents and any averages.
IsHour(bar) ==
    /\ bar.price \in [P!Assets -> Nat] /\ bar.raw \in [P!Assets -> Nat]
    /\ bar.trail \in Int /\ bar.scalar \in Nat

\* What the positions are worth
Invested(held, price) == P!SumFunction([a \in P!Assets |-> held[a] * price[a]])

\* The assets can be summed over.
LEMMA AssetsAreFinite ==
    ASSUME NEW T \in SUBSET P!Assets
    PROVE  Sums!IsSum /\ Sums!IsFiniteSet(T) /\ Sums!Chooses(T)
<1>1. \A n \in Nat : IsFiniteSet(1 .. n)
  BY FS_Interval
<1>2. IsFiniteSet(P!Assets)
  <2>1. 3 \in Nat
    OBVIOUS
  <2> QED
    BY <1>1, <2>1, Zenon DEF P!Assets
<1>3. IsFiniteSet(T)
  BY <1>2, FS_Subset
<1> QED
  BY <1>3 DEF Sums!IsSum, Plus, Sums!IsFiniteSet, IsFiniteSet, Sums!Chooses, AnyOf

\* A sum over the assets or some of them is a fold.
LEMMA SumIsFold ==
    ASSUME NEW f, NEW T
    PROVE  /\ P!SumFunctionOnSet(f, T) = Sums!Fold(f, T)
           /\ DOMAIN f = T => P!SumFunction(f) = Sums!Fold(f, T)
<1>1. P!SumFunctionOnSet(f, T) = Sums!Fold(f, T)
  BY DEF P!SumFunctionOnSet, P!FoldFunctionOnSet, P!MapThenFoldSet, Sums!Fold, Sums!MapThenFoldSet,
         Plus, AnyOf
<1>2. P!SumFunction(f) = P!SumFunctionOnSet(f, DOMAIN f)
  BY DEF P!SumFunction
<1> QED
  BY <1>1, <1>2

\* When one holding changes, the positions change by its price as often.
LEMMA InvestedMoves ==
    ASSUME NEW held \in [P!Assets -> Int], NEW price \in [P!Assets -> Int], NEW a \in P!Assets, NEW n \in Int
    PROVE  /\ Invested(held, price) \in Int
           /\ Invested([held EXCEPT ![a] = n], price)
                 = Invested(held, price) + (n - held[a]) * price[a]
<1> DEFINE S == P!Assets
           f == [b \in S |-> held[b] * price[b]]
           g == [b \in S |-> [held EXCEPT ![a] = n][b] * price[b]]
           rest == S \ {a}
<1>1. /\ \A b \in S : f[b] \in Int /\ g[b] \in Int
      /\ \A b \in rest : f[b] = g[b]
      /\ g[a] = n * price[a] /\ f[a] = held[a] * price[a]
  OBVIOUS
<1>2. Invested(held, price) = P!SumFunction(f) /\ Invested([held EXCEPT ![a] = n], price) = P!SumFunction(g)
  BY DEF Invested
<1>3. DOMAIN f = S /\ DOMAIN g = S
  OBVIOUS
<1> HIDE DEF f, g
<1>4. P!SumFunction(f) = Sums!Fold(f, S) /\ P!SumFunction(g) = Sums!Fold(g, S)
  BY <1>3, SumIsFold
<1>5. /\ Sums!IsSum /\ Sums!IsFiniteSet(S) /\ Sums!Chooses(S)
      /\ Sums!IsFiniteSet(rest) /\ Sums!Chooses(rest)
  BY AssetsAreFinite
<1>6. Sums!Values(f, S, Int) /\ Sums!Values(g, S, Int)
  BY <1>1 DEF Sums!Values
<1> HIDE DEF S, rest
<1>7. Sums!Fold(f, rest) = Sums!Fold(g, rest)
  BY <1>1, <1>5, Sums!FoldSame
<1>8. a \in S /\ rest = S \ {a}
  BY DEF S, rest
<1>9. /\ Sums!Fold(f, rest) \in Int
      /\ Sums!Fold(f, S) = f[a] + Sums!Fold(f, rest)
      /\ Sums!Fold(g, S) = g[a] + Sums!Fold(g, rest)
  <2>1. Sums!Fold(f, S \ {a}) \in Int /\ Sums!Fold(f, S) = f[a] + Sums!Fold(f, S \ {a})
    BY <1>5, <1>6, <1>8, Sums!SumSplit
  <2>2. Sums!Fold(g, S) = g[a] + Sums!Fold(g, S \ {a})
    BY <1>5, <1>6, <1>8, Sums!SumSplit
  <2> QED
    BY <1>8, <2>1, <2>2
<1>10. n * price[a] \in Int /\ held[a] * price[a] \in Int
       /\ (n - held[a]) * price[a] = n * price[a] - held[a] * price[a]
  OBVIOUS
<1> QED
  BY <1>1, <1>2, <1>4, <1>7, <1>9, <1>10

\* What an account is worth
LEMMA WorthIs ==
    ASSUME NEW x, NEW price
    PROVE  P!Worth(x, price) = x.cash + Invested(x.held, price)
BY DEF P!Worth, Invested

\* The amount an order buys or sells: never more than is held.
LEMMA SizeIs ==
    ASSUME NEW p \in Nat \ {0}, NEW old \in Nat, NEW goal \in Nat,
           NEW diff, diff = goal - old * p,
           NEW size, size = IF diff > 0 THEN diff \div p ELSE -((-diff) \div p)
    PROVE  /\ size \in Int /\ old + size \in Nat
           /\ old = 0 => size >= 0
           /\ goal = 0 => size = -old
<1>1. old * p \in Nat /\ diff \in Int /\ p * old = old * p
  OBVIOUS
<1>2. CASE diff > 0
  <2>1. diff \in Nat
    BY <1>1, <1>2
  <2>2. diff \div p \in Nat
    BY <2>1, Division
  <2>3. goal # 0
    BY <1>1, <1>2
  <2> QED
    BY <1>2, <2>2, <2>3
<1>3. CASE ~(diff > 0)
  <2> DEFINE m == -diff
             q == m \div p
  <2>1. m \in Nat /\ m <= p * old /\ (goal = 0 => m = p * old)
    BY <1>1, <1>3
  <2> HIDE DEF m
  <2>2. q \in Nat /\ p * q \in Nat /\ p * q <= m /\ m < p * q + p
    BY <2>1, Division
  <2> HIDE DEF q
  <2>3. q * p = p * q
    BY <2>2
  <2>4. q <= old
    <3>1. SUFFICES ASSUME old < q PROVE FALSE
      BY <2>2
    <3>2. old * p + p <= q * p
      BY <2>2, <3>1, Grows
    <3> QED
      BY <1>1, <2>1, <2>2, <2>3, <3>2
  <2>5. ASSUME goal = 0 PROVE q = old
    <3>1. SUFFICES ASSUME q < old PROVE FALSE
      BY <2>2, <2>4
    <3>2. q * p + p <= old * p
      BY <2>2, <3>1, Grows
    <3> QED
      BY <1>1, <2>1, <2>2, <2>3, <2>5, <3>2
  <2>6. size = -q
    BY <1>3 DEF q, m
  <2> QED
    BY <2>2, <2>4, <2>5, <2>6
<1> QED
  BY <1>2, <1>3

\* The smallest order
LEMMA MinTradeIs ==
    ASSUME NEW x, x.worth \in Int
    PROVE  P!MinTrade(x) \in Int
<1> DEFINE c == 500
           w == x.worth \div 5
<1>1. c \in Int /\ w \in Int
  OBVIOUS
<1>2. P!MinTrade(x) = Max({c, w})
  BY DEF P!MinTrade, P!Max, Max
<1> HIDE DEF c, w
<1> QED
  BY <1>1, <1>2, MaxOfTwo

\* The value an order moves, why it is not placed, and what one does
Moved(x, a, goal) == goal - x.held[a] * x.price[a]

Refused(x, a, goal) ==
    \/ Max({Moved(x, a, goal), -Moved(x, a, goal)}) <= P!MinTrade(x)
    \/ x.held[a] > 0 /\ Moved(x, a, goal) < 0 /\ ~P!MaySell(x, a)

Filled(x, a, size, entry) ==
    [x EXCEPT !.cash = @ - size * x.price[a], !.held[a] = x.held[a] + size, !.entry[a] = entry,
              !.high[a] = IF x.held[a] + size = 0 THEN 0 ELSE @]

Fits(x, a, goal, size, entry) ==
    /\ x.held[a] + size \in Nat /\ (x.held[a] + size = 0 <=> entry = 0)
    /\ goal = 0 => size = -x.held[a]

\* An order at a price is placed as a whole or not at all.
LEMMA OrderIs ==
    ASSUME NEW x, IsPlan(x), NEW a \in P!Assets, x.price[a] > 0, NEW goal \in Nat,
           x.held[a] = 0 <=> x.entry[a] = 0
    PROVE  \/ P!Order(x, a, goal) = x /\ Refused(x, a, goal)
           \/ \E size \in Int, entry \in Nat :
                 Fits(x, a, goal, size, entry) /\ P!Order(x, a, goal) = Filled(x, a, size, entry)
<1> DEFINE p == x.price[a]
           old == x.held[a]
           was == x.entry[a]
           diff == goal - old * p
           size == IF diff > 0 THEN diff \div p ELSE -((-diff) \div p)
           new == old + size
           entry == IF new = 0 THEN 0 ELSE IF old = 0 THEN p
                    ELSE IF size > 0 THEN (old * was + size * p) \div new ELSE was
           big == Max({diff, -diff}) > P!MinTrade(x)
           may == old > 0 /\ diff < 0 => P!MaySell(x, a)
           y == [x EXCEPT !.cash = @ - size * p, !.held[a] = old + size, !.entry[a] = entry,
                          !.high[a] = IF old + size = 0 THEN 0 ELSE @]
<1>1. p \in Nat \ {0} /\ old \in Nat /\ was \in Nat /\ (old = 0 <=> was = 0)
  BY DEF IsPlan
<1>2. P!Order(x, a, goal) = IF big /\ may THEN y ELSE x
  BY DEF P!Order, P!Max, Max
<1>3. P!MinTrade(x) \in Int /\ Max({diff, -diff}) \in Int
  <2> DEFINE d == diff
             e == -diff
  <2>1. d \in Int /\ e \in Int /\ Max({diff, -diff}) = Max({d, e})
    BY <1>1
  <2>2. P!MinTrade(x) \in Int
    BY MinTradeIs DEF IsPlan
  <2> HIDE DEF d, e
  <2>3. Max({d, e}) \in Int
    BY <2>1, MaxOfTwo
  <2> QED
    BY <2>1, <2>2, <2>3
<1> HIDE DEF p, old, was, y, big, may
<1>4. size \in Int /\ old + size \in Nat /\ (old = 0 => size >= 0) /\ (goal = 0 => size = -old)
  BY <1>1, SizeIs
<1> HIDE DEF size, diff
<1>5. entry \in Nat /\ (old + size = 0 <=> entry = 0)
  <2>1. CASE new = 0 \/ old = 0 \/ ~(size > 0)
    BY <1>1, <1>4, <2>1
  <2>2. CASE new # 0 /\ old # 0 /\ size > 0
    <3> DEFINE u == old * was
               v == size * p
               top == u + v
    <3>1. was \in Nat \ {0} /\ size \in Nat \ {0} /\ old \in Nat \ {0}
      BY <1>1, <1>4, <2>2
    <3>2. u \in Nat /\ u >= old /\ v \in Nat /\ v >= size
      <4>1. \A i, j \in Nat \ {0} : i * j \in Nat /\ i * j >= i
        <5> TAKE i, j \in Nat \ {0}
        <5> DEFINE h == j - 1
        <5>1. h \in Nat /\ j = h + 1
          OBVIOUS
        <5> HIDE DEF h
        <5>2. i * j = i * h + i /\ i * h \in Nat
          BY <5>1
        <5> QED
          BY <5>2
      <4> QED
        BY <1>1, <3>1, <4>1
    <3>3. top \in Nat /\ top >= new /\ new \in Nat \ {0}
      <4> HIDE DEF u, v
      <4> QED
        BY <1>1, <1>4, <2>2, <3>1, <3>2
    <3> HIDE DEF top, new
    <3>4. top \div new \in Nat /\ top \div new # 0
      <4> DEFINE q == top \div new
      <4>1. q \in Nat /\ new * q \in Nat /\ top < new * q + new
        BY <3>3, Division
      <4> HIDE DEF q
      <4>2. q # 0
        BY <3>3, <4>1
      <4> QED
        BY <4>1, <4>2 DEF q
    <3>5. entry = top \div new
      BY <2>2 DEF top
    <3> QED
      BY <2>2, <3>4, <3>5 DEF new
  <2> QED
    BY <2>1, <2>2
<1> HIDE DEF entry
<1>6. CASE big /\ may
  <2>1. P!Order(x, a, goal) = y
    BY <1>2, <1>6
  <2>2. Fits(x, a, goal, size, entry) /\ P!Order(x, a, goal) = Filled(x, a, size, entry)
    BY <1>4, <1>5, <2>1 DEF y, p, old, Fits, Filled
  <2> QED
    BY <1>4, <1>5, <2>2
<1>7. CASE ~(big /\ may)
  <2>1. P!Order(x, a, goal) = x
    BY <1>2, <1>7
  <2>2. Refused(x, a, goal)
    BY <1>3, <1>7 DEF big, may, diff, old, p, Refused, Moved
  <2> QED
    BY <2>1, <2>2
<1> QED
  BY <1>6, <1>7

\* What an account has, has been worth, and has been decided, before the orders for
\* the assets after k.
Calm(x, a) ==
    x.price[a] > 0 /\ x.held[a] * x.price[a] > P!MinTrade(x) => ~P!Stopped(x, a)

Placing(x, k) ==
    /\ IsPlan(x) /\ x.cash + Invested(x.held, x.price) = x.worth
    /\ \A a \in P!Assets : x.held[a] = 0 <=> x.entry[a] = 0
    /\ \A a \in P!Assets : x.price[a] > 0 /\ x.held[a] = 0 => x.high[a] = 0
    /\ \A a \in P!Assets : a <= k => Calm(x, a)

\* What no order touches
Kept(x, y) ==
    /\ y.cycle = x.cycle /\ y.base = x.base /\ y.floor = x.floor /\ y.worth = x.worth
    /\ y.step = x.step /\ y.price = x.price /\ y.trail = x.trail

\* An order for one asset keeps all that, and leaves the asset calm.
LEMMA OrderKeeps ==
    ASSUME NEW k \in Nat, NEW x, Placing(x, k), k + 1 \in P!Assets, x.price[k + 1] > 0,
           NEW goal \in Nat, P!Stopped(x, k + 1) => goal = 0
    PROVE  Placing(P!Order(x, k + 1, goal), k + 1) /\ Kept(x, P!Order(x, k + 1, goal))
<1> DEFINE a == k + 1
           y == P!Order(x, a, goal)
           p == x.price[a]
           old == x.held[a]
           diff == goal - old * p
<1>1. /\ IsPlan(x) /\ a \in P!Assets /\ p \in Nat \ {0} /\ old \in Nat
      /\ old = 0 <=> x.entry[a] = 0
  BY DEF Placing, IsPlan
<1>2. \/ y = x /\ Refused(x, a, goal)
      \/ \E size \in Int, entry \in Nat : Fits(x, a, goal, size, entry) /\ y = Filled(x, a, size, entry)
  BY <1>1, OrderIs
<1> HIDE DEF y
<1>3. CASE y = x /\ Refused(x, a, goal)
  <2>1. SUFFICES Calm(x, a)
    <3>1. \A b \in P!Assets : b <= a => b <= k \/ b = a
      BY DEF P!Assets
    <3> QED
      BY <1>3, <2>1, <3>1 DEF Placing, Kept, a, y
  <2>2. SUFFICES ASSUME P!Stopped(x, a), old * p > P!MinTrade(x) PROVE FALSE
    BY DEF Calm
  <2>3. goal = 0 /\ P!MaySell(x, a) /\ old * p \in Nat
    BY <1>1, <2>2 DEF P!MaySell
  <2> DEFINE v == old * p
  <2>4. diff = -v /\ v \in Nat
    BY <2>3
  <2> HIDE DEF v, diff
  <2>5. Max({diff, -diff}) \in {diff, -diff} /\ Max({diff, -diff}) >= v
    <3> DEFINE e == -diff
    <3>1. diff \in Int /\ e \in Int /\ e = v
      BY <2>4
    <3> HIDE DEF e
    <3>2. Max({diff, e}) \in {diff, e} /\ Max({diff, e}) >= e
      BY <3>1, MaxOfTwo
    <3> QED
      BY <3>1, <3>2 DEF e
  <2>6. Max({diff, -diff}) \in Int
    BY <2>4, <2>5
  <2>7. Max({diff, -diff}) <= P!MinTrade(x)
    BY <1>3, <2>3 DEF Refused, Moved, diff
  <2>8. P!MinTrade(x) \in Int /\ v > P!MinTrade(x)
    BY <1>1, <2>2, MinTradeIs DEF IsPlan, v
  <2> QED
    BY <2>4, <2>5, <2>6, <2>7, <2>8
<1>4. ASSUME NEW size \in Int, NEW entry \in Nat, Fits(x, a, goal, size, entry),
             y = Filled(x, a, size, entry)
      PROVE  Placing(y, a) /\ Kept(x, y)
  <2>0. /\ old + size \in Nat /\ (old + size = 0 <=> entry = 0)
        /\ goal = 0 => size = -old
        /\ y = [x EXCEPT !.cash = @ - size * p, !.held[a] = old + size, !.entry[a] = entry,
                         !.high[a] = IF old + size = 0 THEN 0 ELSE @]
    BY <1>4 DEF Fits, Filled
  <2>1. /\ y.cash = x.cash - size * p
        /\ y.held = [x.held EXCEPT ![a] = old + size]
        /\ y.entry = [x.entry EXCEPT ![a] = entry]
        /\ y.high = [x.high EXCEPT ![a] = IF old + size = 0 THEN 0 ELSE x.high[a]]
    BY <1>1, <2>0 DEF IsPlan
  <2>2. Kept(x, y)
    BY <1>1, <2>0 DEF Kept, IsPlan
  <2>3. IsPlan(y)
    <3>1. /\ size * p \in Int /\ x.cash - size * p \in Int
          /\ y.held \in [P!Assets -> Nat] /\ y.entry \in [P!Assets -> Nat] /\ y.high \in [P!Assets -> Nat]
      BY <1>1, <2>0, <2>1 DEF IsPlan
    <3>2. y = [cash |-> y.cash, held |-> y.held, entry |-> y.entry, high |-> y.high,
               cycle |-> x.cycle, base |-> x.base, floor |-> x.floor, worth |-> x.worth,
               step |-> x.step, price |-> x.price, trail |-> x.trail]
      <4>1. x = [cash |-> x.cash, held |-> x.held, entry |-> x.entry, high |-> x.high,
                 cycle |-> x.cycle, base |-> x.base, floor |-> x.floor, worth |-> x.worth,
                 step |-> x.step, price |-> x.price, trail |-> x.trail]
        BY <1>1 DEF IsPlan
      <4> QED
        BY <2>0, <4>1
    <3> QED
      BY <1>1, <2>1, <3>1, <3>2 DEF IsPlan
  <2>4. y.cash + Invested(y.held, y.price) = y.worth
    <3>1. /\ Invested(x.held, x.price) \in Int
          /\ Invested([x.held EXCEPT ![a] = old + size], x.price)
                = Invested(x.held, x.price) + (old + size - old) * p
      <4>1. x.held \in [P!Assets -> Int] /\ x.price \in [P!Assets -> Int] /\ old + size \in Int
        BY <1>1, <2>0 DEF IsPlan
      <4> DEFINE n == old + size
      <4>2. n \in Int /\ n - old = old + size - old
        BY <4>1
      <4> HIDE DEF n
      <4>3. /\ Invested(x.held, x.price) \in Int
            /\ Invested([x.held EXCEPT ![a] = n], x.price) = Invested(x.held, x.price) + (n - x.held[a]) * x.price[a]
        BY <1>1, <4>1, <4>2, InvestedMoves
      <4> QED
        BY <4>2, <4>3 DEF n
    <3>2. (old + size - old) * p = size * p /\ size * p \in Int
      <4>1. old + size - old = size
        BY <1>1
      <4> QED
        BY <1>1, <4>1
    <3>3. x.cash \in Int /\ x.cash + Invested(x.held, x.price) = x.worth
      BY DEF Placing, IsPlan
    <3>4. y.price = x.price /\ y.worth = x.worth
      BY <2>2 DEF Kept
    <3> DEFINE v == size * p
               w == Invested(x.held, x.price)
    <3>5. y.cash = x.cash - v /\ Invested(y.held, y.price) = w + v /\ v \in Int /\ w \in Int
      BY <2>1, <3>1, <3>2, <3>4
    <3> HIDE DEF v, w
    <3> QED
      BY <3>3, <3>4, <3>5 DEF w
  <2>5. ASSUME NEW b \in P!Assets
        PROVE  /\ y.held[b] = 0 <=> y.entry[b] = 0
               /\ y.price[b] > 0 /\ y.held[b] = 0 => y.high[b] = 0
    <3>1. y.price = x.price
      BY <2>2 DEF Kept
    <3>2. CASE b = a
      <4>1. /\ y.held[a] = old + size /\ y.entry[a] = entry
            /\ y.high[a] = IF old + size = 0 THEN 0 ELSE x.high[a]
        BY <1>1, <2>1 DEF IsPlan
      <4> QED
        BY <2>0, <3>2, <4>1
    <3>3. CASE b # a
      <4>1. y.held[b] = x.held[b] /\ y.entry[b] = x.entry[b] /\ y.high[b] = x.high[b]
        BY <1>1, <2>1, <3>3 DEF IsPlan
      <4> QED
        BY <3>1, <4>1 DEF Placing
    <3> QED
      BY <3>2, <3>3
  <2>6. ASSUME NEW b \in P!Assets, b <= a PROVE Calm(y, b)
    <3>1. y.price = x.price /\ y.trail = x.trail /\ P!MinTrade(y) = P!MinTrade(x)
      BY <2>2 DEF Kept, P!MinTrade
    <3>2. CASE b = a
      <4>1. y.held[a] = old + size /\ y.high[a] = IF old + size = 0 THEN 0 ELSE x.high[a]
        BY <1>1, <2>1 DEF IsPlan
      <4>2. CASE P!Stopped(x, a)
        <5>1. y.held[a] = 0
          BY <1>1, <2>0, <4>1, <4>2
        <5> QED
          BY <3>2, <5>1 DEF Calm, P!Stopped
      <4>3. CASE ~P!Stopped(x, a) /\ old > 0
        <5>1. ~(100 * p < (100 - x.trail) * x.high[a])
          BY <4>3 DEF P!Stopped
        <5>2. y.held[a] = 0 \/ y.high[a] = x.high[a]
          BY <4>1
        <5> QED
          BY <3>1, <3>2, <5>1, <5>2 DEF Calm, P!Stopped
      <4>4. CASE old = 0
        <5>1. y.high[a] = 0
          BY <1>1, <4>1, <4>4 DEF Placing
        <5>2. x.trail \in Int /\ (100 - x.trail) * 0 = 0
          BY <1>1 DEF IsPlan
        <5>3. ~(100 * y.price[a] < (100 - y.trail) * y.high[a])
          BY <1>1, <3>1, <5>1, <5>2
        <5> QED
          BY <3>2, <5>3 DEF Calm, P!Stopped
      <4> QED
        BY <1>1, <4>2, <4>3, <4>4
    <3>3. CASE b # a
      <4>1. y.held[b] = x.held[b] /\ y.high[b] = x.high[b]
        BY <1>1, <2>1, <3>3 DEF IsPlan
      <4>2. b <= k
        BY <2>6, <3>3 DEF P!Assets
      <4>3. Calm(x, b)
        BY <4>2 DEF Placing
      <4> QED
        BY <3>1, <4>1, <4>3 DEF Calm, P!Stopped
    <3> QED
      BY <3>2, <3>3
  <2> HIDE DEF a
  <2> QED
    BY <2>2, <2>3, <2>4, <2>5, <2>6 DEF Placing
<1> QED
  BY <1>2, <1>3, <1>4 DEF y, a

\* A choice among all, with any targets and exposure
IsChoice(c) ==
    /\ c.asset \in P!Assets /\ c.top \in SUBSET P!Assets /\ c.raw \in [P!Assets -> Nat]
    /\ \A a \in c.top : c.raw[a] > 0
    /\ c.exposure \in Nat

\* The value an asset should have is none below nothing.
LEMMA GoalIsNat ==
    ASSUME NEW x, IsPlan(x), x.worth \in Nat, NEW c, IsChoice(c)
    PROVE  P!Goal(x, c) \in Nat /\ (P!Stopped(x, c.asset) => P!Goal(x, c) = 0)
<1> DEFINE a == c.asset
           total == P!SumFunctionOnSet(c.raw, c.top)
<1>1. CASE P!Stopped(x, a)
  BY <1>1 DEF P!Goal
<1>2. CASE ~P!Stopped(x, a) /\ a \in c.top
  <2>1. /\ Sums!IsSum /\ Sums!IsFiniteSet(c.top) /\ Sums!Chooses(c.top)
        /\ Sums!Values(c.raw, c.top, Nat) /\ Sums!Values(c.raw, c.top, Int)
    <3>1. c.top \in SUBSET P!Assets /\ \A b \in c.top : c.raw[b] \in Nat
      BY DEF IsChoice
    <3> QED
      BY <3>1, AssetsAreFinite DEF Sums!Values
  <2>2. total = Sums!Fold(c.raw, c.top)
    BY SumIsFold
  <2>3. c.raw[a] \in Nat \ {0}
    BY <1>2 DEF IsChoice
  <2>4. /\ Sums!Fold(c.raw, c.top) = c.raw[a] + Sums!Fold(c.raw, c.top \ {a})
        /\ Sums!Fold(c.raw, c.top \ {a}) \in Int
    BY <1>2, <2>1, Sums!SumSplit
  <2>5. Sums!Fold(c.raw, c.top \ {a}) \in Nat
    <3>1. c.top \ {a} \in SUBSET c.top
      OBVIOUS
    <3> QED
      BY <2>1, <3>1, Sums!SumMonotone
  <2> HIDE DEF total
  <2>6. 100 * total \in Nat \ {0}
    BY <2>2, <2>3, <2>4, <2>5
  <2>7. x.worth * c.raw[a] * c.exposure \in Nat
    BY <2>3 DEF IsChoice
  <2>8. (x.worth * c.raw[a] * c.exposure) \div (100 * total) \in Nat
    BY <2>6, <2>7, Division
  <2>9. P!Goal(x, c) = (x.worth * c.raw[a] * c.exposure) \div (100 * total)
    BY <1>2 DEF P!Goal, total
  <2> QED
    BY <1>2, <2>8, <2>9
<1>3. CASE ~P!Stopped(x, a) /\ a \notin c.top
  <2>1. P!Goal(x, c) = x.held[a] * x.price[a]
    BY <1>3 DEF P!Goal
  <2>2. x.held[a] \in Nat /\ x.price[a] \in Nat
    BY DEF IsPlan, IsChoice
  <2> QED
    BY <1>3, <2>1, <2>2
<1> QED
  BY <1>1, <1>2, <1>3

\* One asset after the other is settled.
LEMMA SettledKeeps ==
    ASSUME NEW k \in Nat, NEW x, Placing(x, k), x.worth \in Nat,
           NEW c, IsChoice(c), c.asset = k + 1
    PROVE  Placing(P!Settled(x, c), k + 1) /\ Kept(x, P!Settled(x, c))
<1>1. IsPlan(x) /\ k + 1 \in P!Assets
  BY DEF Placing, IsChoice
<1>2. CASE x.price[k + 1] = 0
  <2>1. P!Settled(x, c) = x
    BY <1>2 DEF P!Settled
  <2>2. Calm(x, k + 1)
    BY <1>2 DEF Calm
  <2>3. \A b \in P!Assets : b <= k + 1 => b <= k \/ b = k + 1
    BY DEF P!Assets
  <2> QED
    BY <2>1, <2>2, <2>3 DEF Placing, Kept
<1>3. CASE x.price[k + 1] # 0
  <2>1. x.price[k + 1] > 0
    BY <1>1, <1>3 DEF IsPlan
  <2>2. P!Settled(x, c) = P!Order(x, k + 1, P!Goal(x, c))
    BY <1>3 DEF P!Settled
  <2>3. P!Goal(x, c) \in Nat /\ (P!Stopped(x, k + 1) => P!Goal(x, c) = 0)
    BY <1>1, GoalIsNat
  <2> QED
    BY <1>1, <2>1, <2>2, <2>3, OrderKeeps
<1> QED
  BY <1>2, <1>3

OneChoice(choice, x) == P!Settled(x, choice)
Choosing == INSTANCE FoldLemmas WITH Op <- OneChoice, Initial <- 0, Choose <- Largest

\* All assets are settled.
LEMMA AllSettled ==
    ASSUME NEW x, Placing(x, 0), x.worth \in Nat,
           NEW choices, DOMAIN choices = P!Assets,
           \A a \in P!Assets : IsChoice(choices[a]) /\ choices[a].asset = a
    PROVE  Placing(P!FoldLeft(P!Settled, x, choices), 3)
           /\ Kept(x, P!FoldLeft(P!Settled, x, choices))
<1> DEFINE y(k) == Choosing!FoldFrom(x, choices, 1 .. k)
<1>1. P!FoldLeft(P!Settled, x, choices) = Choosing!FoldFrom(x, choices, DOMAIN choices)
  BY DEF P!FoldLeft, P!MapThenFoldSet, Choosing!FoldFrom, Choosing!MapThenFoldSet, OneChoice, Largest,
         P!Max, Max
<1>2. P!FoldLeft(P!Settled, x, choices) = y(3)
  BY <1>1 DEF P!Assets
<1>3. \A n \in Nat : Choosing!Chooses(1 .. n) /\ (n > 0 => Largest(1 .. n) = n)
  BY Choosing!MaxOfInterval DEF Largest, Choosing!Chooses, Max, Choosing!Max
<1>4. \A n \in Nat : y(n + 1) = P!Settled(y(n), choices[n + 1])
  BY <1>3, Choosing!FromNext DEF OneChoice
<1>5. y(0) = x
  <2>1. Choosing!FoldFrom(x, choices, {}) = x
    BY <1>3, Choosing!FromNext
  <2>2. 1 .. 0 = {}
    OBVIOUS
  <2> QED
    BY <2>1, <2>2
<1> HIDE DEF y
<1>6. ASSUME NEW n \in Nat, n + 1 \in P!Assets, Placing(y(n), n), Kept(x, y(n))
      PROVE  Placing(y(n + 1), n + 1) /\ Kept(x, y(n + 1))
  <2>1. y(n).worth \in Nat
    BY <1>6 DEF Kept
  <2>2. IsChoice(choices[n + 1]) /\ choices[n + 1].asset = n + 1
    BY <1>6
  <2>3. Placing(y(n + 1), n + 1) /\ Kept(y(n), y(n + 1))
    BY <1>4, <1>6, <2>1, <2>2, SettledKeeps
  <2> QED
    BY <1>6, <2>3 DEF Kept
<1>7. Placing(y(0), 0) /\ Kept(x, y(0))
  BY <1>5 DEF Kept
<1>8. Placing(y(1), 1) /\ Kept(x, y(1))
  <2>1. 0 \in Nat /\ 0 + 1 = 1 /\ 1 \in P!Assets
    BY DEF P!Assets
  <2> QED
    BY <1>6, <1>7, <2>1
<1>9. Placing(y(2), 2) /\ Kept(x, y(2))
  <2>1. 1 \in Nat /\ 1 + 1 = 2 /\ 2 \in P!Assets
    BY DEF P!Assets
  <2> QED
    BY <1>6, <1>8, <2>1
<1>10. Placing(y(3), 3) /\ Kept(x, y(3))
  <2>1. 2 \in Nat /\ 2 + 1 = 3 /\ 3 \in P!Assets
    BY DEF P!Assets
  <2> QED
    BY <1>6, <1>9, <2>1
<1> QED
  BY <1>2, <1>10

\* An account that has been valued: what it holds is worth what it says.
Counted(x) ==
    /\ IsPlan(x) /\ x.cash + Invested(x.held, x.price) = x.worth /\ x.worth \in Nat
    /\ \A a \in P!Assets : x.held[a] = 0 <=> x.entry[a] = 0
    /\ x.floor <= x.base

\* What an account is when three of its fields are changed.
LEMMA CycleSet ==
    ASSUME NEW c, NEW h, NEW e, NEW g, NEW n, NEW b, NEW f, NEW w, NEW s, NEW p, NEW t, NEW x,
           x = [cash |-> c, held |-> h, entry |-> e, high |-> g, cycle |-> n, base |-> b,
                floor |-> f, worth |-> w, step |-> s, price |-> p, trail |-> t],
           NEW cycle, NEW base, NEW floor
    PROVE  [x EXCEPT !.cycle = cycle, !.base = base, !.floor = floor]
             = [cash |-> c, held |-> h, entry |-> e, high |-> g, cycle |-> cycle, base |-> base,
                floor |-> floor, worth |-> w, step |-> s, price |-> p, trail |-> t]
<1> DEFINE x1 == [x EXCEPT !.cycle = cycle]
           x2 == [x1 EXCEPT !.base = base]
           x3 == [x2 EXCEPT !.floor = floor]
<1>1. [x EXCEPT !.cycle = cycle, !.base = base, !.floor = floor] = x3
  OBVIOUS
<1>2. x1 =
       [cash |-> c, held |-> h, entry |-> e, high |-> g, cycle |-> cycle,
        base |-> b, floor |-> f, worth |-> w, step |-> s, price |-> p, trail |-> t]
  OBVIOUS
<1> HIDE DEF x1
<1>3. x2 =
       [cash |-> c, held |-> h, entry |-> e, high |-> g, cycle |-> cycle,
        base |-> base, floor |-> f, worth |-> w, step |-> s, price |-> p, trail |-> t]
  BY <1>2
<1> HIDE DEF x2
<1>4. x3 =
       [cash |-> c, held |-> h, entry |-> e, high |-> g, cycle |-> cycle,
        base |-> base, floor |-> floor, worth |-> w, step |-> s, price |-> p, trail |-> t]
  BY <1>3
<1> HIDE DEF x3
<1> QED
  BY <1>1, <1>4

\* The same of three others.
LEMMA WorthSet ==
    ASSUME NEW c, NEW h, NEW e, NEW g, NEW n, NEW b, NEW f, NEW w, NEW s, NEW p, NEW t, NEW x,
           x = [cash |-> c, held |-> h, entry |-> e, high |-> g, cycle |-> n, base |-> b,
                floor |-> f, worth |-> w, step |-> s, price |-> p, trail |-> t],
           NEW worth, NEW price, NEW step
    PROVE  [x EXCEPT !.worth = worth, !.price = price, !.step = step]
             = [cash |-> c, held |-> h, entry |-> e, high |-> g, cycle |-> n, base |-> b,
                floor |-> f, worth |-> worth, step |-> step, price |-> price, trail |-> t]
<1> DEFINE x1 == [x EXCEPT !.worth = worth]
           x2 == [x1 EXCEPT !.price = price]
           x3 == [x2 EXCEPT !.step = step]
<1>1. [x EXCEPT !.worth = worth, !.price = price, !.step = step] = x3
  OBVIOUS
<1>2. x1 =
       [cash |-> c, held |-> h, entry |-> e, high |-> g, cycle |-> n,
        base |-> b, floor |-> f, worth |-> worth, step |-> s, price |-> p, trail |-> t]
  OBVIOUS
<1> HIDE DEF x1
<1>3. x2 =
       [cash |-> c, held |-> h, entry |-> e, high |-> g, cycle |-> n,
        base |-> b, floor |-> f, worth |-> worth, step |-> s, price |-> price, trail |-> t]
  BY <1>2
<1> HIDE DEF x2
<1>4. x3 =
       [cash |-> c, held |-> h, entry |-> e, high |-> g, cycle |-> n,
        base |-> b, floor |-> f, worth |-> worth, step |-> step, price |-> price, trail |-> t]
  BY <1>3
<1> HIDE DEF x3
<1> QED
  BY <1>1, <1>4

\* What a decision leaves: above the floor, and calm.
LEMMA DecidedIs ==
    ASSUME NEW x, Counted(x), NEW bar, IsHour(bar)
    PROVE  LET y == P!Decided(x, bar)
           IN  /\ Counted(y) /\ y.step = x.step /\ y.worth >= y.floor
               /\ \A a \in P!Assets : Calm(y, a)
               /\ \A a \in P!Assets : y.price[a] > 0 /\ y.held[a] = 0 => y.high[a] = 0
<1> DEFINE u == [x EXCEPT !.trail = bar.trail]
           v == P!Watching(u)
           top == P!Top(v, bar.raw)
           exposure == P!Exposure(v, bar.scalar)
           w == P!FloorShield(v)
           choices == [a \in P!Assets |-> [asset |-> a, top |-> top, raw |-> bar.raw,
                                           exposure |-> exposure]]
           y == P!FoldLeft(P!Settled, w, choices)
<1>1. /\ IsPlan(x) /\ x.worth \in Nat /\ bar.trail \in Int /\ bar.scalar \in Nat
      /\ bar.raw \in [P!Assets -> Nat]
  BY DEF Counted, IsHour
<1>2. /\ x = [cash |-> x.cash, held |-> x.held, entry |-> x.entry, high |-> x.high,
              cycle |-> x.cycle, base |-> x.base, floor |-> x.floor, worth |-> x.worth,
              step |-> x.step, price |-> x.price, trail |-> x.trail]
      /\ x.cash \in Int /\ x.held \in [P!Assets -> Nat] /\ x.entry \in [P!Assets -> Nat]
      /\ x.high \in [P!Assets -> Nat] /\ x.cycle \in Nat \ {0} /\ x.base \in Int
      /\ x.floor \in Int /\ x.step \in Nat /\ x.price \in [P!Assets -> Nat]
  BY <1>1 DEF IsPlan
<1> DEFINE high == [a \in P!Assets |->
                       IF x.price[a] = 0 THEN x.high[a]
                       ELSE IF x.held[a] > 0 THEN Max({x.high[a], x.price[a]}) ELSE 0]
           Built(cycle, base, floor) ==
              [cash |-> x.cash, held |-> x.held, entry |-> x.entry, high |-> high,
               cycle |-> cycle, base |-> base, floor |-> floor, worth |-> x.worth,
               step |-> x.step, price |-> x.price, trail |-> bar.trail]
<1>3. v = Built(x.cycle, x.base, x.floor)
  <2>1. u = [cash |-> x.cash, held |-> x.held, entry |-> x.entry, high |-> x.high,
             cycle |-> x.cycle, base |-> x.base, floor |-> x.floor, worth |-> x.worth,
             step |-> x.step, price |-> x.price, trail |-> bar.trail]
    BY <1>2
  <2> HIDE DEF u
  <2>2. v = [u EXCEPT !.high = [a \in P!Assets |->
                IF u.price[a] = 0 THEN @[a]
                ELSE IF u.held[a] > 0 THEN Max({@[a], u.price[a]}) ELSE 0]]
    BY DEF P!Watching, P!Max, Max
  <2>3. v = [u EXCEPT !.high = high]
    BY <2>1, <2>2
  <2> HIDE DEF v, high
  <2> QED
    BY <2>1, <2>3
<1>4. high \in [P!Assets -> Nat]
  <2>1. ASSUME NEW a \in P!Assets PROVE Max({x.high[a], x.price[a]}) \in Nat
    <3> DEFINE b == x.high[a]
               c == x.price[a]
    <3>1. b \in Nat /\ c \in Nat /\ b \in Int /\ c \in Int
      BY <1>2
    <3> HIDE DEF b, c
    <3>2. Max({b, c}) \in {b, c}
      BY <3>1, MaxOfTwo
    <3>3. Max({b, c}) \in Nat
      BY <3>1, <3>2
    <3> QED
      BY <3>3 DEF b, c
  <2> QED
    BY <1>2, <2>1
<1>5. \A a \in P!Assets : x.price[a] > 0 /\ x.held[a] = 0 => high[a] = 0
  BY <1>2
<1> HIDE DEF high
<1>6. \E cycle \in Nat \ {0}, base \in Int, floor \in Int :
         w = Built(cycle, base, floor) /\ floor <= base /\ floor <= x.worth
  <2>0. v.worth = x.worth /\ v.floor = x.floor
    BY <1>3
  <2>1. CASE x.worth < x.floor
    <3> DEFINE least == (80 * x.worth) \div 100
    <3>1. w = P!NewCycle(v, 1)
      BY <2>0, <2>1 DEF P!FloorShield
    <3> HIDE DEF v, w
    <3>2. w = [v EXCEPT !.cycle = 1, !.base = x.worth, !.floor = least]
      BY <2>0, <3>1 DEF P!NewCycle
    <3>3. least \in Int /\ least <= x.worth
      BY <1>1
    <3> HIDE DEF least
    <3>4. w = Built(1, x.worth, least)
      BY <1>3, <3>2, CycleSet
    <3>5. 1 \in Nat \ {0} /\ x.worth \in Int
      BY <1>1
    <3> HIDE DEF Built
    <3> QED
      BY <3>3, <3>4, <3>5
  <2>2. CASE ~(x.worth < x.floor)
    <3>1. w = v
      BY <1>3, <2>2 DEF P!FloorShield
    <3>2. x.floor <= x.worth /\ x.floor <= x.base
      BY <1>1, <1>2, <2>2 DEF Counted
    <3> HIDE DEF w, v
    <3> QED
      BY <1>2, <1>3, <3>1, <3>2
  <2> QED
    BY <2>1, <2>2
<1>7. PICK cycle \in Nat \ {0}, base \in Int, floor \in Int :
         w = Built(cycle, base, floor) /\ floor <= base /\ floor <= x.worth
  BY <1>6
<1> HIDE DEF w
<1>8. IsPlan(w)
  BY <1>1, <1>2, <1>4, <1>7 DEF IsPlan
<1>9. Placing(w, 0) /\ w.worth \in Nat /\ w.worth >= w.floor /\ w.floor <= w.base /\ w.step = x.step
  <2>1. /\ w.cash = x.cash /\ w.held = x.held /\ w.price = x.price /\ w.worth = x.worth
        /\ w.entry = x.entry /\ w.high = high /\ w.floor = floor /\ w.base = base /\ w.step = x.step
    BY <1>7
  <2>2. ASSUME NEW a \in P!Assets PROVE ~(a <= 0)
    BY DEF P!Assets
  <2> QED
    BY <1>1, <1>5, <1>7, <1>8, <2>1, <2>2 DEF Placing, Counted
<1>10. exposure \in Nat
  <2> DEFINE c == v.cycle
             three == 3
             least == P!Min({three, c})
  <2>1. c \in Int /\ c > 0 /\ v.worth = x.worth /\ v.floor = x.floor /\ three \in Int /\ three > 0
    BY <1>2, <1>3
  <2> HIDE DEF c, v, three
  <2>2. least \in Nat
    <3>1. least = Min({three, c})
      BY DEF P!Min, Min
    <3>2. Min({three, c}) \in {three, c}
      BY <2>1, MinOfTwo
    <3> QED
      BY <2>1, <3>1, <3>2
  <2> HIDE DEF least
  <2>3. 95 * least * bar.scalar \in Nat /\ 100 \in Nat \ {0}
    BY <1>1, <2>2
  <2>4. (95 * least * bar.scalar) \div 100 \in Nat
    BY <2>3, Division
  <2> QED
    BY <2>4 DEF P!Exposure, least, c, three
<1>11. top \in SUBSET P!Assets /\ \A a \in top : bar.raw[a] > 0
  <2> HIDE DEF v
  <2> QED
    BY DEF P!Top
<1> HIDE DEF top, exposure, v
<1>12. /\ DOMAIN choices = P!Assets
       /\ \A a \in P!Assets : IsChoice(choices[a]) /\ choices[a].asset = a
  BY <1>1, <1>10, <1>11 DEF IsChoice
<1>13. P!Decided(x, bar) = y
  BY DEF P!Decided, w, top, exposure, v
<1> HIDE DEF choices
<1>14. Placing(y, 3) /\ Kept(w, y)
  BY <1>9, <1>12, AllSettled
<1> HIDE DEF y
<1>15. Counted(y) /\ y.step = x.step /\ y.worth >= y.floor
  BY <1>9, <1>14 DEF Counted, Placing, Kept
<1>16. /\ \A a \in P!Assets : Calm(y, a)
       /\ \A a \in P!Assets : y.price[a] > 0 /\ y.held[a] = 0 => y.high[a] = 0
  <2>1. \A a \in P!Assets : a <= 3
    BY DEF P!Assets
  <2> QED
    BY <1>14, <2>1 DEF Placing
<1> QED
  BY <1>13, <1>15, <1>16

\* An account is safe, and of the kind the loop keeps.
PlanIsSafe(x) == IsPlan(x) /\ P!AccountIsSafe(x)

\* A portfolio begins safe, with any capital.
LEMMA PlanBeginsSafe ==
    ASSUME NEW capital \in Nat
    PROVE  PlanIsSafe(P!Started(capital))
<1> DEFINE x == P!Started(capital)
           none == [a \in P!Assets |-> 0]
<1>1. x = [cash |-> capital, held |-> none, entry |-> none, high |-> none, cycle |-> 1,
           base |-> capital, floor |-> (85 * capital) \div 100, worth |-> capital, step |-> 0,
           price |-> none, trail |-> 15]
  BY DEF P!Started
<1>2. (85 * capital) \div 100 \in Int /\ (85 * capital) \div 100 <= capital
  OBVIOUS
<1>3. none \in [P!Assets -> Nat] /\ \A a \in P!Assets : none[a] = 0
  OBVIOUS
<1> HIDE DEF x, none
<1>4. IsPlan(x)
  BY <1>1, <1>2, <1>3 DEF IsPlan
<1>5. Invested(none, none) = 0
  <2> DEFINE S == P!Assets
             f == [a \in S |-> none[a] * none[a]]
  <2>1. (\A a \in S : f[a] = 0) /\ DOMAIN f = S
    BY <1>3
  <2>2. Invested(none, none) = P!SumFunction(f)
    BY DEF Invested
  <2> HIDE DEF f
  <2>3. P!SumFunction(f) = Sums!Fold(f, S)
    BY <2>1, SumIsFold
  <2>4. Sums!IsSum /\ Sums!IsFiniteSet(S) /\ Sums!Chooses(S)
    BY AssetsAreFinite
  <2>5. Sums!Values(f, S, {0})
    BY <2>1 DEF Sums!Values
  <2> HIDE DEF S
  <2> QED
    BY <2>2, <2>3, <2>4, <2>5, Sums!SumOfZeros
<1>6. P!Worth(x, x.price) = x.worth
  BY <1>1, <1>5, WorthIs
<1> QED
  BY <1>1, <1>2, <1>3, <1>4, <1>6 DEF PlanIsSafe, P!AccountIsSafe, x

\* The loop of run_portfolio_multi_agent.py, for any capital and any hours in which
\* the account is worth something: orders make no money at any leverage, nothing is
\* sold that is not held, and a decision leaves the account above its floor and every
\* larger position above its trailing stop.
THEOREM PlanStaysSafe ==
    ASSUME NEW x, PlanIsSafe(x), NEW bar, IsHour(bar), P!Worth(x, bar.price) >= 0
    PROVE  PlanIsSafe(P!Hour(x, bar))
<1> DEFINE worth == P!Worth(x, bar.price)
           u == [x EXCEPT !.worth = worth, !.price = bar.price, !.step = @ + 1]
           v == P!Valued(x, bar)
<1>1. /\ IsPlan(x) /\ bar.price \in [P!Assets -> Nat]
      /\ \A a \in P!Assets : x.held[a] = 0 <=> x.entry[a] = 0
      /\ x.floor <= x.base
  BY DEF PlanIsSafe, P!AccountIsSafe, IsHour
<1>2. /\ x = [cash |-> x.cash, held |-> x.held, entry |-> x.entry, high |-> x.high,
              cycle |-> x.cycle, base |-> x.base, floor |-> x.floor, worth |-> x.worth,
              step |-> x.step, price |-> x.price, trail |-> x.trail]
      /\ x.cash \in Int /\ x.held \in [P!Assets -> Nat] /\ x.entry \in [P!Assets -> Nat]
      /\ x.high \in [P!Assets -> Nat] /\ x.cycle \in Nat \ {0} /\ x.base \in Int
      /\ x.floor \in Int /\ x.step \in Nat /\ x.trail \in Int
  BY <1>1 DEF IsPlan
<1>3. /\ worth = x.cash + Invested(x.held, bar.price)
      /\ worth \in Nat
  <2>1. Invested(x.held, bar.price) \in Int
    <3>1. x.held \in [P!Assets -> Int] /\ bar.price \in [P!Assets -> Int] /\ 1 \in P!Assets
      BY <1>1, <1>2 DEF P!Assets
    <3> QED
      BY <3>1, InvestedMoves
  <2>2. worth = x.cash + Invested(x.held, bar.price)
    BY WorthIs
  <2> HIDE DEF worth
  <2>3. worth \in Int
    BY <1>2, <2>1, <2>2
  <2> QED
    BY <2>2, <2>3 DEF worth
<1> HIDE DEF worth
<1> DEFINE Built(cycle, base, floor) ==
              [cash |-> x.cash, held |-> x.held, entry |-> x.entry, high |-> x.high,
               cycle |-> cycle, base |-> base, floor |-> floor, worth |-> worth,
               step |-> x.step + 1, price |-> bar.price, trail |-> x.trail]
<1>4. u = Built(x.cycle, x.base, x.floor)
  <2> DEFINE later == x.step + 1
             price == bar.price
  <2>1. u = [x EXCEPT !.worth = worth, !.price = price, !.step = later]
    OBVIOUS
  <2> HIDE DEF later, price, u
  <2>2. u = [cash |-> x.cash, held |-> x.held, entry |-> x.entry, high |-> x.high,
             cycle |-> x.cycle, base |-> x.base, floor |-> x.floor, worth |-> worth,
             step |-> later, price |-> price, trail |-> x.trail]
    BY <1>2, <2>1, WorthSet
  <2> QED
    BY <2>2 DEF later, price
<1>5. \E cycle \in Nat \ {0}, base \in Int, floor \in Int :
         v = Built(cycle, base, floor) /\ floor <= base
  <2>1. v = IF u.worth >= 3 * u.base /\ u.worth > u.base THEN P!NewCycle(u, u.cycle + 1) ELSE u
    BY DEF P!Valued, worth
  <2> HIDE DEF v, u
  <2>2. CASE v = u
    BY <1>1, <1>2, <1>4, <2>2
  <2>3. CASE v = P!NewCycle(u, u.cycle + 1)
    <3> DEFINE least == (80 * worth) \div 100
               next == x.cycle + 1
    <3>0. u.worth = worth /\ u.cycle = x.cycle
      BY <1>4
    <3>1. v = [u EXCEPT !.cycle = next, !.base = worth, !.floor = least]
      BY <2>3, <3>0 DEF P!NewCycle
    <3>3. least \in Int /\ least <= worth
      BY <1>3
    <3>4. next \in Nat \ {0} /\ worth \in Int
      BY <1>2, <1>3
    <3> HIDE DEF least, next
    <3>2. v = Built(next, worth, least)
      BY <1>4, <3>1, CycleSet
    <3> HIDE DEF Built
    <3> QED
      BY <3>2, <3>3, <3>4
  <2> QED
    BY <2>1, <2>2, <2>3
<1>6. PICK cycle \in Nat \ {0}, base \in Int, floor \in Int :
         v = Built(cycle, base, floor) /\ floor <= base
  BY <1>5
<1>7. P!Hour(x, bar) = IF P!Decides(x.step) THEN P!Decided(v, bar) ELSE v
  BY DEF P!Hour
<1> HIDE DEF v, u
<1>8. /\ v.cash = x.cash /\ v.held = x.held /\ v.price = bar.price /\ v.worth = worth
      /\ v.entry = x.entry /\ v.floor = floor /\ v.base = base /\ v.step = x.step + 1
  BY <1>6
<1>9. IsPlan(v)
  BY <1>1, <1>2, <1>3, <1>6 DEF IsPlan
<1>10. Counted(v)
  BY <1>1, <1>3, <1>6, <1>8, <1>9 DEF Counted
<1>11. ASSUME NEW y, Counted(y), y.step = v.step,
              P!Decides(x.step) =>
                 /\ y.worth >= y.floor /\ \A a \in P!Assets : Calm(y, a)
                 /\ \A a \in P!Assets : y.price[a] > 0 /\ y.held[a] = 0 => y.high[a] = 0
       PROVE  PlanIsSafe(y)
  <2>1. IsPlan(y) /\ y.step - 1 = x.step
    BY <1>2, <1>8, <1>11 DEF Counted
  <2>2. P!Worth(y, y.price) = y.worth
    BY <1>11, WorthIs DEF Counted
  <2>3. \A a \in P!Assets : y.held[a] >= 0 /\ (y.held[a] = 0 <=> y.entry[a] = 0)
    BY <1>11, <2>1 DEF Counted, IsPlan
  <2>4. y.floor <= y.base
    BY <1>11 DEF Counted
  <2>5. P!Decides(y.step - 1) =>
           /\ y.worth >= y.floor
           /\ \A a \in P!Assets : y.price[a] > 0 =>
                 /\ y.held[a] * y.price[a] > P!MinTrade(y) => ~P!Stopped(y, a)
                 /\ y.held[a] = 0 => y.high[a] = 0
    BY <1>11, <2>1 DEF Calm
  <2> QED
    BY <2>1, <2>2, <2>3, <2>4, <2>5 DEF PlanIsSafe, P!AccountIsSafe
<1>12. CASE P!Decides(x.step)
  <2>1. P!Hour(x, bar) = P!Decided(v, bar)
    BY <1>7, <1>12
  <2>2. /\ Counted(P!Decided(v, bar)) /\ P!Decided(v, bar).step = v.step
        /\ P!Decided(v, bar).worth >= P!Decided(v, bar).floor
        /\ \A a \in P!Assets : Calm(P!Decided(v, bar), a)
        /\ \A a \in P!Assets : P!Decided(v, bar).price[a] > 0 /\ P!Decided(v, bar).held[a] = 0
                                  => P!Decided(v, bar).high[a] = 0
    BY <1>10, DecidedIs
  <2> QED
    BY <1>11, <2>1, <2>2
<1>13. CASE ~P!Decides(x.step)
  BY <1>7, <1>10, <1>11, <1>13
<1> QED
  BY <1>12, <1>13

\* The prices and targets of the run are whole and not negative.
LEMMA BarsAreHours ==
    ASSUME NEW bar \in PortfolioBars
    PROVE  IsHour(bar)
<1> DEFINE R == [P!Assets -> Nat]
<1>1. /\ <<10, 10, 10>> \in R /\ <<36, 10, 9>> \in R /\ <<8, 12, 10>> \in R
      /\ <<0, 10, 14>> \in R /\ <<40, 5, 12>> \in R /\ <<0, 0, 0>> \in R
      /\ <<40, 0, 20>> \in R /\ <<20, 20, 20>> \in R /\ <<0, 60, 0>> \in R
  BY DEF P!Assets
<1>2. /\ bar.price \in {<<10, 10, 10>>, <<36, 10, 9>>, <<8, 12, 10>>, <<0, 10, 14>>, <<40, 5, 12>>}
      /\ bar.raw \in {<<0, 0, 0>>, <<40, 0, 20>>, <<20, 20, 20>>, <<0, 60, 0>>}
      /\ bar.trail \in {15, 25} /\ bar.scalar \in {100, 40}
  BY DEF PortfolioBars
<1>3. bar.trail \in Int /\ bar.scalar \in Nat
  BY <1>2
<1> HIDE DEF R
<1>4. bar.price \in R /\ bar.raw \in R
  BY <1>1, <1>2
<1> QED
  BY <1>3, <1>4 DEF IsHour, R

\* The portfolio the run follows: the account is safe and of the shape the loop keeps.
PlanInput == Given("portfolio") => PlanIsSafe(input[2])

\* The account of the agents in every run: as PlanStaysSafe says of one hour.
THEOREM PortfoliosStaySafe == ResearchSpec => []PortfolioIsSafe
<1>1. ASSUME ResearchInit PROVE PlanInput
  <2>1. ASSUME input \in Inputs, Given("portfolio") PROVE input[2] = P!Started(5000)
    BY <2>1 DEF Inputs, Given
  <2>2. PlanIsSafe(P!Started(5000))
    BY PlanBeginsSafe
  <2>3. input = NoInput => ~Given("portfolio")
    BY DEF NoInput, Given
  <2> QED
    BY <1>1, <2>1, <2>2, <2>3 DEF ResearchInit, PlanInput
<1>2. ASSUME PlanInput, [ResearchNext]_<<vars, input>> PROVE PlanInput'
  <2>1. CASE input' = input
    BY <1>2, <2>1 DEF PlanInput, Given
  <2>2. CASE Trade
    BY <2>2 DEF Trade, PlanInput, Given
  <2>3. CASE Validate
    BY <2>3 DEF Validate, PlanInput, Given
  <2>4. CASE Rebalance
    <3>1. PICK bar \in PortfolioBars :
             /\ P!Worth(input[2], bar.price) >= 100
             /\ input' = <<"portfolio", P!Hour(input[2], bar)>>
      BY <2>4 DEF Rebalance
    <3>2. PlanIsSafe(input[2])
      BY <1>2, <2>4 DEF PlanInput, Rebalance
    <3> DEFINE worth == P!Worth(input[2], bar.price)
    <3>3. worth = input[2].cash + Invested(input[2].held, bar.price)
      BY WorthIs
    <3>4. worth \in Int
      <4>1. /\ input[2].cash \in Int /\ input[2].held \in [P!Assets -> Int]
            /\ bar.price \in [P!Assets -> Int] /\ 1 \in P!Assets
        BY <3>2, BarsAreHours DEF PlanIsSafe, IsPlan, IsHour, P!Assets
      <4>2. Invested(input[2].held, bar.price) \in Int
        BY <4>1, InvestedMoves
      <4> HIDE DEF worth
      <4> QED
        BY <3>3, <4>1, <4>2
    <3> HIDE DEF worth
    <3>5. worth >= 100 => worth >= 0
      BY <3>4
    <3>6. P!Worth(input[2], bar.price) >= 0
      BY <3>1, <3>5 DEF worth
    <3>7. PlanIsSafe(P!Hour(input[2], bar))
      BY <3>2, <3>6, BarsAreHours, PlanStaysSafe
    <3> QED
      BY <3>1, <3>7 DEF PlanInput, Given
  <2> QED
    BY <1>2, <2>1, <2>2, <2>3, <2>4 DEF ResearchNext
<1>3. PlanInput => PortfolioIsSafe
  BY DEF PlanInput, PlanIsSafe, PortfolioIsSafe
<1> QED
  BY <1>1, <1>2, <1>3, PTL DEF ResearchSpec

\* SimulatorsAreSafe: guards, studies and the agents' account, in every run.
THEOREM SimulatorsStaySafe == ResearchSpec => []SimulatorsAreSafe
<1>1. GuardsHold /\ StudiesAreIsolated /\ PortfolioIsSafe => SimulatorsAreSafe
  BY DEF SimulatorsAreSafe
<1> QED
  BY <1>1, GuardsAlwaysHold, StudiesStayApart, PortfoliosStaySafe, PTL
=============================================================================
