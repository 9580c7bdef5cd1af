----------------------------- MODULE HourlyProofs -----------------------------
(***************************************************************************)
(* The two programs that go on hour by hour: the momentum daemon, and the  *)
(* soak harness, whose part begins further down.                           *)
(*                                                                         *)
(* The momentum daemon, for any symbols, prices, slots, slicing and number *)
(* of hours and crashes, on a spot or a futures account, dry or live.      *)
(*                                                                         *)
(* The hour changes the positions order by order and the cash at its end,  *)
(* so the properties, which speak of the ends, need what holds in between: *)
(* HourInv.  Its parts say what the plan of the hour still contains        *)
(* (Plan), that the slots suffice for what is planned (Slots), that a spot *)
(* account only ever has longs and cash (Spot), that the exchange holds    *)
(* what is recorded and what is about to be (Exposure), and that cash, the *)
(* positions and what is being booked never exceed the equity the hour     *)
(* began with (Budget).                                                    *)
(***************************************************************************)
EXTENDS MomentumDaemon, Soak, FiniteSetTheorems, SequenceTheorems, TLAPS

Plus(x, y) == x + y
AnyOf(S) == CHOOSE x \in S : TRUE
Sums == INSTANCE FoldLemmas WITH Op <- Plus, Initial <- 0, Choose <- AnyOf

Points == {"idle", "close", "closed", "open", "opened"}

Once(plan) == \A i, j \in 1 .. Len(plan) : plan[i] = plan[j] => i = j

\* The plan of the hour: symbols with data, each once; those that are to be
\* closed are held, the one in the middle of it no more, and those to be opened
\* are not.
Plan ==
    LET plan == step.todo
    IN  /\ Once(plan)
        /\ \A i \in 1 .. Len(plan) : step.price[plan[i]] # 0
        /\ \A i \in 1 .. Len(plan) :
              plan[i] \in DOMAIN mem.pos <=> pc = "close" \/ (pc = "closed" /\ i # 1)
        /\ pc \in {"closed", "opened"} => plan # <<>>
        /\ pc = "idle" => plan = <<>>

\* Slots are counted when the plan is made for longs, one by one for shorts.
Slots ==
    /\ Cardinality(DOMAIN mem.pos) <= MaxSlots /\ Cardinality(DOMAIN file.pos) <= MaxSlots
    /\ pc \in {"open", "opened"} /\ step.bull =>
          Cardinality(DOMAIN mem.pos) + Len(step.todo) <= MaxSlots
    /\ pc = "opened" /\ ~step.bull => Cardinality(DOMAIN mem.pos) < MaxSlots

\* A wallet of a spot account: cash and long positions only.
SpotWallet(w) == w.cash >= 0 /\ \A s \in DOMAIN w.pos : ~w.pos[s].short /\ w.pos[s].size >= 0

Spot ==
    ~futures =>
       /\ SpotWallet(mem) /\ SpotWallet(file)
       /\ step.cash >= 0 /\ step.equity >= 0
       /\ pc = "closed" => step.alloc >= 0
       /\ pc \in {"open", "opened"} /\ step.todo # <<>> => step.bull
       /\ pc = "opened" => step.alloc <= step.cash /\ step.filled >= 0

\* The part of an order for s that is executed and not yet recorded.
Pending(s) ==
    IF pc = "opened" /\ s = Head(step.todo)
    THEN (IF step.bull THEN step.filled ELSE -step.filled) ELSE 0

\* What the exchange holds against what is recorded and about to be.
Exposure ==
    ~dry =>
       /\ pc = "opened" => step.filled >= 0 /\ (step.ok <=> step.filled > 0)
       /\ ~futures => \A s \in Symbols : held[s] >= 0
       /\ ~futures /\ ~cut =>
             /\ \A s \in DOMAIN mem.pos : mem.pos[s].size <= held[s] + lacking[s]
             /\ pc = "opened" =>
                   LET s == Head(step.todo) IN step.filled <= held[s] + lacking[s]
       /\ exact /\ ~cut => \A s \in Symbols : held[s] = Recorded(s) + Pending(s)

\* The wallet at the prices of the hour, with what is being booked.
Budget ==
    dry /\ pc # "idle" =>
       LET worth == Worth(mem.pos, step.price)
       IN  /\ pc \in {"close", "open", "opened"} => step.cash + worth <= step.equity
           /\ pc = "closed" => step.ok /\ step.cash + step.alloc + worth <= step.equity
           /\ pc = "opened" => /\ step.ok
                               /\ step.filled * step.price[Head(step.todo)] <= step.alloc

HourInv ==
    /\ DaemonTypes /\ Plan /\ Slots /\ Spot /\ RestartForgetsNothing /\ Exposure /\ Budget

-----------------------------------------------------------------------------
(* Wallets and what they are worth *)

LEMMA WalletShape ==
    ASSUME NEW w, Wallet(w)
    PROVE  /\ w = [cash |-> w.cash, pos |-> w.pos] /\ w.cash \in Int
           /\ DOMAIN w.pos \in SUBSET Symbols /\ IsFiniteSet(DOMAIN w.pos)
           /\ w.pos \in [DOMAIN w.pos -> Position]
<1>1. PICK of \in SUBSET Symbols : w \in [cash : Int, pos : [of -> Position]]
  BY DEF Wallet
<1>2. DOMAIN w.pos = of
  BY <1>1
<1>3. IsFiniteSet(of)
  BY DaemonAssumption, FS_Subset
<1> QED
  BY <1>1, <1>2, <1>3

LEMMA ShapeIsWallet ==
    ASSUME NEW S \in SUBSET Symbols, NEW p \in [S -> Position], NEW c \in Int
    PROVE  Wallet([cash |-> c, pos |-> p])
BY DEF Wallet

LEMMA PricesArePositive == \A p \in Prices : p \in Nat /\ p > 0
BY DaemonAssumption

LEMMA ValueIsInt ==
    ASSUME NEW p \in Position, NEW at \in Int
    PROVE  /\ Value(p, at) \in Int
           /\ ~p.short /\ p.size >= 0 /\ at >= 0 => Value(p, at) \in Nat
<1>1. p.size \in Int /\ p.entry \in Int /\ p.short \in BOOLEAN
  BY PricesArePositive DEF Position
<1>2. p.size * p.entry \in Int /\ (p.entry - at) * p.size \in Int /\ p.size * at \in Int
  BY <1>1
<1>3. p.size >= 0 /\ at >= 0 => p.size * at >= 0
  BY <1>1
<1> QED
  BY <1>1, <1>2, <1>3 DEF Value

Market == [Symbols -> Prices \cup {0}]

\* What each of the positions counts for.
Counts(all, price) ==
    [s \in DOMAIN all |-> Value(all[s], IF price[s] = 0 THEN all[s].entry ELSE price[s])]

LEMMA WorthOf ==
    ASSUME NEW S \in SUBSET Symbols, NEW p \in [S -> Position], NEW price \in Market
    PROVE  /\ Worth(p, price) = Sums!Fold(Counts(p, price), S) /\ Worth(p, price) \in Int
           /\ Sums!IsFiniteSet(S) /\ Sums!IsSum /\ Sums!Chooses(S)
           /\ Sums!Values(Counts(p, price), S, Int)
<1> DEFINE f == Counts(p, price)
<1>1. DOMAIN p = S /\ \A s \in S : f[s] \in Int
  <2>1. SUFFICES ASSUME NEW s \in S PROVE f[s] \in Int
    OBVIOUS
  <2>2. p[s] \in Position /\ price[s] \in Prices \cup {0}
    BY DEF Market
  <2>3. p[s].entry \in Int /\ price[s] \in Int
    BY <2>2, PricesArePositive DEF Position
  <2> QED
    BY <2>2, <2>3, ValueIsInt DEF Counts
<1>2. IsFiniteSet(S)
  BY DaemonAssumption, FS_Subset
<1>3. Worth(p, price) = SumFunctionOnSet(f, S)
  BY <1>1 DEF Worth, Counts
<1> HIDE DEF f
<1>4. Sums!IsFiniteSet(S) /\ Sums!IsSum /\ Sums!Chooses(S) /\ Sums!Values(f, S, Int)
  BY <1>1, <1>2 DEF IsFiniteSet, Sums!IsFiniteSet, Sums!IsSum, Sums!Chooses, Sums!Values, Plus, AnyOf
<1>5. Worth(p, price) = Sums!Fold(f, S)
  BY <1>3 DEF SumFunctionOnSet, FoldFunctionOnSet, MapThenFoldSet, Sums!Fold,
         Sums!MapThenFoldSet, Plus, AnyOf
<1>6. Sums!Fold(f, S) \in Int
  BY <1>4, Sums!SumType
<1> QED
  BY <1>4, <1>5, <1>6 DEF f

\* Positions that count for the same are worth the same.
LEMMA WorthSame ==
    ASSUME NEW S \in SUBSET Symbols, NEW p \in [S -> Position], NEW q \in [S -> Position],
           NEW price \in Market, \A s \in S : Counts(p, price)[s] = Counts(q, price)[s]
    PROVE  Worth(p, price) = Worth(q, price)
<1> DEFINE f == Counts(p, price)
           g == Counts(q, price)
<1>1. Worth(p, price) = Sums!Fold(f, S) /\ Sums!IsFiniteSet(S) /\ Sums!Chooses(S)
  BY WorthOf
<1>2. Worth(q, price) = Sums!Fold(g, S)
  BY WorthOf
<1>3. \A s \in S : f[s] = g[s]
  OBVIOUS
<1> HIDE DEF f, g
<1>4. Sums!Fold(f, S) = Sums!Fold(g, S)
  BY <1>1, <1>3, Sums!FoldSame
<1> QED
  BY <1>1, <1>2, <1>4

LEMMA WorthLess ==
    ASSUME NEW S \in SUBSET Symbols, NEW p \in [S -> Position], NEW s \in S, NEW price \in Market
    PROVE  Worth(p, price) = Counts(p, price)[s] + Worth(Restrict(p, S \ {s}), price)
<1> DEFINE R == S \ {s}
           less == Restrict(p, R)
           f == Counts(p, price)
           g == Counts(less, price)
<1>1. R \in SUBSET Symbols /\ R \subseteq S
  OBVIOUS
<1>2. less \in [R -> Position] /\ \A x \in R : less[x] = p[x]
  BY <1>1 DEF Restrict
<1>3. \A x \in R : f[x] = g[x]
  BY <1>1, <1>2 DEF Counts
<1>4. Worth(p, price) = Sums!Fold(f, S) /\ Sums!IsFiniteSet(S) /\ Sums!IsSum /\ Sums!Chooses(S) /\ Sums!Values(f, S, Int)
  BY WorthOf
<1>5. Worth(less, price) = Sums!Fold(g, R) /\ Sums!IsFiniteSet(R) /\ Sums!Chooses(R)
  <2>1. \A U \in SUBSET Symbols : \A h \in [U -> Position] :
           Worth(h, price) = Sums!Fold(Counts(h, price), U) /\ Sums!IsFiniteSet(U) /\ Sums!Chooses(U)
    BY WorthOf
  <2> HIDE DEF less, R
  <2> QED
    BY <1>1, <1>2, <2>1
<1> HIDE DEF less, f, g
<1>6. Sums!Fold(f, S) = f[s] + Sums!Fold(f, R)
  BY <1>4, Sums!SumSplit
<1>7. Sums!Fold(f, R) = Sums!Fold(g, R)
  <2> HIDE DEF R
  <2> QED
    BY <1>3, <1>5, Sums!FoldSame
<1> QED
  BY <1>2, <1>4, <1>5, <1>6, <1>7 DEF less, f

LEMMA WorthMore ==
    ASSUME NEW S \in SUBSET Symbols, NEW p \in [S -> Position], NEW s \in Symbols \ S,
           NEW more \in [S \cup {s} -> Position], \A x \in S : more[x] = p[x], NEW price \in Market
    PROVE  Worth(more, price) = Counts(more, price)[s] + Worth(p, price)
<1> DEFINE T == S \cup {s}
<1>1. T \in SUBSET Symbols /\ s \in T /\ T \ {s} = S
  OBVIOUS
<1>2. more \in [T -> Position]
  OBVIOUS
<1> HIDE DEF T
<1>3. Worth(more, price) = Counts(more, price)[s] + Worth(Restrict(more, T \ {s}), price)
  <2>1. ASSUME NEW U \in SUBSET Symbols, NEW x \in [U -> Position], NEW b \in U
        PROVE  Worth(x, price) = Counts(x, price)[b] + Worth(Restrict(x, U \ {b}), price)
    BY WorthLess
  <2> QED
    BY <1>1, <1>2, <2>1
<1>4. Restrict(more, T \ {s}) = p
  BY <1>1, <1>2 DEF Restrict
<1> QED
  BY <1>3, <1>4

\* Long positions are worth no less than nothing.
LEMMA WorthOfLongs ==
    ASSUME NEW S \in SUBSET Symbols, NEW p \in [S -> Position], NEW price \in Market,
           \A s \in S : ~p[s].short /\ p[s].size >= 0
    PROVE  Worth(p, price) >= 0
<1> DEFINE f == Counts(p, price)
<1>1. \A s \in S : f[s] \in Nat
  <2>1. SUFFICES ASSUME NEW s \in S PROVE f[s] \in Nat
    OBVIOUS
  <2>2. p[s] \in Position /\ price[s] \in Prices \cup {0}
    BY DEF Market
  <2>3. p[s].entry \in Nat /\ price[s] \in Nat
    BY <2>2, PricesArePositive DEF Position
  <2> QED
    BY <2>2, <2>3, ValueIsInt DEF Counts
<1>2. Worth(p, price) = Sums!Fold(f, S) /\ Sums!IsFiniteSet(S) /\ Sums!IsSum /\ Sums!Chooses(S)
  BY WorthOf
<1> HIDE DEF f
<1>3. Sums!Values(f, S, Nat)
  BY <1>1 DEF Sums!Values
<1>4. Sums!Fold(f, S) \in Nat
  BY <1>2, <1>3, Sums!SumType
<1> QED
  BY <1>2, <1>4

\* Marking moves the extremes only.
LEMMA MarkedKeeps ==
    ASSUME NEW S \in SUBSET Symbols, NEW p \in [S -> Position], NEW price \in Market
    PROVE  /\ Marked(p, price) \in [S -> Position]
           /\ \A s \in S : /\ Marked(p, price)[s].size = p[s].size
                           /\ Marked(p, price)[s].entry = p[s].entry
                           /\ Marked(p, price)[s].short = p[s].short
           /\ Worth(Marked(p, price), price) = Worth(p, price)
<1> DEFINE q == Marked(p, price)
<1>1. DOMAIN p = S
  OBVIOUS
<1>2. ASSUME NEW s \in S
      PROVE  /\ q[s] \in Position /\ q[s].size = p[s].size /\ q[s].entry = p[s].entry
             /\ q[s].short = p[s].short
  <2>1. p[s] \in Position /\ price[s] \in Prices \cup {0}
    BY DEF Market
  <2>2. CASE price[s] = 0
    BY <2>1, <2>2 DEF Marked
  <2>3. CASE price[s] # 0 /\ p[s].short
    <3>1. q[s] = [p[s] EXCEPT !.low = Least(@, price[s])]
      BY <2>3 DEF Marked
    <3>2. Least(p[s].low, price[s]) \in Prices
      BY <2>1, <2>3 DEF Least, Position
    <3> QED
      BY <2>1, <3>1, <3>2 DEF Position
  <2>4. CASE price[s] # 0 /\ ~p[s].short
    <3>1. q[s] = [p[s] EXCEPT !.high = Greatest(@, price[s])]
      BY <2>4 DEF Marked
    <3>2. Greatest(p[s].high, price[s]) \in Prices
      BY <2>1, <2>4 DEF Greatest, Position
    <3> QED
      BY <2>1, <3>1, <3>2 DEF Position
  <2> QED
    BY <2>2, <2>3, <2>4
<1>3. q \in [S -> Position]
  BY <1>1, <1>2 DEF Marked
<1> HIDE DEF q
<1>4. \A s \in S : Counts(q, price)[s] = Counts(p, price)[s]
  BY <1>2, <1>3 DEF Counts, Value
<1>5. Worth(q, price) = Worth(p, price)
  BY <1>3, <1>4, WorthSame
<1> QED
  BY <1>2, <1>3, <1>5 DEF q

-----------------------------------------------------------------------------
(* Orders and plans *)

\* What is executed and what counts as filled, none of it negative; a dry run
\* executes nothing and hears of all.
LEMMA OutcomesAre ==
    ASSUME dry \in BOOLEAN, NEW amount \in Int, NEW p \in Nat, NEW o \in Outcomes(amount, p)
    PROVE  /\ o.placed \in Int /\ o.filled \in Int
           /\ dry => o.placed = 0 /\ o.filled = amount
           /\ ~dry => 0 <= o.filled /\ 0 <= o.placed
<1>1. CASE dry
  BY <1>1 DEF Outcomes
<1>2. CASE ~dry /\ amount <= 0
  BY <1>2 DEF Outcomes
<1>3. ASSUME ~dry, amount > 0, NEW slices \in Nat \ {0}, o \in Executed(amount, slices)
      PROVE  o.placed \in Nat /\ o.filled \in Nat
  <2> DEFINE slice == amount \div slices
             Parts(n) == {k \in 0 .. n * slice : k % Lot = 0 \/ \E i \in 0 .. n : k = i * slice}
  <2>1. slice \in Nat
    BY <1>3
  <2>2. PICK i \in 0 .. slices : o \in [placed : Parts(Least(i + 1, slices)), filled : {i * slice}]
    BY <1>3 DEF Executed
  <2>3. o.placed \in Parts(Least(i + 1, slices)) /\ o.filled = i * slice
    BY <2>2
  <2>4. o.placed \in Nat
    BY <2>3
  <2> HIDE DEF slice
  <2>5. i * slice \in Nat
    BY <2>1
  <2> QED
    BY <2>3, <2>4, <2>5
<1>4. Slices \in Nat \ {0} /\ 1 \in Nat \ {0}
  BY DaemonAssumption
<1>5. CASE ~dry /\ amount > 0
  <2>1. o \in Executed(amount, Slices) \/ o \in Executed(amount, 1)
    BY <1>5 DEF Outcomes
  <2> QED
    BY <1>3, <1>4, <1>5, <2>1
<1> QED
  BY <1>1, <1>2, <1>5

\* The orders in which a set can be gone through, or part of it.
LEMMA OrdersOf ==
    ASSUME NEW S \in SUBSET Symbols, NEW plan, plan \in SetToAllKPermutations(S) \/ plan \in SetToSeqs(S)
    PROVE  plan \in Seq(S) /\ plan \in Seq(Symbols) /\ Once(plan)
<1>1. PICK T \in SUBSET S : plan \in SetToSeqs(T)
  BY Zenon DEF SetToAllKPermutations
<1>2. Cardinality(T) \in Nat
  BY DaemonAssumption, FS_Subset, FS_CardinalityType
<1>3. plan \in [1 .. Cardinality(T) -> T] /\ \A i, j \in 1 .. Cardinality(T) : i # j => plan[i] # plan[j]
  BY <1>1 DEF SetToSeqs
<1>4. plan \in Seq(T) /\ Len(plan) = Cardinality(T)
  BY <1>2, <1>3
<1> QED
  BY <1>3, <1>4 DEF Once

LEMMA RestOf ==
    ASSUME NEW plan \in Seq(Symbols), plan # <<>>
    PROVE  /\ Head(plan) = plan[1] /\ plan[1] \in Symbols /\ 1 \in 1 .. Len(plan)
           /\ Tail(plan) \in Seq(Symbols) /\ Len(Tail(plan)) = Len(plan) - 1 /\ Len(plan) \in Nat
           /\ \A i \in 1 .. Len(Tail(plan)) : Tail(plan)[i] = plan[i + 1] /\ i + 1 \in 1 .. Len(plan)
           /\ Once(plan) => Once(Tail(plan)) /\ \A i \in 1 .. Len(Tail(plan)) : Tail(plan)[i] # plan[1]
<1>1. /\ Head(plan) = plan[1] /\ plan[1] \in Symbols /\ 1 \in 1 .. Len(plan)
      /\ Tail(plan) \in Seq(Symbols) /\ Len(Tail(plan)) = Len(plan) - 1 /\ Len(plan) \in Nat
      /\ \A i \in 1 .. Len(Tail(plan)) : Tail(plan)[i] = plan[i + 1] /\ i + 1 \in 1 .. Len(plan)
  OBVIOUS
<1> DEFINE rest == Tail(plan)
<1>2. \A i \in 1 .. Len(rest) : rest[i] = plan[i + 1] /\ i + 1 \in 1 .. Len(plan) /\ i \in Nat /\ i >= 1
  BY <1>1
<1> HIDE DEF rest
<1>3. ASSUME Once(plan) PROVE Once(rest) /\ \A i \in 1 .. Len(rest) : rest[i] # plan[1]
  <2>1. ASSUME NEW i \in 1 .. Len(rest), NEW j \in 1 .. Len(rest), rest[i] = rest[j] PROVE i = j
    <3>1. i + 1 = j + 1
      BY <1>2, <1>3, <2>1 DEF Once
    <3> QED
      BY <1>2, <3>1
  <2>2. ASSUME NEW i \in 1 .. Len(rest), rest[i] = plan[1] PROVE FALSE
    <3>1. i + 1 = 1
      BY <1>1, <1>2, <1>3, <2>2 DEF Once
    <3> QED
      BY <1>2, <3>1
  <2> QED
    BY <2>1, <2>2 DEF Once
<1> QED
  BY <1>1, <1>3 DEF rest

-----------------------------------------------------------------------------
\* The types of what the steps use.
LEMMA Known ==
    ASSUME HourInv
    PROVE  /\ futures \in BOOLEAN /\ dry \in BOOLEAN /\ unsaved \in BOOLEAN /\ exact \in BOOLEAN
           /\ lacking \in [Symbols -> Nat] /\ wrong \in 0 .. MaxWrong
           /\ cut \in BOOLEAN /\ Wallet(mem) /\ Wallet(file) /\ held \in [Symbols -> Int]
           /\ pc \in Points /\ step \in Steps /\ hours \in 0 .. MaxHours /\ crashes \in 0 .. MaxCrashes
           /\ step.price \in Market /\ step.todo \in Seq(Symbols) /\ Len(step.todo) \in Nat
           /\ step.bull \in BOOLEAN /\ step.cash \in Int /\ step.equity \in Int /\ step.open \in Int
           /\ step.alloc \in Int /\ step.filled \in Int /\ step.ok \in BOOLEAN
           /\ mem = [cash |-> mem.cash, pos |-> mem.pos] /\ mem.cash \in Int
           /\ DOMAIN mem.pos \in SUBSET Symbols /\ IsFiniteSet(DOMAIN mem.pos)
           /\ mem.pos \in [DOMAIN mem.pos -> Position]
           /\ Cardinality(DOMAIN mem.pos) \in Nat
<1>1. DaemonTypes
  BY DEF HourInv
<1>2. Wallet(mem) /\ Wallet(file)
  BY <1>1 DEF DaemonTypes
<1>3. /\ mem = [cash |-> mem.cash, pos |-> mem.pos] /\ mem.cash \in Int
      /\ DOMAIN mem.pos \in SUBSET Symbols /\ IsFiniteSet(DOMAIN mem.pos)
      /\ mem.pos \in [DOMAIN mem.pos -> Position]
  BY <1>2, WalletShape
<1>4. Cardinality(DOMAIN mem.pos) \in Nat
  BY <1>3, FS_CardinalityType
<1>5. step \in Steps
  BY <1>1 DEF DaemonTypes
<1>6. /\ step.price \in Market /\ step.todo \in Seq(Symbols)
      /\ step.bull \in BOOLEAN /\ step.cash \in Int /\ step.equity \in Int /\ step.open \in Int
      /\ step.alloc \in Int /\ step.filled \in Int /\ step.ok \in BOOLEAN
  BY <1>5 DEF Steps, Market
<1>7. Len(step.todo) \in Nat
  BY <1>6
<1> QED
  BY <1>1, <1>2, <1>3, <1>4, <1>5, <1>6, <1>7 DEF DaemonTypes, Points

-----------------------------------------------------------------------------
(* Every step of the hour *)

\* Marking moves no size and no worth, and a plan has each symbol to close once.
LEMMA HourBegins ==
    ASSUME HourInv, BeginHour
    PROVE  HourInv'
<1> DEFINE S == DOMAIN mem.pos
<1>1. PICK bull \in BOOLEAN, price \in Market :
         LET pos == Marked(mem.pos, price)
             open == Worth(mem.pos, price)
         IN  /\ mem' = [mem EXCEPT !.pos = pos]
             /\ step' \in [bull : {bull}, price : {price}, cash : {mem.cash}, open : {open},
                           equity : {mem.cash + open}, alloc : {0}, filled : {0}, ok : {FALSE},
                           todo : SetToSeqs({s \in DOMAIN pos : Closes(pos[s], price[s], bull)})]
  BY DEF BeginHour, Market
<1> DEFINE q == Marked(mem.pos, price)
           open == Worth(mem.pos, price)
           C == {s \in DOMAIN q : Closes(q[s], price[s], bull)}
           plan == step'.todo
<1>2. /\ pc = "idle" /\ pc' = "close" /\ hours' = hours + 1 /\ hours < MaxHours
      /\ futures' = futures /\ dry' = dry /\ file' = file /\ held' = held /\ unsaved' = unsaved
      /\ exact' = exact /\ lacking' = lacking /\ wrong' = wrong
      /\ cut' = cut /\ crashes' = crashes
  BY DEF BeginHour, answers
<1>3. /\ q \in [S -> Position] /\ DOMAIN q = S /\ S \in SUBSET Symbols /\ Worth(q, price) = open
      /\ \A s \in S : q[s].size = mem.pos[s].size /\ q[s].short = mem.pos[s].short
      /\ open \in Int /\ mem.cash \in Int /\ mem.pos \in [S -> Position]
  <2>1. S \in SUBSET Symbols /\ mem.pos \in [S -> Position] /\ mem.cash \in Int
    BY Known
  <2> HIDE DEF S, q, open
  <2>2. open \in Int
    BY <2>1, WorthOf DEF open
  <2>3. /\ q \in [S -> Position] /\ Worth(q, price) = open
        /\ \A s \in S : q[s].size = mem.pos[s].size /\ q[s].short = mem.pos[s].short
    BY <2>1, MarkedKeeps DEF q, open
  <2> QED
    BY <2>1, <2>2, <2>3
<1>4. mem' = [cash |-> mem.cash, pos |-> q] /\ mem'.pos = q /\ mem'.cash = mem.cash
  BY <1>1, Known
<1> HIDE DEF q, open, S
<1>5. /\ step'.bull = bull /\ step'.price = price /\ step'.cash = mem.cash /\ step'.open = open
      /\ step'.equity = mem.cash + open /\ step'.alloc = 0 /\ step'.filled = 0
      /\ step'.ok = FALSE /\ plan \in SetToSeqs(C)
      /\ step' = [bull |-> bull, price |-> price, cash |-> mem.cash, open |-> open,
                  equity |-> mem.cash + open, alloc |-> 0, filled |-> 0, ok |-> FALSE,
                  todo |-> plan]
  BY <1>1 DEF q, open
<1>6. plan \in Seq(C) /\ plan \in Seq(Symbols) /\ Once(plan)
  <2>1. C \in SUBSET Symbols
    BY <1>3
  <2> HIDE DEF C, plan
  <2> QED
    BY <1>5, <2>1, OrdersOf
<1>7. \A s \in C : s \in DOMAIN mem'.pos /\ price[s] # 0
  BY <1>4 DEF Closes
<1> HIDE DEF C, plan
<1>8. DaemonTypes'
  <2>1. Wallet(mem)'
    BY <1>3, <1>4, ShapeIsWallet DEF Wallet
  <2>2. step' \in Steps
    BY <1>3, <1>5, <1>6 DEF Steps, Market
  <2>3. hours' \in 0 .. MaxHours /\ pc' \in {"idle", "close", "closed", "open", "opened"}
    BY <1>2, Known, DaemonAssumption
  <2>4. Wallet(file)'
    BY <1>2, Known DEF Wallet
  <2> QED
    BY <1>2, <2>1, <2>2, <2>3, <2>4, Known DEF DaemonTypes
<1>9. Plan'
  <2>1. \A j \in 1 .. Len(plan) : plan[j] \in C
    BY <1>6
  <2> QED
    BY <1>2, <1>5, <1>6, <1>7, <2>1 DEF Plan, plan
<1>10. Slots'
  BY <1>2, <1>3, <1>4 DEF HourInv, Slots, S
<1>11. Spot'
  <2>1. SUFFICES ASSUME ~futures PROVE Spot'
    BY <1>2 DEF Spot
  <2>2. SpotWallet(mem) /\ SpotWallet(file)
    BY <2>1 DEF HourInv, Spot
  <2>3. SpotWallet(mem)'
    BY <1>3, <1>4, <2>2 DEF SpotWallet, S
  <2>4. open >= 0
    BY <1>3, <2>2, WorthOfLongs DEF SpotWallet, S, open
  <2> QED
    BY <1>2, <1>3, <1>5, <2>2, <2>3, <2>4 DEF Spot, SpotWallet
<1>12. RestartForgetsNothing'
  BY <1>2 DEF RestartForgetsNothing
<1>13. Exposure'
  <2>1. \A s \in Symbols : Recorded(s)' = Recorded(s) /\ Pending(s)' = 0 /\ Pending(s) = 0
    BY <1>2, <1>3, <1>4 DEF Recorded, Pending, S
  <2>2. Exposure /\ \A s \in Symbols : Recorded(s) \in Int
    <3>1. \A s \in Symbols : Recorded(s) \in Int
      BY Known DEF Recorded, Position
    <3> QED
      BY <3>1 DEF HourInv
  <2> QED
    BY <1>2, <1>3, <1>4, <2>1, <2>2 DEF Exposure, S
<1>14. Budget'
  <2>1. Worth(mem.pos, step.price)' = open
    BY <1>3, <1>4, <1>5
  <2> QED
    BY <1>2, <1>3, <1>5, <2>1 DEF Budget
<1> QED
  BY <1>8, <1>9, <1>10, <1>11, <1>12, <1>13, <1>14 DEF HourInv

\* What is removed from the wallet is worth that much less.
LEMMA CloseSent ==
    ASSUME HourInv, SendClose
    PROVE  HourInv'
<1> DEFINE s == Head(step.todo)
           x == mem.pos[s]
           S == DOMAIN mem.pos
           at == step.price[s]
           less == Restrict(mem.pos, S \ {s})
<1>1. PICK o \in Outcomes(x.size, at) :
         /\ ~futures /\ ~x.short => o.placed <= held[s] \/ dry
         /\ held' = [held EXCEPT ![s] = IF x.short THEN @ + o.placed ELSE @ - o.placed]
         /\ exact' = (exact /\ (dry \/ (o.placed = o.filled /\ o.filled = x.size)))
         /\ step' = [[step EXCEPT !.alloc = Value(x, at)]
                        EXCEPT !.filled = o.filled, !.ok = dry \/ o.filled > 0]
         /\ wrong' = IF ~dry /\ o.placed # o.filled THEN wrong + 1 ELSE wrong
         /\ wrong' <= MaxWrong
         /\ lacking' = [lacking EXCEPT ![s] = IF dry \/ TRUE THEN 0 ELSE Greatest(0, o.filled - o.placed)]
  BY DEF SendClose, Send
<1>2. /\ pc = "close" /\ step.todo # <<>> /\ pc' = "closed" /\ mem' = [mem EXCEPT !.pos = less]
      /\ file' = file /\ unsaved' = unsaved /\ futures' = futures /\ dry' = dry /\ hours' = hours
      /\ crashes' = crashes /\ cut' = cut
  BY DEF SendClose, world
<1>3. /\ s = step.todo[1] /\ s \in Symbols /\ 1 \in 1 .. Len(step.todo) /\ Once(step.todo)
      /\ s \in S /\ at # 0
  BY <1>2, Known, RestOf DEF HourInv, Plan
<1>4. at \in Prices /\ at \in Nat /\ at > 0 /\ at \in Int
  BY <1>3, Known, PricesArePositive DEF Market
<1>5. /\ S \in SUBSET Symbols /\ mem.pos \in [S -> Position] /\ x \in Position /\ mem.cash \in Int
      /\ x.size \in Int /\ x.short \in BOOLEAN
  BY <1>3, Known DEF Position
<1>6. /\ mem' = [cash |-> mem.cash, pos |-> less] /\ mem'.pos = less /\ mem'.cash = mem.cash
      /\ less \in [S \ {s} -> Position] /\ DOMAIN less = S \ {s}
      /\ \A y \in S \ {s} : less[y] = mem.pos[y]
  <2>1. less \in [S \ {s} -> Position] /\ DOMAIN less = S \ {s} /\ \A y \in S \ {s} : less[y] = mem.pos[y]
    BY <1>5 DEF Restrict
  <2> HIDE DEF less
  <2> QED
    BY <1>2, <2>1, Known
<1>7. Value(x, at) \in Int
  BY <1>4, <1>5, ValueIsInt
<1>8. /\ o.placed \in Int /\ o.filled \in Int
      /\ dry => o.placed = 0 /\ o.filled = x.size
      /\ ~dry => 0 <= o.filled /\ 0 <= o.placed
  BY <1>4, <1>5, Known, OutcomesAre
<1> DEFINE gain == Value(x, at)
<1> HIDE DEF s, x, at, less, gain, S
<1>9. /\ step'.todo = step.todo /\ step'.price = step.price /\ step'.cash = step.cash
      /\ step'.equity = step.equity /\ step'.bull = step.bull /\ step'.alloc = gain
      /\ step'.filled = o.filled /\ step'.ok = (dry \/ o.filled > 0) /\ step' \in Steps
  <2>1. gain \in Int
    BY <1>7 DEF gain
  <2>2. step' = [step EXCEPT !.alloc = gain, !.filled = o.filled,
                             !.ok = dry \/ o.filled > 0]
    BY <1>1, Known DEF Steps, gain
  <2> QED
    BY <1>5, <1>8, <2>1, <2>2, Known DEF Steps
<1>10. /\ held' \in [Symbols -> Int] /\ (\A y \in Symbols \ {s} : held'[y] = held[y])
       /\ held'[s] = IF x.short THEN held[s] + o.placed ELSE held[s] - o.placed
       /\ lacking' \in [Symbols -> Nat] /\ (\A y \in Symbols \ {s} : lacking'[y] = lacking[y])
  <2>1. lacking' = [lacking EXCEPT ![s] = 0]
    BY <1>1
  <2>2. lacking' \in [Symbols -> Nat] /\ (\A y \in Symbols \ {s} : lacking'[y] = lacking[y])
    BY <1>3, <2>1, Known
  <2>3. held \in [Symbols -> Int] /\ held' = [held EXCEPT ![s] = IF x.short THEN @ + o.placed ELSE @ - o.placed]
    BY <1>1, Known
  <2>4. held' \in [Symbols -> Int] /\ (\A y \in Symbols \ {s} : held'[y] = held[y])
       /\ held'[s] = IF x.short THEN held[s] + o.placed ELSE held[s] - o.placed
    BY <1>3, <1>8, <2>3
  <2> QED
    BY <2>2, <2>4
<1>11. DaemonTypes'
  <2>1. Wallet(mem)'
    <3>1. S \ {s} \in SUBSET Symbols
      BY <1>5
    <3> QED
      BY <1>5, <1>6, <3>1 DEF Wallet
  <2>2. Wallet(file)'
    BY <1>2, Known DEF Wallet
  <2>3. exact' \in BOOLEAN /\ wrong' \in 0 .. MaxWrong
    BY <1>1, Known, DaemonAssumption
  <2> QED
    BY <1>2, <1>9, <1>10, <2>1, <2>2, <2>3, Known DEF DaemonTypes
<1>12. Plan'
  <2>1. \A i \in 1 .. Len(step.todo) : step.todo[i] \in S /\ step.price[step.todo[i]] # 0
    BY <1>2 DEF HourInv, Plan, S
  <2>2. \A i \in 1 .. Len(step.todo) : step.todo[i] \in S \ {s} <=> i # 1
    BY <1>3, <2>1 DEF Once
  <2> QED
    BY <1>2, <1>3, <1>6, <1>9, <2>1, <2>2 DEF Plan
<1>13. Slots'
  <2>1. Cardinality(S \ {s}) <= Cardinality(S) /\ Cardinality(S) \in Nat /\ Cardinality(S \ {s}) \in Nat
    <3>1. IsFiniteSet(S) /\ Cardinality(S) \in Nat
      BY Known DEF S
    <3>2. Cardinality(S \ {s}) = Cardinality(S) - 1
      BY <1>3, <3>1, FS_RemoveElement
    <3>3. Cardinality(S \ {s}) \in Nat
      <4>1. IsFiniteSet(S \ {s})
        BY <3>1, FS_Subset
      <4> QED
        BY <4>1, FS_CardinalityType
    <3> QED
      BY <3>1, <3>2, <3>3
  <2>2. MaxSlots \in Nat
    BY DaemonAssumption
  <2> QED
    BY <1>2, <1>6, <2>1, <2>2 DEF HourInv, Slots, S
<1>14. Spot'
  <2>1. SUFFICES ASSUME ~futures PROVE Spot'
    BY <1>2 DEF Spot
  <2>2. SpotWallet(mem) /\ SpotWallet(file) /\ step.cash >= 0 /\ step.equity >= 0
    BY <2>1 DEF HourInv, Spot
  <2>3. SpotWallet(mem)'
    BY <1>6, <2>2 DEF SpotWallet, S
  <2>4. gain >= 0
    <3>1. ~x.short /\ x.size >= 0
      BY <1>3, <2>2 DEF SpotWallet, S, x
    <3> QED
      BY <1>4, <1>5, <3>1, ValueIsInt DEF gain
  <2> QED
    BY <1>2, <1>9, <2>2, <2>3, <2>4 DEF Spot, SpotWallet
<1>15. RestartForgetsNothing'
  BY <1>2 DEF RestartForgetsNothing
<1>16. Exposure'
  <2>1. SUFFICES ASSUME ~dry PROVE Exposure'
    BY <1>2 DEF Exposure
  <2>2. Exposure
    BY DEF HourInv
  <2>3. ASSUME ~futures PROVE \A y \in Symbols : held'[y] >= 0
    <3>1. ~x.short
      BY <1>3, <2>3 DEF HourInv, Spot, SpotWallet, S, x
    <3>2. held[s] \in Int /\ o.placed <= held[s]
      BY <1>1, <1>3, <2>1, <2>3, <3>1, Known
    <3>3. \A y \in Symbols : held[y] >= 0
      BY <2>1, <2>2, <2>3 DEF Exposure
    <3> QED
      BY <1>8, <1>10, <3>1, <3>2, <3>3
  <2>4. ASSUME ~futures, ~cut PROVE \A y \in DOMAIN mem'.pos : mem'.pos[y].size <= held'[y] + lacking'[y]
    <3>1. \A y \in S : mem.pos[y].size <= held[y] + lacking[y]
      BY <2>1, <2>2, <2>4 DEF Exposure, S
    <3> QED
      BY <1>5, <1>6, <1>10, <3>1
  <2>5. ASSUME exact', ~cut, NEW y \in Symbols PROVE held'[y] = Recorded(y)' + Pending(y)'
    <3>1. exact /\ o.placed = x.size
      BY <1>1, <2>1, <2>5
    <3>2. held[y] = Recorded(y) + Pending(y) /\ Pending(y) = 0 /\ Pending(y)' = 0
      BY <1>2, <2>1, <2>2, <2>5, <3>1 DEF Exposure, Pending
    <3>3. held[y] = Recorded(y)
      <4>1. held[y] \in Int /\ Recorded(y) \in Int
        BY Known DEF Recorded, Position
      <4> QED
        BY <3>2, <4>1
    <3>4. CASE y = s
      <4>1. Recorded(y) = IF x.short THEN -x.size ELSE x.size
        BY <1>3, <3>4 DEF Recorded, S, x
      <4>2. Recorded(y)' = 0
        BY <1>6, <3>4 DEF Recorded
      <4> QED
        BY <1>5, <1>10, <3>1, <3>2, <3>3, <3>4, <4>1, <4>2
    <3>5. CASE y # s
      <4>1. Recorded(y)' = Recorded(y)
        BY <1>6, <3>5 DEF Recorded, S
      <4>2. held'[y] = held[y] /\ held[y] \in Int
        BY <1>10, <3>5, Known
      <4> QED
        BY <3>2, <3>3, <4>1, <4>2
    <3> QED
      BY <3>4, <3>5
  <2> QED
    BY <1>2, <2>3, <2>4, <2>5 DEF Exposure
<1>17. Budget'
  <2>1. SUFFICES ASSUME dry PROVE Budget'
    BY <1>2 DEF Budget
  <2>2. step.cash + Worth(mem.pos, step.price) <= step.equity
    BY <1>2, <2>1 DEF HourInv, Budget
  <2>3. Worth(mem.pos, step.price) = Counts(mem.pos, step.price)[s] + Worth(less, step.price)
    BY <1>3, <1>5, Known, WorthLess DEF less
  <2>4. Counts(mem.pos, step.price)[s] = gain
    BY <1>3, <1>4 DEF Counts, gain, at, x, S
  <2>5. Worth(less, step.price) \in Int
    <3>1. S \ {s} \in SUBSET Symbols
      BY <1>5
    <3> QED
      BY <1>6, <3>1, Known, WorthOf
  <2>6. Worth(mem.pos, step.price)' = Worth(less, step.price)
    BY <1>6, <1>9
  <2>7. step.cash \in Int /\ gain \in Int /\ step.equity \in Int
    BY <1>7, Known DEF gain
  <2>8. step.cash + gain + Worth(less, step.price) <= step.equity
    BY <2>2, <2>3, <2>4, <2>5, <2>7
  <2> QED
    BY <1>2, <1>9, <2>1, <2>6, <2>8 DEF Budget
<1> QED
  BY <1>11, <1>12, <1>13, <1>14, <1>15, <1>16, <1>17 DEF HourInv

\* A closing that is credited adds what the position was worth at most.
LEMMA CloseBooked ==
    ASSUME HourInv, BookClose
    PROVE  HourInv'
<1> DEFINE plan == step.todo
           rest == Tail(step.todo)
           cash == IF step.ok THEN step.cash + step.alloc ELSE step.cash
<1>1. /\ pc = "closed" /\ pc' = "close" /\ step' = [step EXCEPT !.cash = cash, !.todo = rest]
      /\ mem' = mem /\ file' = file /\ held' = held /\ unsaved' = unsaved
      /\ exact' = exact /\ lacking' = lacking /\ wrong' = wrong
      /\ futures' = futures /\ dry' = dry /\ hours' = hours /\ crashes' = crashes /\ cut' = cut
  BY DEF BookClose, world, answers
<1>2. plan # <<>> /\ Once(plan)
      /\ \A i \in 1 .. Len(plan) : step.price[plan[i]] # 0 /\ (plan[i] \in DOMAIN mem.pos <=> i # 1)
  BY <1>1 DEF HourInv, Plan
<1>3. /\ rest \in Seq(Symbols) /\ Once(rest)
      /\ \A i \in 1 .. Len(rest) : rest[i] = plan[i + 1] /\ i + 1 \in 1 .. Len(plan)
  BY <1>2, Known, RestOf
<1>4. cash \in Int
  BY Known
<1> HIDE DEF plan, rest, cash
<1>5. /\ step' \in Steps /\ step'.todo = rest /\ step'.cash = cash /\ step'.price = step.price
      /\ step'.equity = step.equity /\ step'.bull = step.bull /\ step'.alloc = step.alloc
      /\ step'.filled = step.filled /\ step'.ok = step.ok
  BY <1>1, <1>3, <1>4, Known DEF Steps
<1>6. DaemonTypes'
  BY <1>1, <1>5, Known DEF DaemonTypes, Wallet
<1>7. Plan'
  <2>1. ASSUME NEW i \in 1 .. Len(rest)
        PROVE  step.price[rest[i]] # 0 /\ rest[i] \in DOMAIN mem.pos
    <3>1. rest[i] = plan[i + 1] /\ i + 1 \in 1 .. Len(plan) /\ i + 1 # 1
      BY <1>3
    <3> QED
      BY <1>2, <3>1
  <2> QED
    BY <1>1, <1>3, <1>5, <2>1 DEF Plan
<1>8. Slots'
  BY <1>1 DEF HourInv, Slots
<1>9. Spot'
  <2>1. SUFFICES ASSUME ~futures PROVE Spot'
    BY <1>1 DEF Spot
  <2>2. SpotWallet(mem) /\ SpotWallet(file) /\ step.cash >= 0 /\ step.equity >= 0 /\ step.alloc >= 0
    BY <1>1, <2>1 DEF HourInv, Spot
  <2>3. cash >= 0
    BY <2>2, Known DEF cash
  <2> QED
    BY <1>1, <1>5, <2>2, <2>3 DEF Spot, SpotWallet
<1>10. RestartForgetsNothing'
  BY <1>1 DEF RestartForgetsNothing
<1>11. Exposure'
  BY <1>1 DEF HourInv, Exposure, Recorded, Pending
<1>12. Budget'
  <2>1. SUFFICES ASSUME dry PROVE Budget'
    BY <1>1 DEF Budget
  <2>2. step.ok /\ step.cash + step.alloc + Worth(mem.pos, step.price) <= step.equity
    BY <1>1, <2>1 DEF HourInv, Budget
  <2>3. Worth(mem.pos, step.price)' = Worth(mem.pos, step.price)
    BY <1>1, <1>5
  <2> QED
    BY <1>1, <1>5, <2>1, <2>2, <2>3 DEF Budget, cash
<1> QED
  BY <1>6, <1>7, <1>8, <1>9, <1>10, <1>11, <1>12 DEF HourInv

\* The candidates fit into the slots, where they are longs.
LEMMA CandidatesAre ==
    ASSUME HourInv, pc = "close", NEW c \in Candidates
    PROVE  /\ c \in Seq(Symbols) /\ Once(c)
           /\ \A i \in 1 .. Len(c) : c[i] \notin DOMAIN mem.pos /\ step.price[c[i]] # 0
           /\ step.bull => Cardinality(DOMAIN mem.pos) + Len(c) <= MaxSlots
           /\ ~futures /\ c # <<>> => step.bull
<1> DEFINE free == Symbols \ DOMAIN mem.pos
           slots == MaxSlots - Cardinality(DOMAIN mem.pos)
           priced == {s \in free : step.price[s] # 0}
<1>1. slots \in Nat /\ priced \in SUBSET Symbols
  BY Known, DaemonAssumption DEF HourInv, Slots
<1>2. ASSUME NEW d \in SetToAllKPermutations(priced)
      PROVE  /\ d \in Seq(Symbols) /\ Once(d)
             /\ \A i \in 1 .. Len(d) : d[i] \notin DOMAIN mem.pos /\ step.price[d[i]] # 0
  <2>1. d \in Seq(priced) /\ d \in Seq(Symbols) /\ Once(d)
    <3> HIDE DEF priced
    <3> QED
      BY <1>1, <1>2, OrdersOf
  <2>2. \A i \in 1 .. Len(d) : d[i] \in priced
    BY <2>1
  <2> QED
    BY <2>1, <2>2
<1>3. CASE step.bull
  <2>1. PICK d \in SetToAllKPermutations(priced) : c = SubSeq(d, 1, Least(Len(d), slots))
    BY <1>3, Zenon DEF Candidates
  <2> DEFINE n == Least(Len(d), slots)
  <2>2. d \in Seq(Symbols) /\ Once(d)
        /\ \A i \in 1 .. Len(d) : d[i] \notin DOMAIN mem.pos /\ step.price[d[i]] # 0
    BY <1>2
  <2> HIDE DEF slots, priced
  <2>3. Len(d) \in Nat /\ n \in Nat /\ n <= Len(d) /\ n <= slots
    BY <1>1, <2>2 DEF Least
  <2> HIDE DEF n
  <2>4. /\ c \in Seq(Symbols) /\ Len(c) = n /\ \A i \in 1 .. Len(c) : c[i] = d[i] /\ i \in 1 .. Len(d)
    BY <2>1, <2>2, <2>3 DEF n
  <2>5. Once(c) /\ \A i \in 1 .. Len(c) : c[i] \notin DOMAIN mem.pos /\ step.price[c[i]] # 0
    BY <2>2, <2>4 DEF Once
  <2>6. Cardinality(DOMAIN mem.pos) + Len(c) <= MaxSlots
    BY <2>3, <2>4, Known, DaemonAssumption DEF slots
  <2> QED
    BY <1>3, <2>4, <2>5, <2>6
<1>4. CASE ~step.bull /\ futures /\ slots > 0 /\ step.cash >= 15
  <2>1. c \in SetToAllKPermutations(priced)
    BY <1>4 DEF Candidates
  <2> QED
    BY <1>2, <1>4, <2>1
<1>5. CASE ~step.bull /\ ~(futures /\ slots > 0 /\ step.cash >= 15)
  <2>1. c = <<>>
    BY <1>5 DEF Candidates
  <2> QED
    BY <1>5, <2>1 DEF Once
<1> QED
  BY <1>3, <1>4, <1>5

\* With the closings done nothing is owed, and the openings are planned.
LEMMA OpenChosen ==
    ASSUME HourInv, ChooseOpen
    PROVE  HourInv'
<1>1. PICK c \in Candidates : step' = [step EXCEPT !.todo = c]
  BY DEF ChooseOpen
<1>2. /\ pc = "close" /\ pc' = "open"
      /\ mem' = mem /\ file' = file /\ held' = held /\ unsaved' = unsaved
      /\ exact' = exact /\ lacking' = lacking /\ wrong' = wrong
      /\ futures' = futures /\ dry' = dry /\ hours' = hours /\ crashes' = crashes /\ cut' = cut
  BY DEF ChooseOpen, world, answers
<1>3. /\ c \in Seq(Symbols) /\ Once(c)
      /\ \A i \in 1 .. Len(c) : c[i] \notin DOMAIN mem.pos /\ step.price[c[i]] # 0
      /\ step.bull => Cardinality(DOMAIN mem.pos) + Len(c) <= MaxSlots
      /\ ~futures /\ c # <<>> => step.bull
  BY <1>2, CandidatesAre
<1>4. /\ step' \in Steps /\ step'.todo = c /\ step'.cash = step.cash /\ step'.price = step.price
      /\ step'.equity = step.equity /\ step'.bull = step.bull
      /\ step'.filled = step.filled /\ step'.ok = step.ok
  BY <1>1, <1>3, Known DEF Steps
<1>5. DaemonTypes'
  BY <1>2, <1>4, Known DEF DaemonTypes, Wallet
<1>6. Plan'
  BY <1>2, <1>3, <1>4 DEF Plan
<1>7. Slots'
  BY <1>2, <1>3, <1>4 DEF HourInv, Slots
<1>8. Spot'
  BY <1>2, <1>3, <1>4 DEF HourInv, Spot, SpotWallet
<1>9. RestartForgetsNothing'
  BY <1>2 DEF RestartForgetsNothing
<1>10. Exposure'
  BY <1>2 DEF HourInv, Exposure, Recorded, Pending
<1>11. Budget'
  <2>1. Worth(mem.pos, step.price)' = Worth(mem.pos, step.price)
    BY <1>2, <1>4
  <2> QED
    BY <1>2, <1>4, <2>1 DEF HourInv, Budget
<1> QED
  BY <1>5, <1>6, <1>7, <1>8, <1>9, <1>10, <1>11 DEF HourInv

\* An amount is rounded down to whole units: it never costs more than its budget.
LEMMA WholeUnits ==
    ASSUME NEW a \in Int, NEW p \in Nat, p > 0
    PROVE  /\ a \div p \in Int /\ (a \div p) * p <= a
           /\ a >= 0 => a \div p >= 0
OBVIOUS

\* The budget of a spot account is neither negative nor more than its cash.
LEMMA BudgetsAre ==
    ASSUME HourInv
    PROVE  /\ LongAlloc \in Int /\ ShortAlloc \in Int
           /\ step.cash >= 0 /\ step.equity >= 0 => 0 <= LongAlloc /\ LongAlloc <= step.cash
<1>1. ASSUME NEW n \in Int PROVE (n * 48) \div 100 \in Int /\ (n >= 0 => (n * 48) \div 100 >= 0)
  OBVIOUS
<1>2. step.cash \in Int /\ step.equity \in Int /\ step.cash + step.open \in Int
  BY Known
<1> QED
  BY <1>1, <1>2 DEF LongAlloc, ShortAlloc, Least

\* An opening that is passed over leaves less to be done.
LEMMA OpenSkipped ==
    ASSUME HourInv, SendOpen, ~Wanted
    PROVE  HourInv'
<1> DEFINE rest == IF step.bull THEN Tail(step.todo) ELSE <<>>
<1>1. /\ pc = "open" /\ step.todo # <<>> /\ step' = [step EXCEPT !.todo = rest]
      /\ pc' = pc /\ mem' = mem /\ file' = file /\ held' = held /\ unsaved' = unsaved
      /\ exact' = exact /\ lacking' = lacking /\ wrong' = wrong
      /\ futures' = futures /\ dry' = dry /\ hours' = hours /\ crashes' = crashes /\ cut' = cut
  BY DEF SendOpen, world, answers
<1>2. /\ Once(step.todo)
      /\ \A i \in 1 .. Len(step.todo) : step.price[step.todo[i]] # 0 /\ step.todo[i] \notin DOMAIN mem.pos
  BY <1>1 DEF HourInv, Plan
<1>3. /\ rest \in Seq(Symbols) /\ Once(rest) /\ Len(rest) \in Nat
      /\ step.bull => Len(rest) = Len(step.todo) - 1
      /\ \A i \in 1 .. Len(rest) : step.price[rest[i]] # 0 /\ rest[i] \notin DOMAIN mem.pos
  <2>1. CASE step.bull
    <3> DEFINE plan == step.todo
    <3>1. plan \in Seq(Symbols) /\ plan # <<>> /\ Once(plan)
      BY <1>1, <1>2, Known
    <3> HIDE DEF plan
    <3>2. /\ Tail(plan) \in Seq(Symbols) /\ Once(Tail(plan)) /\ Len(Tail(plan)) = Len(plan) - 1
          /\ \A i \in 1 .. Len(Tail(plan)) : Tail(plan)[i] = plan[i + 1] /\ i + 1 \in 1 .. Len(plan)
      BY <3>1, RestOf
    <3>3. Len(Tail(plan)) \in Nat
      BY <3>2
    <3> QED
      BY <1>2, <2>1, <3>2, <3>3 DEF plan
  <2>2. CASE ~step.bull
    BY <2>2 DEF Once
  <2> QED
    BY <2>1, <2>2
<1> HIDE DEF rest
<1>4. /\ step' \in Steps /\ step'.todo = rest /\ step'.cash = step.cash /\ step'.price = step.price
      /\ step'.equity = step.equity /\ step'.bull = step.bull
      /\ step'.filled = step.filled /\ step'.ok = step.ok
  BY <1>1, <1>3, Known DEF Steps
<1>5. DaemonTypes'
  BY <1>1, <1>4, Known DEF DaemonTypes, Wallet
<1>6. Plan'
  BY <1>1, <1>3, <1>4 DEF Plan
<1>7. Slots'
  <2>1. Cardinality(DOMAIN mem.pos) \in Nat /\ MaxSlots \in Nat /\ Len(step.todo) \in Nat
    BY Known, DaemonAssumption
  <2> QED
    BY <1>1, <1>3, <1>4, <2>1 DEF HourInv, Slots
<1>8. Spot'
  BY <1>1, <1>4 DEF HourInv, Spot, SpotWallet
<1>9. RestartForgetsNothing'
  BY <1>1 DEF RestartForgetsNothing
<1>10. Exposure'
  BY <1>1 DEF HourInv, Exposure, Recorded, Pending
<1>11. Budget'
  <2>1. Worth(mem.pos, step.price)' = Worth(mem.pos, step.price)
    BY <1>1, <1>4
  <2> QED
    BY <1>1, <1>4, <2>1 DEF HourInv, Budget
<1> QED
  BY <1>5, <1>6, <1>7, <1>8, <1>9, <1>10, <1>11 DEF HourInv

\* An order never costs more than its budget, nor its budget more than the cash.
LEMMA OpenSent ==
    ASSUME HourInv, SendOpen, Wanted
    PROVE  HourInv'
<1> DEFINE s == Head(step.todo)
           at == step.price[s]
           alloc == IF step.bull THEN LongAlloc ELSE ShortAlloc
           amount == alloc \div at
<1>1. PICK o \in Outcomes(amount, at) :
         /\ held' = [held EXCEPT ![s] = IF step.bull THEN @ + o.placed ELSE @ - o.placed]
         /\ exact' = (exact /\ (dry \/ (o.placed = o.filled /\ TRUE)))
         /\ step' = [[step EXCEPT !.alloc = alloc]
                        EXCEPT !.filled = o.filled, !.ok = dry \/ o.filled > 0]
         /\ wrong' = IF ~dry /\ o.placed # o.filled THEN wrong + 1 ELSE wrong
         /\ wrong' <= MaxWrong
         /\ lacking' = [lacking EXCEPT ![s] = IF dry \/ FALSE THEN 0 ELSE Greatest(0, o.filled - o.placed)]
  BY DEF SendOpen, Send
<1>2. /\ pc = "open" /\ step.todo # <<>> /\ pc' = "opened" /\ mem' = mem
      /\ file' = file /\ unsaved' = unsaved /\ futures' = futures /\ dry' = dry /\ hours' = hours
      /\ crashes' = crashes /\ cut' = cut
  BY DEF SendOpen, world
<1>3. /\ s = step.todo[1] /\ s \in Symbols /\ 1 \in 1 .. Len(step.todo) /\ Once(step.todo)
      /\ at # 0 /\ s \notin DOMAIN mem.pos
  BY <1>2, Known, RestOf DEF HourInv, Plan
<1>4. at \in Nat /\ at > 0
  BY <1>3, Known, PricesArePositive DEF Market
<1>5. alloc \in Int
  BY BudgetsAre
<1>6. amount \in Int /\ amount * at <= alloc /\ (alloc >= 0 => amount >= 0)
  <2> HIDE DEF alloc, at
  <2> QED
    BY <1>4, <1>5, WholeUnits
<1> HIDE DEF amount, alloc, at
<1>7. /\ o.placed \in Int /\ o.filled \in Int
      /\ dry => o.filled = amount
      /\ ~dry => 0 <= o.filled /\ 0 <= o.placed
  BY <1>4, <1>6, Known, OutcomesAre
<1>8. /\ step'.todo = step.todo /\ step'.price = step.price /\ step'.cash = step.cash
      /\ step'.equity = step.equity /\ step'.bull = step.bull /\ step'.alloc = alloc
      /\ step'.filled = o.filled /\ step'.ok = (dry \/ o.filled > 0) /\ step' \in Steps
  <2>1. step' = [step EXCEPT !.alloc = alloc, !.filled = o.filled,
                             !.ok = dry \/ o.filled > 0]
    BY <1>1, Known DEF Steps
  <2> QED
    BY <1>5, <1>6, <1>7, <2>1, Known DEF Steps
<1> HIDE DEF s
<1>9. /\ held' \in [Symbols -> Int] /\ (\A y \in Symbols \ {s} : held'[y] = held[y])
      /\ held'[s] = IF step.bull THEN held[s] + o.placed ELSE held[s] - o.placed
      /\ lacking' \in [Symbols -> Nat] /\ (\A y \in Symbols \ {s} : lacking'[y] = lacking[y])
      /\ ~dry => o.filled <= o.placed + lacking'[s]
  <2> DEFINE short == IF dry \/ FALSE THEN 0 ELSE Greatest(0, o.filled - o.placed)
  <2>1. short \in Nat /\ (~dry => o.filled <= o.placed + short)
    BY <1>7 DEF Greatest
  <2>2. lacking' = [lacking EXCEPT ![s] = short]
    BY <1>1
  <2> HIDE DEF short
  <2>3. /\ lacking' \in [Symbols -> Nat] /\ (\A y \in Symbols \ {s} : lacking'[y] = lacking[y])
        /\ lacking'[s] = short
    BY <1>3, <2>1, <2>2, Known
  <2>4. held \in [Symbols -> Int] /\ held' = [held EXCEPT ![s] = IF step.bull THEN @ + o.placed ELSE @ - o.placed]
    BY <1>1, Known
  <2>5. held' \in [Symbols -> Int] /\ (\A y \in Symbols \ {s} : held'[y] = held[y])
        /\ held'[s] = IF step.bull THEN held[s] + o.placed ELSE held[s] - o.placed
    BY <1>3, <1>7, <2>4
  <2> QED
    BY <2>1, <2>3, <2>5
<1>10. DaemonTypes'
  <2>1. Wallet(mem)' /\ Wallet(file)'
    BY <1>2, Known DEF Wallet
  <2>2. exact' \in BOOLEAN /\ wrong' \in 0 .. MaxWrong
    BY <1>1, Known, DaemonAssumption
  <2> QED
    BY <1>2, <1>8, <1>9, <2>1, <2>2, Known DEF DaemonTypes
<1>11. Plan'
  BY <1>2, <1>8 DEF HourInv, Plan
<1>12. Slots'
  BY <1>2, <1>8 DEF HourInv, Slots, Wanted
<1>13. ~futures => step.bull
  BY <1>2 DEF HourInv, Spot
<1>14. Spot'
  <2>1. SUFFICES ASSUME ~futures PROVE Spot'
    BY <1>2 DEF Spot
  <2>2. SpotWallet(mem) /\ SpotWallet(file) /\ step.cash >= 0 /\ step.equity >= 0 /\ step.bull
    BY <1>13, <2>1 DEF HourInv, Spot
  <2>3. alloc <= step.cash /\ alloc >= 0
    BY <2>2, BudgetsAre DEF alloc
  <2>4. o.filled >= 0
    BY <1>6, <1>7, <2>3, Known
  <2> QED
    BY <1>2, <1>8, <2>2, <2>3, <2>4 DEF Spot, SpotWallet
<1>15. RestartForgetsNothing'
  BY <1>2 DEF RestartForgetsNothing
<1>16. Exposure'
  <2>1. SUFFICES ASSUME ~dry PROVE Exposure'
    BY <1>2 DEF Exposure
  <2>2. Exposure
    BY DEF HourInv
  <2>3. ASSUME ~futures
        PROVE  (\A y \in Symbols : held'[y] >= 0 /\ held'[y] >= held[y]) /\ o.filled <= held'[s] + lacking'[s]
    <3>1. \A y \in Symbols : held[y] >= 0 /\ held[y] \in Int
      BY <2>1, <2>2, <2>3, Known DEF Exposure
    <3> QED
      BY <1>3, <1>7, <1>9, <1>13, <2>1, <2>3, <3>1
  <2>4. ASSUME ~futures, ~cut
        PROVE  /\ \A y \in DOMAIN mem.pos : mem.pos[y].size <= held'[y] + lacking'[y]
               /\ o.filled <= held'[s] + lacking'[s]
    <3>1. \A y \in DOMAIN mem.pos :
             /\ mem.pos[y].size <= held[y] + lacking[y]
             /\ mem.pos[y].size \in Int /\ y \in Symbols \ {s}
      BY <1>3, <2>1, <2>2, <2>4, Known DEF Exposure, Position
    <3> QED
      BY <1>9, <2>3, <2>4, <3>1, Known
  <2>5. ASSUME exact', ~cut, NEW y \in Symbols PROVE held'[y] = Recorded(y)' + Pending(y)'
    <3>1. exact /\ o.placed = o.filled
      BY <1>1, <2>1, <2>5
    <3>2. held[y] = Recorded(y) + 0
      BY <1>2, <2>1, <2>2, <2>5, <3>1 DEF Exposure, Pending
    <3>3. Recorded(y)' = Recorded(y) /\ Recorded(y) \in Int
      BY <1>2, Known DEF Recorded, Position
    <3>4. Pending(y)' = IF y = s THEN (IF step.bull THEN o.filled ELSE -o.filled) ELSE 0
      BY <1>2, <1>8 DEF Pending, s
    <3>5. CASE y = s
      BY <1>7, <1>9, <3>1, <3>2, <3>3, <3>4, <3>5
    <3>6. CASE y # s
      BY <1>9, <3>2, <3>3, <3>4, <3>6
    <3> QED
      BY <3>5, <3>6
  <2>6. Head(step'.todo) = s
    BY <1>8 DEF s
  <2> QED
    BY <1>2, <1>7, <1>8, <2>1, <2>3, <2>4, <2>5, <2>6 DEF Exposure
<1>17. Budget'
  <2>1. SUFFICES ASSUME dry PROVE Budget'
    BY <1>2 DEF Budget
  <2>2. Worth(mem.pos, step.price)' = Worth(mem.pos, step.price)
    BY <1>2, <1>8
  <2>3. step.cash + Worth(mem.pos, step.price) <= step.equity
    BY <1>2, <2>1 DEF HourInv, Budget
  <2>4. step'.filled * step'.price[Head(step'.todo)] <= step'.alloc
    BY <1>6, <1>7, <1>8, <2>1 DEF at, s
  <2> QED
    BY <1>2, <1>8, <2>1, <2>2, <2>3, <2>4 DEF Budget
<1> QED
  BY <1>10, <1>11, <1>12, <1>14, <1>15, <1>16, <1>17 DEF HourInv

\* What was filled becomes a position, and all of its budget is spent.
LEMMA OpenBooked ==
    ASSUME HourInv, BookOpen
    PROVE  HourInv'
<1> DEFINE plan == step.todo
           rest == Tail(step.todo)
           s == Head(step.todo)
           S == DOMAIN mem.pos
           at == step.price[s]
           new == [size |-> step.filled, entry |-> at, high |-> at, low |-> at, short |-> ~step.bull]
           more == [x \in S \cup {s} |-> IF x = s THEN new ELSE mem.pos[x]]
           pos == IF step.ok THEN more ELSE mem.pos
           cash == IF step.ok THEN step.cash - step.alloc ELSE step.cash
<1>1. /\ pc = "opened" /\ pc' = "open"
      /\ step' = [step EXCEPT !.cash = cash, !.todo = rest] /\ mem' = [mem EXCEPT !.pos = pos]
      /\ file' = file /\ held' = held /\ unsaved' = unsaved
      /\ exact' = exact /\ lacking' = lacking /\ wrong' = wrong
      /\ futures' = futures /\ dry' = dry /\ hours' = hours /\ crashes' = crashes /\ cut' = cut
  <2>1. step.ok \/ ~step.ok
    OBVIOUS
  <2>2. mem = [mem EXCEPT !.pos = mem.pos] /\ step = [step EXCEPT !.cash = step.cash]
    BY Known DEF Steps
  <2>3. ASSUME step.ok PROVE mem' = [mem EXCEPT !.pos = pos]
    BY <2>3 DEF BookOpen, Opened
  <2>4. ASSUME ~step.ok PROVE mem' = [mem EXCEPT !.pos = pos]
    BY <2>2, <2>4 DEF BookOpen
  <2>5. step' = [step EXCEPT !.cash = cash, !.todo = rest]
    BY Known DEF BookOpen, Steps
  <2> QED
    BY <2>3, <2>4, <2>5 DEF BookOpen, world, answers
<1>2. /\ plan \in Seq(Symbols) /\ plan # <<>> /\ Once(plan)
      /\ \A i \in 1 .. Len(plan) : step.price[plan[i]] # 0 /\ plan[i] \notin S
  BY <1>1, Known DEF HourInv, Plan
<1>3. /\ s = plan[1] /\ s \in Symbols /\ s \notin S /\ at # 0
      /\ rest \in Seq(Symbols) /\ Once(rest) /\ Len(rest) = Len(plan) - 1 /\ Len(plan) \in Nat
      /\ \A i \in 1 .. Len(rest) : rest[i] = plan[i + 1] /\ i + 1 \in 1 .. Len(plan) /\ rest[i] # s
  <2> HIDE DEF plan
  <2>1. /\ Head(plan) = plan[1] /\ plan[1] \in Symbols /\ 1 \in 1 .. Len(plan)
        /\ Tail(plan) \in Seq(Symbols) /\ Len(Tail(plan)) = Len(plan) - 1 /\ Len(plan) \in Nat
        /\ \A i \in 1 .. Len(Tail(plan)) : Tail(plan)[i] = plan[i + 1] /\ i + 1 \in 1 .. Len(plan)
        /\ Once(Tail(plan)) /\ \A i \in 1 .. Len(Tail(plan)) : Tail(plan)[i] # plan[1]
    BY <1>2, RestOf
  <2> QED
    BY <1>2, <2>1 DEF plan
<1>4. at \in Prices /\ at \in Nat /\ at > 0
  BY <1>3, Known, PricesArePositive DEF Market
<1>5. S \in SUBSET Symbols /\ IsFiniteSet(S) /\ Cardinality(S) \in Nat /\ mem.pos \in [S -> Position]
  BY Known
<1>6. new \in Position
  BY <1>4, Known DEF Position
<1>7. more \in [S \cup {s} -> Position] /\ more[s] = new /\ \A x \in S : more[x] = mem.pos[x]
  <2> HIDE DEF new, S, s
  <2> QED
    BY <1>3, <1>5, <1>6
<1>8. new.size = step.filled /\ new.short = ~step.bull /\ new.entry = at
  OBVIOUS
<1> HIDE DEF new, more, at, s, S, plan, rest
<1>9. mem'.pos = pos /\ mem'.cash = mem.cash /\ cash \in Int
  BY <1>1, Known
<1>10. DOMAIN more = S \cup {s} /\ DOMAIN mem.pos = S /\ S \cup {s} \in SUBSET Symbols
  BY <1>3, <1>5, <1>7
<1>11. /\ step' \in Steps /\ step'.todo = rest /\ step'.cash = cash /\ step'.price = step.price
       /\ step'.equity = step.equity /\ step'.bull = step.bull
       /\ step'.filled = step.filled /\ step'.ok = step.ok
  <2> HIDE DEF cash
  <2> QED
    BY <1>1, <1>3, <1>9, Known DEF Steps
<1>12. DaemonTypes'
  <2>1. Wallet(mem)'
    <3>1. pos \in [DOMAIN pos -> Position] /\ DOMAIN pos \in SUBSET Symbols
      BY <1>5, <1>7, <1>10
    <3>2. mem' = [cash |-> mem.cash, pos |-> pos]
      BY <1>1, Known
    <3>3. [cash |-> mem.cash, pos |-> pos] \in [cash : Int, pos : [DOMAIN pos -> Position]]
      BY <3>1, Known
    <3> HIDE DEF pos
    <3> QED
      BY <3>1, <3>2, <3>3 DEF Wallet
  <2>2. Wallet(file)'
    BY <1>1, Known DEF Wallet
  <2> QED
    BY <1>1, <1>11, <2>1, <2>2, Known DEF DaemonTypes
<1>13. Plan'
  <2>1. ASSUME NEW i \in 1 .. Len(rest)
        PROVE  step.price[rest[i]] # 0 /\ rest[i] \notin DOMAIN pos
    BY <1>2, <1>3, <1>10
  <2> QED
    BY <1>1, <1>3, <1>9, <1>11, <2>1 DEF Plan
<1>14. Slots'
  <2>1. Cardinality(S \cup {s}) = Cardinality(S) + 1
    BY <1>3, <1>5, FS_AddElement
  <2>2. /\ Cardinality(S) <= MaxSlots /\ Cardinality(DOMAIN file.pos) <= MaxSlots
        /\ step.bull => Cardinality(S) + Len(plan) <= MaxSlots
        /\ ~step.bull => Cardinality(S) < MaxSlots
    BY <1>1, <1>10 DEF HourInv, Slots, plan
  <2>3. Cardinality(DOMAIN pos) = Cardinality(S) \/ Cardinality(DOMAIN pos) = Cardinality(S) + 1
    BY <1>10, <2>1
  <2>4. Len(plan) >= 1 /\ Len(rest) = Len(plan) - 1 /\ Len(plan) \in Nat
    BY <1>2, <1>3
  <2>5. MaxSlots \in Nat /\ step.bull \in BOOLEAN
    BY DaemonAssumption, Known
  <2>6. /\ Cardinality(DOMAIN pos) <= MaxSlots
        /\ step.bull => Cardinality(DOMAIN pos) + Len(rest) <= MaxSlots
    BY <1>5, <2>2, <2>3, <2>4, <2>5
  <2> HIDE DEF pos
  <2> QED
    BY <1>1, <1>9, <1>11, <2>2, <2>6 DEF Slots
<1>15. Spot'
  <2>1. SUFFICES ASSUME ~futures PROVE Spot'
    BY <1>1 DEF Spot
  <2>2. /\ SpotWallet(mem) /\ SpotWallet(file) /\ step.cash >= 0 /\ step.equity >= 0 /\ step.bull
        /\ step.alloc <= step.cash /\ step.filled >= 0
    BY <1>1, <1>2, <2>1 DEF HourInv, Spot, plan
  <2>3. \A x \in DOMAIN pos : ~pos[x].short /\ pos[x].size >= 0
    BY <1>7, <1>8, <1>10, <2>2 DEF SpotWallet
  <2>4. cash >= 0
    BY <2>2, Known
  <2> HIDE DEF pos, cash
  <2> QED
    BY <1>1, <1>9, <1>11, <2>2, <2>3, <2>4 DEF Spot, SpotWallet
<1>16. RestartForgetsNothing'
  BY <1>1 DEF RestartForgetsNothing
<1>17. Exposure'
  <2>1. SUFFICES ASSUME ~dry PROVE Exposure'
    BY <1>1 DEF Exposure
  <2>2. Exposure /\ step.filled >= 0 /\ (step.ok <=> step.filled > 0) /\ step.filled \in Int
    BY <1>1, <2>1, Known DEF HourInv, Exposure
  <2>3. ~futures => \A y \in Symbols : held[y] >= 0
    BY <2>1, <2>2 DEF Exposure
  <2>4. ASSUME ~futures, ~cut, NEW y \in DOMAIN pos PROVE pos[y].size <= held[y] + lacking[y]
    <3>1. \A x \in S : mem.pos[x].size <= held[x] + lacking[x]
      BY <1>10, <2>1, <2>2, <2>4 DEF Exposure
    <3>2. step.filled <= held[s] + lacking[s]
      BY <1>1, <2>1, <2>2, <2>4 DEF Exposure, s
    <3> QED
      BY <1>7, <1>8, <1>10, <2>4, <3>1, <3>2
  <2>5. ASSUME exact, ~cut, NEW y \in Symbols PROVE held[y] = Recorded(y)'
    <3>1. held[y] = Recorded(y) + Pending(y)
      BY <2>1, <2>2, <2>5 DEF Exposure
    <3>2. Recorded(y) = IF y \notin S THEN 0 ELSE IF mem.pos[y].short THEN -mem.pos[y].size ELSE mem.pos[y].size
      BY <1>10 DEF Recorded
    <3>3. Pending(y) = IF y = s THEN (IF step.bull THEN step.filled ELSE -step.filled) ELSE 0
      BY <1>1 DEF Pending, s
    <3>4. Recorded(y)' = IF y \notin DOMAIN pos THEN 0 ELSE IF pos[y].short THEN -pos[y].size ELSE pos[y].size
      BY <1>9 DEF Recorded
    <3>5. y \in S => mem.pos[y].size \in Int
      BY <1>5 DEF Position
    <3>6. held[y] \in Int
      BY Known
    <3>7. CASE y = s
      <4>1. held[y] = IF step.bull THEN step.filled ELSE -step.filled
        BY <1>3, <2>2, <3>1, <3>2, <3>3, <3>7
      <4>2. held[y] = IF step.bull THEN step.filled ELSE 0 - step.filled
        <5>1. \A n \in Int : -n = 0 - n
          OBVIOUS
        <5> QED
          BY <2>2, <4>1, <5>1
      <4>3. CASE step.ok
        <5>1. y \in DOMAIN pos /\ pos[y] = new
          BY <1>7, <1>10, <3>7, <4>3
        <5> QED
          BY <1>8, <3>4, <4>1, <5>1
      <4>4. CASE ~step.ok
        <5>1. step.filled = 0 /\ y \notin DOMAIN pos
          BY <1>3, <1>10, <2>2, <3>7, <4>4
        <5>2. Recorded(y)' = 0
          BY <3>4, <5>1
        <5>3. held[y] = 0
          BY <4>2, <5>1
        <5> QED
          BY <5>2, <5>3
      <4> QED
        BY <4>3, <4>4
    <3>8. CASE y # s
      <4>1. Pending(y) = 0 /\ Recorded(y) \in Int
        BY <3>2, <3>3, <3>5, <3>8
      <4>2. Recorded(y)' = Recorded(y)
        BY <1>7, <1>10, <3>2, <3>4, <3>8
      <4> QED
        BY <3>1, <4>1, <4>2
    <3> QED
      BY <3>7, <3>8
  <2>6. Recorded(s)' \in Int /\ \A y \in Symbols : Pending(y)' = 0
    <3>1. \A y \in Symbols : Pending(y)' = 0
      BY <1>1 DEF Pending
    <3>2. \A y \in DOMAIN pos : pos[y].size \in Int
      BY <1>5, <1>7, <1>10 DEF Position
    <3>3. Recorded(s)' \in Int
      BY <1>9, <3>2 DEF Recorded
    <3> QED
      BY <3>1, <3>3
  <2>7. exact /\ ~cut => \A y \in Symbols : held[y] = Recorded(y)' + Pending(y)'
    <3>1. \A y \in Symbols : held[y] \in Int
      BY Known
    <3> QED
      BY <2>5, <2>6, <3>1
  <2> HIDE DEF pos
  <2> QED
    BY <1>1, <1>9, <2>3, <2>4, <2>7 DEF Exposure
<1>18. Budget'
  <2>1. SUFFICES ASSUME dry PROVE Budget'
    BY <1>1 DEF Budget
  <2>2. /\ step.cash + Worth(mem.pos, step.price) <= step.equity
        /\ step.ok /\ step.filled * at <= step.alloc
    BY <1>1, <2>1 DEF HourInv, Budget, at, s
  <2>3. Worth(more, step.price) = Counts(more, step.price)[s] + Worth(mem.pos, step.price)
    <3>1. s \in Symbols \ S /\ step.price \in Market
      BY <1>3, Known
    <3>2. ASSUME NEW U \in SUBSET Symbols, NEW old \in [U -> Position], NEW x \in Symbols \ U,
                 NEW all \in [U \cup {x} -> Position], \A y \in U : all[y] = old[y],
                 NEW price \in Market
          PROVE  Worth(all, price) = Counts(all, price)[x] + Worth(old, price)
      BY <3>2, WorthMore
    <3> QED
      BY <1>5, <1>7, <3>1, <3>2
  <2>4. Counts(more, step.price)[s] = step.filled * at
    <3>1. Counts(more, step.price)[s] = Value(new, at)
      BY <1>3, <1>7, <1>10 DEF Counts, at
    <3>2. Value(new, at) = IF ~step.bull THEN step.filled * at + (at - at) * step.filled ELSE step.filled * at
      BY <1>8 DEF Value
    <3>3. (at - at) * step.filled = 0 /\ step.filled * at \in Int
      BY <1>4, Known
    <3> QED
      BY <3>1, <3>2, <3>3
  <2>5. Worth(mem.pos, step.price) \in Int /\ step.filled * at \in Int
    <3>1. step.price \in Market /\ step.filled \in Int
      BY Known
    <3>2. Worth(mem.pos, step.price) \in Int
      BY <1>5, <3>1, WorthOf
    <3> QED
      BY <1>4, <3>1, <3>2
  <2>6. Worth(mem.pos, step.price)' = Worth(more, step.price)
    BY <1>9, <1>11, <2>2
  <2>7. cash + Worth(more, step.price) <= step.equity
    <3>1. cash = step.cash - step.alloc
      BY <2>2
    <3> DEFINE cost == step.filled * at
    <3> HIDE DEF cost
    <3>2. /\ step.cash \in Int /\ step.alloc \in Int /\ step.equity \in Int /\ cost \in Int
          /\ Worth(mem.pos, step.price) \in Int /\ cost <= step.alloc
          /\ Worth(more, step.price) = cost + Worth(mem.pos, step.price)
      BY <2>2, <2>3, <2>4, <2>5, Known DEF cost
    <3> QED
      BY <2>2, <3>1, <3>2
  <2> HIDE DEF cash
  <2> QED
    BY <1>1, <1>11, <2>1, <2>6, <2>7 DEF Budget
<1> QED
  BY <1>12, <1>13, <1>14, <1>15, <1>16, <1>17, <1>18 DEF HourInv

\* The cash is written back, whether the file is or not.
LEMMA HourFinished ==
    ASSUME HourInv, Save \/ SaveFails
    PROVE  HourInv'
<1>1. /\ pc = "open" /\ step.todo = <<>> /\ mem' = [mem EXCEPT !.cash = step.cash]
      /\ pc' = "idle" /\ step' = NoStep /\ held' = held
      /\ exact' = exact /\ lacking' = lacking /\ wrong' = wrong
      /\ futures' = futures /\ dry' = dry /\ hours' = hours /\ crashes' = crashes /\ cut' = cut
  BY DEF Save, SaveFails, Finish, world, answers
<1>2. \/ file' = mem' /\ unsaved' = FALSE
      \/ file' = file /\ unsaved' = TRUE
  BY DEF Save, SaveFails
<1>3. mem' = [cash |-> step.cash, pos |-> mem.pos] /\ mem'.pos = mem.pos /\ mem'.cash = step.cash
  BY <1>1, Known
<1>4. NoStep \in Steps /\ NoStep.todo = <<>> /\ NoStep.cash = 0 /\ NoStep.equity = 0
  BY DEF NoStep, Steps
<1>5. DaemonTypes'
  <2>1. Wallet(mem)'
    BY <1>3, Known DEF Wallet
  <2>2. Wallet(file)'
    BY <1>2, <2>1, Known DEF Wallet
  <2> QED
    BY <1>1, <1>2, <1>4, <2>1, <2>2, Known DEF DaemonTypes
<1>6. Plan'
  BY <1>1, <1>4 DEF Plan, Once
<1>7. Slots'
  BY <1>1, <1>2, <1>3 DEF HourInv, Slots
<1>8. Spot'
  <2>1. SUFFICES ASSUME ~futures PROVE Spot'
    BY <1>1 DEF Spot
  <2>2. SpotWallet(mem) /\ SpotWallet(file) /\ step.cash >= 0
    BY <2>1 DEF HourInv, Spot
  <2>3. SpotWallet(mem)'
    BY <1>3, <2>2 DEF SpotWallet
  <2>4. SpotWallet(file)'
    BY <1>2, <2>2, <2>3 DEF SpotWallet
  <2> QED
    BY <1>1, <1>4, <2>3, <2>4 DEF Spot
<1>9. RestartForgetsNothing'
  BY <1>2 DEF RestartForgetsNothing
<1>10. Exposure'
  <2>1. \A s \in Symbols : Recorded(s)' = Recorded(s) /\ Pending(s)' = 0 /\ Pending(s) = 0
    BY <1>1, <1>3 DEF Recorded, Pending
  <2> QED
    BY <1>1, <1>3, <2>1 DEF HourInv, Exposure
<1>11. Budget'
  BY <1>1 DEF Budget
<1> QED
  BY <1>5, <1>6, <1>7, <1>8, <1>9, <1>10, <1>11 DEF HourInv

\* What a restart forgets was either saved or is noted as cut off.
LEMMA DaemonRestarts ==
    ASSUME HourInv, Restart
    PROVE  HourInv'
<1>1. /\ mem' = file /\ file' = file /\ pc' = "idle" /\ step' = NoStep /\ unsaved' = FALSE
      /\ cut' = (cut \/ pc # "idle" \/ unsaved)
      /\ crashes < MaxCrashes /\ crashes' = crashes + 1
      /\ held' = held /\ exact' = exact /\ lacking' = lacking /\ wrong' = wrong
      /\ futures' = futures /\ dry' = dry /\ hours' = hours
  BY DEF Restart, answers
<1>2. NoStep \in Steps /\ NoStep.todo = <<>> /\ NoStep.cash = 0 /\ NoStep.equity = 0
  BY DEF NoStep, Steps
<1>3. ~cut' => mem' = mem /\ ~cut /\ pc = "idle"
  BY <1>1, Known DEF HourInv, RestartForgetsNothing
<1>4. DaemonTypes'
  <2>1. Wallet(mem)' /\ Wallet(file)'
    BY <1>1, Known DEF Wallet
  <2>2. crashes' \in 0 .. MaxCrashes /\ cut' \in BOOLEAN
    BY <1>1, Known, DaemonAssumption
  <2> QED
    BY <1>1, <1>2, <2>1, <2>2, Known DEF DaemonTypes
<1>5. Plan'
  BY <1>1, <1>2 DEF Plan, Once
<1>6. Slots'
  BY <1>1 DEF HourInv, Slots
<1>7. Spot'
  BY <1>1, <1>2 DEF HourInv, Spot, SpotWallet
<1>8. RestartForgetsNothing'
  BY <1>1 DEF RestartForgetsNothing
<1>9. Exposure'
  <2>1. \A s \in Symbols : Pending(s)' = 0 /\ (~cut' => Recorded(s)' = Recorded(s) /\ Pending(s) = 0)
    BY <1>1, <1>3 DEF Recorded, Pending
  <2> QED
    BY <1>1, <1>3, <2>1 DEF HourInv, Exposure
<1>10. Budget'
  BY <1>1 DEF Budget
<1> QED
  BY <1>4, <1>5, <1>6, <1>7, <1>8, <1>9, <1>10 DEF HourInv

LEMMA HourStutters ==
    ASSUME HourInv, UNCHANGED daemonVars
    PROVE  HourInv'
<1>1. /\ futures' = futures /\ dry' = dry /\ mem' = mem /\ file' = file /\ held' = held
      /\ pc' = pc /\ step' = step /\ unsaved' = unsaved /\ cut' = cut
      /\ exact' = exact /\ lacking' = lacking /\ wrong' = wrong
      /\ hours' = hours /\ crashes' = crashes
  BY DEF daemonVars
<1>2. DaemonTypes' /\ Plan' /\ Slots' /\ Spot' /\ RestartForgetsNothing'
  BY <1>1 DEF HourInv, DaemonTypes, Wallet, Plan, Slots, Spot, SpotWallet, RestartForgetsNothing
<1>3. Exposure' /\ Budget'
  <2>1. Worth(mem.pos, step.price)' = Worth(mem.pos, step.price)
    BY <1>1
  <2> QED
    BY <1>1, <2>1 DEF HourInv, Exposure, Budget, Recorded, Pending
<1> QED
  BY <1>2, <1>3 DEF HourInv

LEMMA FirstHour ==
    ASSUME DaemonInit
    PROVE  HourInv
<1>1. /\ futures \in BOOLEAN /\ dry \in BOOLEAN
      /\ mem = [cash |-> InitialCash, pos |-> <<>>] /\ file = mem
      /\ held = [s \in Symbols |-> 0] /\ pc = "idle" /\ step = NoStep
      /\ unsaved = FALSE /\ exact = TRUE /\ cut = FALSE /\ hours = 0 /\ crashes = 0
      /\ lacking = [s \in Symbols |-> 0] /\ wrong = 0
  BY DEF DaemonInit
<1>2. NoStep \in Steps /\ NoStep.todo = <<>> /\ NoStep.cash = 0 /\ NoStep.equity = 0
  BY DEF NoStep, Steps
<1>3. mem.pos = <<>> /\ DOMAIN mem.pos = {} /\ mem.cash = InitialCash
  BY <1>1
<1>4. DaemonTypes
  <2>1. <<>> \in [{} -> Position] /\ {} \in SUBSET Symbols
    OBVIOUS
  <2>2. Wallet(mem)
    BY <1>1, <2>1, DaemonAssumption DEF Wallet
  <2>3. /\ held \in [Symbols -> Int] /\ hours \in 0 .. MaxHours /\ crashes \in 0 .. MaxCrashes
        /\ lacking \in [Symbols -> Nat] /\ wrong \in 0 .. MaxWrong
    BY <1>1, DaemonAssumption
  <2> QED
    BY <1>1, <1>2, <2>2, <2>3 DEF DaemonTypes
<1>5. Plan
  BY <1>1, <1>2 DEF Plan, Once
<1>6. Slots
  <2>1. Cardinality(DOMAIN mem.pos) = 0
    BY <1>3, FS_EmptySet
  <2> QED
    BY <1>1, <2>1, DaemonAssumption DEF Slots
<1>7. Spot
  BY <1>1, <1>2, <1>3, DaemonAssumption DEF Spot, SpotWallet
<1>8. Exposure
  BY <1>1, <1>3 DEF Exposure, Recorded, Pending
<1> QED
  BY <1>1, <1>4, <1>5, <1>6, <1>7, <1>8 DEF HourInv, RestartForgetsNothing, Budget

\* The invariant holds at every point of every hour, in every mode.
THEOREM HourIsInvariant == DaemonSpec => []HourInv
<1>1. DaemonInit => HourInv
  BY FirstHour
<1>2. HourInv /\ [DaemonNext]_daemonVars => HourInv'
  <2>1. SUFFICES ASSUME HourInv, [DaemonNext]_daemonVars PROVE HourInv'
    OBVIOUS
  <2>2. CASE BeginHour
    BY <2>1, <2>2, HourBegins
  <2>3. CASE SendClose
    BY <2>1, <2>3, CloseSent
  <2>4. CASE BookClose
    BY <2>1, <2>4, CloseBooked
  <2>5. CASE ChooseOpen
    BY <2>1, <2>5, OpenChosen
  <2>6. CASE SendOpen
    BY <2>1, <2>6, OpenSent, OpenSkipped
  <2>7. CASE BookOpen
    BY <2>1, <2>7, OpenBooked
  <2>8. CASE Save \/ SaveFails
    BY <2>1, <2>8, HourFinished
  <2>9. CASE Restart
    BY <2>1, <2>9, DaemonRestarts
  <2>10. CASE UNCHANGED daemonVars
    BY <2>1, <2>10, HourStutters
  <2> QED
    BY <2>1, <2>2, <2>3, <2>4, <2>5, <2>6, <2>7, <2>8, <2>9, <2>10 DEF DaemonNext
<1> QED
  BY <1>1, <1>2, PTL DEF DaemonSpec

\* Slots and cash are never overdrawn, a restart between two hours forgets
\* nothing, and what is recorded is at the exchange: on a spot account with no hour
\* cut off all but what the order of a position was short of its answer, and no more
\* nor less at the end of an hour whose orders were all answered truly and in full.
THEOREM DaemonKeepsItsWallet == DaemonSpec => []DaemonInv
<1>1. HourInv => DaemonInv
  <2>1. SUFFICES ASSUME HourInv PROVE DaemonInv
    OBVIOUS
  <2>2. SlotsRespected /\ CashIsEnough
    BY <2>1 DEF HourInv, Slots, SlotsRespected, Spot, SpotWallet, CashIsEnough
  <2>3. RecordedIsHeld
    <3>1. pc = "idle" => \A s \in Symbols : Pending(s) = 0
      BY DEF Pending
    <3>2. \A s \in Symbols : Recorded(s) \in Int
      BY <2>1, Known DEF Recorded, Position
    <3> QED
      BY <2>1, <3>1, <3>2 DEF HourInv, Exposure, RecordedIsHeld
  <2> QED
    BY <2>1, <2>2, <2>3 DEF HourInv, DaemonInv
<1> QED
  BY <1>1, HourIsInvariant, PTL

\* A dry run makes no money by trading, long or short, whatever it closes and
\* opens and in whatever order: at the prices of the hour what it books never
\* adds to what it had.
THEOREM DryRunsMakeNothing == DaemonSpec => []TradingMakesNothing
<1>1. HourInv => TradingMakesNothing
  BY DEF HourInv, Budget, TradingMakesNothing
<1> QED
  BY <1>1, HourIsInvariant, PTL

-----------------------------------------------------------------------------
(***************************************************************************)
(* The soak harness, for any number of hours, any rebalance interval and   *)
(* any fault at any hour, and again.                                       *)
(*                                                                         *)
(* An hour makes and mends so much that what its end has in common with    *)
(* its beginning must be said at once: Sound, a platform whose orders are  *)
(* all at rest, with nothing made up at the exchange, a clean verdict and  *)
(* counters that agree with the orders.  Each fault is shown to lead from  *)
(* a sound platform to a sound one, call by call; most of them to a        *)
(* platform Grown by one order.                                            *)
(***************************************************************************)

Coins == {"BTC", "ETH", "BNB", "DOGE", "LINK", "NEAR", "SOL", "ADA", "DOT", "LTC", "XRP"}

Records ==
    [sym : Coins, size : Int,
     state : {"CREATED", "ACKNOWLEDGED", "PARTIALLY_FILLED", "UNKNOWN", "FILLED", "REJECTED"},
     there : {"NONE", "PARTIALLY_FILLED", "FILLED"}, done : Int, stored : Int, applied : Int]

Platforms ==
    [orders : Seq(Records), unresolved : SUBSET Nat, adapterHalted : BOOLEAN,
     custom : {None} \cup [sym : {"XRP"}, size : Int], orphanOrders : Nat, orphanExecs : Nat,
     timeout : {"none", "status", "positions"}, feed : {"LIVE", "DISCONNECTED", "STALE"},
     halted : BOOLEAN, status : {"HEALTHY", "DRIFT_DETECTED", "CRITICAL_DRIFT", "DATA_UNAVAILABLE"},
     count : [Counters -> Int], asserted : BOOLEAN]

\* An order that is at rest: closed on both sides or half filled on both, and
\* booked here as it was executed there.
Settled(o) ==
    /\ \/ o.state = "FILLED" /\ o.there = "FILLED"
       \/ o.state = "PARTIALLY_FILLED" /\ o.there = "PARTIALLY_FILLED"
       \/ o.state = "REJECTED" /\ o.there = "NONE"
    /\ o.stored = o.done /\ o.applied = o.done

AllSettled(w) == \A i \in DOMAIN w.orders : Settled(w.orders[i])

\* Nothing is wrong with anything else.
Calm(w) ==
    /\ ~w.adapterHalted /\ w.custom = None /\ w.orphanOrders = 0 /\ w.orphanExecs = 0
    /\ w.timeout = "none" /\ w.feed = "LIVE" /\ w.asserted

Healthy(w) == w.status = "HEALTHY" /\ ~w.halted

Halves(w) == {i \in DOMAIN w.orders : w.orders[i].state = "PARTIALLY_FILLED"}

Reported(w) ==
    /\ w.count["failures"] = 0
    /\ Len(w.orders) = w.count["orders"] + w.count["repairs"]
    /\ w.count["orders"] = w.count["fills"] + w.count["rejections"] + w.count["unknown"]
                           + Cardinality(Halves(w))
    /\ w.count["recovered"] = w.count["unknown"]

\* The platform between two faults.
Sound(w) ==
    /\ w \in Platforms /\ w.unresolved = {} /\ AllSettled(w) /\ Calm(w) /\ Healthy(w) /\ Reported(w)

SoakKept == Sound(platform) /\ verdict \in {None, "P2-8 PASS"}

-----------------------------------------------------------------------------
(* Quantities and counts *)

LEMMA HeldIsInt ==
    ASSUME NEW w \in Platforms, NEW sym
    PROVE  HeldHere(w, sym) \in Int
<1> DEFINE S == Of(w, sym)
           f == [i \in S |-> w.orders[i].applied]
<1>1. w.orders \in Seq(Records)
  BY DEF Platforms
<1>2. S \subseteq 1 .. Len(w.orders) /\ Len(w.orders) \in Nat /\ IsFiniteSet(1 .. Len(w.orders))
  BY <1>1, FS_Interval DEF Of
<1>3. IsFiniteSet(S)
  BY <1>2, FS_Subset
<1>4. \A i \in S : f[i] \in Int
  <2>1. \A i \in S : w.orders[i] \in Records
    BY <1>1, <1>2
  <2> QED
    BY <2>1 DEF Records
<1>5. HeldHere(w, sym) = SumFunctionOnSet(f, S)
  BY DEF HeldHere
<1> HIDE DEF f, S
<1>6. Sums!IsFiniteSet(S) /\ Sums!IsSum /\ Sums!Chooses(S) /\ Sums!Values(f, S, Int)
  BY <1>3, <1>4 DEF IsFiniteSet, Sums!IsFiniteSet, Sums!IsSum, Sums!Chooses, Sums!Values, Plus, AnyOf
<1>7. SumFunctionOnSet(f, S) = Sums!Fold(f, S)
  BY DEF SumFunctionOnSet, FoldFunctionOnSet, MapThenFoldSet, Sums!Fold, Sums!MapThenFoldSet, Plus, AnyOf
<1> QED
  BY <1>5, <1>6, <1>7, Sums!SumType

\* Only the orders matter for what is held here.
LEMMA HeldSame ==
    ASSUME NEW w, NEW v, w.orders = v.orders, NEW sym
    PROVE  HeldHere(w, sym) = HeldHere(v, sym)
BY DEF HeldHere, Of

\* Where every order is booked as it was executed, both sides hold the same.
LEMMA HeldAlike ==
    ASSUME NEW w \in Platforms, AllSettled(w), w.custom = None, NEW sym
    PROVE  HeldHere(w, sym) = HeldThere(w, sym)
<1>1. \A i \in Of(w, sym) : w.orders[i].applied = w.orders[i].done
  BY DEF AllSettled, Settled, Of
<1>2. [i \in Of(w, sym) |-> w.orders[i].applied] = [i \in Of(w, sym) |-> w.orders[i].done]
  BY <1>1
<1> QED
  BY <1>2 DEF HeldHere, HeldThere

LEMMA HalvesOfMore ==
    ASSUME NEW w \in Platforms, NEW v \in Platforms, NEW o \in Records, v.orders = Append(w.orders, o)
    PROVE  /\ Cardinality(Halves(w)) \in Nat
           /\ Cardinality(Halves(v)) =
                 Cardinality(Halves(w)) + (IF o.state = "PARTIALLY_FILLED" THEN 1 ELSE 0)
<1> DEFINE n == Len(w.orders)
<1>1. w.orders \in Seq(Records) /\ n \in Nat /\ DOMAIN w.orders = 1 .. n
  BY DEF Platforms
<1>2. /\ DOMAIN v.orders = 1 .. n + 1 /\ v.orders[n + 1] = o
      /\ \A i \in 1 .. n : v.orders[i] = w.orders[i]
  BY <1>1
<1> HIDE DEF n
<1>3. Halves(v) = IF o.state = "PARTIALLY_FILLED" THEN Halves(w) \cup {n + 1} ELSE Halves(w)
  <2>1. \A i \in 1 .. n + 1 : i \in 1 .. n \/ i = n + 1
    BY <1>1
  <2>2. 1 .. n \subseteq 1 .. n + 1 /\ n + 1 \in 1 .. n + 1 /\ n + 1 \notin 1 .. n
    BY <1>1
  <2> QED
    BY <1>1, <1>2, <2>1, <2>2 DEF Halves
<1>4. IsFiniteSet(Halves(w)) /\ n + 1 \notin Halves(w)
  <2>1. IsFiniteSet(1 .. n) /\ Halves(w) \subseteq 1 .. n /\ n + 1 \notin 1 .. n
    BY <1>1, FS_Interval DEF Halves
  <2> QED
    BY <2>1, FS_Subset
<1>5. Cardinality(Halves(w) \cup {n + 1}) = Cardinality(Halves(w)) + 1 /\ Cardinality(Halves(w)) \in Nat
  BY <1>4, FS_AddElement, FS_CardinalityType
<1> QED
  BY <1>3, <1>5

\* A platform with one more order at rest, counted where it belongs.
LEMMA OneMore ==
    ASSUME NEW w, Sound(w), NEW v \in Platforms, Calm(v), Healthy(v), v.unresolved = {},
           NEW o \in Records, Settled(o), v.orders = Append(w.orders, o),
           v.count["failures"] = w.count["failures"],
           v.count["orders"] + v.count["repairs"] = w.count["orders"] + w.count["repairs"] + 1,
           v.count["orders"] - v.count["fills"] - v.count["rejections"] - v.count["unknown"]
              = w.count["orders"] - w.count["fills"] - w.count["rejections"] - w.count["unknown"]
                + (IF o.state = "PARTIALLY_FILLED" THEN 1 ELSE 0),
           v.count["recovered"] - v.count["unknown"] = w.count["recovered"] - w.count["unknown"]
    PROVE  Sound(v)
<1>1. w \in Platforms /\ w.orders \in Seq(Records) /\ AllSettled(w) /\ Reported(w)
  BY DEF Sound, Platforms
<1>2. \A c \in Counters : w.count[c] \in Int /\ v.count[c] \in Int
  BY <1>1 DEF Platforms
<1>3. AllSettled(v)
  BY <1>1 DEF AllSettled
<1>4. Len(v.orders) = Len(w.orders) + 1 /\ Len(w.orders) \in Nat
  BY <1>1
<1>5. /\ Cardinality(Halves(w)) \in Nat
      /\ Cardinality(Halves(v)) =
            Cardinality(Halves(w)) + (IF o.state = "PARTIALLY_FILLED" THEN 1 ELSE 0)
  BY <1>1, HalvesOfMore
<1> DEFINE wo == w.count["orders"]  wf == w.count["fills"]  wr == w.count["rejections"]
           wu == w.count["unknown"]  wx == w.count["recovered"]  wp == w.count["repairs"]
           vo == v.count["orders"]  vf == v.count["fills"]  vr == v.count["rejections"]
           vu == v.count["unknown"]  vx == v.count["recovered"]  vp == v.count["repairs"]
           more == IF o.state = "PARTIALLY_FILLED" THEN 1 ELSE 0
           halves == Cardinality(Halves(w))
<1>6. /\ wo \in Int /\ wf \in Int /\ wr \in Int /\ wu \in Int /\ wx \in Int /\ wp \in Int
      /\ vo \in Int /\ vf \in Int /\ vr \in Int /\ vu \in Int /\ vx \in Int /\ vp \in Int
      /\ more \in Int /\ halves \in Int
  BY <1>2, <1>5 DEF Counters
<1>7. /\ vo + vp = wo + wp + 1 /\ vo - vf - vr - vu = wo - wf - wr - wu + more /\ vx - vu = wx - wu
      /\ v.count["failures"] = w.count["failures"]
  OBVIOUS
<1>8. /\ Len(w.orders) = wo + wp /\ wo = wf + wr + wu + halves /\ wx = wu
      /\ w.count["failures"] = 0
  BY <1>1 DEF Reported
<1>9. Cardinality(Halves(v)) = halves + more
  BY <1>5
<1> HIDE DEF wo, wf, wr, wu, wx, wp, vo, vf, vr, vu, vx, vp, more, halves
<1>10. Len(v.orders) = vo + vp
  BY <1>4, <1>6, <1>7, <1>8
<1>11. vx = vu
  BY <1>6, <1>7, <1>8
<1>12. vo = vf + vr + vu + Cardinality(Halves(v))
  BY <1>6, <1>7, <1>8, <1>9
<1> USE DEF wo, wf, wr, wu, wx, wp, vo, vf, vr, vu, vx, vp
<1>13. Reported(v)
  BY <1>7, <1>8, <1>10, <1>11, <1>12 DEF Reported
<1> QED
  BY <1>3, <1>13 DEF Sound

\* The same orders and the same counters that are compared with them.
LEMMA SoundSame ==
    ASSUME NEW w, Sound(w), NEW v \in Platforms, Calm(v), Healthy(v), v.unresolved = {},
           v.orders = w.orders,
           \A c \in Counters \ {"partial", "restarts"} : v.count[c] = w.count[c]
    PROVE  Sound(v)
<1>1. AllSettled(v) /\ Halves(v) = Halves(w)
  BY DEF Sound, AllSettled, Halves
<1>2. Reported(v)
  BY <1>1 DEF Sound, Reported, Counters
<1> QED
  BY <1>1, <1>2 DEF Sound

-----------------------------------------------------------------------------
(* The calls of the harness *)

LEMMA Counted ==
    ASSUME NEW w \in Platforms, NEW c \in Counters, NEW n \in Int
    PROVE  /\ Count(w, c, n) \in Platforms
           /\ Count(w, c, n) = [w EXCEPT !.count = Count(w, c, n).count]
           /\ Count(w, c, n).count[c] = w.count[c] + n
           /\ \A b \in Counters \ {c} : Count(w, c, n).count[b] = w.count[b]
<1> DEFINE count == [w.count EXCEPT ![c] = w.count[c] + n]
<1>1. w.count \in [Counters -> Int]
  BY DEF Platforms
<1>2. /\ count \in [Counters -> Int] /\ count[c] = w.count[c] + n
      /\ \A b \in Counters \ {c} : count[b] = w.count[b]
  BY <1>1
<1>3. Count(w, c, n) = [w EXCEPT !.count = count]
  BY DEF Count
<1> HIDE DEF count
<1> QED
  BY <1>2, <1>3 DEF Platforms

LEMMA Expected ==
    ASSUME NEW w \in Platforms, NEW P \in BOOLEAN
    PROVE  Expect(w, P) \in Platforms /\ Expect(w, P) = [w EXCEPT !.asserted = w.asserted /\ P]
BY DEF Expect, Platforms

\* A reconciliation changes its verdict and the halt.
Judged(w, result, stop) == [w EXCEPT !.status = result, !.halted = stop]

LEMMA ReconcileKeeps ==
    ASSUME NEW w \in Platforms
    PROVE  /\ Reconcile(w) \in Platforms
           /\ Reconcile(w) = Judged(w, Verdict(w), Reconcile(w).halted)
           /\ Reconcile(w).status = Verdict(w)
           /\ Reconcile(w).halted = (Verdict(w) \in {"DATA_UNAVAILABLE", "CRITICAL_DRIFT"})
<1>1. Verdict(w) \in {"DATA_UNAVAILABLE", "CRITICAL_DRIFT", "DRIFT_DETECTED", "HEALTHY"}
  <2>1. CASE w.timeout = "positions"
    BY <2>1 DEF Verdict
  <2>2. CASE w.timeout # "positions" /\ Critical(w)
    BY <2>2 DEF Verdict
  <2>3. CASE w.timeout # "positions" /\ ~Critical(w) /\ Erroneous(w)
    BY <2>3 DEF Verdict
  <2>4. CASE w.timeout # "positions" /\ ~Critical(w) /\ ~Erroneous(w)
    BY <2>4 DEF Verdict
  <2> QED
    BY <2>1, <2>2, <2>3, <2>4
<1> DEFINE stop == Verdict(w) \in {"DATA_UNAVAILABLE", "CRITICAL_DRIFT"}
<1>2. stop \in BOOLEAN
  OBVIOUS
<1>3. Reconcile(w) = [w EXCEPT !.status = Verdict(w), !.halted = stop]
  BY DEF Reconcile
<1> HIDE DEF stop
<1>4. [w EXCEPT !.status = Verdict(w), !.halted = stop] \in Platforms
  BY <1>1, <1>2 DEF Platforms
<1>5. Reconcile(w).halted = stop /\ Reconcile(w).status = Verdict(w)
  BY <1>3 DEF Platforms
<1> QED
  BY <1>3, <1>4, <1>5 DEF stop, Judged

LEMMA ReconcileSettled ==
    ASSUME NEW w \in Platforms, AllSettled(w), w.custom = None, w.orphanOrders = 0, w.orphanExecs = 0,
           w.timeout = "none"
    PROVE  Verdict(w) = "HEALTHY"
<1>1. \A sym : HeldHere(w, sym) = HeldThere(w, sym)
  BY HeldAlike
<1>2. ~Critical(w)
  BY <1>1 DEF Critical, AllSettled, Settled
<1>3. ~Erroneous(w)
  BY DEF Erroneous, AllSettled, Settled, Working
<1> QED
  BY <1>2, <1>3 DEF Verdict

\* So nothing comes of reconciling a platform at rest.
LEMMA ReconcileAtRest ==
    ASSUME NEW w \in Platforms, AllSettled(w), w.custom = None, w.orphanOrders = 0, w.orphanExecs = 0,
           w.timeout = "none"
    PROVE  Reconcile(w) = Judged(w, "HEALTHY", FALSE)
<1>1. Verdict(w) = "HEALTHY"
  BY ReconcileSettled
<1>2. (Verdict(w) \in {"DATA_UNAVAILABLE", "CRITICAL_DRIFT"}) = FALSE
  BY <1>1
<1> QED
  BY <1>1, <1>2 DEF Reconcile, Judged

\* A position on one side only, or an order there alone, is a critical drift.
LEMMA ReconcileDrift ==
    ASSUME NEW w \in Platforms, Critical(w), w.timeout # "positions"
    PROVE  Reconcile(w) = Judged(w, "CRITICAL_DRIFT", TRUE)
<1>1. Verdict(w) = "CRITICAL_DRIFT"
  BY DEF Verdict
<1>2. (Verdict(w) \in {"DATA_UNAVAILABLE", "CRITICAL_DRIFT"}) = TRUE
  BY <1>1
<1> QED
  BY <1>1, <1>2 DEF Reconcile, Judged

LEMMA ReconcileBlind ==
    ASSUME NEW w \in Platforms, w.timeout = "positions"
    PROVE  Reconcile(w) = Judged(w, "DATA_UNAVAILABLE", TRUE)
<1>1. Verdict(w) = "DATA_UNAVAILABLE"
  BY DEF Verdict
<1>2. (Verdict(w) \in {"DATA_UNAVAILABLE", "CRITICAL_DRIFT"}) = TRUE
  BY <1>1
<1> QED
  BY <1>1, <1>2 DEF Reconcile, Judged

-----------------------------------------------------------------------------
(* Orders that are sent *)

\* The counters of S one further.
Ticked(w, S) == [c \in Counters |-> IF c \in S THEN w.count[c] + 1 ELSE w.count[c]]

\* One more order.
Grown(w, o, S) == [w EXCEPT !.orders = Append(w.orders, o), !.count = Ticked(w, S)]

LEMMA OrderIsRecord ==
    ASSUME NEW sym \in Coins, NEW size \in Int, NEW done \in Int, NEW booked \in Int,
           NEW state \in {"CREATED", "ACKNOWLEDGED", "PARTIALLY_FILLED", "UNKNOWN", "FILLED", "REJECTED"},
           NEW there \in {"NONE", "PARTIALLY_FILLED", "FILLED"}
    PROVE  Order(sym, size, state, there, done, booked) \in Records
BY DEF Order, Records

LEMMA TickedType ==
    ASSUME NEW w \in Platforms, NEW S
    PROVE  Ticked(w, S) \in [Counters -> Int]
<1>1. \A c \in Counters : w.count[c] \in Int /\ w.count[c] + 1 \in Int
  BY DEF Platforms
<1> QED
  BY <1>1 DEF Ticked

LEMMA GrownType ==
    ASSUME NEW w \in Platforms, NEW o \in Records, NEW S
    PROVE  Grown(w, o, S) \in Platforms
<1>1. w.orders \in Seq(Records)
  BY DEF Platforms
<1> DEFINE more == Append(w.orders, o)
           tick == Ticked(w, S)
<1>2. more \in Seq(Records) /\ tick \in [Counters -> Int]
  BY <1>1, TickedType
<1>3. Grown(w, o, S) = [w EXCEPT !.orders = more, !.count = tick]
  BY DEF Grown
<1> HIDE DEF more, tick
<1> QED
  BY <1>2, <1>3 DEF Platforms

LEMMA GrownFields ==
    ASSUME NEW w \in Platforms, NEW o \in Records, NEW S
    PROVE  /\ Grown(w, o, S).orders[Len(w.orders) + 1] = o
           /\ Grown(w, o, S).asserted = w.asserted
<1> DEFINE v == Grown(w, o, S)
<1>1. v.orders = Append(w.orders, o) /\ v.asserted = w.asserted /\ w.orders \in Seq(Records)
  BY DEF Grown, Platforms
<1> HIDE DEF v
<1>2. v.orders[Len(w.orders) + 1] = o
  BY <1>1
<1> QED
  BY <1>1, <1>2 DEF v

LEMMA CountIsTick ==
    ASSUME NEW w \in Platforms, NEW c \in Counters
    PROVE  Count(w, c, 1) = [w EXCEPT !.count = Ticked(w, {c})]
<1>1. w.count \in [Counters -> Int]
  BY DEF Platforms
<1>2. [w.count EXCEPT ![c] = w.count[c] + 1] = Ticked(w, {c})
  BY <1>1 DEF Ticked
<1> QED
  BY <1>2 DEF Count

LEMMA TickTwice ==
    ASSUME NEW w \in Platforms, NEW v \in Platforms, NEW S, NEW c \in Counters, c \notin S,
           v.count = Ticked(w, S)
    PROVE  Ticked(v, {c}) = Ticked(w, S \cup {c})
BY DEF Ticked

\* What is sent while the adapter works.
LEMMA Dispatched ==
    ASSUME NEW w \in Platforms, ~w.adapterHalted, NEW sym, NEW size
    PROVE  /\ Dispatch(w, sym, size, "filled") =
                 Grown(w, Order(sym, size, "FILLED", "FILLED", size, size), {"orders", "fills"})
           /\ Dispatch(w, sym, size, "lost") =
                 [Grown(w, Order(sym, size, "UNKNOWN", "FILLED", size, 0), {"orders", "unknown"})
                    EXCEPT !.unresolved = w.unresolved \cup {Len(w.orders) + 1}]
           /\ Dispatch(w, sym, size, "503") =
                 [Grown(w, Order(sym, size, "UNKNOWN", "NONE", 0, 0), {"orders", "unknown"})
                    EXCEPT !.unresolved = w.unresolved \cup {Len(w.orders) + 1}]
           /\ Dispatch(w, sym, size, "429") =
                 Grown(w, Order(sym, size, "REJECTED", "NONE", 0, 0), {"orders", "rejections"})
<1>1. Dispatch(w, sym, size, "filled") =
                 Grown(w, Order(sym, size, "FILLED", "FILLED", size, size), {"orders", "fills"})
  BY DEF Dispatch, Grown, Order, Ticked, Platforms
<1>2. Dispatch(w, sym, size, "lost") =
                 [Grown(w, Order(sym, size, "UNKNOWN", "FILLED", size, 0), {"orders", "unknown"})
                    EXCEPT !.unresolved = w.unresolved \cup {Len(w.orders) + 1}]
  BY DEF Dispatch, Grown, Order, Ticked, Platforms, Newest
<1>3. Dispatch(w, sym, size, "503") =
                 [Grown(w, Order(sym, size, "UNKNOWN", "NONE", 0, 0), {"orders", "unknown"})
                    EXCEPT !.unresolved = w.unresolved \cup {Len(w.orders) + 1}]
  BY DEF Dispatch, Grown, Order, Ticked, Platforms, Newest
<1>4. Dispatch(w, sym, size, "429") =
                 Grown(w, Order(sym, size, "REJECTED", "NONE", 0, 0), {"orders", "rejections"})
  BY DEF Dispatch, Grown, Order, Ticked, Platforms
<1> QED
  BY <1>1, <1>2, <1>3, <1>4

LEMMA LastReplaced ==
    ASSUME NEW S, NEW s \in Seq(S), NEW o \in S, NEW p \in S
    PROVE  [Append(s, o) EXCEPT ![Len(s) + 1] = p] = Append(s, p)
<1> DEFINE old == Append(s, o)
           n == Len(s) + 1
           new == [old EXCEPT ![n] = p]
           more == Append(s, p)
<1>1. Len(s) \in Nat /\ n \in Nat /\ n \in 1 .. n
  OBVIOUS
<1>2. /\ old \in Seq(S) /\ Len(old) = n
      /\ \A i \in 1 .. Len(s) : old[i] = s[i]
  OBVIOUS
<1>3. /\ more \in Seq(S) /\ Len(more) = n /\ more[n] = p
      /\ \A i \in 1 .. Len(s) : more[i] = s[i]
  OBVIOUS
<1> HIDE DEF old, more, n
<1>4. /\ new \in Seq(S) /\ Len(new) = n
      /\ \A i \in 1 .. n : new[i] = IF i = n THEN p ELSE old[i]
  BY <1>1, <1>2, ExceptSeq
<1>5. \A i \in 1 .. n : i = n \/ i \in 1 .. Len(s)
  BY <1>1 DEF n
<1> HIDE DEF new
<1>6. \A i \in 1 .. n : new[i] = more[i]
  BY <1>1, <1>2, <1>3, <1>4, <1>5
<1>7. new = more
  BY <1>3, <1>4, <1>6, SeqEqual
<1> QED
  BY <1>7 DEF new, more, old, n

\* No order of these is uncertain.
Certain(v, orders) == [v EXCEPT !.orders = orders, !.unresolved = {}, !.adapterHalted = FALSE]

\* The newest order, which the adapter left uncertain, is recovered.
LEMMA Recovered ==
    ASSUME NEW v \in Platforms, NEW s \in Seq(Records), NEW o \in Records, v.orders = Append(s, o),
           Working(o), v.timeout # "status", v.unresolved \subseteq {Len(s) + 1}
    PROVE  Recover(v, Newest(v)) = Certain(v, Append(s, Resolved(o)))
<1> DEFINE n == Len(s) + 1
<1>1. Newest(v) = n /\ v.orders[n] = o
  BY DEF Newest
<1>2. Resolved(o) \in Records
  BY DEF Resolved, Records
<1>3. [v.orders EXCEPT ![n] = Resolved(o)] = Append(s, Resolved(o))
  BY <1>2, LastReplaced
<1>4. v.unresolved \ {n} = {}
  OBVIOUS
<1>5. Recover(v, n) =
          [v EXCEPT !.orders[n] = Resolved(@), !.unresolved = @ \ {n},
                    !.adapterHalted = @ /\ v.unresolved \ {n} # {}]
  BY <1>1 DEF Recover
<1>6. (v.adapterHalted /\ v.unresolved \ {n} # {}) = FALSE
  BY <1>4
<1> QED
  BY <1>1, <1>2, <1>3, <1>4, <1>5, <1>6 DEF Certain

\* A new process books what its store holds and asks for what it does not know.
LEMMA StartedAtRest ==
    ASSUME NEW o \in Records
    PROVE  /\ Settled(o) => StartedUp(o) = o
           /\ (o.state = "UNKNOWN" /\ o.there = "FILLED") =>
                 StartedUp(o) = [o EXCEPT !.state = "FILLED", !.stored = o.done, !.applied = o.done]
<1>1. Settled(o) => StartedUp(o) = o
  BY DEF Settled, StartedUp, Replayed, Records
<1>2. (o.state = "UNKNOWN" /\ o.there = "FILLED") =>
                 StartedUp(o) = [o EXCEPT !.state = "FILLED", !.stored = o.done, !.applied = o.done]
  BY DEF StartedUp, Replayed, Resolved, Working, Records
<1> QED
  BY <1>1, <1>2

\* A new platform with these orders.
Fresh(w, orders) ==
    [w EXCEPT !.unresolved = {}, !.adapterHalted = FALSE, !.feed = "LIVE", !.timeout = "none",
              !.orders = orders, !.status = "HEALTHY", !.halted = FALSE]

\* What a restart makes of the platform, when every order comes to rest.
LEMMA RestartSettles ==
    ASSUME NEW w \in Platforms, NEW s \in Seq(Records), w.custom = None, w.orphanOrders = 0,
           w.orphanExecs = 0, [i \in DOMAIN w.orders |-> StartedUp(w.orders[i])] = s,
           \A i \in DOMAIN s : Settled(s[i])
    PROVE  Restarted(w) = Fresh(w, s)
<1> DEFINE new == [w EXCEPT !.unresolved = {}, !.adapterHalted = FALSE, !.feed = "LIVE",
                            !.timeout = "none", !.orders = s]
<1>1. new \in Platforms
  BY DEF Platforms
<1>2. AllSettled(new) /\ new.custom = None /\ new.orphanOrders = 0 /\ new.orphanExecs = 0
      /\ new.timeout = "none"
  BY DEF AllSettled, Platforms
<1> HIDE DEF new
<1>3. Reconcile(new) = Judged(new, "HEALTHY", FALSE)
  BY <1>1, <1>2, ReconcileAtRest
<1>4. Reconcile(new) \in Platforms /\ Reconcile(new).status = "HEALTHY"
  BY <1>1, <1>2, ReconcileKeeps, ReconcileSettled
<1>5. Restarted(w) = Expect(Reconcile(new), TRUE)
  BY <1>4 DEF Restarted, new
<1>6. Expect(Reconcile(new), TRUE) = Reconcile(new)
  BY <1>4 DEF Expect, Platforms
<1> QED
  BY <1>3, <1>5, <1>6 DEF new, Fresh, Judged

\* An order at rest, counted where it belongs, keeps the platform sound.
LEMMA GrownIsSound ==
    ASSUME NEW w, Sound(w), NEW o \in Records, Settled(o), NEW S,
           \/ /\ o.state # "PARTIALLY_FILLED"
              /\ S \in {{"orders", "fills"}, {"orders", "rejections"}, {"repairs"},
                        {"orders", "unknown", "recovered"},
                        {"orders", "unknown", "restarts", "recovered"}}
           \/ o.state = "PARTIALLY_FILLED" /\ S = {"orders", "partial", "restarts"}
    PROVE  Sound(Grown(w, o, S))
<1> DEFINE v == Grown(w, o, S)
<1>1. w \in Platforms /\ Calm(w) /\ Healthy(w) /\ w.unresolved = {}
  BY DEF Sound
<1>2. v \in Platforms
  BY <1>1, GrownType
<1>3. /\ Calm(v) /\ Healthy(v) /\ v.unresolved = {} /\ v.orders = Append(w.orders, o)
      /\ v.count = Ticked(w, S)
  BY <1>1 DEF Grown, Calm, Healthy, Platforms
<1>4. \A c \in Counters : v.count[c] = IF c \in S THEN w.count[c] + 1 ELSE w.count[c]
  BY <1>3 DEF Ticked
<1>5. \A c \in Counters : w.count[c] \in Int
  BY <1>1 DEF Platforms
<1> HIDE DEF v
<1>6. /\ v.count["failures"] = w.count["failures"]
      /\ v.count["orders"] + v.count["repairs"] = w.count["orders"] + w.count["repairs"] + 1
      /\ v.count["orders"] - v.count["fills"] - v.count["rejections"] - v.count["unknown"]
              = w.count["orders"] - w.count["fills"] - w.count["rejections"] - w.count["unknown"]
                + (IF o.state = "PARTIALLY_FILLED" THEN 1 ELSE 0)
      /\ v.count["recovered"] - v.count["unknown"] = w.count["recovered"] - w.count["unknown"]
  <2>1. CASE S = {"orders", "fills"} /\ o.state # "PARTIALLY_FILLED"
    BY <1>4, <1>5, <2>1 DEF Counters
  <2>2. CASE S = {"orders", "rejections"} /\ o.state # "PARTIALLY_FILLED"
    BY <1>4, <1>5, <2>2 DEF Counters
  <2>3. CASE S = {"repairs"} /\ o.state # "PARTIALLY_FILLED"
    <3>1. /\ v.count["repairs"] = w.count["repairs"] + 1 /\ v.count["orders"] = w.count["orders"]
          /\ v.count["fills"] = w.count["fills"] /\ v.count["rejections"] = w.count["rejections"]
          /\ v.count["unknown"] = w.count["unknown"] /\ v.count["recovered"] = w.count["recovered"]
          /\ v.count["failures"] = w.count["failures"]
      BY <1>4, <2>3 DEF Counters
    <3>2. /\ w.count["repairs"] \in Int /\ w.count["orders"] \in Int /\ w.count["fills"] \in Int
          /\ w.count["rejections"] \in Int /\ w.count["unknown"] \in Int
      BY <1>5 DEF Counters
    <3> QED
      BY <3>1, <3>2, <2>3
  <2>4. CASE S = {"orders", "unknown", "recovered"} /\ o.state # "PARTIALLY_FILLED"
    BY <1>4, <1>5, <2>4 DEF Counters
  <2>5. CASE S = {"orders", "unknown", "restarts", "recovered"} /\ o.state # "PARTIALLY_FILLED"
    BY <1>4, <1>5, <2>5 DEF Counters
  <2>6. CASE S = {"orders", "partial", "restarts"} /\ o.state = "PARTIALLY_FILLED"
    BY <1>4, <1>5, <2>6 DEF Counters
  <2> QED
    BY <2>1, <2>2, <2>3, <2>4, <2>5, <2>6
<1>7. Sound(v)
  BY <1>2, <1>3, <1>6, OneMore
<1> QED
  BY <1>7 DEF v

\* Nothing was made up, so nothing is cleared.
LEMMA NothingToClear ==
    ASSUME NEW w \in Platforms, w.timeout = "none", w.custom = None, w.orphanOrders = 0,
           w.orphanExecs = 0
    PROVE  ClearFaults(w) = w
BY DEF ClearFaults, Platforms

-----------------------------------------------------------------------------
(* What each fault leaves behind *)

LEMMA FeedFaultIsSound ==
    ASSUME NEW w, Sound(w), NEW how \in {"DISCONNECTED", "STALE"}
    PROVE  FeedFault(w, how) = w
<1>1. w \in Platforms /\ w.asserted = TRUE /\ w.feed = "LIVE"
  BY DEF Sound, Calm, Platforms
<1> QED
  BY <1>1 DEF FeedFault, Expect, Platforms

\* Two counters further, one after the other.
LEMMA GrownAndCounted ==
    ASSUME NEW w \in Platforms, NEW o \in Records, NEW S, NEW c \in Counters, c \notin S
    PROVE  Count(Grown(w, o, S), c, 1) = Grown(w, o, S \cup {c})
<1> DEFINE v == Grown(w, o, S)
<1>1. v \in Platforms /\ v.count = Ticked(w, S)
  BY GrownType DEF Grown, Platforms
<1>2. Count(v, c, 1) = [v EXCEPT !.count = Ticked(v, {c})]
  BY <1>1, CountIsTick
<1>3. Ticked(v, {c}) = Ticked(w, S \cup {c})
  BY <1>1, TickTwice
<1> QED
  BY <1>2, <1>3 DEF Grown

\* An uncertain order, and what its recovery makes of it.
Uncertain(w, o, S) == [Grown(w, o, S) EXCEPT !.unresolved = {Len(w.orders) + 1}]

LEMMA UncertainIsRecovered ==
    ASSUME NEW w, NEW o \in Records, NEW S, Sound(w), Working(o)
    PROVE  /\ Uncertain(w, o, S) \in Platforms
           /\ ClearFaults(Uncertain(w, o, S)) = Uncertain(w, o, S)
           /\ Newest(Uncertain(w, o, S)) = Len(w.orders) + 1
           /\ Uncertain(w, o, S).orders[Len(w.orders) + 1] = o
           /\ Recover(Uncertain(w, o, S), Len(w.orders) + 1) = Grown(w, Resolved(o), S)
<1> DEFINE v == Uncertain(w, o, S)
           n == Len(w.orders) + 1
           p == Resolved(o)
<1>0. p \in Records
  BY DEF Resolved, Records
<1>1. /\ w \in Platforms /\ w.adapterHalted = FALSE /\ w.unresolved = {} /\ w.timeout = "none"
      /\ w.custom = None /\ w.orphanOrders = 0 /\ w.orphanExecs = 0 /\ w.asserted = TRUE
      /\ w.orders \in Seq(Records) /\ n \in Nat
  BY DEF Sound, Calm, Platforms
<1> DEFINE grown == Grown(w, o, S)
<1>2. grown \in Platforms
  BY <1>1, GrownType
<1>3. v \in Platforms /\ v = [grown EXCEPT !.unresolved = {n}]
  <2> HIDE DEF grown
  <2>1. [grown EXCEPT !.unresolved = {n}] \in Platforms
    BY <1>1, <1>2 DEF Platforms
  <2> QED
    BY <2>1 DEF Uncertain, grown
<1>4. /\ v.orders = Append(w.orders, o) /\ v.timeout = "none" /\ v.custom = None /\ v.orphanOrders = 0
      /\ v.orphanExecs = 0 /\ v.unresolved = {n}
  BY <1>1, <1>2, <1>3 DEF Grown, Platforms
<1>5. v = [w EXCEPT !.orders = Append(w.orders, o), !.count = Ticked(w, S), !.unresolved = {n}]
  BY <1>1, <1>3 DEF Grown
<1> HIDE DEF grown, v, n, p
<1>6. ClearFaults(v) = v
  BY <1>3, <1>4, NothingToClear
<1>7. Newest(v) = n /\ v.orders[n] = o
  BY <1>1, <1>4 DEF Newest, n
<1>8. Recover(v, n) =
         [v EXCEPT !.orders = Append(w.orders, p), !.unresolved = {}, !.adapterHalted = FALSE]
  <2>1. v.timeout # "status" /\ v.unresolved \subseteq {Len(w.orders) + 1}
    BY <1>4 DEF n
  <2>2. v \in Platforms /\ w.orders \in Seq(Records) /\ v.orders = Append(w.orders, o)
    BY <1>1, <1>3, <1>4
  <2>3. Recover(v, Newest(v)) = Certain(v, Append(w.orders, Resolved(o)))
    BY <2>1, <2>2, Recovered
  <2> QED
    BY <1>7, <2>3 DEF Certain, p
<1>9. Recover(v, n) = Grown(w, p, S)
  BY <1>1, <1>5, <1>8 DEF Grown, Platforms
<1> QED
  BY <1>3, <1>6, <1>7, <1>9 DEF v, n, p

\* The order whose answer is lost, and the order it turns out to be.
Lost(sym, size, outcome) ==
    IF outcome = "503" THEN Order(sym, size, "UNKNOWN", "NONE", 0, 0)
    ELSE Order(sym, size, "UNKNOWN", "FILLED", size, 0)
Found(sym, size, outcome) ==
    IF outcome = "503" THEN Order(sym, size, "REJECTED", "NONE", 0, 0)
    ELSE Order(sym, size, "FILLED", "FILLED", size, size)

Doubt == {"orders", "unknown"}

\* An execution nobody here had heard of is booked in full.
LEMMA BookedInFull ==
    ASSUME NEW sym \in Coins, NEW size \in Int, NEW state \in {"UNKNOWN", "ACKNOWLEDGED"}
    PROVE  Resolved(Order(sym, size, state, "FILLED", size, 0))
              = Order(sym, size, "FILLED", "FILLED", size, size)
<1> DEFINE lost == Order(sym, size, state, "FILLED", size, 0)
           found == Order(sym, size, "FILLED", "FILLED", size, size)
           new == [lost EXCEPT !.state = "FILLED", !.stored = lost.done, !.applied = lost.done]
<1>1. lost \in Records /\ found \in Records
  BY OrderIsRecord
<1>2. /\ lost.sym = sym /\ lost.size = size /\ lost.there = "FILLED" /\ lost.done = size
      /\ found.sym = sym /\ found.size = size /\ found.there = "FILLED" /\ found.done = size
      /\ found.state = "FILLED" /\ found.stored = size /\ found.applied = size
      /\ Working(lost)
  BY DEF Order, Working
<1> HIDE DEF lost, found
<1>3. new = found
  BY <1>1, <1>2 DEF Records
<1>4. Resolved(lost) = new
  BY <1>2 DEF Resolved
<1> QED
  BY <1>3, <1>4 DEF lost, found

LEMMA LostAndFound ==
    ASSUME NEW w, NEW sym \in Coins, NEW size \in Int, NEW outcome \in {"503", "lost"}, Sound(w)
    PROVE  /\ Lost(sym, size, outcome) \in Records /\ Found(sym, size, outcome) \in Records
           /\ Working(Lost(sym, size, outcome)) /\ Settled(Found(sym, size, outcome))
           /\ Lost(sym, size, outcome).state = "UNKNOWN"
           /\ Found(sym, size, outcome).state = (IF outcome = "503" THEN "REJECTED" ELSE "FILLED")
           /\ Resolved(Lost(sym, size, outcome)) = Found(sym, size, outcome)
           /\ Dispatch(w, sym, size, outcome) = Uncertain(w, Lost(sym, size, outcome), Doubt)
<1>1. w \in Platforms /\ ~w.adapterHalted /\ w.unresolved = {}
  BY DEF Sound, Calm
<1>2. CASE outcome = "503"
  <2>1. /\ Lost(sym, size, outcome) = Order(sym, size, "UNKNOWN", "NONE", 0, 0)
        /\ Found(sym, size, outcome) = Order(sym, size, "REJECTED", "NONE", 0, 0)
    BY <1>2 DEF Lost, Found
  <2>2. Lost(sym, size, outcome) \in Records /\ Found(sym, size, outcome) \in Records
    BY <2>1, OrderIsRecord
  <2>3. /\ Working(Lost(sym, size, outcome)) /\ Settled(Found(sym, size, outcome))
        /\ Lost(sym, size, outcome).state = "UNKNOWN"
        /\ Found(sym, size, outcome).state = "REJECTED"
    BY <2>1 DEF Order, Working, Settled
  <2>4. Resolved(Lost(sym, size, outcome)) = Found(sym, size, outcome)
    BY <2>1 DEF Order, Resolved, Working
  <2>5. Dispatch(w, sym, size, outcome) = Uncertain(w, Lost(sym, size, outcome), Doubt)
    BY <1>1, <1>2, <2>1, Dispatched DEF Uncertain, Doubt
  <2> QED
    BY <1>2, <2>2, <2>3, <2>4, <2>5
<1>3. CASE outcome = "lost"
  <2>1. /\ Lost(sym, size, outcome) = Order(sym, size, "UNKNOWN", "FILLED", size, 0)
        /\ Found(sym, size, outcome) = Order(sym, size, "FILLED", "FILLED", size, size)
    BY <1>3 DEF Lost, Found
  <2>2. Lost(sym, size, outcome) \in Records /\ Found(sym, size, outcome) \in Records
    BY <2>1, OrderIsRecord
  <2>3. /\ Working(Lost(sym, size, outcome)) /\ Settled(Found(sym, size, outcome))
        /\ Lost(sym, size, outcome).state = "UNKNOWN"
        /\ Found(sym, size, outcome).state = "FILLED"
    BY <2>1 DEF Order, Working, Settled
  <2>4. Resolved(Lost(sym, size, outcome)) = Found(sym, size, outcome)
    BY <2>1, BookedInFull
  <2>5. Dispatch(w, sym, size, outcome) = Uncertain(w, Lost(sym, size, outcome), Doubt)
    BY <1>1, <1>3, <2>1, Dispatched DEF Uncertain, Doubt
  <2> QED
    BY <1>3, <2>2, <2>3, <2>4, <2>5
<1> QED
  BY <1>2, <1>3

\* What was lost is found, recorded and counted as recovered.
LEMMA RecoveryIsSound ==
    ASSUME NEW w, NEW sym \in Coins, NEW size \in Int, NEW outcome \in {"503", "lost"}, Sound(w)
    PROVE  Sound(Count(Grown(w, Found(sym, size, outcome), Doubt), "recovered", 1))
<1>1. w \in Platforms
  BY DEF Sound
<1>2. /\ Found(sym, size, outcome) \in Records /\ Settled(Found(sym, size, outcome))
      /\ Found(sym, size, outcome).state # "PARTIALLY_FILLED"
  BY LostAndFound
<1>3. "recovered" \notin Doubt /\ Doubt \cup {"recovered"} = {"orders", "unknown", "recovered"}
      /\ "recovered" \in Counters
  BY DEF Doubt, Counters
<1>4. Count(Grown(w, Found(sym, size, outcome), Doubt), "recovered", 1)
         = Grown(w, Found(sym, size, outcome), {"orders", "unknown", "recovered"})
  BY <1>1, <1>2, <1>3, GrownAndCounted
<1> QED
  BY <1>2, <1>4, GrownIsSound

\* The first recovery, when the exchange answers.
LEMMA RecoveredAtOnce ==
    ASSUME NEW w, NEW sym \in Coins, NEW size \in Int, NEW outcome \in {"503", "lost"}, Sound(w),
           NEW sent, sent = Dispatch(w, sym, size, outcome)
    PROVE  LET n == Newest(sent)
               done == Recover(ClearFaults(sent), n)
           IN  /\ done = Grown(w, Found(sym, size, outcome), Doubt)
               /\ Expect(done, sent.orders[n].state = "UNKNOWN" /\ done.orders[n].state =
                                  (IF outcome = "503" THEN "REJECTED" ELSE "FILLED")) = done
<1> DEFINE lost == Lost(sym, size, outcome)
           found == Found(sym, size, outcome)
           n == Newest(sent)
           done == Recover(ClearFaults(sent), n)
<1>1. w \in Platforms /\ w.asserted = TRUE
  BY DEF Sound, Calm, Platforms
<1>2. /\ lost \in Records /\ found \in Records /\ Working(lost) /\ lost.state = "UNKNOWN"
      /\ found.state = (IF outcome = "503" THEN "REJECTED" ELSE "FILLED")
      /\ Resolved(lost) = found /\ sent = Uncertain(w, lost, Doubt)
  BY LostAndFound
<1> HIDE DEF lost, found
<1>3. /\ ClearFaults(Uncertain(w, lost, Doubt)) = Uncertain(w, lost, Doubt)
      /\ Newest(Uncertain(w, lost, Doubt)) = Len(w.orders) + 1
      /\ Uncertain(w, lost, Doubt).orders[Len(w.orders) + 1] = lost
      /\ Recover(Uncertain(w, lost, Doubt), Len(w.orders) + 1) = Grown(w, Resolved(lost), Doubt)
  BY <1>2, UncertainIsRecovered
<1>4. /\ Grown(w, found, Doubt).orders[Len(w.orders) + 1] = found
      /\ Grown(w, found, Doubt).asserted = TRUE
  BY <1>1, <1>2, GrownFields
<1>5. /\ n = Len(w.orders) + 1 /\ sent.orders[n] = lost /\ done = Grown(w, found, Doubt)
  BY <1>2, <1>3
<1>6. done \in Platforms /\ done.orders[n] = found /\ done.asserted = TRUE
  BY <1>1, <1>2, <1>4, <1>5, GrownType
<1> HIDE DEF n, done
<1>7. (sent.orders[n].state = "UNKNOWN"
          /\ done.orders[n].state = (IF outcome = "503" THEN "REJECTED" ELSE "FILLED")) = TRUE
  BY <1>2, <1>5, <1>6
<1>8. Expect(done, TRUE) = done
  BY <1>6 DEF Expect, Platforms
<1> QED
  BY <1>5, <1>7, <1>8 DEF n, done, found

LEMMA LostAnswersAreSound ==
    ASSUME NEW w, Sound(w)
    PROVE  Sound(NeverArrived(w)) /\ Sound(AnswerLost(w))
<1>1. Sound(NeverArrived(w))
  <2> DEFINE sent == Dispatch(w, "ETH", 2, "503")
             done == Recover(ClearFaults(sent), Newest(sent))
  <2>1. /\ done = Grown(w, Found("ETH", 2, "503"), Doubt)
        /\ Expect(done, sent.orders[Newest(sent)].state = "UNKNOWN"
                          /\ done.orders[Newest(sent)].state = "REJECTED") = done
    BY RecoveredAtOnce DEF Coins
  <2>2. Sound(Count(Grown(w, Found("ETH", 2, "503"), Doubt), "recovered", 1))
    BY RecoveryIsSound DEF Coins
  <2> QED
    BY <2>1, <2>2 DEF NeverArrived
<1>2. Sound(AnswerLost(w))
  <2> DEFINE sent == Dispatch(w, "BNB", 1, "lost")
             done == Recover(ClearFaults(sent), Newest(sent))
  <2>1. /\ done = Grown(w, Found("BNB", 1, "lost"), Doubt)
        /\ Expect(done, sent.orders[Newest(sent)].state = "UNKNOWN"
                          /\ done.orders[Newest(sent)].state = "FILLED") = done
    BY RecoveredAtOnce DEF Coins
  <2>2. Sound(Count(Grown(w, Found("BNB", 1, "lost"), Doubt), "recovered", 1))
    BY RecoveryIsSound DEF Coins
  <2> QED
    BY <2>1, <2>2 DEF AnswerLost
<1> QED
  BY <1>1, <1>2

\* The adapter that had no answer stops, and starts again when it has one.
LEMMA StatusUnansweredIsSound ==
    ASSUME NEW w, Sound(w)
    PROVE  Sound(StatusUnanswered(w))
<1> DEFINE lost == Lost("DOGE", 4, "lost")
           found == Found("DOGE", 4, "lost")
           n == Len(w.orders) + 1
           sent == Dispatch(w, "DOGE", 4, "lost")
           asked == [sent EXCEPT !.timeout = "status"]
           tried == Recover(asked, n)
           again == [tried EXCEPT !.timeout = "none"]
           done == Recover(again, n)
<1>1. /\ w \in Platforms /\ w.asserted = TRUE /\ w.timeout = "none" /\ w.unresolved = {}
      /\ w.adapterHalted = FALSE /\ w.orders \in Seq(Records)
  BY DEF Sound, Calm, Platforms
<1>2. /\ lost \in Records /\ found \in Records /\ Working(lost) /\ lost.state = "UNKNOWN"
      /\ found.state = "FILLED" /\ Resolved(lost) = found /\ sent = Uncertain(w, lost, Doubt)
  BY LostAndFound DEF Coins
<1> HIDE DEF lost, found
<1>3. /\ Uncertain(w, lost, Doubt) \in Platforms
      /\ ClearFaults(Uncertain(w, lost, Doubt)) = Uncertain(w, lost, Doubt)
      /\ Newest(Uncertain(w, lost, Doubt)) = Len(w.orders) + 1
      /\ Uncertain(w, lost, Doubt).orders[Len(w.orders) + 1] = lost
  BY <1>2, UncertainIsRecovered
<1>4. sent \in Platforms /\ ClearFaults(sent) = sent /\ Newest(sent) = n /\ sent.orders[n] = lost
  BY <1>2, <1>3
<1>5. /\ sent.orders = Append(w.orders, lost) /\ sent.unresolved = {n} /\ sent.timeout = "none"
      /\ sent = [w EXCEPT !.orders = Append(w.orders, lost), !.count = Ticked(w, Doubt),
                          !.unresolved = {n}]
  BY <1>1, <1>2 DEF Uncertain, Grown, Platforms
<1> HIDE DEF n, sent
<1>6. tried = [asked EXCEPT !.adapterHalted = TRUE]
  BY <1>2, <1>4 DEF Recover, Platforms
<1>7. tried.orders = sent.orders /\ again = [sent EXCEPT !.adapterHalted = TRUE]
  <2>1. tried.orders = sent.orders
    BY <1>4, <1>6 DEF Platforms
  <2>2. asked \in Platforms
    BY <1>4 DEF Platforms
  <2>3. again = [sent EXCEPT !.timeout = "status", !.adapterHalted = TRUE, !.timeout = "none"]
    BY <1>4, <1>6 DEF Platforms
  <2>4. again = [sent EXCEPT !.adapterHalted = TRUE]
    BY <1>4, <1>5, <2>3 DEF Platforms
  <2> QED
    BY <2>1, <2>4
<1>8. /\ again \in Platforms /\ again.orders = Append(w.orders, lost) /\ again.unresolved = {n}
      /\ again.timeout = "none" /\ Newest(again) = n
  BY <1>4, <1>5, <1>7 DEF Platforms, Newest
<1> HIDE DEF again, tried
<1>9. done = Certain(again, Append(w.orders, found))
  <2>1. again.timeout # "status" /\ again.unresolved \subseteq {Len(w.orders) + 1}
    BY <1>8 DEF n
  <2>2. Recover(again, Newest(again)) = Certain(again, Append(w.orders, Resolved(lost)))
    BY <1>1, <1>2, <1>8, <2>1, Recovered
  <2> QED
    BY <1>2, <1>8, <2>2
<1>10. done = Grown(w, found, Doubt)
  <2> DEFINE before == Append(w.orders, lost)
             after == Append(w.orders, found)
             count == Ticked(w, Doubt)
  <2>1. done = [again EXCEPT !.orders = after, !.unresolved = {}, !.adapterHalted = FALSE]
    BY <1>9 DEF Certain
  <2>2. again = [w EXCEPT !.orders = before, !.count = count, !.unresolved = {n}, !.adapterHalted = TRUE]
    BY <1>1, <1>5, <1>7 DEF Platforms
  <2> HIDE DEF before, after, count, done
  <2>3. done = [w EXCEPT !.orders = after, !.count = count]
    BY <1>1, <2>1, <2>2 DEF Platforms
  <2> QED
    BY <2>3 DEF Grown, after, count
<1>11. done \in Platforms /\ done.asserted = TRUE /\ done.orders[n] = found
  BY <1>1, <1>2, <1>10, GrownFields, GrownType DEF n
<1> HIDE DEF done
<1>12. (/\ sent.orders[n].state = "UNKNOWN" /\ tried.orders[n].state = "UNKNOWN"
        /\ done.orders[n].state = "FILLED") = TRUE
  BY <1>2, <1>4, <1>7, <1>11
<1>13. Expect(done, TRUE) = done
  BY <1>11 DEF Expect, Platforms
<1>14. StatusUnanswered(w) = Count(done, "recovered", 1)
  BY <1>4, <1>12, <1>13 DEF StatusUnanswered, sent, tried, again, done
<1>15. Sound(Count(Grown(w, found, Doubt), "recovered", 1))
  BY RecoveryIsSound DEF found, Coins
<1> QED
  BY <1>10, <1>14, <1>15

\* A refused order is closed, so there is nothing to recover.
LEMMA RateLimitedIsSound ==
    ASSUME NEW w, Sound(w)
    PROVE  Sound(RateLimited(w))
<1> DEFINE o == Order("NEAR", 2, "REJECTED", "NONE", 0, 0)
           sent == Dispatch(w, "NEAR", 2, "429")
<1>1. /\ w \in Platforms /\ w.adapterHalted = FALSE
  BY DEF Sound, Calm, Platforms
<1>2. o \in Records /\ Settled(o) /\ ~Working(o) /\ o.state # "PARTIALLY_FILLED"
  <2>1. o \in Records
    BY OrderIsRecord DEF Coins
  <2>2. Settled(o) /\ ~Working(o) /\ o.state # "PARTIALLY_FILLED"
    BY DEF Settled, Working, Order
  <2> QED
    BY <2>1, <2>2
<1>3. sent = Grown(w, o, {"orders", "rejections"})
  BY <1>1, Dispatched
<1> HIDE DEF o, sent
<1>4. Sound(sent)
  BY <1>2, <1>3, GrownIsSound
<1>5. sent.orders[Len(w.orders) + 1] = o /\ sent.orders = Append(w.orders, o)
  BY <1>1, <1>2, <1>3, GrownFields DEF Grown, Platforms
<1>6. ClearFaults(sent) = sent
  BY <1>4, NothingToClear DEF Sound, Calm
<1>7. Newest(sent) = Len(w.orders) + 1
  BY <1>1, <1>5 DEF Newest, Platforms
<1>8. Recover(sent, Newest(sent)) = sent
  BY <1>2, <1>5, <1>7 DEF Recover
<1> QED
  BY <1>4, <1>6, <1>8 DEF RateLimited, sent

\* What a new process makes of orders at rest and of one more.
LEMMA StartedOrders ==
    ASSUME NEW s \in Seq(Records), \A i \in DOMAIN s : Settled(s[i])
    PROVE  /\ [i \in DOMAIN s |-> StartedUp(s[i])] = s
           /\ \A x, y \in Records : StartedUp(x) = y =>
                 [i \in DOMAIN Append(s, x) |-> StartedUp(Append(s, x)[i])] = Append(s, y)
<1> DEFINE n == Len(s)
<1>1. n \in Nat /\ s \in [1 .. n -> Records] /\ DOMAIN s = 1 .. n
  BY LenProperties
<1>2. \A i \in 1 .. n : StartedUp(s[i]) = s[i]
  BY <1>1, StartedAtRest
<1>3. [i \in DOMAIN s |-> StartedUp(s[i])] = s
  BY <1>1, <1>2
<1>4. ASSUME NEW x \in Records, NEW y \in Records, StartedUp(x) = y
      PROVE  [i \in DOMAIN Append(s, x) |-> StartedUp(Append(s, x)[i])] = Append(s, y)
  <2> DEFINE old == Append(s, x)
             new == Append(s, y)
             up == [i \in DOMAIN old |-> StartedUp(old[i])]
  <2>1. /\ old \in Seq(Records) /\ Len(old) = n + 1 /\ old[n + 1] = x
        /\ \A i \in 1 .. n : old[i] = s[i]
    OBVIOUS
  <2>2. /\ new \in Seq(Records) /\ Len(new) = n + 1 /\ new[n + 1] = y
        /\ \A i \in 1 .. n : new[i] = s[i]
    OBVIOUS
  <2> HIDE DEF old, new, n
  <2>3. DOMAIN old = 1 .. n + 1 /\ new \in [1 .. n + 1 -> Records]
    BY <2>1, <2>2, LenProperties
  <2>4. \A i \in 1 .. n + 1 : i = n + 1 \/ i \in 1 .. n
    BY <1>1
  <2>5. \A i \in 1 .. n + 1 : StartedUp(old[i]) = new[i]
    BY <1>2, <1>4, <2>1, <2>2, <2>4
  <2>6. up = [i \in 1 .. n + 1 |-> new[i]]
    BY <2>3, <2>5
  <2>7. up = new
    BY <2>3, <2>6
  <2> QED
    BY <2>7 DEF old, new
<1> QED
  BY <1>3, <1>4

\* A platform at rest comes back as it was.
LEMMA RestartChangesNothing ==
    ASSUME NEW v, Sound(v)
    PROVE  Restarted(v) = v
<1>1. /\ v \in Platforms /\ v.unresolved = {} /\ v.adapterHalted = FALSE /\ v.feed = "LIVE"
      /\ v.timeout = "none" /\ v.status = "HEALTHY" /\ v.halted = FALSE
      /\ v.custom = None /\ v.orphanOrders = 0 /\ v.orphanExecs = 0
  BY DEF Sound, Calm, Healthy, Platforms
<1>2. v.orders \in Seq(Records) /\ \A i \in DOMAIN v.orders : Settled(v.orders[i])
  BY DEF Sound, Platforms, AllSettled
<1>3. [i \in DOMAIN v.orders |-> StartedUp(v.orders[i])] = v.orders
  BY <1>2, StartedOrders
<1>4. Restarted(v) = Fresh(v, v.orders)
  BY <1>1, <1>2, <1>3, RestartSettles
<1>5. Fresh(v, v.orders) = v
  BY <1>1 DEF Fresh, Platforms
<1> QED
  BY <1>4, <1>5

LEMMA RestartIsSound ==
    ASSUME NEW w, Sound(w)
    PROVE  Sound(Restarted(Count(w, "restarts", 1)))
<1> DEFINE v == Count(w, "restarts", 1)
<1>1. w \in Platforms /\ Calm(w) /\ Healthy(w) /\ w.unresolved = {}
  BY DEF Sound
<1>2. "restarts" \in Counters
  BY DEF Counters
<1>3. v \in Platforms /\ \A c \in Counters \ {"restarts"} : v.count[c] = w.count[c]
  BY <1>1, <1>2, Counted
<1>4. v = [w EXCEPT !.count = v.count]
  BY <1>1, <1>2, Counted
<1> HIDE DEF v
<1>5. v.orders = w.orders /\ Calm(v) /\ Healthy(v) /\ v.unresolved = {}
  BY <1>1, <1>4 DEF Calm, Healthy, Platforms
<1>6. Sound(v)
  BY <1>3, <1>5, SoundSame
<1> QED
  BY <1>6, RestartChangesNothing DEF v

\* A crash while an order is uncertain: the new process finds it at the exchange.
LEMMA CrashUnresolvedIsSound ==
    ASSUME NEW w, Sound(w)
    PROVE  Sound(CrashUnresolved(w))
<1> DEFINE lost == Lost("LINK", 2, "lost")
           found == Found("LINK", 2, "lost")
           n == Len(w.orders) + 1
           sent == Dispatch(w, "LINK", 2, "lost")
           crashed == Count(sent, "restarts", 1)
           done == Restarted(crashed)
           Crash == {"orders", "unknown", "restarts"}
<1>1. /\ w \in Platforms /\ w.asserted = TRUE /\ w.timeout = "none" /\ w.unresolved = {}
      /\ w.adapterHalted = FALSE /\ w.orders \in Seq(Records) /\ w.custom = None
      /\ w.orphanOrders = 0 /\ w.orphanExecs = 0 /\ w.feed = "LIVE" /\ w.status = "HEALTHY"
      /\ w.halted = FALSE
  BY DEF Sound, Calm, Healthy, Platforms
<1>2. /\ lost \in Records /\ found \in Records /\ Working(lost) /\ lost.state = "UNKNOWN"
      /\ found.state = "FILLED" /\ Settled(found) /\ sent = Uncertain(w, lost, Doubt)
  BY LostAndFound DEF Coins
<1>3. StartedUp(lost) = found
  <2>1. lost.there = "FILLED" /\ Resolved(Replayed(lost)) = Resolved(lost)
    BY DEF Lost, Order, Replayed
  <2> QED
    BY <1>2, <2>1, LostAndFound DEF StartedUp, Coins
<1> HIDE DEF lost, found
<1>4. /\ Uncertain(w, lost, Doubt) \in Platforms
      /\ ClearFaults(Uncertain(w, lost, Doubt)) = Uncertain(w, lost, Doubt)
      /\ Newest(Uncertain(w, lost, Doubt)) = Len(w.orders) + 1
      /\ Uncertain(w, lost, Doubt).orders[Len(w.orders) + 1] = lost
  BY <1>2, UncertainIsRecovered
<1>5. sent \in Platforms /\ ClearFaults(sent) = sent /\ Newest(sent) = n /\ sent.orders[n] = lost
  BY <1>2, <1>4
<1> DEFINE before == Append(w.orders, lost)
           after == Append(w.orders, found)
           doubted == Ticked(w, Doubt)
           struck == Ticked(w, Crash)
<1>6. sent = [w EXCEPT !.orders = before, !.count = doubted, !.unresolved = {n}]
  BY <1>2 DEF Uncertain, Grown
<1> HIDE DEF before, after, doubted, struck, sent, n
<1>7. sent.count = doubted
  BY <1>1, <1>6 DEF Platforms
<1>8. crashed \in Platforms /\ crashed = [sent EXCEPT !.count = struck]
  <2>1. "restarts" \in Counters /\ "restarts" \notin Doubt /\ Doubt \cup {"restarts"} = Crash
    BY DEF Counters, Doubt
  <2>2. crashed \in Platforms /\ crashed = [sent EXCEPT !.count = Ticked(sent, {"restarts"})]
    BY <1>5, <2>1, Counted, CountIsTick
  <2>3. Ticked(sent, {"restarts"}) = struck
    BY <1>1, <1>5, <1>7, <2>1, TickTwice DEF doubted, struck
  <2> QED
    BY <2>2, <2>3
<1> HIDE DEF crashed
<1>9. crashed = [w EXCEPT !.orders = before, !.count = struck, !.unresolved = {n}]
  BY <1>1, <1>6, <1>8 DEF Platforms
<1>10. /\ crashed.orders = before /\ crashed.custom = None /\ crashed.orphanOrders = 0
       /\ crashed.orphanExecs = 0
  BY <1>1, <1>9 DEF Platforms
<1>11. [i \in DOMAIN crashed.orders |-> StartedUp(crashed.orders[i])] = after
  <2>1. \A i \in DOMAIN w.orders : Settled(w.orders[i])
    BY DEF Sound, AllSettled
  <2> QED
    BY <1>1, <1>2, <1>3, <1>10, <2>1, StartedOrders DEF before, after
<1>12. after \in Seq(Records) /\ \A i \in DOMAIN after : Settled(after[i])
  <2>1. \A i \in DOMAIN w.orders : Settled(w.orders[i])
    BY DEF Sound, AllSettled
  <2> QED
    BY <1>1, <1>2, <2>1 DEF after
<1>13. done = Fresh(crashed, after)
  BY <1>8, <1>10, <1>11, <1>12, RestartSettles
<1> HIDE DEF done, Crash
<1>14. done = [w EXCEPT !.orders = after, !.count = struck]
  BY <1>1, <1>9, <1>13 DEF Platforms, Fresh
<1>15. done = Grown(w, found, Crash)
  BY <1>14 DEF Grown, after, struck
<1>16. done \in Platforms /\ done.asserted = TRUE /\ done.orders[n] = found
  BY <1>1, <1>2, <1>15, GrownFields, GrownType DEF n
<1>17. (sent.orders[n].state = "UNKNOWN" /\ done.orders[n].state = "FILLED") = TRUE
  BY <1>2, <1>5, <1>16
<1>18. Expect(done, TRUE) = done
  BY <1>16 DEF Expect, Platforms
<1>19. CrashUnresolved(w) = Count(done, "recovered", 1)
  BY <1>5, <1>17, <1>18 DEF CrashUnresolved, sent, crashed, done
<1>20. Count(Grown(w, found, Crash), "recovered", 1)
          = Grown(w, found, {"orders", "unknown", "restarts", "recovered"})
  <2>1. "recovered" \notin Crash /\ "recovered" \in Counters
        /\ Crash \cup {"recovered"} = {"orders", "unknown", "restarts", "recovered"}
    BY DEF Crash, Counters
  <2> QED
    BY <1>1, <1>2, <2>1, GrownAndCounted
<1>21. Sound(Grown(w, found, {"orders", "unknown", "restarts", "recovered"}))
  BY <1>2, GrownIsSound
<1> QED
  BY <1>15, <1>19, <1>20, <1>21

LEMMA PlantedIsGrown ==
    ASSUME NEW w \in Platforms, NEW o \in Records
    PROVE  Planted(w, o) = Grown(w, o, {"orders"})
<1> DEFINE more == Append(w.orders, o)
           v == [w EXCEPT !.orders = more]
<1>1. more \in Seq(Records) /\ "orders" \in Counters
  BY DEF Platforms, Counters
<1>2. v \in Platforms /\ v.count = w.count
  <2> HIDE DEF more
  <2> QED
    BY <1>1 DEF Platforms
<1>3. Count(v, "orders", 1) = [v EXCEPT !.count = Ticked(v, {"orders"})]
  BY <1>1, <1>2, CountIsTick
<1>4. Ticked(v, {"orders"}) = Ticked(w, {"orders"})
  BY <1>2 DEF Ticked
<1> QED
  BY <1>3, <1>4 DEF Planted, Grown

\* Four executions of one order.
LEMMA FilledInPartsIsSound ==
    ASSUME NEW w, Sound(w)
    PROVE  Sound(FilledInParts(w))
<1> DEFINE o == Order("SOL", 4, "FILLED", "FILLED", 4, 4)
           g == Grown(w, o, {"orders"})
           h == Count(g, "partial", 4)
           v == Count(h, "fills", 1)
<1>1. w \in Platforms /\ Calm(w) /\ Healthy(w) /\ w.unresolved = {}
  BY DEF Sound
<1>2. o \in Records /\ Settled(o) /\ o.state # "PARTIALLY_FILLED"
  <2>1. o \in Records
    BY OrderIsRecord DEF Coins
  <2> QED
    BY <2>1 DEF Settled, Order
<1> HIDE DEF o
<1>3. FilledInParts(w) = v
  BY <1>1, <1>2, PlantedIsGrown DEF FilledInParts, o
<1>4. g \in Platforms /\ g.count = Ticked(w, {"orders"}) /\ g.orders = Append(w.orders, o)
      /\ Calm(g) /\ Healthy(g) /\ g.unresolved = {}
  BY <1>1, <1>2, GrownType DEF Grown, Platforms, Calm, Healthy
<1>5. "partial" \in Counters /\ "fills" \in Counters /\ 4 \in Int /\ 1 \in Int
  BY DEF Counters
<1> HIDE DEF g, h, v
<1>6. /\ h \in Platforms /\ h = [g EXCEPT !.count = h.count]
      /\ \A c \in Counters \ {"partial"} : h.count[c] = g.count[c]
  BY <1>4, <1>5, Counted DEF h
<1>7. /\ v \in Platforms /\ v = [h EXCEPT !.count = v.count] /\ v.count["fills"] = h.count["fills"] + 1
      /\ \A c \in Counters \ {"fills"} : v.count[c] = h.count[c]
  BY <1>5, <1>6, Counted DEF v
<1>8. v = [g EXCEPT !.count = v.count]
  BY <1>6, <1>7 DEF Platforms
<1>9. v.orders = Append(w.orders, o) /\ Calm(v) /\ Healthy(v) /\ v.unresolved = {}
  BY <1>4, <1>8 DEF Platforms, Calm, Healthy
<1>10. /\ v.count["failures"] = w.count["failures"] /\ v.count["repairs"] = w.count["repairs"]
       /\ v.count["orders"] = w.count["orders"] + 1 /\ v.count["fills"] = w.count["fills"] + 1
       /\ v.count["rejections"] = w.count["rejections"] /\ v.count["unknown"] = w.count["unknown"]
       /\ v.count["recovered"] = w.count["recovered"]
  <2>1. \A c \in Counters : g.count[c] = IF c = "orders" THEN w.count[c] + 1 ELSE w.count[c]
    BY <1>4 DEF Ticked
  <2> QED
    BY <1>6, <1>7, <2>1 DEF Counters
<1>11. \A c \in Counters : w.count[c] \in Int
  BY <1>1 DEF Platforms
<1>12. /\ w.count["failures"] \in Int /\ w.count["repairs"] \in Int /\ w.count["orders"] \in Int
       /\ w.count["fills"] \in Int /\ w.count["rejections"] \in Int /\ w.count["unknown"] \in Int
       /\ w.count["recovered"] \in Int
  BY <1>11 DEF Counters
<1>13. /\ v.count["failures"] = w.count["failures"]
       /\ v.count["orders"] + v.count["repairs"] = w.count["orders"] + w.count["repairs"] + 1
       /\ v.count["orders"] - v.count["fills"] - v.count["rejections"] - v.count["unknown"]
              = w.count["orders"] - w.count["fills"] - w.count["rejections"] - w.count["unknown"]
                + (IF o.state = "PARTIALLY_FILLED" THEN 1 ELSE 0)
       /\ v.count["recovered"] - v.count["unknown"] = w.count["recovered"] - w.count["unknown"]
  <2>1. (IF o.state = "PARTIALLY_FILLED" THEN 1 ELSE 0) = 0
    BY <1>2
  <2>2. v.count["orders"] + v.count["repairs"] = w.count["orders"] + w.count["repairs"] + 1
    BY <1>10, <1>12
  <2>3. v.count["orders"] - v.count["fills"] - v.count["rejections"] - v.count["unknown"]
              = w.count["orders"] - w.count["fills"] - w.count["rejections"] - w.count["unknown"] + 0
    BY <1>10, <1>12
  <2> QED
    BY <1>10, <1>12, <2>1, <2>2, <2>3
<1>14. Sound(v)
  BY <1>2, <1>7, <1>9, <1>13, OneMore
<1> QED
  BY <1>3, <1>14

\* The exchange filled what was to be cancelled.
LEMMA CancelledTooLateIsSound ==
    ASSUME NEW w, Sound(w)
    PROVE  Sound(CancelledTooLate(w))
<1> DEFINE lost == Order("ADA", 2, "ACKNOWLEDGED", "FILLED", 2, 0)
           found == Order("ADA", 2, "FILLED", "FILLED", 2, 2)
           n == Len(w.orders) + 1
           placed == Planted(w, lost)
           done == Recover(placed, Newest(placed))
<1>1. /\ w \in Platforms /\ w.asserted = TRUE /\ w.timeout = "none" /\ w.unresolved = {}
      /\ w.adapterHalted = FALSE /\ w.orders \in Seq(Records)
  BY DEF Sound, Calm, Platforms
<1>2. lost \in Records /\ found \in Records
  BY OrderIsRecord DEF Coins
<1>3. /\ Working(lost) /\ Settled(found) /\ found.state = "FILLED"
      /\ lost.there = "FILLED" /\ lost.done = 2
  BY DEF Working, Settled, Order
<1>4. Resolved(lost) = found
  BY BookedInFull DEF Coins
<1> HIDE DEF lost, found
<1>5. placed = Grown(w, lost, {"orders"}) /\ placed \in Platforms
  BY <1>1, <1>2, PlantedIsGrown, GrownType
<1>6. /\ placed.orders = Append(w.orders, lost) /\ placed.unresolved = {} /\ placed.timeout = "none"
  BY <1>1, <1>5 DEF Grown, Platforms
<1> HIDE DEF placed
<1>7. done = Certain(placed, Append(w.orders, found))
  <2>1. placed.timeout # "status" /\ placed.unresolved \subseteq {Len(w.orders) + 1}
    BY <1>6
  <2>2. Recover(placed, Newest(placed)) = Certain(placed, Append(w.orders, Resolved(lost)))
    BY <1>1, <1>2, <1>3, <1>5, <1>6, <2>1, Recovered
  <2> QED
    BY <1>4, <2>2
<1> HIDE DEF done
<1>8. done = Grown(w, found, {"orders"})
  <2> DEFINE before == Append(w.orders, lost)
             after == Append(w.orders, found)
             count == Ticked(w, {"orders"})
  <2>1. placed = [w EXCEPT !.orders = before, !.count = count]
    BY <1>5 DEF Grown
  <2>2. done = [placed EXCEPT !.orders = after, !.unresolved = {}, !.adapterHalted = FALSE]
    BY <1>7 DEF Certain
  <2> HIDE DEF before, after, count
  <2>3. done = [w EXCEPT !.orders = after, !.count = count]
    BY <1>1, <2>1, <2>2 DEF Platforms
  <2> QED
    BY <2>3 DEF Grown, after, count
<1>9. done \in Platforms /\ done.asserted = TRUE /\ done.orders[n] = found
  BY <1>1, <1>2, <1>8, GrownFields, GrownType
<1>10. Newest(done) = n
  <2>1. done.orders = Append(w.orders, found)
    BY <1>1, <1>8 DEF Grown, Platforms
  <2> QED
    BY <1>1, <1>2, <2>1 DEF Newest
<1>11. (done.orders[Newest(done)].state = "FILLED") = TRUE
  BY <1>3, <1>9, <1>10
<1>12. Expect(done, TRUE) = done
  BY <1>9 DEF Expect, Platforms
<1>13. CancelledTooLate(w) = Count(done, "fills", 1)
  BY <1>11, <1>12 DEF CancelledTooLate, placed, done, lost
<1>14. Count(Grown(w, found, {"orders"}), "fills", 1) = Grown(w, found, {"orders", "fills"})
  <2> DEFINE one == {"orders"}
  <2>1. "fills" \notin one /\ "fills" \in Counters /\ one \cup {"fills"} = {"orders", "fills"}
    BY DEF Counters
  <2> HIDE DEF one
  <2>2. Count(Grown(w, found, one), "fills", 1) = Grown(w, found, one \cup {"fills"})
    BY <1>1, <1>2, <2>1, GrownAndCounted
  <2> QED
    BY <2>1, <2>2 DEF one
<1>15. Sound(Grown(w, found, {"orders", "fills"}))
  BY <1>2, <1>3, GrownIsSound
<1> QED
  BY <1>8, <1>13, <1>14, <1>15

\* One half is filled on both sides, and stays so.
LEMMA RestartHalfFilledIsSound ==
    ASSUME NEW w, Sound(w)
    PROVE  Sound(RestartHalfFilled(w))
<1> DEFINE o == Order("DOT", 4, "PARTIALLY_FILLED", "PARTIALLY_FILLED", 2, 2)
           n == Len(w.orders) + 1
           g == Grown(w, o, {"orders", "partial", "restarts"})
<1>1. w \in Platforms /\ w.asserted = TRUE /\ w.orders \in Seq(Records)
  BY DEF Sound, Calm, Platforms
<1>2. o \in Records /\ Settled(o) /\ o.state = "PARTIALLY_FILLED" /\ o.stored = 2
  <2>1. o \in Records
    BY OrderIsRecord DEF Coins
  <2> QED
    BY <2>1 DEF Settled, Order
<1> HIDE DEF o
<1>3. Count(Count(Planted(w, o), "partial", 1), "restarts", 1) = g
  <2> DEFINE one == {"orders"}
             two == {"orders", "partial"}
  <2>1. /\ "partial" \in Counters /\ "restarts" \in Counters /\ "partial" \notin one
        /\ one \cup {"partial"} = two /\ "restarts" \notin two
        /\ two \cup {"restarts"} = {"orders", "partial", "restarts"}
    BY DEF Counters
  <2>2. Planted(w, o) = Grown(w, o, one)
    BY <1>1, <1>2, PlantedIsGrown
  <2> HIDE DEF one, two
  <2>3. Count(Grown(w, o, one), "partial", 1) = Grown(w, o, one \cup {"partial"})
    BY <1>1, <1>2, <2>1, GrownAndCounted
  <2>4. Count(Grown(w, o, two), "restarts", 1) = Grown(w, o, two \cup {"restarts"})
    BY <1>1, <1>2, <2>1, GrownAndCounted
  <2> QED
    BY <2>1, <2>2, <2>3, <2>4
<1>4. Sound(g)
  BY <1>2, GrownIsSound
<1>5. Restarted(g) = g
  BY <1>4, RestartChangesNothing
<1>6. g.orders[n] = o /\ g.asserted = TRUE /\ Newest(g) = n /\ g \in Platforms
  <2>1. g.orders = Append(w.orders, o)
    BY <1>1 DEF Grown, Platforms
  <2>2. Newest(g) = n
    BY <1>1, <1>2, <2>1 DEF Newest
  <2> QED
    BY <1>1, <1>2, <2>2, GrownFields, GrownType
<1> HIDE DEF g
<1>7. (/\ g.orders[Newest(g)].state = "PARTIALLY_FILLED" /\ g.orders[Newest(g)].stored = 2) = TRUE
  BY <1>2, <1>6
<1>8. Expect(g, TRUE) = g
  BY <1>6 DEF Expect, Platforms
<1>9. RestartHalfFilled(w) = g
  BY <1>3, <1>5, <1>7, <1>8 DEF RestartHalfFilled, o
<1> QED
  BY <1>4, <1>9

\* The portfolio knows the execution it is told of again.
LEMMA ExecutedTwiceIsSound ==
    ASSUME NEW w, Sound(w)
    PROVE  Sound(ExecutedTwice(w))
<1> DEFINE o == Order("LTC", 4, "FILLED", "FILLED", 4, 4)
           n == Len(w.orders) + 1
           sent == Dispatch(w, "LTC", 4, "filled")
<1>1. /\ w \in Platforms /\ w.asserted = TRUE /\ w.orders \in Seq(Records)
      /\ w.adapterHalted = FALSE
  BY DEF Sound, Calm, Platforms
<1>2. /\ o \in Records /\ Settled(o) /\ o.state = "FILLED" /\ o.applied = 4
  <2>1. o \in Records
    BY OrderIsRecord DEF Coins
  <2> QED
    BY <2>1 DEF Settled, Order
<1>3. sent = Grown(w, o, {"orders", "fills"})
  BY <1>1, Dispatched
<1> HIDE DEF o, sent
<1>4. Sound(sent)
  BY <1>2, <1>3, GrownIsSound
<1>5. sent.orders[n] = o /\ sent.asserted = TRUE /\ Newest(sent) = n /\ sent \in Platforms
  <2>1. sent.orders = Append(w.orders, o)
    BY <1>1, <1>3 DEF Grown, Platforms
  <2>2. Newest(sent) = n
    BY <1>1, <1>2, <2>1 DEF Newest
  <2> QED
    BY <1>1, <1>2, <1>3, <2>2, GrownFields, GrownType
<1>6. (sent.orders[Newest(sent)].state = "FILLED" /\ sent.orders[Newest(sent)].applied = 4) = TRUE
  BY <1>2, <1>5
<1>7. Expect(sent, TRUE) = sent
  BY <1>5 DEF Expect, Platforms
<1> QED
  BY <1>4, <1>6, <1>7 DEF ExecutedTwice, sent

LEMMA JudgedHealthyAgain ==
    ASSUME NEW w \in Platforms, w.status = "HEALTHY", w.halted = FALSE
    PROVE  /\ Judged(w, "HEALTHY", FALSE) = w
           /\ \A result, stop : Judged(Judged(w, result, stop), "HEALTHY", FALSE) = w
<1>1. Judged(w, "HEALTHY", FALSE) = w
  BY DEF Judged, Platforms
<1>2. ASSUME NEW result, NEW stop
      PROVE  Judged(Judged(w, result, stop), "HEALTHY", FALSE) = w
  BY DEF Judged, Platforms
<1> QED
  BY <1>1, <1>2

\* A platform at rest is reconciled to itself, as often as it likes.
LEMMA ReconcileChangesNothing ==
    ASSUME NEW v, Sound(v)
    PROVE  Reconcile(v) = v
<1>1. /\ v \in Platforms /\ AllSettled(v) /\ v.custom = None /\ v.orphanOrders = 0
      /\ v.orphanExecs = 0 /\ v.timeout = "none" /\ v.status = "HEALTHY" /\ v.halted = FALSE
  BY DEF Sound, Calm, Healthy, Platforms
<1>2. Reconcile(v) = Judged(v, "HEALTHY", FALSE)
  BY <1>1, ReconcileAtRest
<1> QED
  BY <1>1, <1>2, JudgedHealthyAgain

LEMMA SettleIsSound ==
    ASSUME NEW w, Sound(w)
    PROVE  Sound(Settle(w))
<1>1. w \in Platforms /\ w.asserted = TRUE /\ (w.status = "HEALTHY") = TRUE
  BY DEF Sound, Calm, Healthy, Platforms
<1>2. Expect(w, TRUE) = w
  BY <1>1 DEF Expect, Platforms
<1> QED
  BY <1>1, <1>2, ReconcileChangesNothing DEF Settle

\* An order of the exchange alone is a drift, and none when it is gone.
LEMMA OrderAppearsIsSound ==
    ASSUME NEW w, Sound(w)
    PROVE  Sound(OrderAppears(w))
<1> DEFINE there == [w EXCEPT !.orphanOrders = 1]
           seen == Reconcile(there)
           gone == [seen EXCEPT !.orphanOrders = 0]
<1>1. /\ w \in Platforms /\ AllSettled(w) /\ w.custom = None /\ w.orphanOrders = 0
      /\ w.orphanExecs = 0 /\ w.timeout = "none" /\ w.status = "HEALTHY" /\ w.halted = FALSE
      /\ w.asserted = TRUE
  BY DEF Sound, Calm, Healthy, Platforms
<1>2. there \in Platforms /\ there.orphanOrders = 1 /\ there.timeout = "none"
  BY <1>1 DEF Platforms
<1>3. seen = Judged(there, "CRITICAL_DRIFT", TRUE)
  <2> HIDE DEF there
  <2>1. Critical(there)
    BY <1>2 DEF Critical
  <2> QED
    BY <1>2, <2>1, ReconcileDrift
<1>4. seen \in Platforms /\ seen.status = "CRITICAL_DRIFT" /\ seen.asserted = TRUE
  <2>1. seen \in Platforms
    BY <1>2, ReconcileKeeps
  <2> QED
    BY <1>1, <1>3, <2>1 DEF Judged, Platforms
<1>5. gone = Judged(w, "CRITICAL_DRIFT", TRUE)
  BY <1>1, <1>3 DEF Judged, Platforms
<1>6. /\ gone \in Platforms /\ AllSettled(gone) /\ gone.custom = None /\ gone.orphanOrders = 0
      /\ gone.orphanExecs = 0 /\ gone.timeout = "none"
  BY <1>1, <1>5 DEF Platforms, AllSettled, Judged
<1> HIDE DEF seen, gone
<1>7. Reconcile(gone) = Judged(gone, "HEALTHY", FALSE)
  BY <1>6, ReconcileAtRest
<1>8. Reconcile(gone) = w
  BY <1>1, <1>5, <1>7, JudgedHealthyAgain
<1>9. Expect(seen, seen.status = "CRITICAL_DRIFT") = seen
  <2>1. (seen.status = "CRITICAL_DRIFT") = TRUE
    BY <1>4
  <2>2. Expect(seen, TRUE) = seen
    BY <1>4 DEF Expect, Platforms
  <2> QED
    BY <2>1, <2>2
<1>10. w.orphanOrders + 1 = 1
  BY <1>1
<1> QED
  BY <1>8, <1>9, <1>10 DEF OrderAppears, seen, gone

\* Without the positions there is no verdict; the faults cleared, there is.
LEMMA QueriesFailIsSound ==
    ASSUME NEW w, Sound(w)
    PROVE  Sound(QueriesFail(w))
<1> DEFINE mute == [w EXCEPT !.timeout = "positions"]
           blind == Reconcile(mute)
           clear == ClearFaults(blind)
<1>1. /\ w \in Platforms /\ AllSettled(w) /\ w.custom = None /\ w.orphanOrders = 0
      /\ w.orphanExecs = 0 /\ w.timeout = "none" /\ w.status = "HEALTHY" /\ w.halted = FALSE
      /\ w.asserted = TRUE
  BY DEF Sound, Calm, Healthy, Platforms
<1>2. mute \in Platforms /\ mute.timeout = "positions"
  BY <1>1 DEF Platforms
<1>3. blind = Judged(mute, "DATA_UNAVAILABLE", TRUE)
  <2> HIDE DEF mute
  <2> QED
    BY <1>2, ReconcileBlind
<1>4. blind.status = "DATA_UNAVAILABLE" /\ blind.halted = TRUE
  BY <1>1, <1>3 DEF Judged, Platforms
<1>5. clear = Judged(w, "DATA_UNAVAILABLE", TRUE)
  BY <1>1, <1>3 DEF Judged, Platforms, ClearFaults
<1>6. /\ clear \in Platforms /\ AllSettled(clear) /\ clear.custom = None /\ clear.orphanOrders = 0
      /\ clear.orphanExecs = 0 /\ clear.timeout = "none"
  BY <1>1, <1>5 DEF Platforms, AllSettled, Judged
<1> HIDE DEF blind, clear
<1>7. Reconcile(clear) = Judged(clear, "HEALTHY", FALSE)
  BY <1>6, ReconcileAtRest
<1>8. Reconcile(clear) = w
  BY <1>1, <1>5, <1>7, JudgedHealthyAgain
<1>9. (/\ blind.status = "DATA_UNAVAILABLE" /\ blind.halted
       /\ w.status = "HEALTHY" /\ ~w.halted) = TRUE
  BY <1>1, <1>4
<1>10. Expect(w, TRUE) = w
  BY <1>1 DEF Expect, Platforms
<1> QED
  BY <1>8, <1>9, <1>10 DEF QueriesFail, blind, clear

\* The feed is down, and the reconciliation has nothing against it.
LEMMA BothFailIsSound ==
    ASSUME NEW w, Sound(w)
    PROVE  Sound(BothFail(w))
<1> DEFINE dark == [w EXCEPT !.feed = "DISCONNECTED"]
           hurt == Reconcile(dark)
           back == [ClearFaults(hurt) EXCEPT !.feed = "LIVE"]
<1>1. /\ w \in Platforms /\ AllSettled(w) /\ w.custom = None /\ w.orphanOrders = 0
      /\ w.orphanExecs = 0 /\ w.timeout = "none" /\ w.status = "HEALTHY" /\ w.halted = FALSE
      /\ w.asserted = TRUE /\ w.feed = "LIVE"
  BY DEF Sound, Calm, Healthy, Platforms
<1>2. /\ dark \in Platforms /\ AllSettled(dark) /\ dark.custom = None /\ dark.orphanOrders = 0
      /\ dark.orphanExecs = 0 /\ dark.timeout = "none"
  BY <1>1 DEF Platforms, AllSettled
<1>3. hurt = Judged(dark, "HEALTHY", FALSE)
  <2> HIDE DEF dark
  <2> QED
    BY <1>2, ReconcileAtRest
<1>4. hurt = dark
  BY <1>1, <1>3 DEF Judged, Platforms
<1>5. hurt.feed = "DISCONNECTED" /\ ClearFaults(hurt) = hurt
  BY <1>1, <1>2, <1>4, NothingToClear DEF Platforms
<1>6. back = w
  BY <1>1, <1>4, <1>5 DEF Platforms
<1> HIDE DEF hurt, back
<1>7. (hurt.feed # "LIVE" /\ w.status = "HEALTHY") = TRUE
  BY <1>1, <1>5
<1>8. Expect(w, TRUE) = w
  BY <1>1 DEF Expect, Platforms
<1> QED
  BY <1>6, <1>7, <1>8, ReconcileChangesNothing DEF BothFail, hurt, back

\* A made-up position is a drift; an execution and an order repair it.
LEMMA PositionDriftsIsSound ==
    ASSUME NEW w, Sound(w)
    PROVE  Sound(PositionDrifts(w))
<1> DEFINE size == HeldThere(w, "XRP")
           made == [sym |-> "XRP", size |-> size + 4]
           odd == [w EXCEPT !.custom = made]
           drifted == Reconcile(odd)
           orphaned == [drifted EXCEPT !.orphanExecs = @ + 1]
           o == Order("XRP", 4, "FILLED", "FILLED", 4, 4)
           more == Append(w.orders, o)
           fixed == [orphaned EXCEPT !.orders = Append(@, o)]
           checked == Reconcile(fixed)
           repaired == Count(checked, "repairs", 1)
           last == [repaired EXCEPT !.custom = None, !.orphanExecs = 0]
           tick == Ticked(w, {"repairs"})
           grown == Grown(w, o, {"repairs"})
<1>1. /\ w \in Platforms /\ AllSettled(w) /\ w.custom = None /\ w.orphanOrders = 0
      /\ w.orphanExecs = 0 /\ w.timeout = "none" /\ w.status = "HEALTHY" /\ w.halted = FALSE
      /\ w.asserted = TRUE /\ w.orders \in Seq(Records)
  BY DEF Sound, Calm, Healthy, Platforms
<1>2. o \in Records /\ Settled(o) /\ o.state # "PARTIALLY_FILLED"
  <2>1. o \in Records
    BY OrderIsRecord DEF Coins
  <2> QED
    BY <2>1 DEF Settled, Order
<1>3. size \in Int /\ size = HeldHere(w, "XRP")
  BY <1>1, HeldIsInt, HeldAlike
<1> HIDE DEF size, o
<1>4. made \in [sym : {"XRP"}, size : Int] /\ made # None /\ made.sym = "XRP" /\ made.size = size + 4
  <2>1. made.sym = "XRP" /\ made.size = size + 4 /\ size + 4 \in Int
    BY <1>3
  <2>2. made \in [sym : {"XRP"}, size : Int]
    BY <1>3
  <2>3. None \notin [sym : {"XRP"}, size : Int]
    BY SoakAssumption
  <2> QED
    BY <2>1, <2>2, <2>3
<1> HIDE DEF made
<1>5. /\ odd \in Platforms /\ odd.custom = made /\ odd.orders = w.orders /\ odd.timeout = "none"
  BY <1>1, <1>4 DEF Platforms
<1>6. drifted = Judged(odd, "CRITICAL_DRIFT", TRUE)
  <2> HIDE DEF odd
  <2>1. "XRP" \in Traded(odd)
    BY <1>4, <1>5 DEF Traded
  <2>2. HeldHere(odd, "XRP") = size
    BY <1>3, <1>5, HeldSame
  <2>3. HeldThere(odd, "XRP") = size + 4
    BY <1>4, <1>5 DEF HeldThere
  <2>4. size # size + 4
    BY <1>3
  <2>5. Critical(odd)
    BY <2>1, <2>2, <2>3, <2>4 DEF Critical
  <2> QED
    BY <1>5, <2>5, ReconcileDrift
<1>7. drifted.status = "CRITICAL_DRIFT" /\ drifted.halted = TRUE
  BY <1>1, <1>6 DEF Judged, Platforms
<1>8. more \in Seq(Records)
  BY <1>1, <1>2
<1> HIDE DEF more
<1>9. fixed = [w EXCEPT !.custom = made, !.status = "CRITICAL_DRIFT", !.halted = TRUE,
                        !.orphanExecs = 1, !.orders = more]
  <2>1. drifted = [w EXCEPT !.custom = made, !.status = "CRITICAL_DRIFT", !.halted = TRUE]
    BY <1>1, <1>6 DEF Judged, Platforms
  <2> HIDE DEF drifted
  <2>2. drifted.orphanExecs + 1 = 1 /\ drifted.orders = w.orders
    BY <1>1, <2>1 DEF Platforms
  <2>3. orphaned = [w EXCEPT !.custom = made, !.status = "CRITICAL_DRIFT", !.halted = TRUE,
                             !.orphanExecs = 1]
    BY <1>1, <2>1, <2>2 DEF Platforms
  <2> HIDE DEF orphaned
  <2>4. Append(orphaned.orders, o) = more
    BY <1>1, <2>3 DEF Platforms, more
  <2> QED
    BY <1>1, <2>3, <2>4 DEF Platforms
<1>10. fixed \in Platforms /\ fixed.count = w.count
  <2> HIDE DEF fixed
  <2> QED
    BY <1>1, <1>4, <1>8, <1>9 DEF Platforms
<1> DEFINE result == Verdict(fixed)
           stop == checked.halted
<1>11. checked \in Platforms /\ checked = Judged(fixed, result, stop)
  <2> HIDE DEF fixed
  <2> QED
    BY <1>10, ReconcileKeeps
<1> HIDE DEF drifted, fixed, checked, result, stop
<1>12. checked.count = w.count
  BY <1>10, <1>11 DEF Judged, Platforms
<1>13. repaired = [checked EXCEPT !.count = tick]
  <2>1. "repairs" \in Counters
    BY DEF Counters
  <2>2. repaired = [checked EXCEPT !.count = Ticked(checked, {"repairs"})]
    BY <1>11, <2>1, CountIsTick
  <2>3. Ticked(checked, {"repairs"}) = tick
    BY <1>12 DEF Ticked
  <2> QED
    BY <2>2, <2>3
<1> HIDE DEF repaired, tick
<1>14. last = [w EXCEPT !.orders = more, !.count = tick, !.status = result, !.halted = stop]
  <2>1. repaired = [w EXCEPT !.custom = made, !.orphanExecs = 1, !.orders = more, !.count = tick,
                             !.status = result, !.halted = stop]
    BY <1>1, <1>9, <1>11, <1>13 DEF Judged, Platforms
  <2> QED
    BY <1>1, <2>1 DEF Platforms
<1>15. Sound(grown)
  BY <1>2, GrownIsSound
<1>16. grown = [w EXCEPT !.orders = more, !.count = tick]
  BY DEF Grown, more, tick
<1> HIDE DEF last, grown
<1>17. last = Judged(grown, result, stop)
  BY <1>1, <1>14, <1>16 DEF Judged, Platforms
<1>18. /\ grown \in Platforms /\ grown.status = "HEALTHY" /\ grown.halted = FALSE
       /\ grown.asserted = TRUE /\ AllSettled(grown) /\ grown.custom = None
       /\ grown.orphanOrders = 0 /\ grown.orphanExecs = 0 /\ grown.timeout = "none"
  BY <1>15 DEF Sound, Calm, Healthy, Platforms
<1>19. /\ last \in Platforms /\ AllSettled(last) /\ last.custom = None /\ last.orphanOrders = 0
       /\ last.orphanExecs = 0 /\ last.timeout = "none"
  <2>1. result \in {"HEALTHY", "DRIFT_DETECTED", "CRITICAL_DRIFT", "DATA_UNAVAILABLE"}
        /\ stop \in BOOLEAN
    <3>1. checked.status = result
      BY <1>10, <1>11 DEF Judged, Platforms
    <3> QED
      BY <1>11, <3>1 DEF Platforms, stop
  <2> QED
    BY <1>17, <1>18, <2>1 DEF Judged, Platforms, AllSettled
<1>20. Reconcile(last) = Judged(last, "HEALTHY", FALSE)
  BY <1>19, ReconcileAtRest
<1>21. Reconcile(last) = grown
  BY <1>17, <1>18, <1>20, JudgedHealthyAgain
<1>22. (/\ drifted.status = "CRITICAL_DRIFT" /\ drifted.halted
        /\ grown.status = "HEALTHY" /\ ~grown.halted) = TRUE
  BY <1>7, <1>18
<1>23. Expect(grown, TRUE) = grown
  BY <1>18 DEF Expect, Platforms
<1>24. PositionDrifts(w) = Expect(grown, TRUE)
  BY <1>21, <1>22 DEF PositionDrifts, drifted, odd, made, size, fixed, checked, repaired, last, o
<1> QED
  BY <1>15, <1>23, <1>24

-----------------------------------------------------------------------------
(* The hour, the audit and the theorem *)

LEMMA DispatchIsSound ==
    ASSUME NEW w, Sound(w), NEW sym \in Coins, NEW size \in Int
    PROVE  Sound(Dispatch(w, sym, size, "filled"))
<1> DEFINE o == Order(sym, size, "FILLED", "FILLED", size, size)
<1>1. /\ w \in Platforms /\ ~w.adapterHalted
  BY DEF Sound, Calm
<1>2. /\ o \in Records /\ Settled(o) /\ o.state # "PARTIALLY_FILLED"
  <2>1. o \in Records
    BY OrderIsRecord
  <2> QED
    BY <2>1 DEF Settled, Order
<1>3. Dispatch(w, sym, size, "filled") = Grown(w, o, {"orders", "fills"})
  BY <1>1, Dispatched
<1> HIDE DEF o
<1> QED
  BY <1>2, <1>3, GrownIsSound

\* Whatever the strategy buys or sells.
LEMMA TradesAreSound ==
    ASSUME NEW w, Sound(w), NEW traded \in Rebalanced(w)
    PROVE  Sound(traded)
<1>1. w \in Platforms /\ w.custom = None /\ w.orders \in Seq(Records)
  BY DEF Sound, Calm, Platforms
<1>2. CASE traded = w
  BY <1>2
<1>3. CASE traded = Dispatch(w, "BTC", 1, "filled")
  BY <1>3, DispatchIsSound DEF Coins
<1>4. CASE \E sym \in Traded(w) : traded = Dispatch(w, sym, -HeldHere(w, sym), "filled")
  <2>1. PICK sym \in Traded(w) : traded = Dispatch(w, sym, -HeldHere(w, sym), "filled")
    BY <1>4
  <2>2. sym \in Coins
    <3>1. PICK i \in DOMAIN w.orders : sym = w.orders[i].sym
      BY <1>1, <2>1 DEF Traded
    <3>2. w.orders[i] \in Records
      BY <1>1
    <3> QED
      BY <3>1, <3>2 DEF Records
  <2>3. -HeldHere(w, sym) \in Int
    BY <1>1, HeldIsInt
  <2> DEFINE size == -HeldHere(w, sym)
  <2> HIDE DEF size
  <2>4. size \in Int
    BY <2>3 DEF size
  <2>5. Sound(Dispatch(w, sym, size, "filled"))
    BY <2>2, <2>4, DispatchIsSound
  <2> QED
    BY <2>1, <2>5 DEF size
<1> QED
  BY <1>2, <1>3, <1>4 DEF Rebalanced

LEMMA HourIsSound ==
    ASSUME NEW w, Sound(w), RestOfHour(w)
    PROVE  Sound(platform')
<1>1. PICK traded \in Rebalanced(w) :
         platform' = IF Reconcile(traded).status = "HEALTHY" THEN Reconcile(traded)
                     ELSE Count(Reconcile(traded), "failures", 1)
  BY DEF RestOfHour
<1>2. Sound(traded)
  BY TradesAreSound
<1>3. Reconcile(traded) = traded /\ traded.status = "HEALTHY"
  BY <1>2, ReconcileChangesNothing DEF Sound, Healthy
<1> QED
  BY <1>1, <1>2, <1>3

LEMMA NewWorldIsSound ==
    Sound(NewWorld)
<1> DEFINE count == [c \in Counters |-> 0]
<1>1. count \in [Counters -> Int] /\ \A c \in Counters : count[c] = 0
  OBVIOUS
<1> HIDE DEF count
<1>2. <<>> \in Seq(Records)
  OBVIOUS
<1>3. NewWorld \in Platforms
  BY <1>1, <1>2 DEF NewWorld, Platforms, count
<1>4. /\ NewWorld.orders = <<>> /\ NewWorld.count = count /\ NewWorld.unresolved = {}
      /\ Calm(NewWorld) /\ Healthy(NewWorld)
  BY DEF NewWorld, Calm, Healthy, count
<1>5. AllSettled(NewWorld) /\ Halves(NewWorld) = {} /\ Len(NewWorld.orders) = 0
  BY <1>4 DEF AllSettled, Halves
<1>6. Cardinality({}) = 0
  BY FS_EmptySet
<1>7. Reported(NewWorld)
  BY <1>1, <1>4, <1>5, <1>6 DEF Reported, Counters
<1> QED
  BY <1>3, <1>4, <1>5, <1>7 DEF Sound

LEMMA SoakIsKept ==
    Spec => []SoakKept
<1>1. Init => SoakKept
  BY NewWorldIsSound DEF Init, SoakKept
<1>2. SoakKept /\ [Next]_vars => SoakKept'
  <2> SUFFICES ASSUME SoakKept, [Next]_vars
               PROVE  SoakKept'
    OBVIOUS
  <2>1. Sound(platform) /\ verdict \in {None, "P2-8 PASS"}
    BY DEF SoakKept
  <2>2. CASE UNCHANGED vars
    BY <2>1, <2>2 DEF vars, SoakKept
  <2>3. CASE Quiet
    BY <2>1, <2>3, HourIsSound DEF Quiet, StepHour, SoakKept
  <2>4. CASE FeedFails
    <3>1. PICK how \in {"DISCONNECTED", "STALE"} : RestOfHour(FeedFault(platform, how))
      BY <2>4 DEF FeedFails
    <3> QED
      BY <2>1, <2>4, <3>1, FeedFaultIsSound, HourIsSound DEF FeedFails, StepHour, SoakKept
  <2>5. CASE SubmissionFails
    BY <2>1, <2>5, LostAnswersAreSound, StatusUnansweredIsSound, RateLimitedIsSound, HourIsSound
       DEF SubmissionFails, StepHour, SoakKept
  <2>6. CASE OrderGoesAstray
    BY <2>1, <2>6, FilledInPartsIsSound, CancelledTooLateIsSound, ExecutedTwiceIsSound, HourIsSound
       DEF OrderGoesAstray, StepHour, SoakKept
  <2>7. CASE ProcessRestarts
    BY <2>1, <2>7, RestartIsSound, CrashUnresolvedIsSound, RestartHalfFilledIsSound, HourIsSound
       DEF ProcessRestarts, StepHour, SoakKept
  <2>8. CASE AccountsDiffer
    BY <2>1, <2>8, PositionDriftsIsSound, OrderAppearsIsSound, QueriesFailIsSound, BothFailIsSound,
       SettleIsSound, HourIsSound
       DEF AccountsDiffer, StepHour, SoakKept
  <2>9. CASE Audit
    <3>1. Reconcile(platform) = platform
      BY <2>1, ReconcileChangesNothing
    <3>2. /\ platform.orphanOrders = 0 /\ platform.orphanExecs = 0 /\ platform.status = "HEALTHY"
          /\ AllSettled(platform)
      BY <2>1 DEF Sound, Calm, Healthy
    <3>3. ~\E i \in DOMAIN platform.orders : platform.orders[i].state = "UNKNOWN"
      BY <3>2 DEF AllSettled, Settled
    <3>4. /\ platform' = platform
          /\ verdict' = IF \/ \E i \in DOMAIN platform.orders : platform.orders[i].state = "UNKNOWN"
                           \/ platform.orphanOrders > 0 \/ platform.orphanExecs > 0
                           \/ platform.status # "HEALTHY"
                        THEN "P2-8 FAIL" ELSE "P2-8 PASS"
      BY <2>9, <3>1 DEF Audit
    <3>5. ~(platform.orphanOrders > 0) /\ ~(platform.orphanExecs > 0)
      BY <3>2
    <3>6. verdict' = "P2-8 PASS"
      BY <3>2, <3>3, <3>4, <3>5
    <3> QED
      BY <2>1, <3>4, <3>6 DEF SoakKept
  <2> QED
    BY <2>2, <2>3, <2>4, <2>5, <2>6, <2>7, <2>8, <2>9 DEF Next
<1> QED
  BY <1>1, <1>2, PTL DEF Spec

\* Whatever faults come, in whatever order and for however many hours, the soak
\* ends with a pass, and its counters tell what the store holds.
THEOREM EverySoakPasses ==
    Spec => []SoakInv
<1>1. SoakKept => EverySchedulePasses
  BY SoakAssumption DEF SoakKept, Sound, Calm, Reported, EverySchedulePasses
<1>2. SoakKept => ReportTellsTheStore
  <2> SUFFICES ASSUME SoakKept
               PROVE  ReportTellsTheStore
    OBVIOUS
  <2>1. Reported(platform) /\ AllSettled(platform) /\ platform \in Platforms
    BY DEF SoakKept, Sound
  <2>2. {i \in DOMAIN platform.orders : platform.orders[i].state = "UNKNOWN"} = {}
    BY <2>1 DEF AllSettled, Settled
  <2>3. {i \in DOMAIN platform.orders : platform.orders[i].state = "PARTIALLY_FILLED"} = Halves(platform)
    BY DEF Halves
  <2>4. Cardinality({}) = 0
    BY FS_EmptySet
  <2>5. platform.count["unknown"] \in Int
    BY <2>1 DEF Platforms, Counters
  <2>6. platform.count["recovered"] = platform.count["unknown"] - 0
    BY <2>1, <2>5 DEF Reported
  <2>7. /\ Len(platform.orders) = platform.count["orders"] + platform.count["repairs"]
        /\ platform.count["orders"] =
              platform.count["fills"] + platform.count["rejections"] + platform.count["unknown"]
              + Cardinality({i \in DOMAIN platform.orders : platform.orders[i].state = "PARTIALLY_FILLED"})
    BY <2>1, <2>3 DEF Reported
  <2>8. platform.count["recovered"] = platform.count["unknown"]
           - Cardinality({i \in DOMAIN platform.orders : platform.orders[i].state = "UNKNOWN"})
    BY <2>2, <2>4, <2>6
  <2> QED
    BY <2>7, <2>8 DEF ReportTellsTheStore
<1> QED
  BY <1>1, <1>2, SoakIsKept, PTL DEF SoakInv
=============================================================================
