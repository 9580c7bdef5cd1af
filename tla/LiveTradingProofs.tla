--------------------------- MODULE LiveTradingProofs ---------------------------
(***************************************************************************)
(* The two asyncio programs that trade live, the execution stream and the  *)
(* asset tasks of live_trader.py, in this order.                           *)
(*                                                                         *)
(* StreamInv and StopSellsOnce hold for any number of symbols, orders,     *)
(* prices and checks.  What makes them hold: an order is in one place at a *)
(* time, the queue, the listener or a task (Flow); a position is tracked   *)
(* once, by the BUY it comes from, and one that was sold is neither        *)
(* tracked nor listed any more (Table); the published amounts and those    *)
(* that tasks still owe add up (Ledger); and the circuit breaker's last    *)
(* equity was compared with all it remembers (Watch).                      *)
(*                                                                         *)
(* TraderInv holds for any number of assets, prices and candles.  What     *)
(* makes it hold: wherever a task waits, its own copy of the portfolio is  *)
(* fit for what it does next, though the file may be torn and the other    *)
(* copies older or newer (Ready), and nobody liquidates before the kill    *)
(* switch is set.                                                          *)
(***************************************************************************)
EXTENDS ExecutionStream, AsyncTrader, FiniteSetTheorems, TLAPS

Plus(x, y) == x + y
AnyOf(S) == CHOOSE x \in S : TRUE
Sums == INSTANCE FoldLemmas WITH Op <- Plus, Initial <- 0, Choose <- AnyOf

-----------------------------------------------------------------------------
(* The execution stream *)

Task == [order : Orders, left : Nat \ {0}, chunk : Nat, done : Nat, at : {"wait", "exchange"}]
Queued == Orders \cup {Liquidation}

JobOK ==
    \/ job = Idle
    \/ job \in [at : {"ticker", "exchange"}, order : Orders]
    \/ job = [at |-> "balance"]
    \/ job \in [at : {"selling"}, left : SUBSET (Symbols \X Nat)]

\* The orders in the queue, with the listener and with tasks.
InQueue == {queue[i] : i \in DOMAIN queue} \ {Liquidation}
InJob == IF job.at \in {"ticker", "exchange"} THEN {job.order} ELSE {}
InTasks == {t.order : t \in twap}
Around == InQueue \cup InJob \cup InTasks

QueueOnce ==
    \A i, j \in DOMAIN queue :
        queue[i] # Liquidation /\ queue[j] # Liquidation /\ queue[i].id = queue[j].id => i = j

\* No order is in two places.
Once ==
    /\ QueueOnce
    /\ \A o \in InQueue, p \in InJob \cup InTasks : o.id # p.id
    /\ \A o \in InJob, p \in InTasks : o.id # p.id
    /\ \A t, u \in twap : t.order.id = u.order.id => t = u

\* An order that is still around has not been tracked, and the monitor's
\* orders are sales.
Issued(o) ==
    /\ o.id <= MaxOrders => o.id <= sent /\ pos[o.id] = NoPosition
    /\ o.id > MaxOrders => o.action = "SELL" /\ exits[o.id - MaxOrders] > 0

Flow ==
    /\ mode \in {"paper", "live"}
    /\ sent \in 0 .. MaxOrders
    /\ queue \in Seq(Queued)
    /\ JobOK
    /\ IsFiniteSet(twap) /\ twap \subseteq Task
    /\ Once
    /\ \A o \in Around : Issued(o)

Table ==
    /\ open \in [Symbols -> Ids \cup {None}]
    /\ pos \in [Ids -> Positions \cup {NoPosition}]
    /\ rest \subseteq Symbols \X Ids
    /\ exits \in [Ids -> Nat]
    /\ \A i \in Ids : i > sent => pos[i] = NoPosition
    /\ \A i \in Ids : exits[i] > 0 => pos[i] # NoPosition
    /\ \A s, t \in Symbols : open[s] = open[t] => s = t \/ open[s] = None
    /\ \A s \in Symbols : open[s] # None => pos[open[s]] # NoPosition /\ exits[open[s]] = 0
    /\ \A x \in rest : pos[x[2]] # NoPosition /\ exits[x[2]] = 0
    /\ \A x \in rest, s \in Symbols : open[s] = x[2] => s = x[1]
    /\ \A x, y \in rest : x[2] = y[2] => x = y
    /\ StopSellsOnce

Ledger ==
    /\ held \in [Symbols -> Int]
    /\ mode = "live" => \A s \in Symbols : held[s] >= 0
    /\ volume \in [Symbols -> Nat] /\ told \in [Symbols -> Nat] /\ lost \in [Symbols -> Nat]
    /\ ReportsAddUp

Watch ==
    /\ seen \in Seq(Nat) /\ Len(seen) <= MaxChecks
    /\ halted \in BOOLEAN
    /\ relief \in {"none", "begun", "over"}
    /\ DrawdownHalts

IInv == Flow /\ Table /\ Ledger /\ Watch

-----------------------------------------------------------------------------
\* What tasks owe is the sum of what each of them owes.
LEMMA ConfirmedIsSum ==
    ASSUME NEW tasks
    PROVE  Confirmed(tasks) = Sums!Fold([t \in tasks |-> t.done], tasks)
BY DEF Confirmed, SumFunctionOnSet, FoldFunctionOnSet, MapThenFoldSet,
       Sums!Fold, Sums!MapThenFoldSet, Plus, AnyOf

LEMMA FiniteSums ==
    ASSUME NEW S, IsFiniteSet(S)
    PROVE  Sums!IsSum /\ Sums!IsFiniteSet(S) /\ Sums!Chooses(S)
BY DEF Sums!IsSum, Sums!IsFiniteSet, IsFiniteSet, Sums!Chooses, Plus, AnyOf

LEMMA ConfirmedType ==
    ASSUME NEW tasks \in SUBSET Task, IsFiniteSet(tasks)
    PROVE  Confirmed(tasks) \in Nat
<1>1. Sums!Values([t \in tasks |-> t.done], tasks, Nat)
  BY DEF Sums!Values, Task
<1> QED
  BY <1>1, FiniteSums, ConfirmedIsSum, Sums!SumType

LEMMA ConfirmedSplit ==
    ASSUME NEW tasks \in SUBSET Task, IsFiniteSet(tasks), NEW t \in tasks
    PROVE  Confirmed(tasks) = t.done + Confirmed(tasks \ {t})
<1> DEFINE f == [u \in tasks |-> u.done]
           g == [u \in tasks \ {t} |-> u.done]
<1>1. Sums!Values(f, tasks, Int)
  BY DEF Sums!Values, Task
<1>2. f[t] = t.done /\ \A u \in tasks \ {t} : f[u] = g[u]
  OBVIOUS
<1>3. Confirmed(tasks) = Sums!Fold(f, tasks) /\ Confirmed(tasks \ {t}) = Sums!Fold(g, tasks \ {t})
  BY ConfirmedIsSum
<1> HIDE DEF f, g
<1>4. Sums!Fold(f, tasks) = f[t] + Sums!Fold(f, tasks \ {t})
  BY <1>1, FiniteSums, Sums!SumSplit
<1>5. Sums!Fold(f, tasks \ {t}) = Sums!Fold(g, tasks \ {t})
  <2>1. IsFiniteSet(tasks \ {t})
    BY FS_Subset
  <2> QED
    BY <1>2, <2>1, FiniteSums, Sums!FoldSame
<1> QED
  BY <1>2, <1>3, <1>4, <1>5

Of(tasks, s) == {t \in tasks : t.order.symbol = s}
Owes(t, s) == IF t.order.symbol = s THEN t.done ELSE 0

LEMMA OwedType ==
    ASSUME NEW tasks \in SUBSET Task, IsFiniteSet(tasks), NEW s
    PROVE  Confirmed(Of(tasks, s)) \in Nat
<1>1. Of(tasks, s) \in SUBSET Task /\ IsFiniteSet(Of(tasks, s))
  BY FS_Subset DEF Of
<1> QED
  BY <1>1, ConfirmedType

\* The tasks of one symbol owe what one of them does and what the others do.
LEMMA OwedSplit ==
    ASSUME NEW tasks \in SUBSET Task, IsFiniteSet(tasks), NEW t \in tasks, NEW s
    PROVE  /\ Confirmed(Of(tasks, s)) \in Nat
           /\ Confirmed(Of(tasks \ {t}, s)) \in Nat
           /\ Confirmed(Of(tasks, s)) = Owes(t, s) + Confirmed(Of(tasks \ {t}, s))
<1>1. /\ Of(tasks, s) \in SUBSET Task /\ IsFiniteSet(Of(tasks, s))
      /\ Of(tasks \ {t}, s) \in SUBSET Task /\ IsFiniteSet(Of(tasks \ {t}, s))
  BY FS_Subset DEF Of
<1>2. Confirmed(Of(tasks, s)) \in Nat /\ Confirmed(Of(tasks \ {t}, s)) \in Nat
  BY <1>1, ConfirmedType
<1>3. CASE t.order.symbol = s
  <2>1. t \in Of(tasks, s) /\ Of(tasks \ {t}, s) = Of(tasks, s) \ {t}
    BY <1>3 DEF Of
  <2> QED
    BY <1>1, <1>2, <1>3, <2>1, ConfirmedSplit DEF Owes
<1>4. CASE t.order.symbol # s
  <2>1. Of(tasks \ {t}, s) = Of(tasks, s)
    BY <1>4 DEF Of
  <2> QED
    BY <1>2, <1>4, <2>1 DEF Owes
<1> QED
  BY <1>3, <1>4

\* A task that goes on, with what it owes now, takes the place of its former self.
LEMMA OwedStep ==
    ASSUME twap \in SUBSET Task, IsFiniteSet(twap), NEW t \in twap, NEW u \in Task,
           u \notin twap \ {t}, twap' = (twap \ {t}) \cup {u}, NEW s
    PROVE  /\ Confirmed(Of(twap, s)) \in Nat
           /\ Confirmed(Of(twap', s)) = Confirmed(Of(twap, s)) - Owes(t, s) + Owes(u, s)
<1>1. twap' \in SUBSET Task /\ IsFiniteSet(twap')
  BY FS_RemoveElement, FS_AddElement
<1>2. u \in twap' /\ twap' \ {u} = twap \ {t}
  OBVIOUS
<1>3. Owes(t, s) \in Nat /\ Owes(u, s) \in Nat
  BY DEF Owes, Task
<1>4. /\ Confirmed(Of(twap, s)) \in Nat /\ Confirmed(Of(twap \ {t}, s)) \in Nat
      /\ Confirmed(Of(twap, s)) = Owes(t, s) + Confirmed(Of(twap \ {t}, s))
  BY OwedSplit
<1>5. Confirmed(Of(twap', s)) = Owes(u, s) + Confirmed(Of(twap' \ {u}, s))
  BY <1>1, <1>2, OwedSplit
<1> QED
  BY <1>2, <1>3, <1>4, <1>5

-----------------------------------------------------------------------------
LEMMA MaxOfTwo ==
    ASSUME NEW a \in Int, NEW b \in Int
    PROVE  Max({a, b}) = IF a >= b THEN a ELSE b
<1>1. CASE a >= b
  <2>1. a \in {a, b} /\ \A y \in {a, b} : a >= y
    BY <1>1
  <2>2. \A x \in {a, b} : (\A y \in {a, b} : x >= y) => x = a
    BY <1>1
  <2> QED
    BY <1>1, <2>1, <2>2 DEF Max
<1>2. CASE ~(a >= b)
  <2>1. b \in {a, b} /\ \A y \in {a, b} : b >= y
    BY <1>2
  <2>2. \A x \in {a, b} : (\A y \in {a, b} : x >= y) => x = b
    BY <1>2
  <2> QED
    BY <1>2, <2>1, <2>2 DEF Max
<1> QED
  BY <1>1, <1>2

\* A large order becomes at least one chunk of a natural amount.
LEMMA ChunksType ==
    ASSUME NEW o \in Orders, NEW p \in Prices \cup {0}
    PROVE  /\ Chunks(o.amount * p) \in Nat \ {0}
           /\ o.amount \div Chunks(o.amount * p) \in Nat
<1>1. o.amount \in Nat /\ p \in Nat /\ o.amount * p \in Nat
  <2>1. o.amount \in Amounts
    BY DEF Orders
  <2>2. Amounts \subseteq Nat /\ Prices \subseteq Nat
    BY StreamAssumption
  <2>3. o.amount \in Nat
    BY <2>1, <2>2
  <2>4. p \in Nat
    BY <2>2
  <2> QED
    BY <2>3, <2>4
<1> DEFINE v == o.amount * p
           c == (v + ChunkValue - 1) \div ChunkValue
<1>2. c \in Int
  <2>1. v \in Int /\ ChunkValue \in Nat \ {0}
    BY <1>1, StreamAssumption
  <2> HIDE DEF v
  <2> QED
    BY <2>1
<1>3. Chunks(v) = IF 1 >= c THEN 1 ELSE c
  <2> HIDE DEF c
  <2> QED
    BY <1>2, MaxOfTwo DEF Chunks, c
<1> HIDE DEF c, v
<1>4. Chunks(v) \in Nat \ {0}
  BY <1>2, <1>3
<1>5. \A n \in Nat \ {0}, a \in Nat : a \div n \in Nat
  OBVIOUS
<1> QED
  BY <1>1, <1>4, <1>5 DEF v

\* An order is not the liquidation.
LEMMA OrderIsNotLiquidation == \A o \in Orders : o # Liquidation
BY DEF Orders, Sides, Liquidation

-----------------------------------------------------------------------------
\* An order with a new number that is queued is in the queue once.
LEMMA QueueAppend ==
    ASSUME queue \in Seq(Queued), QueueOnce, NEW o \in Orders,
           \A q \in InQueue : q.id # o.id, queue' = Append(queue, o)
    PROVE  queue' \in Seq(Queued) /\ QueueOnce' /\ InQueue' = InQueue \cup {o}
<1>1. queue' \in Seq(Queued) /\ DOMAIN queue' = 1 .. Len(queue) + 1
  BY DEF Queued
<1>2. /\ \A i \in DOMAIN queue : i \in DOMAIN queue' /\ queue'[i] = queue[i]
      /\ queue'[Len(queue) + 1] = o
      /\ \A i \in DOMAIN queue' : i \in DOMAIN queue \/ i = Len(queue) + 1
  BY <1>1
<1>3. InQueue' = InQueue \cup {o}
  BY <1>1, <1>2, OrderIsNotLiquidation DEF InQueue
<1>4. QueueOnce'
  BY <1>1, <1>2 DEF QueueOnce, InQueue
<1> QED
  BY <1>1, <1>3, <1>4

\* The liquidation in the queue leaves the orders in it as they are.
LEMMA QueueLiquidation ==
    ASSUME queue \in Seq(Queued), QueueOnce, queue' = Append(queue, Liquidation)
    PROVE  queue' \in Seq(Queued) /\ QueueOnce' /\ InQueue' = InQueue
<1>1. queue' \in Seq(Queued) /\ DOMAIN queue' = 1 .. Len(queue) + 1
  BY DEF Queued
<1>2. /\ \A i \in DOMAIN queue : i \in DOMAIN queue' /\ queue'[i] = queue[i]
      /\ queue'[Len(queue) + 1] = Liquidation
      /\ \A i \in DOMAIN queue' : i \in DOMAIN queue \/ i = Len(queue) + 1
  BY <1>1
<1>3. InQueue' = InQueue
  BY <1>1, <1>2 DEF InQueue
<1>4. QueueOnce'
  BY <1>1, <1>2 DEF QueueOnce
<1> QED
  BY <1>1, <1>3, <1>4

\* What is taken off the queue is in it no more.
LEMMA QueueTail ==
    ASSUME queue \in Seq(Queued), QueueOnce, queue # <<>>, queue' = Tail(queue)
    PROVE  /\ queue' \in Seq(Queued) /\ QueueOnce' /\ InQueue' \subseteq InQueue
           /\ Head(queue) # Liquidation =>
                 /\ Head(queue) \in Orders /\ Head(queue) \in InQueue
                 /\ \A q \in InQueue' : q.id # Head(queue).id
<1>1. /\ queue' \in Seq(Queued) /\ DOMAIN queue' = 1 .. Len(queue) - 1
      /\ 1 \in DOMAIN queue /\ Head(queue) = queue[1] /\ queue[1] \in Queued
  OBVIOUS
<1>2. \A i \in DOMAIN queue' : i + 1 \in DOMAIN queue /\ i + 1 # 1 /\ queue'[i] = queue[i + 1]
  OBVIOUS
<1>3. QueueOnce'
  <2> SUFFICES ASSUME NEW i \in DOMAIN queue', NEW j \in DOMAIN queue',
                      queue'[i] # Liquidation, queue'[j] # Liquidation, queue'[i].id = queue'[j].id
               PROVE  i = j
    BY DEF QueueOnce, Liquidation
  <2>1. i + 1 = j + 1
    BY <1>2 DEF QueueOnce
  <2> QED
    BY <1>1, <2>1
<1>4. InQueue' \subseteq InQueue
  BY <1>2 DEF InQueue, Liquidation
<1>5. ASSUME Head(queue) # Liquidation
      PROVE  /\ Head(queue) \in Orders /\ Head(queue) \in InQueue
             /\ \A q \in InQueue' : q.id # Head(queue).id
  BY <1>1, <1>2, <1>5 DEF QueueOnce, InQueue, Queued, Liquidation
<1> QED
  BY <1>1, <1>3, <1>4, <1>5

-----------------------------------------------------------------------------
LEMMA PositionTypes ==
    ASSUME NEW a \in Amounts, NEW p \in Prices
    PROVE  /\ Stop(p) \in Nat
           /\ [amount |-> a, high |-> p, stop |-> Stop(p)] \in Positions
           /\ [amount |-> a, high |-> p, stop |-> Stop(p)] # NoPosition
<1>1. p \in Nat \ {0} /\ a \in Nat \ {0}
  BY StreamAssumption
<1>2. Stop(p) \in Nat
  BY <1>1 DEF Stop
<1> QED
  BY <1>1, <1>2 DEF Positions, NoPosition

\* An order executed: what was tracked is replaced by a position of its own.
LEMMA TrackedKeepsTable ==
    ASSUME Table, sent \in 0 .. MaxOrders, NEW o \in Orders, NEW p,
           o.action = "BUY" => /\ p \in Prices /\ o.id \in Ids /\ o.id <= sent
                               /\ pos[o.id] = NoPosition,
           Tracked(o, p), UNCHANGED <<sent, rest, exits>>
    PROVE  Table' /\ \A i \in Ids : i # o.id => pos'[i] = pos[i]
<1>0. o.symbol \in Symbols /\ o.amount \in Amounts /\ o.action \in {"BUY", "SELL"}
  BY DEF Orders, Sides
<1>1. CASE o.action = "SELL"
  <2>1. open' = [open EXCEPT ![o.symbol] = None] /\ pos' = pos
    BY <1>1 DEF Tracked
  <2>2. open' \in [Symbols -> Ids \cup {None}]
    BY <2>1 DEF Table
  <2>3. \A s \in Symbols : open'[s] = None \/ open'[s] = open[s]
    BY <2>1 DEF Table
  <2>4. None \notin Ids
    BY StreamAssumption DEF Ids
  <2>5. \A x \in rest : x[2] \in Ids
    BY DEF Table
  <2> QED
    BY <2>1, <2>2, <2>3, <2>4, <2>5 DEF Table, StopSellsOnce
<1>2. CASE o.action # "SELL"
  <2> DEFINE q == [amount |-> o.amount, high |-> p, stop |-> Stop(p)]
  <2>1. open' = [open EXCEPT ![o.symbol] = o.id] /\ pos' = [pos EXCEPT ![o.id] = q]
    BY <1>2 DEF Tracked
  <2>2. q \in Positions /\ q # NoPosition
    BY <1>0, <1>2, PositionTypes
  <2> HIDE DEF q
  <2>3. o.id \in Ids /\ o.id <= sent /\ pos[o.id] = NoPosition
    BY <1>0, <1>2
  <2>4. /\ open' \in [Symbols -> Ids \cup {None}]
        /\ pos' \in [Ids -> Positions \cup {NoPosition}]
    BY <2>1, <2>2, <2>3 DEF Table
  <2>5. /\ \A s \in Symbols : open'[s] = IF s = o.symbol THEN o.id ELSE open[s]
        /\ \A i \in Ids : pos'[i] = IF i = o.id THEN q ELSE pos[i]
    BY <2>1 DEF Table
  <2>6. exits[o.id] = 0 /\ \A s \in Symbols : open[s] # o.id
    <3>1. o.id # None
      BY <2>3, StreamAssumption DEF Ids
    <3> QED
      BY <2>3, <3>1 DEF Table
  <2>7. \A x \in rest : x[1] \in Symbols /\ x[2] \in Ids /\ x[2] # o.id
    BY <2>3 DEF Table
  <2>8. \A i \in Ids : i > sent' => pos'[i] = NoPosition
    BY <2>3, <2>5 DEF Table, Ids
  <2>9. \A s, t \in Symbols : open'[s] = open'[t] => s = t \/ open'[s] = None
    BY <2>5, <2>6 DEF Table
  <2>10. \A s \in Symbols : open'[s] # None => pos'[open'[s]] # NoPosition /\ exits[open'[s]] = 0
    BY <2>2, <2>3, <2>5, <2>6 DEF Table
  <2>11. /\ \A x \in rest : pos'[x[2]] # NoPosition
         /\ \A x \in rest, s \in Symbols : open'[s] = x[2] => s = x[1]
    BY <2>5, <2>7 DEF Table
  <2>12. \A i \in Ids : exits[i] > 0 => pos'[i] # NoPosition
    BY <2>2, <2>5 DEF Table
  <2> QED
    BY <2>4, <2>5, <2>8, <2>9, <2>10, <2>11, <2>12 DEF Table, StopSellsOnce
<1> QED
  BY <1>1, <1>2

\* The exchange executes an amount: holdings and the amount executed follow.
LEMMA ExecutedBooks ==
    ASSUME held \in [Symbols -> Int], mode = "live" => \A s \in Symbols : held[s] >= 0,
           volume \in [Symbols -> Nat], mode' = mode,
           NEW o \in Orders, NEW a \in Nat, mode = "live" => Covered(o, a), Executed(o, a)
    PROVE  /\ held' \in [Symbols -> Int]
           /\ mode' = "live" => \A s \in Symbols : held'[s] >= 0
           /\ volume' \in [Symbols -> Nat]
           /\ \A s \in Symbols : volume'[s] = volume[s] + (IF s = o.symbol THEN a ELSE 0)
<1>1. o.symbol \in Symbols
  BY DEF Orders
<1> DEFINE d == IF o.action = "BUY" THEN a ELSE 0 - a
<1>2. held' = [held EXCEPT ![o.symbol] = @ + d] /\ volume' = [volume EXCEPT ![o.symbol] = @ + a]
  BY DEF Executed
<1>3. d \in Int /\ (mode = "live" => held[o.symbol] + d >= 0)
  BY <1>1 DEF Covered
<1> HIDE DEF d
<1> QED
  BY <1>1, <1>2, <1>3

\* An amount added to what is published, or to what no answer told of.
LEMMA CountGrows ==
    ASSUME NEW f \in [Symbols -> Nat], NEW y \in Symbols, NEW a \in Nat
    PROVE  /\ [f EXCEPT ![y] = @ + a] \in [Symbols -> Nat]
           /\ \A s \in Symbols : [f EXCEPT ![y] = @ + a][s] = f[s] + (IF s = y THEN a ELSE 0)
OBVIOUS

\* An amount executed whose answer is an error.
LostAsExecuted(o, a) ==
    /\ Covered(o, a) /\ Executed(o, a)
    /\ lost' = [lost EXCEPT ![o.symbol] = @ + a]
    /\ UNCHANGED told

LEMMA LostKeepsBooks ==
    ASSUME Ledger, twap \in SUBSET Task, IsFiniteSet(twap),
           NEW o \in Orders, NEW a \in Nat, LostAsExecuted(o, a), UNCHANGED <<mode, twap>>
    PROVE  Ledger'
<1>1. o.symbol \in Symbols
  BY DEF Orders
<1>2. /\ held' \in [Symbols -> Int]
      /\ mode' = "live" => \A s \in Symbols : held'[s] >= 0
      /\ volume' \in [Symbols -> Nat]
      /\ \A s \in Symbols : volume'[s] = volume[s] + (IF s = o.symbol THEN a ELSE 0)
  BY ExecutedBooks DEF Ledger, LostAsExecuted
<1>3. /\ lost' \in [Symbols -> Nat]
      /\ \A s \in Symbols : lost'[s] = lost[s] + (IF s = o.symbol THEN a ELSE 0)
  BY <1>1, CountGrows DEF Ledger, LostAsExecuted
<1>4. ReportsAddUp'
  <2> SUFFICES ASSUME NEW s \in Symbols
               PROVE  volume'[s] = told[s] + lost'[s] + Confirmed(Of(twap, s))
    BY DEF ReportsAddUp, Of, LostAsExecuted
  <2>1. volume[s] = told[s] + lost[s] + Confirmed(Of(twap, s))
    BY DEF Ledger, ReportsAddUp, Of
  <2>2. Confirmed(Of(twap, s)) \in Nat /\ volume[s] \in Nat /\ told[s] \in Nat /\ lost[s] \in Nat
    BY OwedType DEF Ledger
  <2> QED
    BY <1>2, <1>3, <2>1, <2>2
<1> QED
  BY <1>2, <1>3, <1>4 DEF Ledger, LostAsExecuted

-----------------------------------------------------------------------------
\* The listener has taken order o, from the queue or from its own hands: it is
\* in no other place.
Picked(o) ==
    /\ o \in Orders
    /\ queue' \in Seq(Queued) /\ QueueOnce' /\ InQueue' \subseteq InQueue
    /\ \A q \in InQueue' \cup InTasks : q.id # o.id
    /\ Issued(o)

LEMMA AroundAreOrders ==
    ASSUME Flow
    PROVE  Around \subseteq Orders
<1>1. \A i \in DOMAIN queue : queue[i] \in Queued
  BY DEF Flow
<1>2. \A t \in twap : t.order \in Orders
  BY DEF Flow, Task
<1>3. InJob \subseteq Orders
  BY DEF Flow, JobOK, Idle, InJob
<1> QED
  BY <1>1, <1>2, <1>3 DEF Around, InQueue, InTasks, Queued

\* What is left in the queue and with the tasks.
LEMMA OthersKept ==
    ASSUME Flow, NEW o, Picked(o)
    PROVE  /\ \A q \in InQueue', r \in InTasks : q.id # r.id
           /\ \A q \in InQueue' \cup InTasks : Issued(q) /\ q \in Orders
BY AroundAreOrders DEF Picked, Flow, Once, Around

\* An order that ends with the listener, in Idle or waiting with it again.
LEMMA ListenerKeepsFlow ==
    ASSUME Flow, NEW o, Picked(o), JobOK', InJob' \subseteq {o},
           UNCHANGED <<mode, sent, twap, exits>>,
           \A q \in InQueue' \cup InTasks \cup InJob' :
              q.id <= MaxOrders => pos'[q.id] = pos[q.id]
    PROVE  Flow'
<1>1. InTasks' = InTasks
  BY DEF InTasks
<1>2. /\ \A q \in InQueue', r \in InTasks : q.id # r.id
      /\ \A q \in InQueue' \cup InTasks : Issued(q)
  BY OthersKept
<1>3. Once'
  BY <1>1, <1>2 DEF Picked, Once, Flow
<1>4. \A q \in Around' : Issued(q)'
  BY <1>1, <1>2 DEF Picked, Around, Issued
<1> QED
  BY <1>3, <1>4 DEF Flow, Picked

\* An order that becomes a task.
LEMMA DivertKeeps ==
    ASSUME Flow, Ledger, NEW o, Picked(o), NEW p \in Prices \cup {0}, Divert(o, p),
           UNCHANGED <<mode, sent, exits>>
    PROVE  Flow' /\ Ledger'
<1> DEFINE n == Chunks(o.amount * p)
           u == [order |-> o, left |-> n, chunk |-> o.amount \div n, done |-> 0, at |-> "wait"]
<1>1. twap' = twap \cup {u} /\ job' = Idle /\ UNCHANGED <<pos, book>>
  BY DEF Divert
<1>2. n \in Nat \ {0} /\ o.amount \div n \in Nat
  BY ChunksType DEF Picked
<1>3. u \in Task /\ u.order = o /\ u.done = 0
  <2> HIDE DEF n
  <2> QED
    BY <1>2 DEF Task, Picked
<1> HIDE DEF u
<1>4. u \notin twap
  BY <1>3 DEF Picked, InTasks
<1>5. InTasks' = InTasks \cup {o} /\ InJob' = {} /\ JobOK'
  BY <1>1, <1>3 DEF InTasks, InJob, JobOK, Idle
<1>6. twap' \subseteq Task /\ IsFiniteSet(twap')
  BY <1>1, <1>3, FS_AddElement DEF Flow
<1>7. /\ \A q \in InQueue', r \in InTasks : q.id # r.id
      /\ \A q \in InQueue' \cup InTasks : Issued(q)
  BY OthersKept
<1>8. \A t, v \in twap' : t.order.id = v.order.id => t = v
  BY <1>1, <1>3 DEF Picked, InTasks, Flow, Once
<1>9. Once'
  BY <1>5, <1>7, <1>8 DEF Picked, Once
<1>10. \A q \in Around' : Issued(q)'
  BY <1>1, <1>5, <1>7 DEF Picked, Around, Issued
<1>11. Flow'
  BY <1>5, <1>6, <1>9, <1>10 DEF Flow, Picked
<1>12. ReportsAddUp'
  <2> SUFFICES ASSUME NEW s \in Symbols
               PROVE  volume[s] = told[s] + lost[s] + Confirmed(Of(twap', s))
    BY <1>1 DEF ReportsAddUp, book, Of
  <2>1. twap' \ {u} = twap /\ u \in twap'
    BY <1>1, <1>4
  <2>2. Owes(u, s) = 0
    BY <1>3 DEF Owes
  <2>3. Confirmed(Of(twap', s)) = 0 + Confirmed(Of(twap, s)) /\ Confirmed(Of(twap, s)) \in Nat
    BY <1>6, <2>1, <2>2, OwedSplit
  <2>4. volume[s] = told[s] + lost[s] + Confirmed(Of(twap, s))
    BY DEF Ledger, ReportsAddUp, Of
  <2> QED
    BY <2>3, <2>4
<1> QED
  BY <1>1, <1>11, <1>12 DEF Ledger, book

\* An order executed and published, on paper or at the exchange.
LEMMA FilledKeeps ==
    ASSUME IInv, NEW o, Picked(o),
           job' = Idle, Executed(o, o.amount), Published(o, o.amount),
           mode = "live" => Covered(o, o.amount),
           \/ UNCHANGED <<open, pos>>
           \/ \E p : (o.action = "BUY" => p \in Prices) /\ Tracked(o, p),
           UNCHANGED <<mode, sent, rest, twap, lost, exits>>
    PROVE  Flow' /\ Table' /\ Ledger'
<1>1. /\ o \in Orders /\ o.amount \in Nat /\ o.symbol \in Symbols
      /\ o.price \in Prices \cup {0}
      /\ o.action \in {"BUY", "SELL"} /\ o.id \in 1 .. 2 * MaxOrders
  <2>1. o \in Orders /\ Amounts \subseteq Nat
    BY StreamAssumption DEF Picked
  <2> QED
    BY <2>1 DEF Orders, Sides
<1>2. MaxOrders \in Nat /\ sent \in 0 .. MaxOrders
  BY StreamAssumption DEF IInv, Flow
<1>3. o.action = "BUY" => o.id \in Ids /\ o.id <= sent /\ pos[o.id] = NoPosition
  BY <1>1, <1>2 DEF Picked, Issued, Ids
<1>5. Table' /\ \A i \in Ids : i # o.id => pos'[i] = pos[i]
  <2>1. CASE UNCHANGED <<open, pos>>
    BY <2>1 DEF IInv, Table, StopSellsOnce
  <2>2. ASSUME NEW p, o.action = "BUY" => p \in Prices, Tracked(o, p)
        PROVE  Table' /\ \A i \in Ids : i # o.id => pos'[i] = pos[i]
    BY <1>1, <1>2, <1>3, <2>2, TrackedKeepsTable DEF IInv
  <2> QED
    BY <2>1, <2>2
<1>6. InJob' = {} /\ JobOK'
  BY DEF InJob, JobOK, Idle
<1>7. \A q \in InQueue' \cup InTasks \cup InJob' : q.id <= MaxOrders => pos'[q.id] = pos[q.id]
  <2> SUFFICES ASSUME NEW q \in InQueue' \cup InTasks, q.id <= MaxOrders
               PROVE  q.id \in Ids /\ q.id # o.id
    BY <1>5, <1>6
  <2>1. q \in Orders
    BY OthersKept DEF IInv
  <2> QED
    BY <1>2, <2>1 DEF Picked, Orders, Ids
<1>8. Flow'
  BY <1>6, <1>7, ListenerKeepsFlow DEF IInv
<1>9. /\ held' \in [Symbols -> Int]
      /\ mode' = "live" => \A s \in Symbols : held'[s] >= 0
      /\ volume' \in [Symbols -> Nat]
      /\ \A s \in Symbols : volume'[s] = volume[s] + (IF s = o.symbol THEN o.amount ELSE 0)
  BY <1>1, ExecutedBooks DEF IInv, Ledger
<1>10. /\ told' \in [Symbols -> Nat]
       /\ \A s \in Symbols : told'[s] = told[s] + (IF s = o.symbol THEN o.amount ELSE 0)
  BY <1>1, CountGrows DEF IInv, Ledger, Published
<1>11. ReportsAddUp'
  <2> SUFFICES ASSUME NEW s \in Symbols
               PROVE  volume'[s] = told'[s] + lost[s] + Confirmed(Of(twap, s))
    BY DEF ReportsAddUp, Of
  <2>1. volume[s] = told[s] + lost[s] + Confirmed(Of(twap, s))
    BY DEF IInv, Ledger, ReportsAddUp, Of
  <2>2. Confirmed(Of(twap, s)) \in Nat /\ volume[s] \in Nat /\ told[s] \in Nat /\ lost[s] \in Nat
    BY OwedType DEF IInv, Flow, Ledger
  <2> QED
    BY <1>1, <1>9, <1>10, <2>1, <2>2
<1> QED
  BY <1>5, <1>8, <1>9, <1>10, <1>11 DEF IInv, Ledger

\* What the listener does with an order at the price it knows.
LEMMA ProcessKeeps ==
    ASSUME IInv, NEW o, Picked(o), NEW p \in Prices \cup {0}, Process(o, p),
           UNCHANGED <<mode, sent, rest, exits, breaker, relief>>
    PROVE  IInv'
<1>1. Watch'
  BY DEF IInv, Watch, breaker, DrawdownHalts
<1>2. CASE Divert(o, p)
  <2>1. Flow' /\ Ledger'
    BY <1>2, DivertKeeps DEF IInv
  <2>2. Table'
    BY <1>2 DEF IInv, Table, Divert, StopSellsOnce
  <2> QED
    BY <1>1, <2>1, <2>2 DEF IInv
<1>3. CASE Refuse(o, p)
  <2>1. job' = Idle /\ UNCHANGED <<open, pos, twap, book>>
    BY <1>3 DEF Refuse
  <2>2. InJob' = {} /\ JobOK'
    BY <2>1 DEF InJob, JobOK, Idle
  <2>3. Flow'
    BY <2>1, <2>2, ListenerKeepsFlow DEF IInv
  <2> QED
    BY <1>1, <2>1, <2>3 DEF IInv, Table, Ledger, book, StopSellsOnce, ReportsAddUp
<1>4. CASE PaperTrade(o)
  <2>1. /\ job' = Idle /\ Executed(o, o.amount) /\ Published(o, o.amount)
        /\ mode # "live" /\ UNCHANGED <<twap, lost>>
    BY <1>4 DEF PaperTrade
  <2>2. o.action = "BUY" /\ o.price # 0 => o.price \in Prices
    BY DEF Picked, Orders
  <2>3. \/ UNCHANGED <<open, pos>>
        \/ \E q : (o.action = "BUY" => q \in Prices) /\ Tracked(o, q)
    BY <1>4, <2>2 DEF PaperTrade
  <2> QED
    BY <1>1, <2>1, <2>3, FilledKeeps DEF IInv
<1>5. CASE job' = [at |-> "exchange", order |-> o] /\ UNCHANGED <<open, pos, twap, book>>
  <2>1. InJob' = {o} /\ JobOK'
    BY <1>5 DEF InJob, JobOK, Picked
  <2>2. Flow'
    BY <1>5, <2>1, ListenerKeepsFlow DEF IInv
  <2> QED
    BY <1>1, <1>5, <2>2 DEF IInv, Table, Ledger, book, StopSellsOnce, ReportsAddUp
<1> QED
  BY <1>2, <1>3, <1>4, <1>5 DEF Process

\* The order the listener waits with is in no other place.
LEMMA JobIsPicked ==
    ASSUME Flow, job.at \in {"ticker", "exchange"}, queue' = queue
    PROVE  Picked(job.order)
<1>1. job.order \in Orders
  BY DEF Flow, JobOK, Idle
<1>2. InQueue' = InQueue /\ (QueueOnce' <=> QueueOnce)
  BY DEF InQueue, QueueOnce
<1>3. job.order \in InJob
  BY DEF InJob
<1> QED
  BY <1>1, <1>2, <1>3 DEF Flow, Once, Around, Picked

\* So is the one it takes off the queue.
LEMMA HeadIsPicked ==
    ASSUME Flow, queue # <<>>, Head(queue) # Liquidation, queue' = Tail(queue)
    PROVE  Picked(Head(queue))
<1>1. /\ queue' \in Seq(Queued) /\ QueueOnce' /\ InQueue' \subseteq InQueue
      /\ Head(queue) \in Orders /\ Head(queue) \in InQueue
      /\ \A q \in InQueue' : q.id # Head(queue).id
  BY QueueTail DEF Flow, Once
<1> QED
  BY <1>1 DEF Flow, Once, Around, Picked

-----------------------------------------------------------------------------
LEMMA SubmitStep == IInv /\ Submit => IInv'
<1> SUFFICES ASSUME IInv, Submit PROVE IInv'
  OBVIOUS
<1>1. PICK o \in Orders : o.id = sent + 1 /\ queue' = Append(queue, o)
  BY DEF Submit
<1>2. MaxOrders \in Nat /\ sent \in 0 .. MaxOrders /\ sent < MaxOrders /\ sent' = sent + 1
  BY StreamAssumption DEF IInv, Flow, Submit
<1>3. UNCHANGED <<mode, job, open, pos, rest, twap, book, exits, breaker, relief>>
  BY DEF Submit
<1>4. \A q \in Around : q.id # o.id
  <2> SUFFICES ASSUME NEW q \in Around PROVE q.id # o.id
    OBVIOUS
  <2>1. Issued(q) /\ q \in Orders
    BY AroundAreOrders DEF IInv, Flow
  <2> QED
    BY <1>1, <1>2, <2>1 DEF Issued, Orders
<1>5. queue' \in Seq(Queued) /\ QueueOnce' /\ InQueue' = InQueue \cup {o}
  BY <1>1, <1>4, QueueAppend DEF IInv, Flow, Once, Around
<1>6. InJob' = InJob /\ InTasks' = InTasks
  BY <1>3 DEF InJob, InTasks
<1>7. Once'
  BY <1>3, <1>4, <1>5, <1>6 DEF IInv, Flow, Once, Around
<1>8. \A q \in Around' : Issued(q)'
  <2>1. Issued(o)'
    <3>1. o.id \in Ids /\ o.id > sent /\ o.id <= MaxOrders
      BY <1>1, <1>2 DEF Ids
    <3>2. pos[o.id] = NoPosition
      BY <3>1 DEF IInv, Table
    <3> QED
      BY <1>1, <1>2, <1>3, <3>1, <3>2 DEF Issued
  <2>2. ASSUME NEW q \in Around PROVE Issued(q)'
    <3>1. Issued(q) /\ q \in Orders
      BY AroundAreOrders DEF IInv, Flow
    <3> QED
      BY <1>2, <1>3, <3>1 DEF Issued, Orders
  <2> QED
    BY <1>5, <1>6, <2>1, <2>2 DEF Around
<1>9. Flow'
  BY <1>2, <1>3, <1>5, <1>7, <1>8 DEF IInv, Flow, JobOK
<1>10. Table'
  <2>1. \A i \in Ids : i > sent' => i > sent
    BY <1>2 DEF Ids
  <2> QED
    BY <1>3, <2>1 DEF IInv, Table, StopSellsOnce
<1> QED
  BY <1>3, <1>9, <1>10 DEF IInv, Ledger, Watch, book, breaker, ReportsAddUp, DrawdownHalts

LEMMA TakeStep == IInv /\ Take => IInv'
<1> SUFFICES ASSUME IInv, Take PROVE IInv'
  OBVIOUS
<1> DEFINE o == Head(queue)
<1>1. /\ queue # <<>> /\ o # Liquidation /\ queue' = Tail(queue)
      /\ UNCHANGED <<mode, sent, rest, exits, breaker, relief>>
      /\ o.price # 0 => Process(o, o.price)
      /\ o.price = 0 => job' = [at |-> "ticker", order |-> o] /\ UNCHANGED <<open, pos, twap, book>>
  BY DEF Take
<1>2. Picked(o)
  BY <1>1, HeadIsPicked DEF IInv
<1> HIDE DEF o
<1>3. o.price \in Prices \cup {0}
  BY <1>2 DEF Picked, Orders
<1>4. CASE o.price # 0
  BY <1>1, <1>2, <1>3, <1>4, ProcessKeeps
<1>5. CASE o.price = 0
  <2>1. InJob' = {o} /\ JobOK'
    BY <1>1, <1>2, <1>5 DEF InJob, JobOK, Picked
  <2>2. Flow'
    BY <1>1, <1>2, <1>5, <2>1, ListenerKeepsFlow DEF IInv
  <2> QED
    BY <1>1, <1>5, <2>2 DEF IInv, Table, Ledger, Watch, book, breaker, StopSellsOnce,
                            ReportsAddUp, DrawdownHalts
<1> QED
  BY <1>4, <1>5

LEMMA TickerStep == IInv /\ TickerAnswers => IInv'
<1> SUFFICES ASSUME IInv, TickerAnswers PROVE IInv'
  OBVIOUS
<1>1. Picked(job.order)
  BY JobIsPicked DEF IInv, TickerAnswers
<1>2. PICK p \in Prices \cup {0} : Process(job.order, p)
  BY DEF TickerAnswers
<1> QED
  BY <1>1, <1>2, ProcessKeeps DEF TickerAnswers

LEMMA ExecutedStep == IInv /\ OrderExecuted => IInv'
<1> SUFFICES ASSUME IInv, OrderExecuted PROVE IInv'
  OBVIOUS
<1> DEFINE o == job.order
<1>1. Picked(o)
  BY JobIsPicked DEF IInv, OrderExecuted
<1>2. /\ job' = Idle /\ Executed(o, o.amount) /\ Published(o, o.amount) /\ Covered(o, o.amount)
      /\ UNCHANGED <<mode, sent, rest, twap, lost, exits, breaker, relief>>
      /\ \/ UNCHANGED <<open, pos>>
         \/ \E p : (o.action = "BUY" => p \in Prices) /\ Tracked(o, p)
  BY DEF OrderExecuted
<1> HIDE DEF o
<1>3. Flow' /\ Table' /\ Ledger'
  BY <1>1, <1>2, FilledKeeps
<1> QED
  BY <1>2, <1>3 DEF IInv, Watch, breaker, DrawdownHalts

LEMMA FailsStep == IInv /\ OrderFails => IInv'
<1> SUFFICES ASSUME IInv, OrderFails PROVE IInv'
  OBVIOUS
<1> DEFINE o == job.order
<1>1. Picked(o)
  BY JobIsPicked DEF IInv, OrderFails
<1>2. /\ job' = Idle
      /\ UNCHANGED <<mode, sent, open, pos, rest, twap, exits, breaker, relief>>
      /\ \/ UNCHANGED book
         \/ /\ Covered(o, o.amount) /\ Executed(o, o.amount)
            /\ lost' = [lost EXCEPT ![o.symbol] = @ + o.amount] /\ UNCHANGED told
  BY DEF OrderFails
<1> HIDE DEF o
<1>3. InJob' = {} /\ JobOK'
  BY <1>2 DEF InJob, JobOK, Idle
<1>4. Flow'
  BY <1>1, <1>2, <1>3, ListenerKeepsFlow DEF IInv
<1>5. Ledger'
  <2>1. CASE UNCHANGED book
    BY <1>2, <2>1 DEF IInv, Ledger, book, ReportsAddUp
  <2>2. CASE ~UNCHANGED book
    <3>1. o \in Orders /\ o.symbol \in Symbols /\ o.amount \in Nat
      <4>1. o \in Orders /\ Amounts \subseteq Nat
        BY <1>1, StreamAssumption DEF Picked
      <4> QED
        BY <4>1 DEF Orders
    <3>2. LostAsExecuted(o, o.amount)
      BY <1>2, <2>2 DEF LostAsExecuted
    <3> QED
      BY <1>2, <3>1, <3>2, LostKeepsBooks DEF IInv, Ledger, Flow
  <2> QED
    BY <2>1, <2>2
<1> QED
  BY <1>2, <1>4, <1>5 DEF IInv, Table, Watch, breaker, StopSellsOnce, DrawdownHalts

-----------------------------------------------------------------------------
\* A task has had amount c of its chunk confirmed: it goes on, or it is done and
\* publishes what it has had confirmed.
GoesOn(t, c) ==
    \/ /\ UNCHANGED told
       /\ \E u \in Task : /\ u.order = t.order /\ u.done = t.done + c
                          /\ twap' = (twap \ {t}) \cup {u}
    \/ twap' = twap \ {t} /\ Published(t.order, t.done + c)

LEMMA TaskKeepsFlow ==
    ASSUME Flow, NEW t \in twap, NEW c, GoesOn(t, c),
           UNCHANGED <<mode, queue, job, sent, pos, exits>>
    PROVE  Flow'
<1>1. /\ twap' \subseteq Task /\ IsFiniteSet(twap')
      /\ \A u \in twap' : u \in twap \ {t} \/ u.order = t.order
      /\ \A u, v \in twap' : u \in twap \ {t} \/ v \in twap \ {t} \/ u = v
  <2>1. twap \ {t} \subseteq Task /\ IsFiniteSet(twap \ {t})
    BY FS_RemoveElement DEF Flow
  <2>2. CASE twap' = twap \ {t}
    BY <2>1, <2>2
  <2>3. ASSUME NEW u \in Task, u.order = t.order, twap' = (twap \ {t}) \cup {u}
        PROVE  <1>1
    BY <2>1, <2>3, FS_AddElement
  <2> QED
    BY <2>2, <2>3 DEF GoesOn
<1>2. InTasks' \subseteq InTasks /\ InJob' = InJob /\ InQueue' = InQueue /\ (QueueOnce' <=> QueueOnce)
  BY <1>1 DEF InTasks, InJob, InQueue, QueueOnce
<1>3. \A u, v \in twap' : u.order.id = v.order.id => u = v
  BY <1>1 DEF Flow, Once
<1>4. Once'
  BY <1>2, <1>3 DEF Flow, Once
<1>5. \A q \in Around' : Issued(q)'
  BY <1>2 DEF Flow, Around, Issued
<1> QED
  BY <1>1, <1>4, <1>5 DEF Flow, JobOK

\* Amount c was confirmed and amount l executed without an answer.
TaskBooks(o, c, l) ==
    /\ held' \in [Symbols -> Int]
    /\ mode = "live" => \A s \in Symbols : held'[s] >= 0
    /\ volume' \in [Symbols -> Nat] /\ lost' \in [Symbols -> Nat]
    /\ \A s \in Symbols :
          /\ volume'[s] = volume[s] + (IF s = o.symbol THEN c + l ELSE 0)
          /\ lost'[s] = lost[s] + (IF s = o.symbol THEN l ELSE 0)

LEMMA TaskKeeps ==
    ASSUME IInv, NEW t \in twap, NEW c \in Nat, NEW l \in Nat,
           GoesOn(t, c), TaskBooks(t.order, c, l),
           UNCHANGED <<mode, queue, job, sent, open, pos, rest, exits, breaker, relief>>
    PROVE  IInv'
<1>1. Flow'
  BY TaskKeepsFlow DEF IInv
<1>2. Table' /\ Watch'
  BY DEF IInv, Table, Watch, breaker, StopSellsOnce, DrawdownHalts
<1>3. /\ twap \in SUBSET Task /\ IsFiniteSet(twap)
      /\ t.order \in Orders /\ t.order.symbol \in Symbols /\ t.done \in Nat
  <2>1. twap \in SUBSET Task /\ IsFiniteSet(twap) /\ t \in Task
    BY DEF IInv, Flow
  <2> QED
    BY <2>1 DEF Task, Orders
<1>4. told' \in [Symbols -> Nat] /\ ReportsAddUp'
  <2>1. \A s \in Symbols : /\ volume[s] = told[s] + lost[s] + Confirmed(Of(twap, s))
                           /\ volume[s] \in Nat /\ told[s] \in Nat /\ lost[s] \in Nat
    BY DEF IInv, Ledger, ReportsAddUp, Of
  <2>2. ASSUME told' = told,
               NEW u \in Task, u.order = t.order, u.done = t.done + c, twap' = (twap \ {t}) \cup {u}
        PROVE  <1>4
    <3>1. u \notin twap \ {t}
      BY <2>2 DEF IInv, Flow, Once
    <3>2. ASSUME NEW s \in Symbols
          PROVE  /\ Confirmed(Of(twap, s)) \in Nat
                 /\ Confirmed(Of(twap', s)) = Confirmed(Of(twap, s)) - Owes(t, s) + Owes(u, s)
      BY <1>3, <2>2, <3>1, OwedStep
    <3>3. \A s \in Symbols : volume'[s] = told[s] + lost'[s] + Confirmed(Of(twap', s))
      <4> SUFFICES ASSUME NEW s \in Symbols
                   PROVE  volume'[s] = told[s] + lost'[s] + Confirmed(Of(twap', s))
        OBVIOUS
      <4>1. Owes(u, s) = Owes(t, s) + (IF s = t.order.symbol THEN c ELSE 0) /\ Owes(t, s) \in Nat
        BY <1>3, <2>2 DEF Owes
      <4> QED
        BY <2>1, <3>2, <4>1 DEF TaskBooks
    <3> QED
      BY <2>2, <3>3 DEF IInv, Ledger, ReportsAddUp, Of
  <2>3. CASE twap' = twap \ {t} /\ Published(t.order, t.done + c)
    <3>1. /\ told' \in [Symbols -> Nat]
          /\ \A s \in Symbols : told'[s] = told[s] + (IF s = t.order.symbol THEN t.done + c ELSE 0)
      BY <1>3, <2>3, CountGrows DEF IInv, Ledger, Published
    <3>2. \A s \in Symbols : volume'[s] = told'[s] + lost'[s] + Confirmed(Of(twap', s))
      <4> SUFFICES ASSUME NEW s \in Symbols
                   PROVE  volume'[s] = told'[s] + lost'[s] + Confirmed(Of(twap', s))
        OBVIOUS
      <4>1. /\ Confirmed(Of(twap, s)) \in Nat
            /\ Confirmed(Of(twap', s)) \in Nat
            /\ Confirmed(Of(twap, s)) = Owes(t, s) + Confirmed(Of(twap', s))
        BY <1>3, <2>3, OwedSplit
      <4>2. Owes(t, s) = IF s = t.order.symbol THEN t.done ELSE 0
        BY DEF Owes
      <4>3. /\ volume'[s] = volume[s] + (IF s = t.order.symbol THEN c + l ELSE 0)
            /\ lost'[s] = lost[s] + (IF s = t.order.symbol THEN l ELSE 0)
        BY DEF TaskBooks
      <4>4. told'[s] = told[s] + (IF s = t.order.symbol THEN t.done + c ELSE 0)
        BY <3>1
      <4>5. CASE s = t.order.symbol
        <5>1. /\ volume'[s] = volume[s] + (c + l) /\ lost'[s] = lost[s] + l
              /\ told'[s] = told[s] + (t.done + c)
              /\ Confirmed(Of(twap, s)) = t.done + Confirmed(Of(twap', s))
          BY <4>1, <4>2, <4>3, <4>4, <4>5
        <5>2. /\ volume[s] = told[s] + lost[s] + Confirmed(Of(twap, s))
              /\ volume[s] \in Nat /\ told[s] \in Nat /\ lost[s] \in Nat /\ t.done \in Nat
              /\ Confirmed(Of(twap', s)) \in Nat
          BY <1>3, <2>1, <4>1
        <5> QED
          BY <5>1, <5>2
      <4>6. CASE s # t.order.symbol
        BY <1>3, <2>1, <4>1, <4>2, <4>3, <4>4, <4>6
      <4> QED
        BY <4>5, <4>6
    <3> QED
      BY <3>1, <3>2 DEF ReportsAddUp, Of
  <2> QED
    BY <2>2, <2>3 DEF GoesOn
<1> QED
  BY <1>1, <1>2, <1>4 DEF IInv, Ledger, TaskBooks

\* What the exchange executed of a task's order.
LEMMA NothingExecuted ==
    ASSUME Ledger, NEW o, UNCHANGED <<held, volume, lost>>
    PROVE  TaskBooks(o, 0, 0)
<1>1. \A s \in Symbols : volume[s] \in Nat /\ lost[s] \in Nat
  BY DEF Ledger
<1> QED
  BY <1>1 DEF Ledger, TaskBooks

LEMMA ConfirmedBooks ==
    ASSUME Ledger, NEW o \in Orders, NEW a \in Nat, mode = "live" => Covered(o, a),
           Executed(o, a), mode' = mode, UNCHANGED lost
    PROVE  TaskBooks(o, a, 0)
<1>1. /\ held' \in [Symbols -> Int]
      /\ mode' = "live" => \A s \in Symbols : held'[s] >= 0
      /\ volume' \in [Symbols -> Nat]
      /\ \A s \in Symbols : volume'[s] = volume[s] + (IF s = o.symbol THEN a ELSE 0)
  BY ExecutedBooks DEF Ledger
<1>2. \A s \in Symbols : volume[s] \in Nat /\ lost[s] \in Nat
  BY DEF Ledger
<1> QED
  BY <1>1, <1>2 DEF Ledger, TaskBooks

LEMMA UnconfirmedBooks ==
    ASSUME Ledger, NEW o \in Orders, NEW a \in Nat, Covered(o, a), Executed(o, a), mode' = mode,
           lost' = [lost EXCEPT ![o.symbol] = @ + a]
    PROVE  TaskBooks(o, 0, a)
<1>1. /\ held' \in [Symbols -> Int]
      /\ mode' = "live" => \A s \in Symbols : held'[s] >= 0
      /\ volume' \in [Symbols -> Nat]
      /\ \A s \in Symbols : volume'[s] = volume[s] + (IF s = o.symbol THEN a ELSE 0)
  BY ExecutedBooks DEF Ledger
<1>2. /\ lost' \in [Symbols -> Nat]
      /\ \A s \in Symbols : lost'[s] = lost[s] + (IF s = o.symbol THEN a ELSE 0)
  <2>1. o.symbol \in Symbols /\ lost \in [Symbols -> Nat]
    BY DEF Orders, Ledger
  <2> QED
    BY <2>1, CountGrows
<1> QED
  BY <1>1, <1>2 DEF TaskBooks

LEMMA ContinueGoesOn ==
    ASSUME NEW t \in Task, NEW a \in Nat, Continue(t, a)
    PROVE  GoesOn(t, a)
<1>1. /\ t = [order |-> t.order, left |-> t.left, chunk |-> t.chunk, done |-> t.done, at |-> t.at]
      /\ t.order \in Orders /\ t.left \in Nat \ {0} /\ t.chunk \in Nat /\ t.done \in Nat
  BY DEF Task
<1>2. CASE t.left > 1
  <2> DEFINE u == [order |-> t.order, left |-> t.left - 1, chunk |-> t.chunk,
                   done |-> t.done + a, at |-> "wait"]
  <2>1. u \in Task /\ u.order = t.order /\ u.done = t.done + a
    BY <1>1, <1>2 DEF Task
  <2>2. [t EXCEPT !.left = @ - 1, !.done = @ + a, !.at = "wait"] = u
    <3> DEFINE n == t.left - 1
               v == [t EXCEPT !.left = n]
               d == t.done + a
               w == [v EXCEPT !.done = d]
    <3>1. v = [order |-> t.order, left |-> n, chunk |-> t.chunk, done |-> t.done, at |-> t.at]
      <4> HIDE DEF n
      <4> QED
        BY <1>1
    <3>2. [t EXCEPT !.left = @ - 1, !.done = @ + a, !.at = "wait"] = [w EXCEPT !.at = "wait"]
      OBVIOUS
    <3>3. u = [order |-> t.order, left |-> n, chunk |-> t.chunk, done |-> d, at |-> "wait"]
      OBVIOUS
    <3> HIDE DEF v, n, d, u
    <3>4. w = [order |-> t.order, left |-> n, chunk |-> t.chunk, done |-> d, at |-> t.at]
      BY <3>1
    <3> HIDE DEF w
    <3>5. [w EXCEPT !.at = "wait"] = u
      BY <3>3, <3>4
    <3> QED
      BY <3>2, <3>5
  <2>3. twap' = (twap \ {t}) \cup {u} /\ UNCHANGED told
    BY <1>2, <2>2 DEF Continue
  <2> HIDE DEF u
  <2> QED
    BY <2>1, <2>3 DEF GoesOn
<1>3. CASE ~(t.left > 1)
  BY <1>3 DEF Continue, GoesOn
<1> QED
  BY <1>2, <1>3

LEMMA ChunkStep == \A t \in twap : IInv /\ Chunk(t) => IInv'
<1> SUFFICES ASSUME NEW t \in twap, IInv, Chunk(t) PROVE IInv'
  OBVIOUS
<1>1. /\ UNCHANGED <<mode, queue, job, sent, open, pos, rest, exits, breaker, relief>>
      /\ mode' = mode
  BY DEF Chunk
<1>2. t \in Task /\ Ledger
  BY DEF IInv, Flow
<1>3. /\ t = [order |-> t.order, left |-> t.left, chunk |-> t.chunk, done |-> t.done, at |-> t.at]
      /\ t.order \in Orders /\ t.left \in Nat \ {0} /\ t.chunk \in Nat /\ t.done \in Nat
  BY <1>2 DEF Task
<1>4. CASE twap' = twap \ {t} /\ Published(t.order, t.done) /\ UNCHANGED <<held, volume, lost>>
  <2>1. GoesOn(t, 0)
    BY <1>3, <1>4 DEF GoesOn
  <2>2. TaskBooks(t.order, 0, 0)
    BY <1>2, <1>4, NothingExecuted
  <2> QED
    BY <1>1, <2>1, <2>2, TaskKeeps
<1>5. CASE mode = "paper" /\ Executed(t.order, t.chunk) /\ Continue(t, t.chunk) /\ UNCHANGED lost
  <2>1. GoesOn(t, t.chunk)
    BY <1>2, <1>3, <1>5, ContinueGoesOn
  <2>2. TaskBooks(t.order, t.chunk, 0)
    BY <1>1, <1>2, <1>3, <1>5, ConfirmedBooks
  <2> QED
    BY <1>1, <1>3, <2>1, <2>2, TaskKeeps
<1>6. CASE twap' = (twap \ {t}) \cup {[t EXCEPT !.at = "exchange"]} /\ UNCHANGED book
  <2> DEFINE u == [order |-> t.order, left |-> t.left, chunk |-> t.chunk, done |-> t.done,
                   at |-> "exchange"]
  <2>1. u \in Task /\ u.order = t.order /\ u.done = t.done + 0
    BY <1>3 DEF Task
  <2>2. [t EXCEPT !.at = "exchange"] = u
    BY <1>3
  <2>3. twap' = (twap \ {t}) \cup {u}
    BY <1>6, <2>2
  <2> HIDE DEF u
  <2>4. GoesOn(t, 0)
    BY <1>6, <2>1, <2>3 DEF GoesOn, book
  <2>5. TaskBooks(t.order, 0, 0)
    BY <1>2, <1>6, NothingExecuted DEF book
  <2> QED
    BY <1>1, <2>4, <2>5, TaskKeeps
<1> QED
  BY <1>4, <1>5, <1>6 DEF Chunk

LEMMA ChunkAnsweredStep == \A t \in twap : IInv /\ ChunkAnswered(t) => IInv'
<1> SUFFICES ASSUME NEW t \in twap, IInv, ChunkAnswered(t) PROVE IInv'
  OBVIOUS
<1>1. /\ UNCHANGED <<mode, queue, job, sent, open, pos, rest, exits, breaker, relief>>
      /\ mode' = mode
  BY DEF ChunkAnswered
<1>2. t \in Task /\ t.order \in Orders /\ t.chunk \in Nat /\ Ledger
  <2>1. t \in Task /\ Ledger
    BY DEF IInv, Flow
  <2> QED
    BY <2>1 DEF Task
<1>3. CASE /\ Covered(t.order, t.chunk) /\ Executed(t.order, t.chunk)
           /\ Continue(t, t.chunk) /\ UNCHANGED lost
  <2>1. GoesOn(t, t.chunk)
    BY <1>2, <1>3, ContinueGoesOn
  <2>2. TaskBooks(t.order, t.chunk, 0)
    BY <1>1, <1>2, <1>3, ConfirmedBooks
  <2> QED
    BY <1>1, <1>2, <2>1, <2>2, TaskKeeps
<1>4. CASE /\ Covered(t.order, t.chunk) /\ Executed(t.order, t.chunk)
           /\ lost' = [lost EXCEPT ![t.order.symbol] = @ + t.chunk] /\ Continue(t, 0)
  <2>1. GoesOn(t, 0)
    BY <1>2, <1>4, ContinueGoesOn
  <2>2. TaskBooks(t.order, 0, t.chunk)
    BY <1>1, <1>2, <1>4, UnconfirmedBooks
  <2> QED
    BY <1>1, <1>2, <2>1, <2>2, TaskKeeps
<1>5. CASE Continue(t, 0) /\ UNCHANGED <<held, volume, lost>>
  <2>1. GoesOn(t, 0)
    BY <1>2, <1>5, ContinueGoesOn
  <2>2. TaskBooks(t.order, 0, 0)
    BY <1>2, <1>5, NothingExecuted
  <2> QED
    BY <1>1, <2>1, <2>2, TaskKeeps
<1> QED
  BY <1>3, <1>4, <1>5 DEF ChunkAnswered

-----------------------------------------------------------------------------
LEMMA BeginPassStep == IInv /\ BeginPass => IInv'
<1> SUFFICES ASSUME IInv, BeginPass PROVE IInv'
  OBVIOUS
<1>1. /\ rest' = {x \in Symbols \X Ids : open[x[1]] = x[2]}
      /\ UNCHANGED <<mode, queue, job, sent, open, pos, twap, book, exits, breaker, relief>>
  BY DEF BeginPass
<1>2. Flow' /\ Ledger' /\ Watch'
  BY <1>1 DEF IInv, Flow, JobOK, Once, QueueOnce, Around, InQueue, InJob, InTasks, Issued,
              Ledger, Watch, book, breaker, ReportsAddUp, DrawdownHalts
<1>3. Table'
  <2>1. \A x \in rest' : /\ x[1] \in Symbols /\ x[2] \in Ids /\ x[2] # None
                         /\ open[x[1]] = x[2] /\ x = <<x[1], x[2]>>
    BY <1>1, StreamAssumption DEF Ids
  <2>2. \A x \in rest' : pos[x[2]] # NoPosition /\ exits[x[2]] = 0
    BY <2>1 DEF IInv, Table
  <2>3. \A x \in rest', s \in Symbols : open[s] = x[2] => s = x[1]
    BY <2>1 DEF IInv, Table
  <2>4. \A x, y \in rest' : x[2] = y[2] => x = y
    BY <2>1, <2>3
  <2>5. rest' \subseteq Symbols \X Ids
    BY <1>1
  <2> QED
    BY <1>1, <2>2, <2>3, <2>4, <2>5 DEF IInv, Table, StopSellsOnce
<1> QED
  BY <1>2, <1>3 DEF IInv

\* A stop that moves leaves a position.
LEMMA TrailedType ==
    ASSUME NEW q \in Positions, NEW p \in Prices
    PROVE  Trailed(q, p) \in Positions
<1>1. /\ q = [amount |-> q.amount, high |-> q.high, stop |-> q.stop]
      /\ q.amount \in Amounts /\ q.high \in Prices /\ q.stop \in Nat
  BY DEF Positions
<1>2. Max({q.stop, Stop(p)}) \in Nat
  <2>1. p \in Nat
    BY StreamAssumption
  <2>2. Stop(p) \in Nat
    BY <2>1 DEF Stop
  <2>3. q.stop \in Int /\ Stop(p) \in Int
    BY <1>1, <2>2
  <2> QED
    BY <1>1, <2>2, <2>3, MaxOfTwo
<1> DEFINE m == Max({q.stop, Stop(p)})
           v == [q EXCEPT !.high = p]
<1>3. v = [amount |-> q.amount, high |-> p, stop |-> q.stop]
  BY <1>1
<1>4. Trailed(q, p) = IF p > q.high THEN [v EXCEPT !.stop = m] ELSE q
  <2>1. v.stop = q.stop
    BY <1>3
  <2> QED
    BY <2>1 DEF Trailed
<1> HIDE DEF m, v
<1>5. [v EXCEPT !.stop = m] = [amount |-> q.amount, high |-> p, stop |-> m]
  BY <1>3
<1>6. m \in Nat
  BY <1>2 DEF m
<1>7. [v EXCEPT !.stop = m] \in Positions
  BY <1>1, <1>5, <1>6 DEF Positions
<1> QED
  BY <1>4, <1>7

\* The orders around keep what was issued of them when a position that is
\* tracked changes.
LEMMA LookKeepsIssued ==
    ASSUME IInv, NEW i \in Ids, pos[i] # NoPosition,
           NEW q, pos' = [pos EXCEPT ![i] = q],
           exits' \in [Ids -> Nat], \A j \in Ids : exits'[j] >= exits[j], sent' = sent
    PROVE  \A o \in Around : Issued(o)'
<1> SUFFICES ASSUME NEW o \in Around PROVE Issued(o)'
  OBVIOUS
<1>1. Issued(o) /\ o.id \in 1 .. 2 * MaxOrders /\ MaxOrders \in Nat /\ sent \in 0 .. MaxOrders
  <2>1. o \in Orders
    BY AroundAreOrders DEF IInv
  <2> QED
    BY <2>1, StreamAssumption DEF IInv, Flow, Orders
<1>2. CASE o.id <= MaxOrders
  <2>1. o.id # i /\ o.id \in Ids
    BY <1>1, <1>2 DEF Issued, Ids
  <2> QED
    BY <1>1, <1>2, <2>1 DEF Issued, IInv, Table
<1>3. CASE o.id > MaxOrders
  <2>1. o.id - MaxOrders \in Ids
    BY <1>1, <1>3 DEF Ids
  <2>2. exits[o.id - MaxOrders] \in Nat /\ exits'[o.id - MaxOrders] \in Nat
    BY <2>1 DEF IInv, Table
  <2> QED
    BY <1>1, <1>3, <2>1, <2>2 DEF Issued
<1> QED
  BY <1>1, <1>2, <1>3

LEMMA LookStep == \A x \in rest : IInv /\ Look(x) => IInv'
<1> SUFFICES ASSUME NEW x \in rest, IInv, Look(x) PROVE IInv'
  OBVIOUS
<1> DEFINE i == x[2]
<1>1. /\ i \in Ids /\ x[1] \in Symbols /\ pos[i] # NoPosition /\ exits[i] = 0
      /\ pos[i] \in Positions /\ pos \in [Ids -> Positions \cup {NoPosition}]
      /\ exits \in [Ids -> Nat] /\ open \in [Symbols -> Ids \cup {None}]
  BY DEF IInv, Table
<1>2. PICK p \in Prices :
         LET q == Trailed(pos[x[2]], p)
         IN  /\ pos' = [pos EXCEPT ![x[2]] = q]
             /\ IF p * 1000 > q.stop
                THEN rest' = rest \ {x} /\ UNCHANGED <<queue, open, exits>>
                ELSE /\ queue' = Append(queue, Exit(x, q.amount))
                     /\ exits' = [exits EXCEPT ![x[2]] = @ + 1]
                     /\ open' = [open EXCEPT ![x[1]] = None]
                     /\ rest' = IF open[x[1]] = None THEN {} ELSE rest \ {x}
  BY DEF Look
<1> DEFINE q == Trailed(pos[i], p)
<1>3. /\ pos' = [pos EXCEPT ![i] = q]
      /\ \/ rest' = rest \ {x} /\ UNCHANGED <<queue, open, exits>>
         \/ /\ queue' = Append(queue, Exit(x, q.amount))
            /\ exits' = [exits EXCEPT ![i] = @ + 1]
            /\ open' = [open EXCEPT ![x[1]] = None]
            /\ rest' \subseteq rest \ {x}
  BY <1>2
<1>4. UNCHANGED <<mode, job, sent, twap, book, breaker, relief>>
  BY DEF Look
<1>5. q \in Positions /\ q # NoPosition /\ q.amount \in Amounts
  <2>1. q \in Positions
    BY <1>1, TrailedType
  <2> HIDE DEF q
  <2>2. q.amount \in Amounts /\ 0 \notin Amounts
    BY <2>1, StreamAssumption DEF Positions
  <2> QED
    BY <2>1, <2>2 DEF NoPosition
<1> HIDE DEF q, i
<1>6. InJob' = InJob /\ InTasks' = InTasks /\ (JobOK' <=> JobOK)
  BY <1>4 DEF InJob, InTasks, JobOK
<1>7. Ledger' /\ Watch'
  BY <1>4 DEF IInv, Ledger, Watch, book, breaker, ReportsAddUp, DrawdownHalts
<1>8. /\ pos' \in [Ids -> Positions \cup {NoPosition}]
      /\ \A j \in Ids : pos'[j] = IF j = i THEN q ELSE pos[j]
      /\ \A j \in Ids : pos'[j] # NoPosition <=> pos[j] # NoPosition
      /\ \A j \in Ids : j > sent' => pos'[j] = NoPosition
  <2>1. /\ pos' \in [Ids -> Positions \cup {NoPosition}]
        /\ \A j \in Ids : pos'[j] = IF j = i THEN q ELSE pos[j]
    BY <1>1, <1>3, <1>5
  <2>2. \A j \in Ids : pos'[j] # NoPosition <=> pos[j] # NoPosition
    BY <1>1, <1>5, <2>1
  <2>3. \A j \in Ids : j > sent => pos[j] = NoPosition
    BY DEF IInv, Table
  <2> QED
    BY <1>4, <2>1, <2>2, <2>3
<1>9. CASE rest' = rest \ {x} /\ UNCHANGED <<queue, open, exits>>
  <2>1. \A o \in Around : Issued(o)'
    <3>1. exits' = exits /\ \A j \in Ids : exits[j] \in Nat
      BY <1>1, <1>9
    <3>2. exits' \in [Ids -> Nat] /\ \A j \in Ids : exits'[j] >= exits[j]
      BY <1>1, <3>1
    <3> QED
      BY <1>1, <1>3, <1>4, <3>2, LookKeepsIssued
  <2>2. InQueue' = InQueue /\ (QueueOnce' <=> QueueOnce)
    BY <1>9 DEF InQueue, QueueOnce
  <2>3. Flow'
    BY <1>4, <1>6, <1>9, <2>1, <2>2 DEF IInv, Flow, Around, Once
  <2>4. \A y \in rest : y[2] \in Ids
    BY DEF IInv, Table
  <2>5. Table'
    BY <1>8, <1>9, <2>4, StreamAssumption DEF IInv, Table, StopSellsOnce
  <2> QED
    BY <1>7, <2>3, <2>5 DEF IInv
<1>10. CASE /\ queue' = Append(queue, Exit(x, q.amount))
            /\ exits' = [exits EXCEPT ![i] = @ + 1]
            /\ open' = [open EXCEPT ![x[1]] = None]
            /\ rest' \subseteq rest \ {x}
  <2>0. PICK o : o = Exit(x, q.amount)
    OBVIOUS
  <2>1. MaxOrders \in Nat /\ i \in 1 .. MaxOrders
    BY <1>1, StreamAssumption DEF Ids
  <2>2. o \in Orders /\ o.id = MaxOrders + i /\ o.action = "SELL"
    <3>1. MaxOrders + i \in 1 .. 2 * MaxOrders
      BY <2>1
    <3>2. o = [id |-> MaxOrders + i, action |-> "SELL", symbol |-> x[1], amount |-> q.amount,
               price |-> 0]
      BY <2>0 DEF Exit, i
    <3> QED
      BY <1>1, <1>5, <3>1, <3>2 DEF Orders, Sides
  <2>3. \A r \in Around : r.id # o.id
    <3> SUFFICES ASSUME NEW r \in Around, r.id = o.id PROVE FALSE
      OBVIOUS
    <3>1. Issued(r)
      BY DEF IInv, Flow
    <3> QED
      BY <1>1, <2>1, <2>2, <3>1 DEF Issued
  <2>4. queue' \in Seq(Queued) /\ QueueOnce' /\ InQueue' = InQueue \cup {o}
    BY <1>10, <2>0, <2>2, <2>3, QueueAppend DEF IInv, Flow, Once, Around
  <2>5. Once'
    BY <1>4, <1>6, <2>3, <2>4 DEF IInv, Flow, Once, Around
  <2>6. /\ exits' \in [Ids -> Nat]
        /\ \A j \in Ids : exits'[j] = IF j = i THEN 1 ELSE exits[j]
    BY <1>1, <1>10
  <2>7. \A r \in Around : Issued(r)'
    <3>1. \A j \in Ids : exits'[j] >= exits[j]
      BY <1>1, <2>6
    <3> QED
      BY <1>1, <1>3, <1>4, <2>6, <3>1, LookKeepsIssued
  <2>8. Issued(o)'
    <3>1. o.id > MaxOrders /\ ~(o.id <= MaxOrders) /\ o.id - MaxOrders = i
      BY <2>1, <2>2
    <3>2. exits'[i] > 0
      BY <1>1, <2>6
    <3> QED
      BY <2>2, <3>1, <3>2 DEF Issued
  <2>9. \A r \in Around' : Issued(r)'
    BY <1>6, <2>4, <2>7, <2>8 DEF Around
  <2>10. Flow'
    BY <1>4, <1>6, <2>4, <2>5, <2>9 DEF IInv, Flow
  <2>11. /\ open' \in [Symbols -> Ids \cup {None}]
         /\ \A s \in Symbols : open'[s] = IF s = x[1] THEN None ELSE open[s]
    BY <1>1, <1>10
  <2>12. None \notin Ids
    BY StreamAssumption DEF Ids
  <2>13. \A s \in Symbols : open'[s] # None => open'[s] = open[s] /\ open[s] # i
    <3>1. \A s \in Symbols : open[s] = i => s = x[1]
      BY DEF IInv, Table, i
    <3> QED
      BY <2>11, <3>1
  <2>14. \A y \in rest' : y \in rest /\ y[1] \in Symbols /\ y[2] \in Ids /\ y[2] # i
    BY <1>10 DEF IInv, Table, i
  <2>15. \A j \in Ids : exits'[j] > 0 => pos'[j] # NoPosition
    BY <1>1, <1>8, <2>6 DEF IInv, Table
  <2>16. \A s, t \in Symbols : open'[s] = open'[t] => s = t \/ open'[s] = None
    BY <2>11, <2>13 DEF IInv, Table
  <2>17. \A s \in Symbols : open'[s] # None => pos'[open'[s]] # NoPosition /\ exits'[open'[s]] = 0
    BY <1>8, <2>6, <2>11, <2>13 DEF IInv, Table
  <2>18. /\ \A y \in rest' : pos'[y[2]] # NoPosition /\ exits'[y[2]] = 0
         /\ \A y \in rest', s \in Symbols : open'[s] = y[2] => s = y[1]
    BY <1>8, <2>6, <2>11, <2>12, <2>13, <2>14 DEF IInv, Table
  <2>19. /\ rest' \subseteq Symbols \X Ids
         /\ \A y, z \in rest' : y[2] = z[2] => y = z
    BY <1>10 DEF IInv, Table
  <2>20. StopSellsOnce'
    BY <2>6 DEF IInv, Table, StopSellsOnce
  <2>21. Table'
    BY <1>8, <2>6, <2>11, <2>15, <2>16, <2>17, <2>18, <2>19, <2>20 DEF Table
  <2> QED
    BY <1>7, <2>10, <2>21 DEF IInv
<1> QED
  BY <1>3, <1>9, <1>10

LEMMA LookFailsStep == \A x \in rest : IInv /\ LookFails(x) => IInv'
<1> SUFFICES ASSUME NEW x \in rest, IInv, LookFails(x) PROVE IInv'
  OBVIOUS
<1>1. /\ rest' = rest \ {x}
      /\ UNCHANGED <<mode, queue, job, sent, open, pos, twap, book, exits, breaker, relief>>
  BY DEF LookFails
<1>2. Flow' /\ Ledger' /\ Watch'
  BY <1>1 DEF IInv, Flow, JobOK, Once, QueueOnce, Around, InQueue, InJob, InTasks, Issued,
              Ledger, Watch, book, breaker, ReportsAddUp, DrawdownHalts
<1>3. Table'
  BY <1>1 DEF IInv, Table, StopSellsOnce
<1> QED
  BY <1>2, <1>3 DEF IInv

-----------------------------------------------------------------------------
\* The order the listener is done with leaves the others as they are.
LEMMA FlowShrinks ==
    ASSUME Flow, queue' \in Seq(Queued), QueueOnce', InQueue' \subseteq InQueue,
           JobOK', InJob' = {}, UNCHANGED <<mode, sent, pos, twap, exits>>
    PROVE  Flow'
<1>1. InTasks' = InTasks
  BY DEF InTasks
<1>2. Once'
  BY <1>1 DEF Flow, Once
<1>3. \A q \in Around' : Issued(q)'
  BY <1>1 DEF Flow, Around, Issued
<1> QED
  BY <1>2, <1>3 DEF Flow

\* The largest of the equities remembered.
LEMMA RecentPeak ==
    ASSUME seen \in Seq(Nat), NEW e \in Nat
    PROVE  /\ Max(Recent(e)) \in Nat
           /\ \A r \in Recent(e) : r <= Max(Recent(e))
<1> DEFINE J == {j \in 1 .. Len(seen) : Len(seen) + 1 - j <= Window /\ seen[j] > 0}
           R == {seen[i] : i \in J}
<1>1. Recent(e) = {e} \cup R
  BY DEF Recent
<1>2. \A i \in 1 .. Len(seen) : seen[i] \in Nat
  OBVIOUS
<1>3. R \subseteq Nat
  BY <1>2
<1>4. IsFiniteSet(R)
  <2>1. IsFiniteSet(1 .. Len(seen))
    BY FS_Interval
  <2>2. IsFiniteSet(J)
    BY <2>1, FS_Subset
  <2> DEFINE f == [i \in J |-> seen[i]]
  <2>3. f \in Surjection(J, R)
    BY DEF Surjection
  <2> HIDE DEF J, R, f
  <2> QED
    BY <2>2, <2>3, FS_Surjection
<1> HIDE DEF R
<1>5. IsFiniteSet(Recent(e)) /\ Recent(e) \subseteq Int /\ Recent(e) # {} /\ Recent(e) \subseteq Nat
  BY <1>1, <1>3, <1>4, FS_AddElement
<1>6. Sums!Max(Recent(e)) \in Recent(e) /\ \A r \in Recent(e) : r <= Sums!Max(Recent(e))
  BY <1>5, Sums!MaxIsGreatest DEF Sums!IsFiniteSet, IsFiniteSet
<1>7. Sums!Max(Recent(e)) = Max(Recent(e))
  BY DEF Max, Sums!Max
<1> QED
  BY <1>5, <1>6, <1>7

LEMMA CheckStep == IInv /\ Check => IInv'
<1> SUFFICES ASSUME IInv, Check PROVE IInv'
  OBVIOUS
<1>1. PICK e \in Equities :
         /\ seen' = Append(seen, e)
         /\ halted' = DrawnDown(e)
         /\ queue' = IF DrawnDown(e) THEN Append(queue, Liquidation) ELSE queue
  BY DEF Check
<1>2. /\ ~halted /\ Len(seen) < MaxChecks
      /\ UNCHANGED <<mode, job, sent, open, pos, rest, twap, book, exits, relief>>
  BY DEF Check
<1>3. e \in Nat /\ MaxChecks \in Nat /\ seen \in Seq(Nat)
  BY StreamAssumption DEF IInv, Watch
<1>4. queue' \in Seq(Queued) /\ QueueOnce' /\ InQueue' = InQueue
  <2>1. CASE DrawnDown(e)
    BY <1>1, <2>1, QueueLiquidation DEF IInv, Flow, Once
  <2>2. CASE ~DrawnDown(e)
    BY <1>1, <2>2 DEF IInv, Flow, Once, QueueOnce, InQueue
  <2> QED
    BY <2>1, <2>2
<1>5. InJob' = InJob /\ InTasks' = InTasks
  BY <1>2 DEF InJob, InTasks
<1>6. Flow'
  BY <1>2, <1>4, <1>5 DEF IInv, Flow, JobOK, Once, Around, Issued
<1>7. Table' /\ Ledger'
  BY <1>2 DEF IInv, Table, Ledger, StopSellsOnce, book, ReportsAddUp
<1>8. seen' \in Seq(Nat) /\ Len(seen') = Len(seen) + 1 /\ Len(seen') <= MaxChecks
  BY <1>1, <1>2, <1>3
<1>9. halted' \in BOOLEAN
  BY <1>1 DEF DrawnDown
<1>10. DrawdownHalts'
  <2> SUFFICES ASSUME ~halted', NEW i \in DOMAIN seen', NEW j \in DOMAIN seen',
                      i < j, j - i <= Window, seen'[i] > 0, seen'[j] > 0
               PROVE  (seen'[i] - seen'[j]) * 100 <= 5 * seen'[i]
    BY DEF DrawdownHalts
  <2>1. /\ i \in 1 .. Len(seen) + 1 /\ j \in 1 .. Len(seen) + 1 /\ Len(seen) \in Nat
        /\ \A k \in 1 .. Len(seen) : seen'[k] = seen[k] /\ seen[k] \in Nat
        /\ seen'[Len(seen) + 1] = e
    BY <1>1, <1>3, <1>8
  <2>2. CASE j \in 1 .. Len(seen)
    <3>1. i \in 1 .. Len(seen) /\ i \in DOMAIN seen /\ j \in DOMAIN seen
      BY <1>3, <2>1, <2>2
    <3> QED
      BY <1>2, <2>1, <2>2, <3>1 DEF IInv, Watch, DrawdownHalts
  <2>3. CASE j = Len(seen) + 1
    <3>1. i \in 1 .. Len(seen) /\ seen'[i] = seen[i] /\ seen'[j] = e /\ seen[i] \in Nat
      BY <2>1, <2>3
    <3>2. seen[i] \in Recent(e)
      BY <2>1, <2>3, <3>1 DEF Recent
    <3>3. Max(Recent(e)) \in Nat /\ seen[i] <= Max(Recent(e))
      BY <1>3, <3>2, RecentPeak
    <3>4. ~((Max(Recent(e)) - e) * 100 > 5 * Max(Recent(e)))
      BY <1>1, <1>3, <2>1, <2>3, <3>1 DEF DrawnDown
    <3> DEFINE m == Max(Recent(e))
               x == seen[i]
    <3>5. m \in Nat /\ x \in Nat /\ x <= m /\ ~((m - e) * 100 > 5 * m)
      BY <3>1, <3>3, <3>4
    <3> HIDE DEF m, x
    <3>6. (x - e) * 100 <= 5 * x
      BY <1>3, <3>5
    <3> QED
      BY <3>1, <3>6 DEF x
  <2> QED
    BY <2>1, <2>2, <2>3
<1> QED
  BY <1>2, <1>6, <1>7, <1>8, <1>9, <1>10 DEF IInv, Watch

LEMMA TakeLiquidationStep == IInv /\ TakeLiquidation => IInv'
<1> SUFFICES ASSUME IInv, TakeLiquidation PROVE IInv'
  OBVIOUS
<1>1. /\ queue # <<>> /\ queue' = Tail(queue)
      /\ job' = Idle \/ job' = [at |-> "balance"]
      /\ relief' \in {"over", "begun"}
      /\ UNCHANGED <<mode, sent, open, pos, rest, twap, book, exits, breaker>>
  BY DEF TakeLiquidation
<1>2. queue' \in Seq(Queued) /\ QueueOnce' /\ InQueue' \subseteq InQueue
  BY <1>1, QueueTail DEF IInv, Flow, Once
<1>3. JobOK' /\ InJob' = {}
  BY <1>1 DEF JobOK, InJob, Idle
<1>4. Flow'
  BY <1>1, <1>2, <1>3, FlowShrinks DEF IInv
<1> QED
  BY <1>1, <1>4 DEF IInv, Table, Ledger, Watch, StopSellsOnce, book, breaker, ReportsAddUp,
                    DrawdownHalts

LEMMA BalancesStep == IInv /\ Balances => IInv'
<1> SUFFICES ASSUME IInv, Balances PROVE IInv'
  OBVIOUS
<1>1. UNCHANGED <<mode, queue, sent, open, pos, rest, twap, book, exits, breaker>>
  BY DEF Balances
<1>2. InQueue' = InQueue /\ (QueueOnce' <=> QueueOnce)
  BY <1>1 DEF InQueue, QueueOnce
<1>3. JobOK' /\ InJob' = {}
  <2>1. CASE job' = Idle
    BY <2>1 DEF JobOK, InJob, Idle
  <2>2. CASE job' = [at |-> "selling",
                     left |-> {<<s, held[s]>> : s \in {t \in Symbols : held[t] > 0}}]
    <3>1. {<<s, held[s]>> : s \in {t \in Symbols : held[t] > 0}} \in SUBSET (Symbols \X Nat)
      BY DEF IInv, Ledger
    <3>2. job' \in [at : {"selling"}, left : SUBSET (Symbols \X Nat)]
      BY <2>2, <3>1
    <3> QED
      BY <2>2, <3>2 DEF JobOK, InJob
  <2> QED
    BY <2>1, <2>2 DEF Balances
<1>4. Flow'
  BY <1>1, <1>2, <1>3, FlowShrinks DEF IInv, Flow, Once
<1>5. relief' \in {"none", "begun", "over"}
  BY DEF IInv, Watch, Balances
<1> QED
  BY <1>1, <1>4, <1>5 DEF IInv, Table, Ledger, Watch, StopSellsOnce, book, breaker,
                          ReportsAddUp, DrawdownHalts

LEMMA SellBalanceStep == IInv /\ SellBalance => IInv'
<1> SUFFICES ASSUME IInv, SellBalance PROVE IInv'
  OBVIOUS
<1>1. /\ job.at = "selling"
      /\ UNCHANGED <<mode, queue, sent, open, pos, rest, twap, told, exits, breaker>>
  BY DEF SellBalance
<1>2. job \in [at : {"selling"}, left : SUBSET (Symbols \X Nat)]
  BY <1>1 DEF IInv, Flow, JobOK, Idle
<1>3. InQueue' = InQueue /\ (QueueOnce' <=> QueueOnce)
  BY <1>1 DEF InQueue, QueueOnce
<1>4. JobOK' /\ InJob' = {} /\ relief' \in {"none", "begun", "over"}
  <2>1. CASE job' = Idle /\ relief' = "over"
    BY <2>1 DEF JobOK, InJob, Idle
  <2>2. ASSUME NEW x \in job.left, job' = [job EXCEPT !.left = @ \ {x}], UNCHANGED relief
        PROVE  <1>4
    <3>1. job' \in [at : {"selling"}, left : SUBSET (Symbols \X Nat)]
      BY <1>2, <2>2
    <3> QED
      BY <2>2, <3>1 DEF JobOK, InJob, IInv, Watch
  <2> QED
    BY <2>1, <2>2 DEF SellBalance
<1>5. Flow'
  BY <1>1, <1>3, <1>4, FlowShrinks DEF IInv, Flow, Once
<1>6. Ledger'
  <2>1. CASE UNCHANGED <<held, volume, lost>>
    BY <1>1, <2>1 DEF IInv, Ledger, ReportsAddUp
  <2>2. ASSUME NEW x \in job.left, held[x[1]] >= x[2],
               held' = [held EXCEPT ![x[1]] = @ - x[2]],
               volume' = [volume EXCEPT ![x[1]] = @ + x[2]],
               lost' = [lost EXCEPT ![x[1]] = @ + x[2]]
        PROVE  Ledger'
    <3>1. x[1] \in Symbols /\ x[2] \in Nat
      BY <1>2
    <3>2. /\ held' \in [Symbols -> Int]
          /\ mode' = "live" => \A s \in Symbols : held'[s] >= 0
      <4>1. held[x[1]] - x[2] \in Int /\ held[x[1]] - x[2] >= 0
        BY <2>2, <3>1 DEF IInv, Ledger
      <4> QED
        BY <1>1, <2>2, <3>1, <4>1 DEF IInv, Ledger
    <3>3. /\ volume' \in [Symbols -> Nat] /\ lost' \in [Symbols -> Nat]
          /\ \A s \in Symbols : /\ volume'[s] = volume[s] + (IF s = x[1] THEN x[2] ELSE 0)
                                /\ lost'[s] = lost[s] + (IF s = x[1] THEN x[2] ELSE 0)
      BY <2>2, <3>1, CountGrows DEF IInv, Ledger
    <3>4. ReportsAddUp'
      <4> SUFFICES ASSUME NEW s \in Symbols
                   PROVE  volume'[s] = told[s] + lost'[s] + Confirmed(Of(twap, s))
        BY <1>1 DEF ReportsAddUp, Of
      <4>1. volume[s] = told[s] + lost[s] + Confirmed(Of(twap, s))
        BY DEF IInv, Ledger, ReportsAddUp, Of
      <4>2. Confirmed(Of(twap, s)) \in Nat /\ volume[s] \in Nat /\ told[s] \in Nat /\ lost[s] \in Nat
        BY OwedType DEF IInv, Flow, Ledger
      <4> QED
        BY <3>1, <3>3, <4>1, <4>2
    <3> QED
      BY <1>1, <3>2, <3>3, <3>4 DEF IInv, Ledger
  <2> QED
    BY <2>1, <2>2 DEF SellBalance
<1> QED
  BY <1>1, <1>4, <1>5, <1>6 DEF IInv, Table, Watch, StopSellsOnce, breaker, DrawdownHalts

-----------------------------------------------------------------------------
LEMMA InitIInv == Init => IInv
<1> SUFFICES ASSUME Init PROVE IInv
  OBVIOUS
<1>1. MaxOrders \in Nat /\ MaxChecks \in Nat /\ None \notin Ids
  BY StreamAssumption DEF Ids
<1>2. InQueue = {} /\ InJob = {} /\ InTasks = {} /\ QueueOnce
  BY DEF Init, InQueue, InJob, InTasks, QueueOnce, Idle
<1>3. queue \in Seq(Queued) /\ IsFiniteSet(twap) /\ JobOK
  BY FS_EmptySet DEF Init, JobOK
<1>4. Flow
  BY <1>1, <1>2, <1>3 DEF Init, Flow, Once, Around
<1>5. Table
  BY <1>1 DEF Init, Table, StopSellsOnce
<1>6. ReportsAddUp
  <2> SUFFICES ASSUME NEW s \in Symbols
               PROVE  volume[s] = told[s] + lost[s] + Confirmed(Of(twap, s))
    BY DEF ReportsAddUp, Of
  <2>1. Of(twap, s) = {}
    BY DEF Init, Of
  <2>2. Confirmed({}) = 0
    BY FS_EmptySet, ConfirmedIsSum, Sums!FoldEmpty, FiniteSums
  <2>3. volume[s] = 0 /\ told[s] = 0 /\ lost[s] = 0
    BY DEF Init
  <2> QED
    BY <2>1, <2>2, <2>3
<1>7. Ledger
  BY <1>6 DEF Init, Ledger
<1>8. Watch
  <2>1. seen \in Seq(Nat) /\ Len(seen) = 0 /\ DOMAIN seen = {}
    BY DEF Init
  <2>2. DrawdownHalts
    BY <2>1 DEF DrawdownHalts
  <2>3. halted \in BOOLEAN
    BY Zenon DEF Init
  <2>4. relief = "none"
    BY Zenon DEF Init
  <2> QED
    BY <1>1, <2>1, <2>2, <2>3, <2>4 DEF Watch
<1> QED
  BY <1>4, <1>5, <1>7, <1>8 DEF IInv

LEMMA StepIInv == IInv /\ [Next]_vars => IInv'
<1> SUFFICES ASSUME IInv, [Next]_vars PROVE IInv'
  OBVIOUS
<1>1. CASE UNCHANGED vars
  BY <1>1 DEF vars, book, breaker, IInv, Flow, JobOK, Once, QueueOnce, Around, InQueue, InJob,
              InTasks, Issued, Table, StopSellsOnce, Ledger, ReportsAddUp, Watch, DrawdownHalts
<1>2. CASE Next
  BY <1>2, SubmitStep, TakeStep, TickerStep, ExecutedStep, FailsStep, ChunkStep,
     ChunkAnsweredStep, BeginPassStep, LookStep, LookFailsStep, CheckStep, TakeLiquidationStep,
     BalancesStep, SellBalanceStep DEF Next
<1> QED
  BY <1>1, <1>2

LEMMA IInvImplies == IInv => StreamInv /\ StopSellsOnce
<1> SUFFICES ASSUME IInv PROVE StreamInv /\ StopSellsOnce
  OBVIOUS
<1>1. \A i \in DOMAIN queue : queue[i] \in Orders \cup {Liquidation}
  BY DEF IInv, Flow, Queued
<1>2. job.at \in {"get", "ticker", "exchange", "balance", "selling"}
  BY DEF IInv, Flow, JobOK, Idle
<1>3. \A t \in twap : t.at \in {"wait", "exchange"} /\ t.left > 0
  BY DEF IInv, Flow, Task
<1>4. TypeOK
  BY <1>1, <1>2, <1>3 DEF TypeOK, IInv, Flow, Table, Ledger, Watch
<1> QED
  BY <1>4 DEF StreamInv, IInv, Table, Ledger, Watch

\* Spot holdings are never negative, every tracked position has an entry of its
\* own, the books of the published trades add up through failing chunks, lost
\* answers and a halt, and no drawdown within the window goes without a halt, for
\* any number of orders, tasks, symbols and checks.
THEOREM StreamInvHolds == Spec => []StreamInv
<1>1. Spec => []IInv
  BY InitIInv, StepIInv, PTL DEF Spec
<1> QED
  BY <1>1, IInvImplies, PTL

\* The monitor sells a position once, whatever replaces it, removes it or waits
\* in the queue meanwhile.
THEOREM StopSellsOnceHolds == Spec => []StopSellsOnce
<1>1. Spec => []IInv
  BY InitIInv, StepIInv, PTL DEF Spec
<1> QED
  BY <1>1, IInvImplies, PTL

-----------------------------------------------------------------------------
(* The asset tasks of the trader *)

\* A copy of the portfolio, and the file, is torn or balances.
Good(p) == p = Torn \/ (IsPortfolio(p) /\ Balanced(p))

\* What a task's portfolio has to be where the task waits.
Ready(a) ==
    /\ pc[a] \in {"exit", "decide", "open", "neutral"} => IsPortfolio(port[a]) /\ price[a] # 0
    /\ pc[a] \in {"exit", "neutral"} => a \in DOMAIN port[a].pos
    /\ pc[a] = "open" => a \notin DOMAIN port[a].pos /\ Affordable(port[a])
    /\ pc[a] = "liquidate" => IsPortfolio(port[a]) /\ todo \subseteq DOMAIN port[a].pos
    /\ pc[a] \in Liquidating => killed

TaskInv ==
    /\ TraderTypes /\ OneLiquidates
    /\ Good(file)
    /\ DOMAIN port = Assets
    /\ \A a \in Assets : Good(port[a]) /\ Ready(a)

-----------------------------------------------------------------------------
(* Portfolios *)

LEMMA PortfolioShape ==
    ASSUME NEW p, IsPortfolio(p)
    PROVE  /\ p = [cash |-> p.cash, pos |-> p.pos, realized |-> p.realized]
           /\ p.cash \in Int /\ p.realized \in Int /\ DOMAIN p.pos \subseteq Assets
           /\ p.pos \in [DOMAIN p.pos -> Position]
           /\ IsFiniteSet(DOMAIN p.pos) /\ p # Torn
<1>1. PICK of \in SUBSET Assets : p \in [cash : Int, pos : [of -> Position], realized : Int]
  BY DEF IsPortfolio
<1>2. DOMAIN p.pos = of /\ p.pos \in [of -> Position]
  BY <1>1
<1>3. IsFiniteSet(of)
  BY TraderAssumption, FS_Subset
<1>4. p # Torn
  <2>1. "cash" \in DOMAIN p /\ "cash" \notin DOMAIN Torn
    BY <1>1 DEF Torn
  <2> QED
    BY <2>1
<1> QED
  BY <1>1, <1>2, <1>3, <1>4

Margins(positions) == SumFunctionOnSet([a \in DOMAIN positions |-> positions[a].locked], DOMAIN positions)

\* The margins of no position, of one less and of one more.
LEMMA MarginsOf ==
    ASSUME NEW S \in SUBSET Assets, NEW positions \in [S -> Position]
    PROVE  /\ Margins(positions) = Sums!Fold([a \in S |-> positions[a].locked], S) /\ Margins(positions) \in Int
           /\ Sums!IsFiniteSet(S) /\ Sums!IsSum /\ Sums!Chooses(S)
           /\ Sums!Values([a \in S |-> positions[a].locked], S, Int)
<1> DEFINE f == [a \in S |-> positions[a].locked]
<1>1. DOMAIN positions = S /\ \A a \in S : f[a] \in Int
  BY DEF Position
<1>2. IsFiniteSet(S)
  BY TraderAssumption, FS_Subset
<1>3. Margins(positions) = SumFunctionOnSet(f, S)
  BY <1>1 DEF Margins
<1> HIDE DEF f
<1>4. Sums!IsFiniteSet(S) /\ Sums!IsSum /\ Sums!Chooses(S) /\ Sums!Values(f, S, Int)
  BY <1>1, <1>2 DEF IsFiniteSet, Sums!IsFiniteSet, Sums!IsSum, Sums!Chooses, Sums!Values, Plus, AnyOf
<1>5. Margins(positions) = Sums!Fold(f, S)
  BY <1>3 DEF SumFunctionOnSet, FoldFunctionOnSet, MapThenFoldSet, Sums!Fold,
         Sums!MapThenFoldSet, Plus, AnyOf
<1>6. Sums!Fold(f, S) \in Int
  BY <1>4, Sums!SumType
<1> QED
  BY <1>4, <1>5, <1>6 DEF f

LEMMA MarginsLess ==
    ASSUME NEW S \in SUBSET Assets, NEW positions \in [S -> Position], NEW a \in S
    PROVE  /\ Restrict(positions, S \ {a}) \in [S \ {a} -> Position]
           /\ Margins(positions) = positions[a].locked + Margins(Restrict(positions, S \ {a}))
<1> DEFINE R == S \ {a}
           less == Restrict(positions, R)
           f == [x \in S |-> positions[x].locked]
           g == [x \in R |-> less[x].locked]
<1>1. R \in SUBSET Assets /\ R \subseteq S
  OBVIOUS
<1>2. less \in [R -> Position] /\ \A x \in R : less[x] = positions[x]
  BY <1>1 DEF Restrict
<1>3. \A x \in R : f[x] = g[x]
  BY <1>1, <1>2
<1>4. f[a] = positions[a].locked
  OBVIOUS
<1>5. Margins(positions) = Sums!Fold(f, S) /\ Sums!IsFiniteSet(S) /\ Sums!IsSum /\ Sums!Chooses(S) /\ Sums!Values(f, S, Int)
  BY MarginsOf
<1>6. Margins(less) = Sums!Fold(g, R) /\ Sums!IsFiniteSet(R) /\ Sums!Chooses(R)
  <2> HIDE DEF less, R
  <2> QED
    BY <1>1, <1>2, MarginsOf
<1> HIDE DEF less, f, g
<1>7. Sums!Fold(f, S) = f[a] + Sums!Fold(f, R)
  BY <1>5, Sums!SumSplit
<1>8. Sums!Fold(f, R) = Sums!Fold(g, R)
  <2> HIDE DEF R
  <2> QED
    BY <1>3, <1>6, Sums!FoldSame
<1> QED
  BY <1>2, <1>4, <1>5, <1>6, <1>7, <1>8 DEF less

LEMMA MarginsMore ==
    ASSUME NEW S \in SUBSET Assets, NEW positions \in [S -> Position], NEW a \in Assets \ S,
           NEW more \in [S \cup {a} -> Position], \A y \in S : more[y] = positions[y]
    PROVE  Margins(more) = more[a].locked + Margins(positions)
<1> DEFINE T == S \cup {a}
<1>1. T \in SUBSET Assets /\ a \in T /\ T \ {a} = S
  OBVIOUS
<1>2. more \in [T -> Position]
  OBVIOUS
<1> HIDE DEF T
<1>3. Margins(more) = more[a].locked + Margins(Restrict(more, T \ {a}))
  <2>1. \A U \in SUBSET Assets : \A all \in [U -> Position] : \A b \in U :
           Margins(all) = all[b].locked + Margins(Restrict(all, U \ {b}))
    BY MarginsLess
  <2> QED
    BY <1>1, <1>2, <2>1
<1>4. Restrict(more, T \ {a}) = positions
  BY <1>1, <1>2 DEF Restrict
<1> QED
  BY <1>3, <1>4

LEMMA BalancedMeans ==
    ASSUME NEW p, IsPortfolio(p)
    PROVE  Balanced(p) <=> p.cash + Margins(p.pos) = StartingCash + p.realized
BY PortfolioShape DEF Balanced, Margins

LEMMA DefaultIsGood == IsPortfolio(Default) /\ Balanced(Default)
<1>1. <<>> \in [{} -> Position] /\ {} \in SUBSET Assets
  OBVIOUS
<1>2. StartingCash \in Int
  BY TraderAssumption
<1>3. Default \in [cash : Int, pos : [{} -> Position], realized : Int]
  BY <1>1, <1>2 DEF Default
<1>4. IsPortfolio(Default)
  BY <1>1, <1>3 DEF IsPortfolio
<1>5. Margins(<<>>) = 0
  BY <1>1, MarginsOf, Sums!FoldEmpty
<1> QED
  BY <1>2, <1>4, <1>5, BalancedMeans DEF Default

LEMMA LoadedIsGood ==
    ASSUME Good(file) PROVE IsPortfolio(Loaded) /\ Balanced(Loaded)
BY DefaultIsGood, PortfolioShape DEF Good, Loaded

\* A position that is closed gives back its margin and what it gained.
LEMMA ClosedIsGood ==
    ASSUME NEW p, IsPortfolio(p), Balanced(p), NEW a \in DOMAIN p.pos, NEW at \in Nat
    PROVE  /\ IsPortfolio(Closed(p, a, at)) /\ Balanced(Closed(p, a, at))
           /\ DOMAIN Closed(p, a, at).pos = DOMAIN p.pos \ {a}
<1> DEFINE S == DOMAIN p.pos
           x == p.pos[a]
           pnl == Gain(x, at)
           less == Restrict(p.pos, S \ {a})
           q == Closed(p, a, at)
<1>1. S \in SUBSET Assets /\ p.pos \in [S -> Position] /\ p.cash \in Int /\ p.realized \in Int
  BY PortfolioShape
<1>2. x \in Position
  BY <1>1
<1>3. x.entry \in Nat \ {0} /\ x.locked \in Nat /\ x.notional \in Nat
  BY <1>2, TraderAssumption DEF Position
<1>4. pnl \in Int
  <2>1. x.notional * (at - x.entry) \in Int
    BY <1>3
  <2> DEFINE m == x.notional * (at - x.entry)
  <2>2. m \in Int
    BY <2>1
  <2> HIDE DEF m
  <2>3. m \div x.entry \in Int
    BY <1>3, <2>2
  <2> QED
    BY <2>3 DEF Gain, m
<1> HIDE DEF pnl
<1>5. less \in [S \ {a} -> Position] /\ Margins(p.pos) = x.locked + Margins(less)
  BY <1>1, MarginsLess
<1>6. q = [cash |-> p.cash + x.locked + pnl, realized |-> p.realized + pnl, pos |-> less]
  BY DEF Closed, pnl
<1> HIDE DEF less, q, x
<1>7. q.cash = p.cash + x.locked + pnl /\ q.realized = p.realized + pnl /\ q.pos = less
  BY <1>6
<1>8. S \ {a} \in SUBSET Assets
  BY <1>1
<1>9. q \in [cash : Int, pos : [S \ {a} -> Position], realized : Int]
  BY <1>1, <1>3, <1>4, <1>5, <1>6
<1>10. IsPortfolio(q) /\ DOMAIN q.pos = S \ {a}
  BY <1>5, <1>7, <1>8, <1>9 DEF IsPortfolio
<1>11. Margins(less) \in Int
  BY <1>5, <1>8, MarginsOf
<1>12. p.cash + Margins(p.pos) = StartingCash + p.realized
  BY BalancedMeans
<1>13. StartingCash \in Int
  BY TraderAssumption
<1>14. q.cash + Margins(q.pos) = StartingCash + q.realized
  BY <1>1, <1>3, <1>4, <1>5, <1>7, <1>11, <1>12, <1>13
<1>15. Balanced(q)
  BY <1>10, <1>14, BalancedMeans
<1> QED
  BY <1>10, <1>15 DEF q

\* What is affordable has a margin.
LEMMA MarginIsNat ==
    ASSUME NEW p, IsPortfolio(p), Affordable(p)
    PROVE  Margin(p) \in Nat
<1> DEFINE m == (p.cash * Allocation) \div 100
<1>1. p.cash \in Int /\ Allocation \in Nat /\ Leverage \in Nat /\ Leverage > 0 /\ MinNotional \in Nat
  BY PortfolioShape, TraderAssumption
<1>2. p.cash * Allocation \in Int
  BY <1>1
<1>3. m \in Int
  BY <1>2
<1> HIDE DEF m
<1>4. m * Leverage >= 0
  <2>1. m * Leverage >= MinNotional /\ m * Leverage \in Int
    BY <1>1, <1>3 DEF Affordable, Margin, m
  <2> QED
    BY <1>1, <2>1
<1>5. m >= 0
  BY <1>1, <1>3, <1>4
<1> QED
  BY <1>3, <1>5 DEF Margin, m

LEMMA OpenedIsGood ==
    ASSUME NEW p, IsPortfolio(p), Balanced(p), NEW a \in Assets \ DOMAIN p.pos, NEW at \in Quotes,
           Affordable(p)
    PROVE  IsPortfolio(Opened(p, a, at)) /\ Balanced(Opened(p, a, at))
<1> DEFINE S == DOMAIN p.pos
           m == Margin(p)
           x == [entry |-> at, locked |-> m, notional |-> m * Leverage]
           more == [y \in S \cup {a} |-> IF y = a THEN x ELSE p.pos[y]]
           q == Opened(p, a, at)
<1>1. S \in SUBSET Assets /\ p.pos \in [S -> Position] /\ p.cash \in Int /\ p.realized \in Int
  BY PortfolioShape
<1>2. m \in Nat
  BY MarginIsNat
<1>3. q = [cash |-> p.cash - m, realized |-> p.realized, pos |-> more]
  BY DEF Opened
<1> HIDE DEF m, q
<1>4. x \in Position
  <2>1. m * Leverage \in Nat
    BY <1>2, TraderAssumption
  <2> QED
    BY <1>2, <2>1 DEF Position
<1>5. x.locked = m
  OBVIOUS
<1> HIDE DEF x
<1>6. more \in [S \cup {a} -> Position] /\ more[a] = x /\ \A y \in S : more[y] = p.pos[y]
  BY <1>1, <1>4
<1> HIDE DEF more
<1>7. Margins(more) = m + Margins(p.pos)
  <2> HIDE DEF S
  <2> QED
    BY <1>1, <1>5, <1>6, MarginsMore DEF S
<1>8. S \cup {a} \in SUBSET Assets
  BY <1>1
<1>9. q \in [cash : Int, pos : [S \cup {a} -> Position], realized : Int]
  BY <1>1, <1>2, <1>3, <1>6
<1>10. IsPortfolio(q)
  BY <1>8, <1>9 DEF IsPortfolio
<1>11. Margins(p.pos) \in Int /\ StartingCash \in Int
  <2>1. StartingCash \in Nat
    BY TraderAssumption
  <2>2. Margins(p.pos) \in Int
    BY <1>1, MarginsOf
  <2> QED
    BY <2>1, <2>2
<1>12. p.cash + Margins(p.pos) = StartingCash + p.realized
  BY BalancedMeans
<1>13. q.cash = p.cash - m /\ q.pos = more /\ q.realized = p.realized
  BY <1>3
<1>14. q.cash + Margins(q.pos) = StartingCash + q.realized
  BY <1>1, <1>2, <1>7, <1>11, <1>12, <1>13
<1> QED
  BY <1>10, <1>14, BalancedMeans DEF q

-----------------------------------------------------------------------------
(* Steps of one task *)

Places == Waiting \cup Liquidating \cup Stopped

\* What a step of task a has to do to keep the invariant for all of them.
TaskStep(a) ==
    /\ pc' \in [Assets -> Places] /\ price' \in [Assets -> Quotes \cup {0}] /\ DOMAIN port' = Assets
    /\ \A b \in Assets \ {a} : pc'[b] = pc[b] /\ price'[b] = price[b] /\ port'[b] = port[b]
    /\ errors' \in 0 .. 3 /\ killed' \in BOOLEAN /\ bare' \in BOOLEAN /\ over' \in BOOLEAN
    /\ ticks' \in 0 .. MaxTicks
    /\ writing' \subseteq Assets /\ spoilt' \subseteq writing' /\ todo' \subseteq Assets
    /\ Good(file') /\ Good(port'[a])
    /\ killed => killed'
    /\ todo' = todo \/ pc[a] \in Liquidating
    /\ pc'[a] \in Liquidating => pc[a] \in Liquidating \/ ~killed
    /\ Ready(a)'

LEMMA OthersStayReady ==
    ASSUME TaskInv, NEW a \in Assets, TaskStep(a), NEW b \in Assets \ {a}
    PROVE  Good(port'[b]) /\ Ready(b)'
<1>1. pc'[b] = pc[b] /\ price'[b] = price[b] /\ port'[b] = port[b] /\ (killed => killed')
  BY DEF TaskStep
<1>2. Good(port[b]) /\ Ready(b)
  BY DEF TaskInv
<1>3. ASSUME pc[b] = "liquidate" PROVE todo' = todo
  <2>1. pc[b] \in Liquidating
    BY <1>3 DEF Liquidating
  <2>2. pc[a] \notin Liquidating
    BY <2>1 DEF TaskInv, OneLiquidates
  <2> QED
    BY <2>2 DEF TaskStep
<1> QED
  BY <1>1, <1>2, <1>3 DEF Ready, Affordable, Margin

LEMMA StepKeepsOne ==
    ASSUME TaskInv, NEW a \in Assets, TaskStep(a)
    PROVE  OneLiquidates'
<1>1. SUFFICES ASSUME NEW b \in Assets, NEW c \in Assets, pc'[b] \in Liquidating,
                      pc'[c] \in Liquidating, b # c
               PROVE FALSE
  BY DEF OneLiquidates
<1>2. \A d \in Assets : pc[d] \in Liquidating => killed
  BY DEF TaskInv, Ready
<1>3. \A d, e \in Assets : pc[d] \in Liquidating /\ pc[e] \in Liquidating => d = e
  BY DEF TaskInv, OneLiquidates
<1>4. \A d \in Assets \ {a} : pc'[d] = pc[d]
  BY DEF TaskStep
<1>5. pc'[a] \in Liquidating => pc[a] \in Liquidating \/ ~killed
  BY DEF TaskStep
<1> QED
  BY <1>1, <1>2, <1>3, <1>4, <1>5

LEMMA StepKeeps ==
    ASSUME TaskInv, NEW a \in Assets, TaskStep(a)
    PROVE  TaskInv'
<1>1. \A b \in Assets : Good(port'[b]) /\ Ready(b)'
  BY OthersStayReady DEF TaskStep
<1>2. OneLiquidates'
  BY StepKeepsOne
<1>3. Good(file') /\ DOMAIN port' = Assets
  BY DEF TaskStep
<1>4. TraderTypes'
  <2>1. file' = Torn \/ IsPortfolio(file')
    BY <1>3 DEF Good
  <2>2. \A b \in Assets : port'[b] = Torn \/ IsPortfolio(port'[b])
    BY <1>1 DEF Good
  <2>3. \A b \in Assets : pc'[b] = "liquidate" => todo' \subseteq DOMAIN port'[b].pos
    BY <1>1 DEF Ready
  <2>4. pc' \in [Assets -> Waiting \cup Liquidating \cup Stopped]
    BY DEF TaskStep, Places
  <2> QED
    BY <2>1, <2>2, <2>3, <2>4 DEF TraderTypes, TaskStep
<1> QED
  BY <1>1, <1>2, <1>3, <1>4 DEF TaskInv

\* A task goes on at l, unless it is the one that liquidates.
Moves(a, l) ==
    /\ pc' \in [Assets -> Places] /\ \A b \in Assets \ {a} : pc'[b] = pc[b]
    /\ killed' \in BOOLEAN /\ bare' \in BOOLEAN /\ (killed => killed')
    /\ pc'[a] = l \/ (pc'[a] = "other read" /\ ~killed /\ killed')

LEMMA GotoMoves ==
    ASSUME TaskInv, NEW a \in Assets, NEW l \in Places, Goto(a, l), UNCHANGED <<killed, bare>>
    PROVE  Moves(a, l) /\ pc'[a] = l
BY DEF TaskInv, TraderTypes, Goto, Moves, Places

LEMMA LiquidateMoves ==
    ASSUME TaskInv, NEW a \in Assets, NEW l \in Places, NEW h \in BOOLEAN, Liquidate(a, l, h)
    PROVE  Moves(a, l)
<1>1. CASE killed
  BY <1>1, GotoMoves DEF Liquidate
<1>2. CASE ~killed
  <2>1. "other read" \in Places
    BY DEF Places, Liquidating
  <2> QED
    BY <1>2, <2>1 DEF Liquidate, TaskInv, TraderTypes, Goto, Moves, Places
<1> QED
  BY <1>1, <1>2

LEMMA FailedMoves ==
    ASSUME TaskInv, NEW a \in Assets, NEW l \in Places, NEW h \in BOOLEAN, Failed(a, l, h)
    PROVE  Moves(a, l) /\ errors' \in 0 .. 3
<1>1. errors' \in 0 .. 3
  BY DEF TaskInv, TraderTypes, Failed, Least
<1>2. CASE errors >= 2
  BY <1>1, <1>2, LiquidateMoves DEF Failed
<1>3. CASE ~(errors >= 2)
  BY <1>1, <1>3, GotoMoves DEF Failed
<1> QED
  BY <1>2, <1>3

LEMMA ValuedMoves ==
    ASSUME TaskInv, NEW a \in Assets, NEW p, Valued(a, p)
    PROVE  Moves(a, "write")
<1>1. "write" \in Places
  BY DEF Places, Waiting
<1>2. CASE Drawdown(p)
  BY <1>1, <1>2, LiquidateMoves DEF Valued
<1>3. CASE ~Drawdown(p)
  BY <1>1, <1>3, GotoMoves DEF Valued
<1> QED
  BY <1>2, <1>3

\* What a step keeps that leaves the file, the prices and the rest alone.
LEMMA KeepsTheRest ==
    ASSUME TaskInv, NEW a \in Assets, Stay(a)
    PROVE  /\ file' = file /\ writing' = writing /\ spoilt' = spoilt /\ price' = price
           /\ todo' = todo /\ over' = over /\ ticks' = ticks
           /\ Good(file') /\ writing' \subseteq Assets /\ spoilt' \subseteq writing'
           /\ price' \in [Assets -> Quotes \cup {0}] /\ todo' \subseteq Assets
           /\ over' \in BOOLEAN /\ ticks' \in 0 .. MaxTicks
<1>1. file' = file /\ writing' = writing /\ spoilt' = spoilt /\ price' = price
      /\ todo' = todo /\ over' = over /\ ticks' = ticks
  BY DEF Stay, store
<1>2. Good(file) /\ TraderTypes
  BY DEF TaskInv
<1> QED
  BY <1>1, <1>2 DEF TraderTypes

\* A task that waits for the stream, or has to save, is ready with any copy.
LEMMA ReadyToSave ==
    ASSUME NEW a, pc'[a] \in {"watch", "write", "close", "sleep", "stopped"}
    PROVE  Ready(a)' /\ pc'[a] \notin Liquidating
BY DEF Ready, Liquidating

\* It is when it begins the liquidation.
LEMMA ReadyToLiquidate ==
    ASSUME NEW a, killed',
           pc'[a] \in {"other read", "other write", "other close", "last write", "last close", "exchange close"}
    PROVE  Ready(a)'
BY DEF Ready, Liquidating

-----------------------------------------------------------------------------
(* Every action is such a step *)

\* What every step finds: the task's own copy, and the domains of the tables.
LEMMA OwnCopy ==
    ASSUME TaskInv, NEW a \in Assets
    PROVE  /\ Good(port[a]) /\ Ready(a) /\ Good(file) /\ DOMAIN port = Assets
           /\ pc \in [Assets -> Places] /\ price \in [Assets -> Quotes \cup {0}]
           /\ errors \in 0 .. 3 /\ killed \in BOOLEAN /\ bare \in BOOLEAN /\ over \in BOOLEAN
           /\ ticks \in 0 .. MaxTicks
           /\ writing \subseteq Assets /\ spoilt \subseteq writing /\ todo \subseteq Assets
BY DEF TaskInv, TraderTypes, Places

LEMMA TickStep ==
    ASSUME TaskInv, NEW a \in Assets, Tick(a)
    PROVE  TaskStep(a)
<1>1. PICK p \in Quotes :
         /\ price' = [price EXCEPT ![a] = p]
         /\ port' = [port EXCEPT ![a] = Loaded]
         /\ Goto(a, IF a \in DOMAIN Loaded.pos /\ Loaded.pos[a].entry # p THEN "exit" ELSE "decide")
  BY DEF Tick
<1>2. IsPortfolio(Loaded) /\ Balanced(Loaded)
  BY LoadedIsGood DEF TaskInv
<1>3. /\ pc[a] = "watch" /\ ticks < MaxTicks /\ ticks' = ticks + 1
      /\ file' = file /\ writing' = writing /\ spoilt' = spoilt
      /\ errors' = errors /\ killed' = killed /\ bare' = bare /\ over' = over /\ todo' = todo
  BY DEF Tick, store, alarm
<1>4. pc'[a] \in {"exit", "decide"} /\ (pc'[a] = "exit" => a \in DOMAIN Loaded.pos)
      /\ pc' \in [Assets -> Places] /\ \A b \in Assets \ {a} : pc'[b] = pc[b]
  BY <1>1, OwnCopy DEF Goto, Places, Waiting
<1>5. port'[a] = Loaded /\ DOMAIN port' = Assets /\ \A b \in Assets \ {a} : port'[b] = port[b]
  BY <1>1, OwnCopy
<1>6. price' \in [Assets -> Quotes \cup {0}] /\ price'[a] = p /\ p # 0
      /\ \A b \in Assets \ {a} : price'[b] = price[b]
  BY <1>1, OwnCopy, TraderAssumption
<1>7. Ready(a)'
  BY <1>2, <1>4, <1>5, <1>6 DEF Ready, Liquidating
<1>8. ticks' \in 0 .. MaxTicks
  BY <1>3, OwnCopy, TraderAssumption
<1>9. Good(file') /\ Good(port'[a])
  BY <1>2, <1>3, <1>5, OwnCopy DEF Good
<1>10. pc'[a] \notin Liquidating
  BY <1>4 DEF Liquidating
<1> QED
  BY <1>3, <1>4, <1>5, <1>6, <1>7, <1>8, <1>9, <1>10, OwnCopy DEF TaskStep

\* A step that leaves all but the place, the errors, the switch and perhaps the
\* task's own copy.
LEMMA QuietStep ==
    ASSUME TaskInv, NEW a \in Assets, Stay(a), NEW l \in Places, Moves(a, l), l \notin Liquidating,
           errors' \in 0 .. 3, DOMAIN port' = Assets, \A b \in Assets \ {a} : port'[b] = port[b],
           Good(port'[a]), pc'[a] = l => Ready(a)'
    PROVE  TaskStep(a)
<1>1. pc'[a] \in Liquidating => ~killed
  BY DEF Moves
<1>2. Ready(a)'
  BY ReadyToLiquidate DEF Moves
<1> QED
  BY <1>1, <1>2, KeepsTheRest DEF TaskStep, Moves

\* A task that is woken, or that the switch keeps from the next candle, is ready.
LEMMA AgainIsReady ==
    ASSUME TaskInv
    PROVE  /\ Again \in {"watch", "stopped"} /\ Again \in Places /\ Again \notin Liquidating
           /\ "sleep" \in Places /\ "sleep" \notin Liquidating
BY DEF Again, Places, Waiting, Stopped, Liquidating

LEMMA RaisedMoves ==
    ASSUME TaskInv, NEW a \in Assets, Raised(a)
    PROVE  Moves(a, "sleep") /\ errors' \in 0 .. 3
BY AgainIsReady, FailedMoves DEF Raised

LEMMA WatchFailsStep ==
    ASSUME TaskInv, NEW a \in Assets, WatchFails(a)
    PROVE  TaskStep(a)
<1>1. {"sleep", "stopped"} \subseteq Places \ Liquidating
  BY DEF Places, Waiting, Stopped, Liquidating
<1>2. Stay(a) /\ port' = port
  BY DEF WatchFails
<1>3. PICK l \in {"sleep", "stopped"} : Moves(a, l) /\ errors' \in 0 .. 3
  <2>1. CASE Raised(a)
    BY <2>1, RaisedMoves
  <2>2. CASE Liquidate(a, "stopped", TRUE) /\ UNCHANGED errors
    BY <1>1, <2>2, LiquidateMoves, OwnCopy
  <2> QED
    BY <2>1, <2>2 DEF WatchFails
<1> QED
  BY <1>1, <1>2, <1>3, OwnCopy, QuietStep, ReadyToSave

LEMMA WakeUpStep ==
    ASSUME TaskInv, NEW a \in Assets, WakeUp(a)
    PROVE  TaskStep(a)
<1>1. Stay(a) /\ port' = port /\ errors' = errors /\ Goto(a, Again) /\ UNCHANGED <<killed, bare>>
  BY DEF WakeUp, alarm
<1>2. Moves(a, Again)
  BY <1>1, AgainIsReady, GotoMoves
<1> QED
  BY <1>1, <1>2, AgainIsReady, OwnCopy, QuietStep, ReadyToSave

LEMMA ExitStep ==
    ASSUME TaskInv, NEW a \in Assets, ExitPosition(a)
    PROVE  TaskStep(a)
<1>1. "decide" \in Places /\ "decide" \notin Liquidating
  BY DEF Places, Waiting, Liquidating
<1>2. Stay(a) /\ price' = price
  BY DEF ExitPosition, Stay
<1>3. /\ IsPortfolio(port[a]) /\ Balanced(port[a]) /\ a \in DOMAIN port[a].pos
      /\ price[a] # 0 /\ price[a] \in Nat
  BY OwnCopy, PortfolioShape, TraderAssumption DEF ExitPosition, Ready, Good
<1>4. CASE Failed(a, "decide", FALSE) /\ UNCHANGED port
  <2>1. Moves(a, "decide") /\ errors' \in 0 .. 3
    BY <1>1, <1>4, FailedMoves
  <2>2. pc'[a] = "decide" => Ready(a)'
    BY <1>2, <1>3, <1>4 DEF Ready, Liquidating
  <2> QED
    BY <1>1, <1>2, <1>4, <2>1, <2>2, OwnCopy, QuietStep
<1>5. CASE /\ port' = [port EXCEPT ![a] = Closed(@, a, price[a])]
           /\ errors' = 0
           /\ Goto(a, "decide") /\ UNCHANGED <<killed, bare>>
  <2>1. Moves(a, "decide")
    BY <1>1, <1>5, GotoMoves
  <2>2. port'[a] = Closed(port[a], a, price[a]) /\ DOMAIN port' = Assets
        /\ \A b \in Assets \ {a} : port'[b] = port[b]
    BY <1>5, OwnCopy
  <2>3. IsPortfolio(port'[a]) /\ Balanced(port'[a])
    BY <1>3, <2>2, ClosedIsGood
  <2>4. pc'[a] = "decide" => Ready(a)'
    BY <1>2, <1>3, <2>3 DEF Ready, Liquidating
  <2> QED
    BY <1>1, <1>2, <1>5, <2>1, <2>2, <2>3, <2>4, QuietStep DEF Good
<1> QED
  BY <1>4, <1>5 DEF ExitPosition

LEMMA DecideStep ==
    ASSUME TaskInv, NEW a \in Assets, Decide(a)
    PROVE  TaskStep(a)
<1>1. {Again, "sleep", "open", "neutral", "write"} \subseteq Places \ Liquidating
  BY AgainIsReady DEF Places, Waiting, Liquidating
<1>2. Stay(a) /\ price' = price /\ port' = port
  BY DEF Decide, Stay
<1>3. IsPortfolio(port[a]) /\ price[a] # 0
  BY OwnCopy DEF Decide, Ready
<1>4. PICK l \in {Again, "sleep", "open", "neutral", "write"} :
         /\ Moves(a, l) /\ errors' \in 0 .. 3
         /\ l = "neutral" => a \in DOMAIN port[a].pos
         /\ l = "open" => a \notin DOMAIN port[a].pos /\ Affordable(port[a])
  <2>1. CASE Goto(a, Again) /\ UNCHANGED alarm
    BY <2>1, AgainIsReady, GotoMoves, OwnCopy DEF alarm
  <2>2. CASE Raised(a)
    BY <2>2, RaisedMoves
  <2>3. CASE a \notin DOMAIN port[a].pos /\ Affordable(port[a]) /\ Goto(a, "open") /\ UNCHANGED alarm
    BY <1>1, <2>3, GotoMoves, OwnCopy DEF alarm
  <2>4. CASE a \in DOMAIN port[a].pos /\ Goto(a, "neutral") /\ UNCHANGED alarm
    BY <1>1, <2>4, GotoMoves, OwnCopy DEF alarm
  <2>5. CASE Valued(a, port[a]) /\ UNCHANGED errors
    BY <1>1, <2>5, ValuedMoves, OwnCopy
  <2> QED
    BY <2>1, <2>2, <2>3, <2>4, <2>5 DEF Decide
<1>5. pc'[a] = l => Ready(a)'
  BY <1>2, <1>3, <1>4, AgainIsReady DEF Ready, Liquidating, Affordable, Margin
<1> QED
  BY <1>1, <1>2, <1>4, <1>5, OwnCopy, QuietStep

LEMMA TradeStep ==
    ASSUME TaskInv, NEW a \in Assets, Trade(a)
    PROVE  TaskStep(a)
<1>1. "write" \in Places /\ "write" \notin Liquidating
  BY DEF Places, Waiting, Liquidating
<1>2. Stay(a) /\ price' = price
  BY DEF Trade, Stay
<1>3. IsPortfolio(port[a]) /\ Balanced(port[a]) /\ price[a] \in Quotes /\ price[a] \in Nat
  BY OwnCopy, PortfolioShape, TraderAssumption DEF Trade, Ready, Good
<1>4. CASE /\ errors' = Least(errors + 1, 3)
           /\ IF errors >= 2 THEN Liquidate(a, "write", FALSE) ELSE Valued(a, port[a])
           /\ UNCHANGED port
  <2>1. Moves(a, "write")
    BY <1>1, <1>4, LiquidateMoves, ValuedMoves
  <2>2. errors' \in 0 .. 3
    BY <1>4, OwnCopy DEF Least
  <2> QED
    BY <1>1, <1>2, <1>4, <2>1, <2>2, OwnCopy, QuietStep, ReadyToSave
<1>5. ASSUME NEW p, p = (IF pc[a] = "open" THEN Opened(port[a], a, price[a])
                         ELSE Closed(port[a], a, price[a])),
             port' = [port EXCEPT ![a] = p], errors' = 0, Valued(a, p)
      PROVE  TaskStep(a)
  <2>1. Moves(a, "write")
    BY <1>5, ValuedMoves
  <2>2. port'[a] = p /\ DOMAIN port' = Assets /\ \A b \in Assets \ {a} : port'[b] = port[b]
    BY <1>5, OwnCopy
  <2>3. IsPortfolio(p) /\ Balanced(p)
    <3>1. CASE pc[a] = "open"
      <4>1. a \in Assets \ DOMAIN port[a].pos /\ Affordable(port[a])
        BY <3>1, OwnCopy DEF Ready
      <4> QED
        BY <1>3, <1>5, <3>1, <4>1, OpenedIsGood
    <3>2. CASE pc[a] # "open"
      <4>1. a \in DOMAIN port[a].pos
        BY <3>2, OwnCopy DEF Trade, Ready
      <4> QED
        BY <1>3, <1>5, <3>2, <4>1, ClosedIsGood
    <3> QED
      BY <3>1, <3>2
  <2>4. Good(port'[a])
    BY <2>2, <2>3 DEF Good
  <2> QED
    BY <1>1, <1>2, <1>5, <2>1, <2>2, <2>4, QuietStep, ReadyToSave
<1> QED
  BY <1>4, <1>5 DEF Trade

LEMMA OpenFileStep ==
    ASSUME TaskInv, NEW a \in Assets, NEW from, NEW to \in {"close", "other close", "last close"},
           OpenFile(a, from, to), to # "close" => from \in Liquidating
    PROVE  TaskStep(a)
<1>1. /\ pc[a] = from /\ file' = Torn /\ writing' = writing \cup {a} /\ spoilt' = {} /\ Goto(a, to)
      /\ price' = price /\ errors' = errors /\ killed' = killed /\ bare' = bare /\ over' = over
      /\ port' = port /\ todo' = todo /\ ticks' = ticks
  BY DEF OpenFile, alarm
<1>2. to \in Places
  BY DEF Places, Waiting, Liquidating
<1>3. Moves(a, to) /\ pc'[a] = to
  BY <1>1, <1>2, GotoMoves
<1>4. Ready(a)' /\ (pc'[a] \in Liquidating => pc[a] \in Liquidating)
  <2>1. CASE to = "close"
    BY <1>3, <2>1, ReadyToSave
  <2>2. CASE to # "close"
    <3>1. killed'
      BY <1>1, <2>2, OwnCopy DEF Ready
    <3> QED
      BY <1>1, <1>3, <2>2, <3>1, ReadyToLiquidate
  <2> QED
    BY <2>1, <2>2
<1>5. Good(file') /\ Good(port'[a])
  BY <1>1, OwnCopy DEF Good
<1> QED
  BY <1>1, <1>3, <1>4, <1>5, OwnCopy DEF TaskStep, Moves

\* Closing it, whatever becomes of the task's copy and of what is to be closed.
LEMMA CloseFileStep ==
    ASSUME TaskInv, NEW a \in Assets, NEW from, NEW to \in Places, CloseFile(a, from, to),
           to \in Liquidating => from \in Liquidating,
           DOMAIN port' = Assets, \A b \in Assets \ {a} : port'[b] = port[b],
           Good(port'[a]), todo' \subseteq Assets, todo' = todo \/ from \in Liquidating,
           pc'[a] = to => Ready(a)'
    PROVE  TaskStep(a)
<1>1. /\ pc[a] = from /\ file' \in {port[a]} \cup (IF a \in spoilt THEN {Torn} ELSE {})
      /\ writing' = writing \ {a} /\ spoilt' = writing \ {a} /\ Goto(a, to)
      /\ price' = price /\ errors' = errors /\ killed' = killed /\ bare' = bare /\ over' = over
      /\ ticks' = ticks
  BY DEF CloseFile, alarm
<1>2. Moves(a, to) /\ pc'[a] = to
  BY <1>1, GotoMoves
<1>3. Good(file')
  BY <1>1, OwnCopy DEF Good
<1> QED
  BY <1>1, <1>2, <1>3, OwnCopy DEF TaskStep, Moves

LEMMA SaveStep ==
    ASSUME TaskInv, NEW a \in Assets, Save(a)
    PROVE  TaskStep(a)
<1>1. CASE OpenFile(a, "write", "close")
  BY <1>1, OpenFileStep
<1>2. CASE CloseFile(a, "close", Again) /\ UNCHANGED <<port, todo>>
  BY <1>2, AgainIsReady, CloseFileStep, OwnCopy, ReadyToSave
<1> QED
  BY <1>1, <1>2 DEF Save

\* A file that is left holds what it held, or nothing that parses.
LEMMA LeaveFileIsGood ==
    ASSUME TaskInv, NEW a \in Assets, LeaveFile(a)
    PROVE  Good(file') /\ writing' \subseteq Assets /\ spoilt' \subseteq writing'
<1>1. CASE a \in writing
  BY <1>1, OwnCopy DEF LeaveFile, Good
<1>2. CASE a \notin writing
  BY <1>2, OwnCopy DEF LeaveFile, store
<1> QED
  BY <1>1, <1>2

LEMMA SaveFailsStep ==
    ASSUME TaskInv, NEW a \in Assets, SaveFails(a)
    PROVE  TaskStep(a)
<1>1. Moves(a, "sleep") /\ errors' \in 0 .. 3
  BY RaisedMoves DEF SaveFails
<1>2. /\ Good(file') /\ writing' \subseteq Assets /\ spoilt' \subseteq writing'
      /\ price' = price /\ over' = over /\ port' = port /\ todo' = todo /\ ticks' = ticks
  BY LeaveFileIsGood DEF SaveFails
<1>3. Ready(a)' /\ (pc'[a] \in Liquidating => ~killed)
  <2>1. CASE pc'[a] = "sleep"
    BY <2>1, ReadyToSave
  <2>2. CASE pc'[a] = "other read" /\ ~killed /\ killed'
    BY <2>2, ReadyToLiquidate
  <2> QED
    BY <1>1, <2>1, <2>2 DEF Moves
<1> QED
  BY <1>1, <1>2, <1>3, OwnCopy DEF TaskStep, Moves

LEMMA SaveOtherStep ==
    ASSUME TaskInv, NEW a \in Assets, SaveOther(a)
    PROVE  TaskStep(a)
<1>1. {"other read", "other write", "other close", "liquidate"} \subseteq Places \cap Liquidating
  BY DEF Places, Liquidating
<1>2. CASE /\ pc[a] = "other read"
           /\ port' = [port EXCEPT ![a] = file]
           /\ Goto(a, "other write")
           /\ UNCHANGED alarm /\ Stay(a)
  <2>1. Moves(a, "other write") /\ pc'[a] = "other write" /\ errors' = errors /\ killed' = killed
    BY <1>1, <1>2, GotoMoves DEF alarm
  <2>2. port'[a] = file /\ DOMAIN port' = Assets /\ \A b \in Assets \ {a} : port'[b] = port[b]
    BY <1>2, OwnCopy
  <2>3. killed /\ pc[a] \in Liquidating
    BY <1>1, <1>2, OwnCopy DEF Ready
  <2>4. Ready(a)'
    BY <1>2, <2>1, <2>3, ReadyToLiquidate
  <2> QED
    BY <1>2, <2>1, <2>2, <2>3, <2>4, KeepsTheRest, OwnCopy DEF TaskStep, Moves
<1>3. CASE OpenFile(a, "other write", "other close")
  BY <1>1, <1>3, OpenFileStep
<1>4. CASE /\ CloseFile(a, "other close", "liquidate")
           /\ port' = [port EXCEPT ![a] = Loaded']
           /\ todo' = DOMAIN Loaded'.pos
  <2>1. killed /\ killed' = killed
    BY <1>1, <1>4, OwnCopy DEF Ready, CloseFile, alarm
  <2>2. Good(file')
    BY <1>4, OwnCopy DEF CloseFile, Good
  <2>3. IsPortfolio(Loaded') /\ Balanced(Loaded') /\ DOMAIN Loaded'.pos \subseteq Assets
    <3>1. IsPortfolio(Loaded') /\ Balanced(Loaded')
      BY <2>2, DefaultIsGood DEF Good, Loaded
    <3> QED
      BY <3>1, PortfolioShape
  <2>4. port'[a] = Loaded' /\ DOMAIN port' = Assets /\ \A b \in Assets \ {a} : port'[b] = port[b]
    BY <1>4, OwnCopy
  <2>5. pc'[a] = "liquidate" => Ready(a)'
    BY <1>4, <2>1, <2>3, <2>4 DEF Ready, Liquidating
  <2> QED
    BY <1>1, <1>4, <2>3, <2>4, <2>5, CloseFileStep DEF Good
<1> QED
  BY <1>2, <1>3, <1>4 DEF SaveOther

LEMMA LiquidateOneStep ==
    ASSUME TaskInv, NEW a \in Assets, LiquidateOne(a)
    PROVE  TaskStep(a)
<1>1. PICK x \in todo :
         /\ todo' = todo \ {x}
         /\ \/ /\ port' = [port EXCEPT ![a] =
                      Closed(@, x, IF price[x] = 0 THEN @.pos[x].entry ELSE price[x])]
               /\ errors' = 0
            \/ port' = port /\ errors' = Least(errors + 1, 3)
  BY DEF LiquidateOne
<1>2. /\ pc[a] = "liquidate" /\ pc' = pc /\ file' = file /\ writing' = writing /\ spoilt' = spoilt
      /\ price' = price /\ killed' = killed /\ bare' = bare /\ over' = over /\ ticks' = ticks
  BY DEF LiquidateOne, store
<1>3. pc[a] \in Liquidating /\ killed /\ IsPortfolio(port[a]) /\ Balanced(port[a])
      /\ todo \subseteq DOMAIN port[a].pos
  <2>1. pc[a] \in Liquidating
    BY <1>2 DEF Liquidating
  <2> QED
    BY <1>2, <2>1, OwnCopy, PortfolioShape DEF Ready, Good
<1>4. errors' \in 0 .. 3
  BY <1>1, OwnCopy DEF Least
<1>5. /\ DOMAIN port' = Assets /\ \A b \in Assets \ {a} : port'[b] = port[b]
      /\ IsPortfolio(port'[a]) /\ Balanced(port'[a]) /\ todo' \subseteq DOMAIN port'[a].pos
  <2>1. CASE port' = port
    BY <1>1, <1>3, <2>1, OwnCopy
  <2>2. CASE port' = [port EXCEPT ![a] = Closed(@, x, IF price[x] = 0 THEN @.pos[x].entry ELSE price[x])]
    <3> DEFINE at == IF price[x] = 0 THEN port[a].pos[x].entry ELSE price[x]
    <3>1. x \in DOMAIN port[a].pos /\ x \in Assets
      BY <1>1, <1>3, OwnCopy
    <3>2. port[a].pos[x] \in Position
      BY <1>3, <3>1, PortfolioShape
    <3>3. at \in Nat
      BY <3>1, <3>2, OwnCopy, TraderAssumption DEF Position
    <3>4. port'[a] = Closed(port[a], x, at) /\ DOMAIN port' = Assets
          /\ \A b \in Assets \ {a} : port'[b] = port[b]
      BY <2>2, OwnCopy
    <3> HIDE DEF at
    <3>5. /\ IsPortfolio(port'[a]) /\ Balanced(port'[a])
          /\ DOMAIN port'[a].pos = DOMAIN port[a].pos \ {x}
      BY <1>3, <3>1, <3>3, <3>4, ClosedIsGood
    <3> QED
      BY <1>1, <1>3, <3>4, <3>5
  <2> QED
    BY <1>1, <2>1, <2>2
<1>6. Ready(a)'
  BY <1>2, <1>3, <1>5 DEF Ready
<1>7. Good(port'[a]) /\ Good(file')
  BY <1>2, <1>5, OwnCopy DEF Good
<1>8. todo' \subseteq Assets
  BY <1>1, OwnCopy
<1> QED
  BY <1>2, <1>3, <1>4, <1>5, <1>6, <1>7, <1>8, OwnCopy DEF TaskStep

LEMMA LiquidatedStep ==
    ASSUME TaskInv, NEW a \in Assets, Liquidated(a)
    PROVE  TaskStep(a)
<1>1. pc[a] \in Liquidating /\ "last write" \in Places
  BY DEF Liquidated, Liquidating, Places
<1>2. killed
  BY <1>1, OwnCopy DEF Ready
<1>3. /\ Stay(a) /\ errors' = errors /\ killed' = killed /\ bare' = bare /\ port' = port
      /\ Goto(a, "last write")
  BY DEF Liquidated, alarm
<1>4. Moves(a, "last write") /\ pc'[a] = "last write"
  BY <1>1, <1>3, GotoMoves
<1>5. Ready(a)'
  BY <1>2, <1>3, <1>4, ReadyToLiquidate
<1> QED
  BY <1>1, <1>3, <1>4, <1>5, KeepsTheRest, OwnCopy DEF TaskStep, Moves

LEMMA SaveLastStep ==
    ASSUME TaskInv, NEW a \in Assets, SaveLast(a)
    PROVE  TaskStep(a)
<1>1. {"last write", "last close", "exchange close"} \subseteq Places \cap Liquidating
  BY DEF Places, Liquidating
<1>2. CASE OpenFile(a, "last write", "last close")
  BY <1>1, <1>2, OpenFileStep
<1>3. CASE CloseFile(a, "last close", "exchange close") /\ UNCHANGED <<port, todo>>
  <2>1. killed' = killed /\ killed
    BY <1>1, <1>3, OwnCopy DEF CloseFile, Ready, alarm
  <2>2. pc'[a] = "exchange close" => Ready(a)'
    BY <2>1, ReadyToLiquidate
  <2> QED
    BY <1>1, <1>3, <2>2, CloseFileStep, OwnCopy
<1> QED
  BY <1>2, <1>3 DEF SaveLast

LEMMA ShutDownStep ==
    ASSUME TaskInv, NEW a \in Assets, ShutDown(a)
    PROVE  TaskStep(a)
<1>1. "stopped" \in Places
  BY DEF Places, Stopped
<1>2. /\ over' = TRUE /\ Goto(a, "stopped") /\ file' = file /\ writing' = writing /\ spoilt' = spoilt
      /\ price' = price /\ errors' = errors /\ killed' = killed /\ bare' = bare /\ port' = port
      /\ todo' = todo /\ ticks' = ticks
  BY DEF ShutDown, store, alarm
<1>3. Moves(a, "stopped") /\ pc'[a] = "stopped"
  BY <1>1, <1>2, GotoMoves
<1>4. Ready(a)' /\ pc'[a] \notin Liquidating
  BY <1>3, ReadyToSave
<1> QED
  BY <1>2, <1>3, <1>4, OwnCopy DEF TaskStep, Moves

\* A liquidation that fails is not entered again: the switch is set.
LEMMA LiquidationFailsStep ==
    ASSUME TaskInv, NEW a \in Assets, LiquidationFails(a)
    PROVE  TaskStep(a)
<1>1. killed
  BY OwnCopy DEF LiquidationFails, Ready, Liquidating
<1>2. /\ Good(file') /\ writing' \subseteq Assets /\ spoilt' \subseteq writing'
      /\ price' = price /\ port' = port /\ todo' = todo /\ ticks' = ticks
  BY LeaveFileIsGood DEF LiquidationFails
<1>3. PICK l \in {"sleep", "stopped"} : Moves(a, l) /\ errors' \in 0 .. 3 /\ over' \in BOOLEAN
  <2>1. CASE bare
    <3>1. Goto(a, "stopped") /\ over' = TRUE /\ UNCHANGED <<errors, killed, bare>>
      BY <2>1 DEF LiquidationFails, alarm
    <3>2. "stopped" \in Places
      BY DEF Places, Stopped
    <3> QED
      BY <3>1, <3>2, GotoMoves, OwnCopy
  <2>2. CASE ~bare
    BY <2>2, RaisedMoves, OwnCopy DEF LiquidationFails
  <2> QED
    BY <2>1, <2>2
<1>4. pc'[a] = l
  BY <1>1, <1>3 DEF Moves
<1>5. Ready(a)' /\ pc'[a] \notin Liquidating
  BY <1>4, ReadyToSave
<1> QED
  BY <1>1, <1>2, <1>3, <1>5, OwnCopy DEF TaskStep, Moves

-----------------------------------------------------------------------------

\* The invariant holds at the start and is kept by every step of any task.
THEOREM TraderInvariance == TraderSpec => []TaskInv
<1>1. TraderInit => TaskInv
  <2> SUFFICES ASSUME TraderInit PROVE TaskInv
    OBVIOUS
  <2>1. /\ file = Default /\ pc \in [Assets -> {"watch", "stopped"}] /\ port = [a \in Assets |-> Default]
        /\ price = [a \in Assets |-> 0] /\ errors = 0 /\ killed = FALSE
        /\ bare = FALSE /\ over = FALSE
        /\ writing = {} /\ spoilt = {} /\ todo = {} /\ ticks = 0
    BY DEF TraderInit
  <2>2. IsPortfolio(Default) /\ Good(Default)
    BY DefaultIsGood DEF Good
  <2>3. \A a \in Assets : Good(port[a]) /\ Ready(a)
    BY <2>1, <2>2 DEF Ready, Liquidating
  <2>4. OneLiquidates
    BY <2>1 DEF OneLiquidates, Liquidating
  <2>5. TraderTypes
    <3>1. MaxTicks \in Nat
      BY TraderAssumption
    <3>2. pc \in [Assets -> Waiting \cup Liquidating \cup Stopped]
      BY <2>1 DEF Waiting, Stopped
    <3>3. 0 \in 0 .. MaxTicks /\ 0 \in 0 .. 3
      BY <3>1
    <3>4. price \in [Assets -> Quotes \cup {0}]
      BY <2>1
    <3>5. \A a \in Assets : pc[a] # "liquidate" /\ (port[a] = Torn \/ IsPortfolio(port[a]))
      BY <2>1, <2>2
    <3> QED
      BY <2>1, <2>2, <3>2, <3>3, <3>4, <3>5 DEF TraderTypes
  <2> QED
    BY <2>1, <2>2, <2>3, <2>4, <2>5 DEF TaskInv
<1>2. TaskInv /\ [TraderNext]_traderVars => TaskInv'
  <2>1. ASSUME TaskInv, TraderNext PROVE TaskInv'
    <3>1. ASSUME NEW a \in Assets, Trading(a) \/ EmergencyLiquidation(a) PROVE TaskInv'
      <4>1. CASE Trading(a)
        <5>1. TaskStep(a)
          BY <2>1, <4>1, TickStep, WatchFailsStep, WakeUpStep, ExitStep, DecideStep, TradeStep,
             SaveStep, SaveFailsStep DEF Trading
        <5> QED
          BY <2>1, <5>1, StepKeeps
      <4>2. CASE EmergencyLiquidation(a)
        <5>1. TaskStep(a)
          BY <2>1, <4>2, SaveOtherStep, LiquidateOneStep, LiquidatedStep, SaveLastStep, ShutDownStep,
             LiquidationFailsStep DEF EmergencyLiquidation
        <5> QED
          BY <2>1, <5>1, StepKeeps
      <4> QED
        BY <3>1, <4>1, <4>2
    <3>2. CASE GatherEnds
      BY <2>1, <3>2 DEF GatherEnds, TaskInv, store, alarm, TraderTypes, OneLiquidates, Ready,
         Affordable, Margin
    <3> QED
      BY <2>1, <3>1, <3>2 DEF TraderNext
  <2>2. ASSUME TaskInv, UNCHANGED traderVars PROVE TaskInv'
    BY <2>2 DEF TaskInv, traderVars, store, alarm, TraderTypes, OneLiquidates, Ready, Affordable, Margin
  <2> QED
    BY <2>1, <2>2
<1> QED
  BY <1>1, <1>2, PTL DEF TraderSpec

\* The file and every task's copy balance, and one task at most liquidates, for
\* any number of assets and candles, though tasks that wait for a candle trade once
\* more beside the liquidation, and saves and the liquidation itself fail.
THEOREM TraderIsSound == TraderSpec => []TraderInv
<1>1. TaskInv => TraderInv
  BY DEF TaskInv, TraderInv, BooksBalance, Good, Balanced
<1> QED
  BY <1>1, TraderInvariance, PTL
=============================================================================
