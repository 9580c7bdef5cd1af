---------------------------- MODULE ExecutionStream ----------------------------
(***************************************************************************)
(* The execution stream (tools/execution_tools.py) with the circuit        *)
(* breaker of core/orchestrator.py.  Tasks of one event loop share the     *)
(* order queue and the table of open positions: the listener executes one  *)
(* order after the other, a monitor trails a stop under every tracked      *)
(* position, a large order becomes a task that executes it in chunks, and  *)
(* the circuit breaker watches the equity and queues a liquidation.  An    *)
(* action is what a task does between two awaits, so that anything of the  *)
(* others may happen while it waits for the exchange.                      *)
(*                                                                         *)
(* Prices are integers and a stop is kept in thousandths of them.  A       *)
(* position is known by the number of the BUY it comes from, as the dict   *)
(* the monitor holds while it waits is the object it listed, tracked still *)
(* or not.                                                                 *)
(***************************************************************************)
EXTENDS Integers, Sequences, FiniteSetsExt, Functions

CONSTANTS
    Symbols, Prices, Amounts,
    TwapAbove,    \* order value above which an order is executed in chunks
    ChunkValue,   \* what a chunk is worth, roughly
    Equities,     \* values of account_equity
    Window,       \* checks for which the circuit breaker remembers an equity
    MaxOrders,    \* bound: orders submitted by clients
    MaxChecks,    \* bound: checks of the circuit breaker
    None

\* ceil(value / ChunkValue), at least 1
Chunks(value) == Max({1, (value + ChunkValue - 1) \div ChunkValue})

ASSUME StreamAssumption ==
    /\ Prices \subseteq Nat \ {0} /\ Amounts \subseteq Nat \ {0} /\ Equities \subseteq Nat
    /\ TwapAbove \in Nat /\ ChunkValue \in Nat \ {0}
    /\ Window \in Nat \ {0} /\ MaxOrders \in Nat /\ MaxChecks \in Nat
    /\ \A a \in Amounts, p \in Prices : a * p > TwapAbove => a % Chunks(a * p) = 0
    /\ None \notin Symbols \cup Nat

VARIABLES
    mode,       \* trading_mode
    queue,      \* order_queue
    job,        \* the order the listener waits with, and for what
    sent,       \* number of orders clients have submitted
    open,       \* open_positions: the tracked position of a symbol
    pos,        \* the position objects
    rest,       \* what the monitor's pass has still to look at
    twap,       \* tasks of _execute_twap_block
    held,       \* net amount the exchange executed
    volume,     \* history: amount executed at the exchange
    told,       \* history: amount published as trade_executed
    lost,       \* history: amount executed that no answer told of
    exits,      \* history: sales the monitor submitted for a position
    seen,       \* history: equities the circuit breaker looked at
    halted,     \* is_halted
    relief      \* history: what became of the liquidation

book == <<held, volume, told, lost>>
breaker == <<seen, halted>>
vars == <<mode, queue, job, sent, open, pos, rest, twap, book, exits, breaker, relief>>

Ids == 1 .. MaxOrders
Sides == {"BUY", "SELL"}
Orders == [id : 1 .. 2 * MaxOrders, action : Sides, symbol : Symbols, amount : Amounts,
           price : Prices \cup {0}]
Liquidation == [action |-> "LIQUIDATE_ALL"]
Idle == [at |-> "get"]
Positions == [amount : Amounts, high : Prices, stop : Nat]
NoPosition == [amount |-> 0, high |-> 0, stop |-> 0]

TypeOK ==
    /\ mode \in {"paper", "live"}
    /\ \A i \in DOMAIN queue : queue[i] \in Orders \cup {Liquidation}
    /\ job.at \in {"get", "ticker", "exchange", "balance", "selling"}
    /\ sent \in 0 .. MaxOrders
    /\ open \in [Symbols -> Ids \cup {None}]
    /\ \A s, t \in Symbols : open[s] = open[t] => s = t \/ open[s] = None
    /\ pos \in [Ids -> Positions \cup {NoPosition}]
    /\ \A s \in Symbols : open[s] # None => pos[open[s]] # NoPosition
    /\ rest \subseteq Symbols \X Ids
    /\ \A t \in twap : t.at \in {"wait", "exchange"} /\ t.left > 0
    /\ held \in [Symbols -> Int]
    /\ mode = "live" => \A s \in Symbols : held[s] >= 0
    /\ \A f \in {volume, told, lost} : f \in [Symbols -> Nat]
    /\ exits \in [Ids -> Nat]
    /\ Len(seen) <= MaxChecks /\ halted \in BOOLEAN
    /\ relief \in {"none", "begun", "over"}

Init ==
    /\ mode \in {"paper", "live"}
    /\ queue = <<>> /\ job = Idle /\ sent = 0
    /\ open = [s \in Symbols |-> None]
    /\ pos = [i \in Ids |-> NoPosition]
    /\ rest = {} /\ twap = {}
    /\ held = [s \in Symbols |-> 0]
    /\ volume = held /\ told = held /\ lost = held
    /\ exits = [i \in Ids |-> 0]
    /\ seen = <<>> /\ halted = FALSE /\ relief = "none"

-----------------------------------------------------------------------------
\* submit_order, by a client; an order may come without a price (0)
Submit ==
    /\ sent < MaxOrders
    /\ sent' = sent + 1
    /\ \E o \in Orders : o.id = sent + 1 /\ queue' = Append(queue, o)
    /\ UNCHANGED <<mode, job, open, pos, rest, twap, book, exits, breaker, relief>>

\* The exchange executes amount a of order o.
Executed(o, a) ==
    /\ held' = [held EXCEPT ![o.symbol] = @ + (IF o.action = "BUY" THEN a ELSE 0 - a)]
    /\ volume' = [volume EXCEPT ![o.symbol] = @ + a]

Published(o, a) == told' = [told EXCEPT ![o.symbol] = @ + a]

Stop(p) == p * 985

\* What execution of order o at price p does to the table: a SELL of any size
\* ends the tracking, a BUY replaces what is tracked.
Tracked(o, p) ==
    IF o.action = "SELL"
    THEN open' = [open EXCEPT ![o.symbol] = None] /\ UNCHANGED pos
    ELSE /\ open' = [open EXCEPT ![o.symbol] = o.id]
         /\ pos' = [pos EXCEPT ![o.id] = [amount |-> o.amount, high |-> p, stop |-> Stop(p)]]

\* _execute_paper_trade: it looks for a price in the order only, and without one
\* a BUY is logged and published and fails before it is tracked.
PaperTrade(o) ==
    /\ mode = "paper"
    /\ Executed(o, o.amount) /\ Published(o, o.amount)
    /\ IF o.action = "BUY" /\ o.price = 0 THEN UNCHANGED <<open, pos>> ELSE Tracked(o, o.price)
    /\ job' = Idle
    /\ UNCHANGED <<twap, lost>>

\* A large order goes to a task of its own.
Divert(o, p) ==
    /\ o.amount * p > TwapAbove
    /\ LET n == Chunks(o.amount * p)
       IN  twap' = twap \cup {[order |-> o, left |-> n, chunk |-> o.amount \div n, done |-> 0,
                               at |-> "wait"]}
    /\ job' = Idle
    /\ UNCHANGED <<open, pos, book>>

\* A risk/reward ratio below 2.5 is refused; it takes a price to compute one.
Refuse(o, p) ==
    /\ p # 0 /\ o.amount * p <= TwapAbove
    /\ job' = Idle
    /\ UNCHANGED <<open, pos, twap, book>>

\* The rest of _process_order, for order o and the price p that is known of it.
Process(o, p) ==
    \/ Divert(o, p)
    \/ Refuse(o, p)
    \/ o.amount * p <= TwapAbove /\ PaperTrade(o)
    \/ /\ o.amount * p <= TwapAbove /\ mode = "live"
       /\ job' = [at |-> "exchange", order |-> o]
       /\ UNCHANGED <<open, pos, twap, book>>

\* start_listening: the next order of the queue
Take ==
    /\ job = Idle /\ queue # <<>>
    /\ Head(queue) # Liquidation
    /\ queue' = Tail(queue)
    /\ LET o == Head(queue)
       IN  IF o.price # 0
           THEN Process(o, o.price)
           ELSE /\ job' = [at |-> "ticker", order |-> o]
                /\ UNCHANGED <<open, pos, twap, book>>
    /\ UNCHANGED <<mode, sent, rest, exits, breaker, relief>>

\* fetch_ticker for an order without a price answers or fails.
TickerAnswers ==
    /\ job.at = "ticker"
    /\ \E p \in Prices \cup {0} : Process(job.order, p)
    /\ UNCHANGED <<mode, queue, sent, rest, exits, breaker, relief>>

\* The exchange has the amount a SELL asks for.
Covered(o, a) == o.action = "BUY" \/ held[o.symbol] >= a

\* create_order returns; the answer has a price or not.
OrderExecuted ==
    /\ job.at = "exchange"
    /\ LET o == job.order
       IN  /\ Covered(o, o.amount)
           /\ Executed(o, o.amount) /\ Published(o, o.amount)
           /\ \/ \E p \in Prices : Tracked(o, p)
              \/ o.action = "BUY" /\ o.price = 0 /\ UNCHANGED <<open, pos>>
    /\ job' = Idle
    /\ UNCHANGED <<mode, queue, sent, rest, twap, lost, exits, breaker, relief>>

\* A network or exchange error: what was asked for may have been executed.
OrderFails ==
    /\ job.at = "exchange"
    /\ LET o == job.order
       IN  \/ UNCHANGED book
           \/ /\ Covered(o, o.amount) /\ Executed(o, o.amount)
              /\ lost' = [lost EXCEPT ![o.symbol] = @ + o.amount]
              /\ UNCHANGED told
    /\ job' = Idle
    /\ UNCHANGED <<mode, queue, sent, open, pos, rest, twap, exits, breaker, relief>>

-----------------------------------------------------------------------------
\* A chunk that failed is counted all the same.
ContinueRegardless(t, a) ==
    IF t.left > 1
    THEN /\ twap' = (twap \ {t})
                    \cup {[t EXCEPT !.left = @ - 1, !.done = @ + t.chunk, !.at = "wait"]}
         /\ UNCHANGED told
    ELSE twap' = twap \ {t} /\ Published(t.order, t.done + t.chunk)

\* _execute_twap_block has sent a chunk of task t, of which a was confirmed.
Continue(t, a) ==
    IF t.left > 1
    THEN /\ twap' = (twap \ {t}) \cup {[t EXCEPT !.left = @ - 1, !.done = @ + a, !.at = "wait"]}
         /\ UNCHANGED told
    ELSE twap' = twap \ {t} /\ Published(t.order, t.done + a)

\* The next chunk is due: the circuit breaker is looked at, a paper chunk is
\* done at once, a live one is sent.
Chunk(t) ==
    /\ t.at = "wait"
    /\ \/ /\ halted
          /\ twap' = twap \ {t} /\ Published(t.order, t.done)
          /\ UNCHANGED <<held, volume, lost>>
       \/ /\ ~halted /\ mode = "paper"
          /\ Executed(t.order, t.chunk) /\ Continue(t, t.chunk)
          /\ UNCHANGED lost
       \/ /\ ~halted /\ mode = "live"
          /\ twap' = (twap \ {t}) \cup {[t EXCEPT !.at = "exchange"]}
          /\ UNCHANGED book
    /\ UNCHANGED <<mode, queue, job, sent, open, pos, rest, exits, breaker, relief>>

\* A live chunk is answered, or its answer is an error, executed or not.
ChunkAnswered(t) ==
    /\ t.at = "exchange"
    /\ \/ /\ Covered(t.order, t.chunk) /\ Executed(t.order, t.chunk)
          /\ Continue(t, t.chunk)
          /\ UNCHANGED lost
       \/ /\ Covered(t.order, t.chunk) /\ Executed(t.order, t.chunk)
          /\ lost' = [lost EXCEPT ![t.order.symbol] = @ + t.chunk]
          /\ Continue(t, 0)
       \/ Continue(t, 0) /\ UNCHANGED <<held, volume, lost>>
    /\ UNCHANGED <<mode, queue, job, sent, open, pos, rest, exits, breaker, relief>>

-----------------------------------------------------------------------------
\* _monitor_open_positions begins a pass: it lists the table.
BeginPass ==
    /\ rest = {}
    /\ rest' = {x \in Symbols \X Ids : open[x[1]] = x[2]}
    /\ UNCHANGED <<mode, queue, job, sent, open, pos, twap, book, exits, breaker, relief>>

\* The stop follows the highest price seen.
Trailed(q, p) == IF p > q.high THEN [q EXCEPT !.high = p, !.stop = Max({@, Stop(p)})] ELSE q

Exit(x, a) == [id |-> MaxOrders + x[2], action |-> "SELL", symbol |-> x[1], amount |-> a,
               price |-> 0]

\* The sale is queued and the position tracked on until it is executed.
LookKeeping(x) ==
    /\ x \in rest
    /\ \E p \in Prices :
          LET q == Trailed(pos[x[2]], p)
          IN  /\ pos' = [pos EXCEPT ![x[2]] = q]
              /\ rest' = rest \ {x}
              /\ IF p * 1000 > q.stop
                 THEN UNCHANGED <<queue, exits>>
                 ELSE /\ queue' = Append(queue, Exit(x, q.amount))
                      /\ exits' = [exits EXCEPT ![x[2]] = @ + 1]
    /\ UNCHANGED <<mode, job, sent, open, twap, book, breaker, relief>>

\* The price of a listed position has arrived.  At its stop a sale is queued and
\* the symbol's entry deleted, whatever position it holds by now; if it has none,
\* the exception ends the pass.
Look(x) ==
    /\ x \in rest
    /\ \E p \in Prices :
          LET q == Trailed(pos[x[2]], p)
          IN  /\ pos' = [pos EXCEPT ![x[2]] = q]
              /\ IF p * 1000 > q.stop
                 THEN rest' = rest \ {x} /\ UNCHANGED <<queue, open, exits>>
                 ELSE /\ queue' = Append(queue, Exit(x, q.amount))
                      /\ exits' = [exits EXCEPT ![x[2]] = @ + 1]
                      /\ open' = [open EXCEPT ![x[1]] = None]
                      /\ rest' = IF open[x[1]] = None THEN {} ELSE rest \ {x}
    /\ UNCHANGED <<mode, job, sent, twap, book, breaker, relief>>

\* fetch_ticker fails for one position.
LookFails(x) ==
    /\ x \in rest
    /\ rest' = rest \ {x}
    /\ UNCHANGED <<mode, queue, job, sent, open, pos, twap, book, exits, breaker, relief>>

-----------------------------------------------------------------------------

\* The equities remembered at the next check, the new one included.  An equity
\* of 0 is taken for none, as SharedMemory.get returns the default for it.
Recent(e) ==
    LET n == Len(seen) + 1
    IN  {e} \cup {seen[i] : i \in {j \in 1 .. Len(seen) : n - j <= Window /\ seen[j] > 0}}

DrawnDown(e) == e > 0 /\ (Max(Recent(e)) - e) * 100 > 5 * Max(Recent(e))

\* The halt is set and nothing is queued.
CheckSilently ==
    /\ ~halted /\ Len(seen) < MaxChecks
    /\ \E e \in Equities :
          /\ seen' = Append(seen, e)
          /\ halted' = DrawnDown(e)
    /\ UNCHANGED <<mode, queue, job, sent, open, pos, rest, twap, book, exits, relief>>

\* EmergencyMonitor.start: one check, with trigger_system_halt
Check ==
    /\ ~halted /\ Len(seen) < MaxChecks
    /\ \E e \in Equities :
          /\ seen' = Append(seen, e)
          /\ halted' = DrawnDown(e)
          /\ queue' = IF DrawnDown(e) THEN Append(queue, Liquidation) ELSE queue
    /\ UNCHANGED <<mode, job, sent, open, pos, rest, twap, book, exits, relief>>

\* The listener comes to the liquidation; a paper one only publishes.
TakeLiquidation ==
    /\ job = Idle /\ queue # <<>>
    /\ Head(queue) = Liquidation
    /\ queue' = Tail(queue)
    /\ IF mode = "paper"
       THEN job' = Idle /\ relief' = "over"
       ELSE job' = [at |-> "balance"] /\ relief' = "begun"
    /\ UNCHANGED <<mode, sent, open, pos, rest, twap, book, exits, breaker>>

\* _execute_live_liquidate_all: the balances arrive, or the attempt is over.
Balances ==
    /\ job.at = "balance"
    /\ \/ /\ job' = [at |-> "selling", left |-> {<<s, held[s]>> : s \in {t \in Symbols : held[t] > 0}}]
          /\ UNCHANGED relief
       \/ job' = Idle /\ relief' = "over"
    /\ UNCHANGED <<mode, queue, sent, open, pos, rest, twap, book, exits, breaker>>

\* One balance is offered for sale below the market; the order may be refused,
\* or rest.  Nothing of it is published, and the table keeps its positions.
SellBalance ==
    /\ job.at = "selling"
    /\ \/ /\ job.left = {}
          /\ job' = Idle /\ relief' = "over"
          /\ UNCHANGED <<held, volume, lost>>
       \/ \E x \in job.left :
             /\ job' = [job EXCEPT !.left = @ \ {x}]
             /\ \/ UNCHANGED <<held, volume, lost>>
                \/ /\ held[x[1]] >= x[2]
                   /\ held' = [held EXCEPT ![x[1]] = @ - x[2]]
                   /\ volume' = [volume EXCEPT ![x[1]] = @ + x[2]]
                   /\ lost' = [lost EXCEPT ![x[1]] = @ + x[2]]
             /\ UNCHANGED relief
    /\ UNCHANGED <<mode, queue, sent, open, pos, rest, twap, told, exits, breaker>>

-----------------------------------------------------------------------------
Next ==
    \/ Submit \/ Take \/ TickerAnswers \/ OrderExecuted \/ OrderFails
    \/ \E t \in twap : Chunk(t) \/ ChunkAnswered(t)
    \/ BeginPass
    \/ \E x \in rest : Look(x) \/ LookFails(x)
    \/ Check \/ TakeLiquidation \/ Balances \/ SellBalance

\* The event loop runs the listener, and every request of it is answered or
\* times out.
Listener == Take \/ TickerAnswers \/ OrderExecuted \/ OrderFails \/ TakeLiquidation
            \/ Balances \/ SellBalance

Spec == Init /\ [][Next]_vars /\ WF_vars(Listener)

-----------------------------------------------------------------------------
\* What the tasks have had confirmed and not published yet.
Confirmed(tasks) == SumFunctionOnSet([t \in tasks |-> t.done], tasks)

\* What the trade_executed messages report adds up: everything the exchange
\* executed is published, will be by a task that is not done, or was answered
\* with an error; through chunks that fail and a halt in the middle of them.
ReportsAddUp ==
    \A s \in Symbols :
        volume[s] = told[s] + lost[s] + Confirmed({t \in twap : t.order.symbol = s})

\* The monitor sells a position once, though it goes on with what it listed while
\* orders replace and remove it and its own sale waits in the queue.
StopSellsOnce == \A i \in Ids : exits[i] <= 1

\* "triggers SYSTEM_HALT if a 5% drawdown occurs within a rolling 24-hour
\* window": of any two positive equities seen within it, not only the last two.
DrawdownHalts ==
    ~halted => \A i, j \in DOMAIN seen :
                  /\ i < j /\ j - i <= Window
                  /\ seen[i] > 0 /\ seen[j] > 0
                  => (seen[i] - seen[j]) * 100 <= 5 * seen[i]

\* Every tracked position has an entry of its own with a trailing stop, spot
\* holdings are never negative, and the drawdown rule and the books of the
\* published trades hold at every await.
StreamInv == TypeOK /\ DrawdownHalts /\ ReportsAddUp

\* A halt is carried out: the listener comes to the liquidation, whatever is in
\* the queue before it and however it fails.
HaltIsCarriedOut == halted ~> relief # "none"
=============================================================================
