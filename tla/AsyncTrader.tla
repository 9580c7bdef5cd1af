------------------------------ MODULE AsyncTrader ------------------------------
(***************************************************************************)
(* The asynchronous paper trader (scripts/live_trader.py): one asyncio     *)
(* task for every asset, all of them loading, changing and saving the      *)
(* same portfolio in one file, with an await at every request to the       *)
(* exchange and at every access to the file, where other tasks run.  The   *)
(* kill switch is tested before a candle is awaited and not again until    *)
(* the next one, so that a task that waits for a candle still trades, and  *)
(* saves, once more beside the liquidation.                                *)
(*                                                                         *)
(* A step is what one task does between two awaits.  The tasks watch the   *)
(* 5m timeframe only; the portfolio of the other one never changes, and is *)
(* written back with whatever was read along with it.  The model's signal  *)
(* is LONG or none (action 2 or 1), so that no short is ever opened.  Fees *)
(* are left out, money is in whole units and prices move in large steps.   *)
(***************************************************************************)
EXTENDS Integers, FiniteSets, FiniteSetsExt, Functions

CONSTANTS
    Assets, Quotes,
    StartingCash,   \* of the timeframe: half of starting_cash
    Leverage, MinNotional, Allocation,
    MaxTicks        \* bound on the candles received

ASSUME TraderAssumption ==
    /\ IsFiniteSet(Assets)
    /\ Quotes \subseteq Nat \ {0}
    /\ {StartingCash, MinNotional, MaxTicks} \subseteq Nat
    /\ Leverage \in Nat \ {0}
    /\ Allocation \in 0 .. 100

VARIABLES
    file,    \* state_file: the portfolio it parses to, or Torn
    writing, \* tasks that have opened the file for writing
    spoilt,  \* those among them under whose hands another one wrote
    price,   \* latest_prices, 0 for none
    errors,  \* error_count
    killed,  \* kill_switch_activated
    bare,    \* the liquidation was called from a handler: nobody handles what it raises
    over,    \* the process has exited
    pc,      \* where each task waits
    port,    \* the task's portfolio
    todo,    \* positions the liquidation has still to close
    ticks

store == <<file, writing, spoilt>>
alarm == <<errors, killed, bare>>
traderVars == <<store, price, alarm, over, pc, port, todo, ticks>>

Torn == [torn |-> TRUE]
Default == [cash |-> StartingCash, pos |-> <<>>, realized |-> 0]

Waiting == {"watch", "exit", "decide", "open", "neutral", "write", "close", "sleep"}
Liquidating == {"other read", "other write", "other close",
                "liquidate", "last write", "last close", "exchange close"}
Stopped == {"stopped"}

Position == [entry : Quotes, locked : Nat, notional : Nat]
IsPortfolio(p) ==
    \E of \in SUBSET Assets : p \in [cash : Int, pos : [of -> Position], realized : Int]

TraderTypes ==
    /\ file = Torn \/ IsPortfolio(file)
    /\ writing \subseteq Assets /\ spoilt \subseteq writing
    /\ price \in [Assets -> Quotes \cup {0}]
    /\ errors \in 0 .. 3
    /\ killed \in BOOLEAN /\ bare \in BOOLEAN /\ over \in BOOLEAN
    /\ pc \in [Assets -> Waiting \cup Liquidating \cup Stopped]
    /\ \A a \in Assets : port[a] = Torn \/ IsPortfolio(port[a])
    /\ todo \subseteq Assets
    /\ \A a \in Assets : pc[a] = "liquidate" => todo \subseteq DOMAIN port[a].pos
    /\ ticks \in 0 .. MaxTicks

\* _init_files: a portfolio from an earlier run below the drawdown is reset.  A
\* task whose history does not arrive ends before its first candle.
TraderInit ==
    /\ file = Default
    /\ writing = {} /\ spoilt = {}
    /\ price = [a \in Assets |-> 0]
    /\ errors = 0 /\ killed = FALSE /\ bare = FALSE /\ over = FALSE
    /\ pc \in [Assets -> {"watch", "stopped"}]
    /\ port = [a \in Assets |-> Default]
    /\ todo = {} /\ ticks = 0

-----------------------------------------------------------------------------
(* The portfolio *)

\* load_portfolio: a file that does not parse is a new account.
Loaded == IF file = Torn THEN Default ELSE file

Gain(pos, p) == (pos.notional * (p - pos.entry)) \div pos.entry

\* The gain goes to the cash on its own, the margin stays locked.
ClosedKeepingMargin(p, a, at) ==
    LET pnl == Gain(p.pos[a], at)
    IN  [cash |-> p.cash + pnl,
         realized |-> p.realized + pnl,
         pos |-> Restrict(p.pos, DOMAIN p.pos \ {a})]

\* close_position, after the order book has arrived.
Closed(p, a, at) ==
    LET pnl == Gain(p.pos[a], at)
    IN  [cash |-> p.cash + p.pos[a].locked + pnl,
         realized |-> p.realized + pnl,
         pos |-> Restrict(p.pos, DOMAIN p.pos \ {a})]

Margin(p) == (p.cash * Allocation) \div 100
Affordable(p) == Margin(p) * Leverage >= MinNotional

\* open_position, after the order book has arrived: the best bid is the entry.
Opened(p, a, at) ==
    [cash |-> p.cash - Margin(p),
     realized |-> p.realized,
     pos |-> [x \in DOMAIN p.pos \cup {a} |->
                 IF x = a THEN [entry |-> at, locked |-> Margin(p), notional |-> Margin(p) * Leverage]
                 ELSE p.pos[x]]]

TotalValue(p) ==
    p.cash + MapThenSumSet(
        LAMBDA a : p.pos[a].locked
                     + Gain(p.pos[a], IF price[a] = 0 THEN p.pos[a].entry ELSE price[a]),
        DOMAIN p.pos)

\* Below 95% of what the timeframe began with.
Drawdown(p) == TotalValue(p) * 100 < 95 * StartingCash

-----------------------------------------------------------------------------
(* Errors and the kill switch *)

Goto(a, l) == pc' = [pc EXCEPT ![a] = l]
Least(m, n) == IF m < n THEN m ELSE n

\* An iteration that ends without a look at the switch.
AgainAnyway == "watch"

\* The end of an iteration: the switch is tested, and the next candle awaited.
Again == IF killed THEN "stopped" ELSE "watch"

\* emergency_liquidation: the first task to call it goes through with it, any
\* other one goes on where it was.
Liquidate(a, otherwise, handling) ==
    IF killed THEN Goto(a, otherwise) /\ UNCHANGED <<killed, bare>>
    ELSE Goto(a, "other read") /\ killed' = TRUE /\ bare' = handling

\* One more error, counted over all tasks; the third is the last.
Failed(a, otherwise, handling) ==
    /\ errors' = Least(errors + 1, 3)
    /\ IF errors >= 2 THEN Liquidate(a, otherwise, handling)
       ELSE Goto(a, otherwise) /\ UNCHANGED <<killed, bare>>

\* An exception that reaches the loop of the task, which sleeps before it goes on.
Raised(a) == Failed(a, "sleep", TRUE)

\* The end of execute_paper_trade with portfolio p.
Valued(a, p) ==
    IF Drawdown(p) THEN Liquidate(a, "write", FALSE)
    ELSE Goto(a, "write") /\ UNCHANGED <<killed, bare>>

-----------------------------------------------------------------------------
(* watch_asset_timeframe *)

Stay(a) == UNCHANGED <<store, price, over, todo, ticks>>

\* A candle, however long ago the switch was tested: the file is loaded, and a
\* position far enough from its entry is to be closed.
Tick(a) ==
    /\ pc[a] = "watch" /\ ticks < MaxTicks
    /\ \E p \in Quotes :
          /\ price' = [price EXCEPT ![a] = p]
          /\ port' = [port EXCEPT ![a] = Loaded]
          /\ Goto(a, IF a \in DOMAIN Loaded.pos /\ Loaded.pos[a].entry # p THEN "exit" ELSE "decide")
    /\ ticks' = ticks + 1
    /\ UNCHANGED <<store, alarm, over, todo>>

\* The stream fails, in general or because of the rate limit.
WatchFails(a) ==
    /\ pc[a] = "watch"
    /\ \/ Raised(a)
       \/ Liquidate(a, "stopped", TRUE) /\ UNCHANGED errors
    /\ Stay(a) /\ UNCHANGED port

WakeUp(a) ==
    /\ pc[a] = "sleep"
    /\ Goto(a, Again)
    /\ Stay(a) /\ UNCHANGED <<alarm, port>>

\* Take profit or stop loss, in the task's portfolio only.
ExitPosition(a) ==
    /\ pc[a] = "exit"
    /\ \/ /\ port' = [port EXCEPT ![a] = Closed(@, a, price[a])]
          /\ errors' = 0
          /\ Goto(a, "decide") /\ UNCHANGED <<killed, bare>>
       \/ Failed(a, "decide", FALSE) /\ UNCHANGED port
    /\ Stay(a)

\* A ranging market or too little data drops what the task has done so far; so
\* does an exception.  Otherwise the position opened or closed awaits the order
\* book, and the rest of the trade is done at once.
Decide(a) ==
    /\ pc[a] = "decide"
    /\ LET p == port[a]
           holds == a \in DOMAIN p.pos
       IN  \/ Goto(a, Again) /\ UNCHANGED alarm
           \/ Raised(a)
           \/ ~holds /\ Affordable(p) /\ Goto(a, "open") /\ UNCHANGED alarm
           \/ holds /\ Goto(a, "neutral") /\ UNCHANGED alarm
           \/ Valued(a, p) /\ UNCHANGED errors
    /\ Stay(a) /\ UNCHANGED port

\* execute_paper_trade goes on with the order book, or without it.
Trade(a) ==
    /\ pc[a] \in {"open", "neutral"}
    /\ \/ LET p == IF pc[a] = "open" THEN Opened(port[a], a, price[a])
                   ELSE Closed(port[a], a, price[a])
          IN  /\ port' = [port EXCEPT ![a] = p]
              /\ errors' = 0
              /\ Valued(a, p)
       \/ /\ errors' = Least(errors + 1, 3)
          /\ IF errors >= 2 THEN Liquidate(a, "write", FALSE) ELSE Valued(a, port[a])
          /\ UNCHANGED port
    /\ Stay(a)

-----------------------------------------------------------------------------
(* async_save_portfolio: opening the file empties it, closing it leaves the    *)
(* text there, over what another task wrote since.                             *)

OpenFile(a, from, to) ==
    /\ pc[a] = from
    /\ file' = Torn
    /\ writing' = writing \cup {a}
    /\ spoilt' = {}
    /\ Goto(a, to)
    /\ UNCHANGED <<price, alarm, over, port, todo, ticks>>

CloseFile(a, from, to) ==
    /\ pc[a] = from
    /\ file' \in {port[a]} \cup (IF a \in spoilt THEN {Torn} ELSE {})
    /\ writing' = writing \ {a}
    /\ spoilt' = writing \ {a}
    /\ Goto(a, to)
    /\ UNCHANGED <<price, alarm, over, ticks>>

Save(a) ==
    \/ OpenFile(a, "write", "close")
    \/ CloseFile(a, "close", Again) /\ UNCHANGED <<port, todo>>

\* The file cannot be opened, which leaves it as it was, or it is opened and what
\* is written of the text is no portfolio.
LeaveFile(a) ==
    IF a \in writing
    THEN /\ file' \in {file, Torn}
         /\ writing' = writing \ {a}
         /\ spoilt' = writing'
    ELSE UNCHANGED store

SaveFails(a) ==
    /\ pc[a] \in {"write", "close"}
    /\ LeaveFile(a)
    /\ Raised(a)
    /\ UNCHANGED <<price, over, port, todo, ticks>>

-----------------------------------------------------------------------------
(* emergency_liquidation *)

\* The other timeframe is saved first, along with what is read of this one.
SaveOther(a) ==
    \/ /\ pc[a] = "other read"
       /\ port' = [port EXCEPT ![a] = file]
       /\ Goto(a, "other write")
       /\ UNCHANGED alarm /\ Stay(a)
    \/ OpenFile(a, "other write", "other close")
    \/ /\ CloseFile(a, "other close", "liquidate")
       /\ port' = [port EXCEPT ![a] = Loaded']
       /\ todo' = DOMAIN Loaded'.pos

\* Every position is tried once; the answer of close_position does not fit the
\* assignment, and the exception is caught when the position is closed already.
LiquidateOne(a) ==
    /\ pc[a] = "liquidate"
    /\ \E x \in todo :
          /\ todo' = todo \ {x}
          /\ \/ /\ port' = [port EXCEPT ![a] =
                       Closed(@, x, IF price[x] = 0 THEN @.pos[x].entry ELSE price[x])]
                /\ errors' = 0
             \/ port' = port /\ errors' = Least(errors + 1, 3)
    /\ UNCHANGED <<store, price, killed, bare, over, pc, ticks>>

Liquidated(a) ==
    /\ pc[a] = "liquidate" /\ todo = {}
    /\ Goto(a, "last write")
    /\ Stay(a) /\ UNCHANGED <<alarm, port>>

SaveLast(a) ==
    \/ OpenFile(a, "last write", "last close")
    \/ CloseFile(a, "last close", "exchange close") /\ UNCHANGED <<port, todo>>

\* sys.exit takes the other tasks with it, wherever they are.
ShutDown(a) ==
    /\ pc[a] = "exchange close"
    /\ over' = TRUE
    /\ Goto(a, "stopped")
    /\ UNCHANGED <<store, price, alarm, port, todo, ticks>>

\* A save or the closing of the exchange raises, and what is left to be liquidated
\* stays.  The handler of the task takes it for one more error; from the handler
\* itself it ends the task, and with it the process.
LiquidationFails(a) ==
    /\ pc[a] \in {"other write", "other close", "last write", "last close", "exchange close"}
    /\ LeaveFile(a)
    /\ IF bare THEN Goto(a, "stopped") /\ over' = TRUE /\ UNCHANGED alarm
       ELSE Raised(a) /\ UNCHANGED over
    /\ UNCHANGED <<price, port, todo, ticks>>

EmergencyLiquidation(a) ==
    ~over /\ (SaveOther(a) \/ LiquidateOne(a) \/ Liquidated(a) \/ SaveLast(a) \/ ShutDown(a)
                 \/ LiquidationFails(a))

Trading(a) ==
    ~over /\ (Tick(a) \/ WatchFails(a) \/ WakeUp(a) \/ ExitPosition(a) \/ Decide(a) \/ Trade(a)
                 \/ Save(a) \/ SaveFails(a))

\* The program ends when every task has.
GatherEnds ==
    /\ ~over /\ \A a \in Assets : pc[a] = "stopped"
    /\ over' = TRUE
    /\ UNCHANGED <<store, price, alarm, pc, port, todo, ticks>>

TraderNext == GatherEnds \/ \E a \in Assets : Trading(a) \/ EmergencyLiquidation(a)

\* The event loop runs every task that can go on, and every request is answered
\* or times out: a stream that is silent fails.
Fairness ==
    /\ \A a \in Assets : WF_traderVars(Trading(a)) /\ WF_traderVars(EmergencyLiquidation(a))
    /\ WF_traderVars(GatherEnds)

TraderSpec == TraderInit /\ [][TraderNext]_traderVars /\ Fairness

-----------------------------------------------------------------------------
\* Cash and margins add up to what the account began with and has realized, in
\* the file and in the hands of every task, though tasks overwrite each other's
\* trades, read a file that is being written, and drop what they have done.
Balanced(p) ==
    p = Torn \/ p.cash + SumFunctionOnSet([a \in DOMAIN p.pos |-> p.pos[a].locked], DOMAIN p.pos)
                  = StartingCash + p.realized
BooksBalance == Balanced(file) /\ \A a \in Assets : Balanced(port[a])

\* The liquidation is not entered a second time, by another task or by the
\* errors of the first.
OneLiquidates == \A a, b \in Assets : {pc[a], pc[b]} \subseteq Liquidating => a = b

\* Types, the positions a liquidation still has to close being positions of the
\* copy it works on, one liquidation at most, and books that balance.
TraderInv == TraderTypes /\ OneLiquidates /\ BooksBalance

\* "Shutting down permanently": the kill switch ends the process, whatever the
\* exchange answers and the other tasks do meanwhile, and though the liquidation
\* itself fails: then the tasks end one by one, each at its next test.
ShutdownEnds == killed ~> over
=============================================================================
