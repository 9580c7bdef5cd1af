---------------------------- MODULE MomentumDaemon ----------------------------
(***************************************************************************)
(* The hourly daemon (execution/live_momentum_daemon.py): it closes and    *)
(* opens positions with orders at an exchange, sliced when they are large, *)
(* and saves its wallet to a file at the end of the hour.  Orders are      *)
(* refused, filled in part, or placed without a usable answer; the process *)
(* is killed and started again; the file cannot be written.                *)
(*                                                                         *)
(* An hour is a sequence of steps, and self.state is changed in two ways:  *)
(* the positions as the hour goes on, the cash at its end.  Which symbols  *)
(* pass the momentum or the oversold filter is chosen freely, in any       *)
(* order.  Fees, slippage and the milestone that is only reported are left *)
(* out: orders are executed at the price the hour began with.              *)
(***************************************************************************)
EXTENDS Integers, Sequences, FiniteSets, FiniteSetsExt, SequencesExt, Functions, TLC

CONSTANTS
    Symbols,       \* the universe without BTC, which is never opened
    Prices,        \* bound on the prices; 0 is a symbol without data
    InitialCash, MaxSlots, TwapThreshold, Slices,
    Lot,           \* the exchange executes a part of an order in multiples of it
    MaxHours, MaxCrashes, MaxWrong  \* bounds on a behaviour

ASSUME DaemonAssumption ==
    /\ IsFiniteSet(Symbols)
    /\ Prices \subseteq Nat \ {0} /\ IsFiniteSet(Prices)
    /\ InitialCash \in Nat /\ MaxSlots \in Nat /\ TwapThreshold \in Nat
    /\ MaxHours \in Nat /\ MaxCrashes \in Nat /\ MaxWrong \in Nat
    /\ Slices \in Nat \ {0, 1} /\ Lot \in Nat \ {0}

VARIABLES
    futures,   \* trading_mode = "FUTURES_MODE"
    dry,       \* dry_run
    mem,       \* self.state: cash and positions by symbol
    file,      \* STATE_FILE
    held,      \* what the exchange holds for the account, shorts negative
    pc,        \* where the hour stands
    step,      \* the local variables of run_hourly_step
    unsaved,   \* save_state failed since memory and file were last the same
    exact,     \* history: every order was answered with what was executed, and closed all
    lacking,   \* history: what the order that opened a position was short of its answer
    cut,       \* history: an hour was cut off
    hours, crashes,
    wrong  \* the orders of which more or less was executed than the program takes as filled

daemonVars ==
    <<futures, dry, mem, file, held, pc, step, unsaved, exact, lacking, cut, hours, crashes,
      wrong>>
answers == <<exact, lacking, wrong>>
world == <<futures, dry, hours, crashes, cut>>

Position == [size : Int, entry : Prices, high : Prices, low : Prices, short : BOOLEAN]
Wallet(w) == \E of \in SUBSET Symbols : w \in [cash : Int, pos : [of -> Position]]

Steps == [bull : BOOLEAN, price : [Symbols -> Prices \cup {0}], cash : Int, equity : Int, open : Int,
          todo : Seq(Symbols), alloc : Int, filled : Int, ok : BOOLEAN]

NoStep == [bull |-> TRUE, price |-> [s \in Symbols |-> 0], cash |-> 0, equity |-> 0, open |-> 0,
           todo |-> <<>>, alloc |-> 0, filled |-> 0, ok |-> FALSE]

DaemonTypes ==
    /\ futures \in BOOLEAN /\ dry \in BOOLEAN /\ unsaved \in BOOLEAN
    /\ exact \in BOOLEAN /\ cut \in BOOLEAN
    /\ Wallet(mem) /\ Wallet(file)
    /\ held \in [Symbols -> Int] /\ lacking \in [Symbols -> Nat]
    /\ pc \in {"idle", "close", "closed", "open", "opened"}
    /\ step \in Steps
    /\ hours \in 0 .. MaxHours /\ crashes \in 0 .. MaxCrashes /\ wrong \in 0 .. MaxWrong

\* load_state finds no file and saves the default state.
DaemonInit ==
    /\ futures \in BOOLEAN /\ dry \in BOOLEAN
    /\ mem = [cash |-> InitialCash, pos |-> <<>>]
    /\ file = mem
    /\ held = [s \in Symbols |-> 0]
    /\ pc = "idle" /\ step = NoStep
    /\ unsaved = FALSE /\ exact = TRUE /\ lacking = [s \in Symbols |-> 0] /\ cut = FALSE
    /\ hours = 0 /\ crashes = 0 /\ wrong = 0

-----------------------------------------------------------------------------
(* Decisions *)

Least(a, b) == IF a < b THEN a ELSE b
Greatest(a, b) == IF a > b THEN a ELSE b
Percent(n, part, whole) == part * 100 >= n * whole

\* What a position counts for at price p; a short counts its collateral too.
Value(pos, p) ==
    IF pos.short THEN pos.size * pos.entry + (pos.entry - p) * pos.size ELSE pos.size * p

Worth(pos, price) ==
    LET value == [s \in DOMAIN pos |-> Value(pos[s], IF price[s] = 0 THEN pos[s].entry ELSE price[s])]
    IN  SumFunctionOnSet(value, DOMAIN pos)

\* The extremes a position has seen.
Marked(pos, price) ==
    [s \in DOMAIN pos |->
        CASE price[s] = 0 -> pos[s]
          [] price[s] # 0 /\ pos[s].short -> [pos[s] EXCEPT !.low = Least(@, price[s])]
          [] OTHER -> [pos[s] EXCEPT !.high = Greatest(@, price[s])]]

\* Take profit, trailing stop and change of regime, of a marked position.
Closes(pos, p, bull) ==
    /\ p # 0
    /\ IF pos.short
       THEN \/ bull
            \/ Percent(15, pos.entry - p, pos.entry)
            \/ Percent(16, p - pos.low, pos.low)
       ELSE \/ ~bull /\ Percent(3, pos.high - p, pos.high)
            \/ Percent(5, pos.high - p, pos.high)
            \/ Percent(25, p - pos.entry, pos.entry)

\* The budget of a long position, out of the equity the hour began with.
LongAlloc == Least(step.cash, (step.equity * 48) \div 100)

\* The collateral of a short one.
ShortAlloc ==
    Least(step.cash, IF step.cash < 50 THEN 25 ELSE ((step.cash + step.open) * 48) \div 100)

-----------------------------------------------------------------------------
(* Orders *)

\* What an order may come to at the exchange, and what the program hears of it:
\* one that is sliced ends at the first slice that fails, and a slice may fail
\* after it was executed, when the answer has no average price.  A slice with an
\* answer counts as filled, whatever part of it was executed.
Executed(amount, slices) ==
    LET slice == amount \div slices
        Parts(n) == {k \in 0 .. n * slice : k % Lot = 0 \/ \E i \in 0 .. n : k = i * slice}
    IN  UNION {[placed : Parts(Least(i + 1, slices)), filled : {i * slice}] : i \in 0 .. slices}

Outcomes(amount, p) ==
    CASE dry -> {[placed |-> 0, filled |-> amount]}
      [] ~dry /\ amount <= 0 -> {[placed |-> 0, filled |-> 0]}
      [] ~dry /\ amount > 0 /\ amount * p >= TwapThreshold -> Executed(amount, Slices)
      [] OTHER -> Executed(amount, 1)

\* execute_live_order.  A spot account cannot sell what it does not hold.  An
\* order of nothing, or of less where losses have eaten up the equity, is refused
\* by the exchange, but "executed" in a dry run.
Send(s, buy, amount, closing, next) ==
    \E o \in Outcomes(amount, step.price[s]) :
        /\ ~futures /\ ~buy => o.placed <= held[s] \/ dry
        /\ held' = [held EXCEPT ![s] = IF buy THEN @ + o.placed ELSE @ - o.placed]
        /\ exact' = (exact /\ (dry \/ (o.placed = o.filled /\ (closing => o.filled = amount))))
        /\ step' = [next EXCEPT !.filled = o.filled, !.ok = dry \/ o.filled > 0]
        /\ wrong' = IF ~dry /\ o.placed # o.filled THEN wrong + 1 ELSE wrong
        /\ wrong' <= MaxWrong
        /\ lacking' = [lacking EXCEPT ![s] = IF dry \/ closing THEN 0
                                              ELSE Greatest(0, o.filled - o.placed)]

-----------------------------------------------------------------------------
(* run_hourly_step *)

\* Data, wallet, and the positions to close.  Without data the hour is skipped.
BeginHour ==
    /\ pc = "idle" /\ hours < MaxHours
    /\ \E bull \in BOOLEAN, price \in [Symbols -> Prices \cup {0}] :
          LET pos == Marked(mem.pos, price)
              open == Worth(mem.pos, price)
          IN  /\ mem' = [mem EXCEPT !.pos = pos]
              /\ step' \in [bull : {bull}, price : {price}, cash : {mem.cash}, open : {open},
                            equity : {mem.cash + open}, alloc : {0}, filled : {0}, ok : {FALSE},
                            todo : SetToSeqs({s \in DOMAIN pos : Closes(pos[s], price[s], bull)})]
    /\ pc' = "close"
    /\ hours' = hours + 1
    /\ UNCHANGED <<futures, dry, file, held, unsaved, answers, cut, crashes>>

\* The position is removed and its order sent: the whole size, at the market.
SendClose ==
    /\ pc = "close" /\ step.todo # <<>>
    /\ LET s == Head(step.todo)
       IN  /\ mem' = [mem EXCEPT !.pos = Restrict(mem.pos, DOMAIN mem.pos \ {s})]
           /\ Send(s, mem.pos[s].short, mem.pos[s].size, TRUE,
                   [step EXCEPT !.alloc = Value(mem.pos[s], step.price[s])])
    /\ pc' = "closed"
    /\ UNCHANGED <<file, unsaved, world>>

\* The whole size is credited, whatever part of it was filled.
BookClose ==
    /\ pc = "closed"
    /\ step' = [step EXCEPT !.cash = IF step.ok THEN @ + step.alloc ELSE @, !.todo = Tail(@)]
    /\ pc' = "close"
    /\ UNCHANGED <<mem, file, held, unsaved, answers, world>>

\* The candidates: at most a slot's worth of runners in a bull market, as many
\* shorts as there are signals otherwise, the slots being counted as they fill.
Candidates ==
    LET free == Symbols \ DOMAIN mem.pos
        slots == MaxSlots - Cardinality(DOMAIN mem.pos)
        priced == {s \in free : step.price[s] # 0}
        some == SetToAllKPermutations(priced)
    IN  CASE step.bull -> {SubSeq(c, 1, Least(Len(c), slots)) : c \in some}
          [] ~step.bull /\ futures /\ slots > 0 /\ step.cash >= 15 -> some
          [] OTHER -> {<<>>}

ChooseOpen ==
    /\ pc = "close" /\ step.todo = <<>>
    /\ \E c \in Candidates : step' = [step EXCEPT !.todo = c]
    /\ pc' = "open"
    /\ UNCHANGED <<mem, file, held, unsaved, answers, world>>

\* A runner that the cash does not reach is passed over; shorts go on until the
\* slots are full.
Wanted == IF step.bull THEN step.cash >= 5 ELSE Cardinality(DOMAIN mem.pos) < MaxSlots

SendOpen ==
    /\ pc = "open" /\ step.todo # <<>>
    /\ LET s == Head(step.todo)
           alloc == IF step.bull THEN LongAlloc ELSE ShortAlloc
       IN  IF Wanted
           THEN /\ Send(s, step.bull, alloc \div step.price[s], FALSE, [step EXCEPT !.alloc = alloc])
                /\ pc' = "opened"
           ELSE /\ step' = [step EXCEPT !.todo = IF step.bull THEN Tail(@) ELSE <<>>]
                /\ UNCHANGED <<held, answers, pc>>
    /\ UNCHANGED <<mem, file, unsaved, world>>

\* The size that was ordered is recorded, whatever came of the order.
OpenedWhole(s, size) ==
    LET p == step.price[s]
    IN  [mem EXCEPT !.pos =
           [x \in DOMAIN mem.pos \cup {s} |->
               IF x = s THEN [size |-> step.alloc \div p, entry |-> p, high |-> p, low |-> p,
                              short |-> ~step.bull]
               ELSE mem.pos[x]]]

Opened(s, size) ==
    LET p == step.price[s]
    IN  [mem EXCEPT !.pos =
           [x \in DOMAIN mem.pos \cup {s} |->
               IF x = s THEN [size |-> size, entry |-> p, high |-> p, low |-> p, short |-> ~step.bull]
               ELSE mem.pos[x]]]

\* Collateral is not set aside.
BookOpenFree ==
    /\ pc = "opened"
    /\ mem' = IF step.ok THEN Opened(Head(step.todo), step.filled) ELSE mem
    /\ step' = [step EXCEPT !.cash = IF step.ok /\ step.bull THEN @ - step.alloc ELSE @,
                            !.todo = Tail(@)]
    /\ pc' = "open"
    /\ UNCHANGED <<file, held, unsaved, answers, world>>

\* The whole budget is spent, whatever part of it was filled.
BookOpen ==
    /\ pc = "opened"
    /\ IF step.ok
       THEN /\ mem' = Opened(Head(step.todo), step.filled)
            /\ step' = [step EXCEPT !.cash = @ - step.alloc, !.todo = Tail(@)]
       ELSE /\ step' = [step EXCEPT !.todo = Tail(@)]
            /\ UNCHANGED mem
    /\ pc' = "open"
    /\ UNCHANGED <<file, held, unsaved, answers, world>>

Finish ==
    /\ pc = "open" /\ step.todo = <<>>
    /\ mem' = [mem EXCEPT !.cash = step.cash]
    /\ pc' = "idle"
    /\ step' = NoStep
    /\ UNCHANGED <<held, answers, world>>

\* The temporary file replaces the old one in one step.
Save == Finish /\ file' = mem' /\ unsaved' = FALSE

\* start_loop catches the exception and goes on with what is in memory.
SaveFails == Finish /\ unsaved' = TRUE /\ UNCHANGED file

\* The process ends anywhere and starts again from the file.
Restart ==
    /\ crashes < MaxCrashes
    /\ crashes' = crashes + 1
    /\ cut' = (cut \/ pc # "idle" \/ unsaved)
    /\ mem' = file
    /\ pc' = "idle" /\ step' = NoStep /\ unsaved' = FALSE
    /\ UNCHANGED <<futures, dry, file, held, answers, hours>>

DaemonNext ==
    \/ BeginHour \/ SendClose \/ BookClose \/ ChooseOpen \/ SendOpen \/ BookOpen
    \/ Save \/ SaveFails \/ Restart

DaemonSpec == DaemonInit /\ [][DaemonNext]_daemonVars

-----------------------------------------------------------------------------
\* Closings, failed openings and restarts never leave more positions than there
\* are slots, nor does a short scan that goes past them.
SlotsRespected == Cardinality(DOMAIN mem.pos) <= MaxSlots

Recorded(s) ==
    IF s \notin DOMAIN mem.pos THEN 0
    ELSE IF mem.pos[s].short THEN -mem.pos[s].size ELSE mem.pos[s].size

\* On a spot account a recorded position is there to be sold, but for what its own
\* order was short of its answer, through orders refused, cut short, filled in part
\* or executed without an answer: of everything else the program only ever forgets
\* exposure, and records none it has not got.  As long as every answer was true and
\* no hour was cut off, what is recorded at the end of an hour is the exchange's
\* position, short ones too.
RecordedIsHeld ==
    /\ ~futures /\ ~dry /\ ~cut =>
          \A s \in DOMAIN mem.pos : mem.pos[s].size <= held[s] + lacking[s]
    /\ ~dry /\ exact /\ ~cut /\ pc = "idle" => \A s \in Symbols : held[s] = Recorded(s)

\* "so cloud reboots don't cause amnesia": a restart between two hours, after a
\* save that worked, finds memory and file the same.
RestartForgetsNothing == pc = "idle" /\ ~unsaved => file = mem

\* A dry run makes no money by trading: at the prices of the hour the wallet is
\* worth no more after its orders than before (what it loses is rounding).
TradingMakesNothing ==
    dry /\ pc = "open" /\ step.todo = <<>> => step.cash + Worth(mem.pos, step.price) <= step.equity

\* A spot account never spends cash it does not have.
CashIsEnough == ~futures => mem.cash >= 0 /\ step.cash >= 0

\* What the hourly step keeps at each of its points, in every mode: the limits
\* of slots and of cash, a file that a restart may rely on, and exposure at the
\* exchange for every position on record.
DaemonInv == DaemonTypes /\ SlotsRespected /\ CashIsEnough /\ RestartForgetsNothing /\ RecordedIsHeld
=============================================================================
