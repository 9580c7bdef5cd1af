------------------------------ MODULE Reconciler ------------------------------
(***************************************************************************)
(* PortfolioReconciler (reconciliation/portfolio_reconciler.py) over the   *)
(* order store, the portfolio and the exchange: reconcile,                 *)
(* safe_repair_execution and startup_reconciliation, with queries that     *)
(* fail or tear, executions the program missed or booked without their     *)
(* fee, and a process that may die between any two commits.                *)
(*                                                                         *)
(* The reconciler holds a lock, so its calls do not overlap.  The exchange *)
(* and the adapter go on between the steps of a call; each step of theirs  *)
(* here stands for a part of module BrokerAdapter.  Orders are purchases   *)
(* (what a sale does to cash is the subject of module Portfolio), each     *)
(* with its client order id, and executions have the exchange's ids.       *)
(***************************************************************************)
EXTENDS OrderStates, Sequences, Functions

CONSTANTS
    Orders, Outside,         \* orders; those of them the program did not submit
    Execs, OrderOf, QtyOf,   \* executions, their orders and their fill_qty
    CostOf, FeeOf,           \* what an execution costs, and the fee in it
    SymbolOf,                \* the symbol of an order
    CashTolerance,           \* cash_tolerance; the other tolerances are 0
    Modes,                   \* the modes and symbols callers of reconcile use
    MaxCrashes               \* bound on the crashes of a behaviour

ASSUME ReconcilerAssumption ==
    /\ IsFiniteSet(Orders) /\ Outside \subseteq Orders
    /\ IsFiniteSet(Execs) /\ OrderOf \in [Execs -> Orders]
    /\ QtyOf \in [Execs -> Nat \ {0}]
    /\ CostOf \in [Execs -> Nat \ {0}]
    /\ FeeOf \in [Execs -> Nat]
    /\ CashTolerance \in Nat
    /\ MaxCrashes \in Nat

VARIABLES
    exchange,  \* its record: the status of each order and the executions
    store,     \* the orders of the order store
    ledger,    \* its executions table: the ids that are the exchange's
    feeless,   \* those of them stored without the fee they cost
    made,      \* the made-up execution of an order: which ones it stands for
    applied,   \* applied_execution_ids
    halt,      \* is_trading_halted, halt_scope and halted_symbols
    last,      \* last_status
    call,      \* the call of the reconciler in progress
    crashes    \* crashes so far

internal == <<store, ledger, feeless, made, applied>>
verdict == <<halt, last>>
vars == <<exchange, internal, verdict, call, crashes>>

ExecsOf(o) == {e \in Execs : OrderOf[e] = o}
Symbols == {SymbolOf[o] : o \in Orders}
Quantity(S) == SumFunctionOnSet(QtyOf, S)
OrderQty(o) == Quantity(ExecsOf(o))
Cost(S) == SumFunctionOnSet(CostOf, S)
Fees(S) == SumFunctionOnSet(FeeOf, S)

ASSUME ModesAssumption == Modes \subseteq {"FULL", "SYMBOL", "ACCOUNT", "ORDER"} \X SUBSET Symbols

NotHalted == [on |-> FALSE, scope |-> "NONE", symbols |-> {}]
Idle == [op |-> "none", pc |-> "idle", mode |-> "FULL", of |-> {}, seen |-> <<>>,
         stale |-> FALSE, todo |-> {}, feeless |-> FALSE]

Statuses == {"HEALTHY", "DEGRADED", "DRIFT_DETECTED", "CRITICAL_DRIFT", "DATA_UNAVAILABLE"}
Records == [status : [Orders -> {"NONE", "OPEN", "PARTIALLY_FILLED", "FILLED", "CANCELLED"}],
            execs : SUBSET Execs]

TypeOK ==
    /\ exchange \in Records
    /\ store \in [Orders -> [state : States \cup {"NONE"}, qty : Nat, filled : Nat]]
    /\ ledger \subseteq Execs
    /\ feeless \subseteq ledger
    /\ made \in [Orders -> SUBSET Execs]
    /\ applied \subseteq Execs
    /\ halt \in [on : BOOLEAN, scope : {"NONE", "SYMBOL", "ACCOUNT", "GLOBAL"},
                 symbols : SUBSET Symbols]
    /\ last \in Statuses
    /\ call \in [op : {"none", "reconcile", "repair", "startup"},
                 pc : {"idle", "find", "step", "execute", "apply", "recover", "query", "conclude"},
                 mode : {"FULL", "SYMBOL", "ACCOUNT", "ORDER"}, of : SUBSET Symbols,
                 seen : Seq(Records), stale : BOOLEAN,
                 todo : SUBSET (Orders \cup Execs), feeless : BOOLEAN]
    /\ Len(call.seen) <= 4
    /\ crashes \in 0 .. MaxCrashes

Init ==
    /\ exchange = [status |-> [o \in Orders |-> "NONE"], execs |-> {}]
    /\ store = [o \in Orders |-> [state |-> "NONE", qty |-> 0, filled |-> 0]]
    /\ ledger = {}
    /\ feeless = {}
    /\ made = [o \in Orders |-> {}]
    /\ applied = {}
    /\ halt = NotHalted
    /\ last = "HEALTHY"
    /\ call = Idle
    /\ crashes = 0

-----------------------------------------------------------------------------
(* The exchange. *)

\* An order reaches the book: one the program has submitted, or somebody else.
Place(o) ==
    /\ exchange.status[o] = "NONE"
    /\ o \in Outside \/ store[o].state = "SUBMITTED"
    /\ exchange' = [exchange EXCEPT !.status = [@ EXCEPT ![o] = "OPEN"]]
    /\ UNCHANGED <<internal, verdict, call, crashes>>

Resting(o) == exchange.status[o] \in {"OPEN", "PARTIALLY_FILLED"}

Trade(e) ==
    LET o == OrderOf[e]
        execs == exchange.execs \cup {e}
    IN  /\ Resting(o)
        /\ e \notin exchange.execs
        /\ exchange' = [status |-> [exchange.status EXCEPT ![o] =
                            IF ExecsOf(o) \subseteq execs THEN "FILLED" ELSE "PARTIALLY_FILLED"],
                        execs |-> execs]
        /\ UNCHANGED <<internal, verdict, call, crashes>>

ExchangeCancels(o) ==
    /\ Resting(o)
    /\ exchange' = [exchange EXCEPT !.status = [@ EXCEPT ![o] = "CANCELLED"]]
    /\ UNCHANGED <<internal, verdict, call, crashes>>

-----------------------------------------------------------------------------
(* The order store and the portfolio. *)

SetState(o, s) == store' = [store EXCEPT ![o] = [@ EXCEPT !.state = s]]

\* execute_order on the stored order accepts an execution.
Fillable(e) ==
    LET s == store[OrderOf[e]]
        ev == IF s.filled + QtyOf[e] >= s.qty THEN "FILL" ELSE "PARTIAL_FILL"
    IN  s.state # "NONE" /\ FillAccepted(s.state, ev, s.filled, QtyOf[e], s.qty)

Filled(e) ==
    LET o == OrderOf[e]
        s == store[o]
        ev == IF s.filled + QtyOf[e] >= s.qty THEN "FILL" ELSE "PARTIAL_FILL"
    IN  [store EXCEPT ![o] = [state |-> AfterFill(ev, s.filled, QtyOf[e], s.qty),
                              qty |-> s.qty, filled |-> s.filled + QtyOf[e]]]

\* An execution known to the store is not counted again.
Execute(e, withoutFee) ==
    IF e \in ledger
    THEN UNCHANGED <<store, ledger, feeless>>
    ELSE /\ store' = Filled(e)
         /\ ledger' = ledger \cup {e}
         /\ feeless' = IF withoutFee /\ FeeOf[e] > 0 THEN feeless \cup {e} ELSE feeless

\* What the portfolio holds and has spent, by what it has applied.
Held(sym) ==
    Quantity({e \in applied : SymbolOf[OrderOf[e]] = sym})
    + SumFunctionOnSet([o \in Orders |-> Quantity(made[o])], {o \in Orders : SymbolOf[o] = sym})
Spent ==
    Cost(applied) - Fees(applied \cap feeless)
    + SumFunctionOnSet([o \in Orders |-> Cost(made[o])], Orders)

-----------------------------------------------------------------------------
(* The adapter, between the steps of the reconciler. *)

Adapting == call.op # "startup"

\* submit_order_safe: the order is saved as SUBMITTED before it is sent.  The
\* loops that trade ask is_trading_halted first.
Submit(o) ==
    /\ Adapting
    /\ ~halt.on
    /\ o \notin Outside
    /\ store[o].state = "NONE"
    /\ store' = [store EXCEPT ![o] =
          [state |-> "SUBMITTED", qty |-> OrderQty(o), filled |-> 0]]
    /\ UNCHANGED <<exchange, ledger, feeless, made, applied, verdict, call, crashes>>

\* Its outcomes: an answer, a lost answer, a rejection.
Answer(o) ==
    /\ Adapting
    /\ o \notin Outside
    /\ store[o].state = "SUBMITTED"
    /\ \/ exchange.status[o] # "NONE" /\ SetState(o, "ACKNOWLEDGED")
       \/ SetState(o, "UNKNOWN")
       \/ exchange.status[o] = "NONE" /\ SetState(o, "REJECTED")
    /\ UNCHANGED <<exchange, ledger, feeless, made, applied, verdict, call, crashes>>

\* An execution in the answer to a submission is stored ...
Book(e) ==
    /\ Adapting
    /\ e \in exchange.execs \ ledger
    /\ store[OrderOf[e]].state \in {"ACKNOWLEDGED", "PARTIALLY_FILLED"}
    /\ made[OrderOf[e]] = {}
    /\ Fillable(e)
    /\ Execute(e, FALSE)
    /\ UNCHANGED <<exchange, made, applied, verdict, call, crashes>>

\* ... and then applied to the portfolio.
Apply(e) ==
    /\ Adapting
    /\ e \in ledger \ applied
    /\ applied' = applied \cup {e}
    /\ UNCHANGED <<exchange, store, ledger, feeless, made, verdict, call, crashes>>

\* cancel_order_safe, when the exchange answers CANCELLED.
StoreCancelled(o) ==
    /\ Adapting
    /\ exchange.status[o] = "CANCELLED"
    /\ store[o].state # "NONE" /\ "CANCEL" \in Allowed(store[o].state)
    /\ SetState(o, "CANCELLED")
    /\ UNCHANGED <<exchange, ledger, feeless, made, applied, verdict, call, crashes>>

-----------------------------------------------------------------------------
(* reconcile, the comparison: call.seen is what each of the four queries      *)
(* (positions, balances, open orders, executions) saw of the exchange.        *)

Drift(domain, severity, sym) == [domain |-> domain, severity |-> severity, symbol |-> sym]

PositionDrifts ==
    {Drift("POSITIONS", "CRITICAL", sym) : sym \in
        {s \in call.of : Held(s) #
            Quantity({e \in call.seen[1].execs : SymbolOf[OrderOf[e]] = s})}}

BalanceDrifts ==
    LET delta == Cost(call.seen[2].execs) - Spent
    IN  IF call.stale \/ delta > CashTolerance \/ -delta > CashTolerance
        THEN {Drift("BALANCES", "CRITICAL", "none")}
        ELSE {}

\* The two lists hold working orders only, so the milder severity of a
\* mismatch between closed ones does not occur; the exchange has no name for
\* an order that is ACKNOWLEDGED but OPEN.
OrderDrifts ==
    LET there == call.seen[3]
        Here(o) == store[o].state \in Working
        Resting3(o) == there.status[o] \in {"OPEN", "PARTIALLY_FILLED"}
        Executed3(o) == Quantity(there.execs \cap ExecsOf(o))
        Differs(o) == Here(o) /\ Resting3(o) /\ store[o].filled # Executed3(o)
    IN  {Drift("ORDERS", "CRITICAL", SymbolOf[o]) : o \in
            {o \in Orders : (~Here(o) /\ Resting3(o)) \/ Differs(o)}}
        \cup
        {Drift("ORDERS", "ERROR", SymbolOf[o]) : o \in
            {o \in Orders : /\ Here(o) /\ ~Differs(o)
                            /\ store[o].state # there.status[o]}}

\* Looks only for executions the exchange does not know.
ExecutionDriftsBySubset ==
    IF ledger \subseteq call.seen[4].execs
    THEN {}
    ELSE {Drift("EXECUTIONS", "CRITICAL", "none")}

\* What is missing here is critical, what the exchange does not report (any more)
\* is only a warning.  Callers pass on what was paid for an execution, so that of
\* its terms only the fee may differ.
ExecutionDrifts ==
    LET reported == call.seen[4].execs
    IN  {Drift("EXECUTIONS", "CRITICAL", SymbolOf[OrderOf[e]]) : e \in reported \ ledger}
        \cup {Drift("EXECUTIONS", "WARNING", SymbolOf[OrderOf[e]]) : e \in ledger \ reported}
        \cup {Drift("EXECUTIONS", "WARNING", SymbolOf[o]) : o \in {o \in Orders : made[o] # {}}}
        \cup {Drift("FEES", "WARNING", SymbolOf[OrderOf[e]]) :
                e \in reported \cap feeless}

Drifts ==
    UNION {IF call.mode \in {"FULL", "SYMBOL"} THEN PositionDrifts ELSE {},
           IF call.mode \in {"FULL", "ACCOUNT"} THEN BalanceDrifts ELSE {},
           IF call.mode \in {"FULL", "ORDER"} THEN OrderDrifts \cup ExecutionDrifts ELSE {}}

Has(drifts, severity) == \E d \in drifts : d.severity = severity

StatusOf(drifts) ==
    CASE Has(drifts, "CRITICAL") -> "CRITICAL_DRIFT"
      [] ~Has(drifts, "CRITICAL") /\ Has(drifts, "ERROR") -> "DRIFT_DETECTED"
      [] drifts # {} /\ \A d \in drifts : d.severity = "WARNING" -> "DEGRADED"
      [] OTHER -> "HEALTHY"

\* _evaluate_halt_policy: a drift of positions halts its symbol, any other
\* critical drift the whole account.
HaltFor(drifts) ==
    LET critical == {d \in drifts : d.severity = "CRITICAL"}
    IN  CASE \E d \in critical : d.domain # "POSITIONS" ->
                [on |-> TRUE, scope |-> "ACCOUNT", symbols |-> Symbols]
          [] critical # {} /\ \A d \in critical : d.domain = "POSITIONS" ->
                [on |-> TRUE, scope |-> "SYMBOL", symbols |-> {d.symbol : d \in critical}]
          [] OTHER -> NotHalted

-----------------------------------------------------------------------------
(* reconcile, the call. *)

BeginReconcile(m) ==
    /\ call.pc = "idle"
    /\ call' = [Idle EXCEPT !.op = "reconcile", !.pc = "query", !.mode = m[1], !.of = m[2]]
    /\ UNCHANGED <<exchange, internal, verdict, crashes>>

Querying == call.pc = "query" /\ Len(call.seen) < 4

\* Only the list of open orders tells how the orders stand.
Response(i) ==
    IF i = 3 THEN exchange ELSE [exchange EXCEPT !.status = [o \in Orders |-> "NONE"]]

\* One query after the other; the timestamp of the balances may be too old.
Query ==
    /\ Querying
    /\ \E old \in IF Len(call.seen) = 1 THEN BOOLEAN ELSE {call.stale} :
          call' = [call EXCEPT !.seen = Append(@, Response(Len(@) + 1)), !.stale = old]
    /\ UNCHANGED <<exchange, internal, verdict, crashes>>

\* What the callers of reconcile have to do after it.
Reconciled ==
    call' = IF call.op = "reconcile" THEN Idle ELSE [call EXCEPT !.pc = "conclude", !.seen = <<>>]

\* A failed query is reported, and trading goes on as before.
QueryFailsOpen ==
    /\ Querying
    /\ last' = "DATA_UNAVAILABLE"
    /\ Reconciled
    /\ UNCHANGED <<exchange, internal, halt, crashes>>

\* _build_unavailable_snapshot: halted_symbols stays as it was.
QueryFails ==
    /\ Querying
    /\ halt' = [halt EXCEPT !.on = TRUE, !.scope = "GLOBAL"]
    /\ last' = "DATA_UNAVAILABLE"
    /\ Reconciled
    /\ UNCHANGED <<exchange, internal, crashes>>

Evaluate ==
    /\ call.pc = "query" /\ Len(call.seen) = 4
    /\ halt' = HaltFor(Drifts)
    /\ last' = StatusOf(Drifts)
    /\ Reconciled
    /\ UNCHANGED <<exchange, internal, crashes>>

-----------------------------------------------------------------------------
(* safe_repair_execution *)

\* An operator passes an execution the exchange reported; a fee left out of
\* the data counts as 0.
BeginRepair(e) ==
    /\ call.pc = "idle"
    /\ e \in exchange.execs
    /\ \E none \in {FALSE, FeeOf[e] > 0} :
          call' = [Idle EXCEPT !.op = "repair", !.pc = "find", !.of = Symbols,
                               !.todo = {e}, !.feeless = none]
    /\ UNCHANGED <<exchange, internal, verdict, crashes>>

Repairing(pc, e) == call.op = "repair" /\ call.pc = pc /\ call.todo = {e}

Goto(pc) == call' = [call EXCEPT !.pc = pc]

\* Nothing to do for an execution the portfolio has; an order of an unknown
\* client id is created with the quantity of this one execution.
Find(e) ==
    LET o == OrderOf[e]
    IN  /\ Repairing("find", e)
        /\ IF e \in applied
           THEN call' = Idle /\ UNCHANGED store
           ELSE /\ Goto("step")
                /\ store' = IF store[o].state # "NONE" THEN store
                            ELSE [store EXCEPT ![o] =
                                    [state |-> "CREATED", qty |-> QtyOf[e], filled |-> 0]]
        /\ UNCHANGED <<exchange, ledger, feeless, made, applied, verdict, crashes>>

\* SUBMIT and ACKNOWLEDGE are commits of their own.
StepThrough(e) ==
    LET o == OrderOf[e]
    IN  /\ Repairing("step", e)
        /\ \/ store[o].state = "CREATED" /\ SetState(o, "SUBMITTED") /\ UNCHANGED call
           \/ store[o].state = "SUBMITTED" /\ SetState(o, "ACKNOWLEDGED") /\ UNCHANGED call
           \/ /\ store[o].state \notin {"CREATED", "SUBMITTED"}
              /\ Goto("execute")
              /\ UNCHANGED store
        /\ UNCHANGED <<exchange, ledger, feeless, made, applied, verdict, crashes>>

\* The portfolio is changed whether or not the store took the execution.
RepairExecuteAnyway(e) ==
    /\ Repairing("execute", e)
    /\ IF e \in ledger \/ Fillable(e)
       THEN Execute(e, call.feeless)
       ELSE UNCHANGED <<store, ledger, feeless>>
    /\ Goto("apply")
    /\ UNCHANGED <<exchange, made, applied, verdict, crashes>>

\* execute_order; when it raises the repair fails, with no verdict.
RepairExecute(e) ==
    /\ Repairing("execute", e)
    /\ IF e \in ledger \/ Fillable(e)
       THEN Execute(e, call.feeless) /\ Goto("apply")
       ELSE UNCHANGED <<store, ledger, feeless>> /\ call' = Idle
    /\ UNCHANGED <<exchange, made, applied, verdict, crashes>>

\* apply_order_fill, and a full reconciliation to confirm.
RepairApply(e) ==
    /\ Repairing("apply", e)
    /\ applied' = applied \cup {e}
    /\ Goto("query")
    /\ UNCHANGED <<exchange, store, ledger, feeless, made, verdict, crashes>>

-----------------------------------------------------------------------------
(* startup_reconciliation *)

\* The process dies and restarts: the portfolio is replayed from the store,
\* the halt flag is a new one.
Crash ==
    /\ crashes < MaxCrashes
    /\ crashes' = crashes + 1
    /\ applied' = ledger
    /\ halt' = NotHalted
    /\ last' = "HEALTHY"
    /\ call' = [Idle EXCEPT !.op = "startup", !.pc = "recover", !.of = Symbols,
                            !.todo = {o \in Orders : store[o].state = "UNKNOWN"}]
    /\ UNCHANGED <<exchange, store, ledger, feeless, made>>

\* recover_unknown_order (module BrokerAdapter has its steps): an order the
\* exchange filled is executed, one it filled in part is booked under a made-up
\* id, a closed or unknown one is closed; no answer, or OPEN, changes nothing.
Recover(o) ==
    LET done == exchange.execs \cap ExecsOf(o)
        Booked(s) == store' = [store EXCEPT ![o] =
                                  [@ EXCEPT !.state = s, !.filled = Quantity(done)]]
    IN  /\ call.pc = "recover"
        /\ o \in call.todo
        /\ \/ /\ exchange.status[o] = "FILLED"
              /\ Booked("FILLED")
              /\ ledger' = ledger \cup done
              /\ applied' = applied \cup done
              /\ UNCHANGED made
           \/ /\ exchange.status[o] = "PARTIALLY_FILLED"
              /\ Booked("PARTIALLY_FILLED")
              /\ made' = [made EXCEPT ![o] = done]
              /\ UNCHANGED <<ledger, applied>>
           \/ /\ exchange.status[o] = "CANCELLED" /\ SetState(o, "CANCELLED")
              /\ UNCHANGED <<ledger, made, applied>>
           \/ /\ exchange.status[o] = "NONE" /\ SetState(o, "REJECTED")
              /\ UNCHANGED <<ledger, made, applied>>
           \/ UNCHANGED <<store, ledger, made, applied>>
        /\ call' = [call EXCEPT !.todo = @ \ {o}]
        /\ UNCHANGED <<exchange, feeless, verdict, crashes>>

Recovered ==
    /\ call.pc = "recover"
    /\ call.todo = {}
    /\ Goto("query")
    /\ UNCHANGED <<exchange, internal, verdict, crashes>>

\* The end of a repair and of a startup: HEALTHY clears the halt, and a startup
\* that is not HEALTHY halts trading whatever the scope of its drift.
Conclude ==
    /\ call.pc = "conclude"
    /\ halt' = CASE last = "HEALTHY" -> NotHalted
                 [] last # "HEALTHY" /\ call.op = "startup" -> [halt EXCEPT !.on = TRUE]
                 [] OTHER -> halt
    /\ call' = Idle
    /\ UNCHANGED <<exchange, internal, last, crashes>>

-----------------------------------------------------------------------------
CallStep ==
    \/ Query \/ QueryFails \/ Evaluate \/ Recovered \/ Conclude
    \/ \E e \in Execs : Find(e) \/ StepThrough(e) \/ RepairExecute(e) \/ RepairApply(e)
    \/ \E o \in Orders : Recover(o)

Environment ==
    \/ \E o \in Orders : Place(o) \/ ExchangeCancels(o) \/ Submit(o) \/ Answer(o) \/ StoreCancelled(o)
    \/ \E e \in Execs : Trade(e) \/ Book(e) \/ Apply(e)

FullMode == <<"FULL", Symbols>>

Next ==
    \/ CallStep
    \/ Environment
    \/ \E m \in Modes : BeginReconcile(m)
    \/ \E e \in Execs : BeginRepair(e)
    \/ Crash

\* A call goes on once begun, and the hourly loop makes a full reconciliation
\* again and again, whatever calls others make in between.
Fairness == WF_vars(CallStep) /\ SF_vars(BeginReconcile(FullMode))
Spec == Init /\ [][Next]_vars /\ Fairness

-----------------------------------------------------------------------------
\* The flag the trading loops ask says what the last verdict was: a critical
\* drift or missing data halts, a clean bill of health does not, through every
\* repair, startup and failed query (portfolio_reconciler.py:987 and 1061).
HaltMatchesVerdict ==
    call.pc # "conclude" =>
        /\ last \in {"CRITICAL_DRIFT", "DATA_UNAVAILABLE"} => halt.on
        /\ last = "HEALTHY" => ~halt.on

\* "Never guess without authoritative broker evidence" (p2-7, section 1): the
\* portfolio counts only stored executions, the store only real ones, and an
\* execution that a recovery makes up stands for real ones of its order.
AppliedIsExecuted == applied \subseteq ledger /\ ledger \subseteq exchange.execs
MadeIsExecuted == \A o \in Orders : made[o] \subseteq exchange.execs \cap ExecsOf(o)

\* However repairs, answers, recoveries and crashes interleave, an order is
\* filled by exactly the rows the executions table has for it, and not by more
\* than its quantity: a made-up row counts beside the real ones, so that what a
\* recovery in part and a later repair both book is counted twice.
FilledByItsRows ==
    \A o \in Orders :
        /\ store[o].filled = Quantity(ledger \cap ExecsOf(o)) + Quantity(made[o])
        /\ store[o].filled <= store[o].qty

\* What holds at every step of a reconciliation, a repair and a startup.
ReconcilerInv ==
    TypeOK /\ HaltMatchesVerdict /\ AppliedIsExecuted /\ MadeIsExecuted /\ FilledByItsRows

\* "Applies execution exactly once" (portfolio_reconciler.py:1125): what a
\* made-up execution stands for is not booked again under its own id.
AppliedOnce == \A o \in Orders : made[o] \cap ledger = {}

\* A full reconciliation during which the exchange executed nothing.
JudgedQuietly ==
    /\ call.pc = "query" /\ Len(call.seen) = 4
    /\ call.mode = "FULL" /\ call.of = Symbols
    /\ call.seen[1].execs = exchange.execs /\ call.seen[3] = exchange
    /\ call'.pc # "query" /\ crashes' = crashes

\* "Internal state must either match authoritative broker state or trading must
\* be safely halted" (p2-7, section 1): without a halt nothing was missed, the
\* positions are the exchange's and so is the cash, within the tolerance; and
\* HEALTHY means settled, with everything applied and the same orders at work.
MatchOrHalt ==
    [][JudgedQuietly =>
          /\ ~halt'.on =>
                /\ exchange.execs \subseteq ledger
                /\ \A sym \in Symbols : Held(sym) =
                      Quantity({e \in exchange.execs : SymbolOf[OrderOf[e]] = sym})
                /\ Cost(exchange.execs) - Spent \in -CashTolerance .. CashTolerance
          /\ last' = "HEALTHY" =>
                /\ ledger = exchange.execs
                /\ applied = ledger
                /\ {o \in Orders : store[o].state \in Working} = {o \in Orders : Resting(o)}]_vars

\* Fills the program missed do not go unnoticed: in the end they are imported,
\* or trading is halted (p2-7, section 2).
MissedFillIsNoticed == ~(exchange.execs \subseteq ledger) ~> (exchange.execs \subseteq ledger \/ halt.on)
=============================================================================
