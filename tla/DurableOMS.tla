----------------------------- MODULE DurableOMS ------------------------------
(***************************************************************************)
(* DurablePaperOMS (execution/paper_state_machine.py): orders and their    *)
(* executions in SQLite, and the operations that read an order, move it    *)
(* with the state machine and write it back.                               *)
(*                                                                         *)
(* A worker is a thread or process with its own connection.  A read is two *)
(* SELECTs, one of the orders row and one of the executions, with no       *)
(* transaction round them; each save is one committed transaction.  The    *)
(* object's _lock is never taken, so workers interleave between these      *)
(* steps; the program's own callers use one thread.  Which of the two a    *)
(* behaviour is about, and the calls made in it, is its usage.             *)
(***************************************************************************)
EXTENDS OrderStates, Functions

CONSTANTS
    Orders,    \* rows of the orders table
    Execs,     \* execution identifiers
    Workers,   \* threads or processes that use the store
    OrderQty,  \* total_qty of each order
    ExecOf,    \* the order an execution belongs to
    ExecQty,   \* the quantity of an execution
    Marks,     \* the events other than fills that callers apply
    StartIn,   \* the states orders are in at the start, none with fills
    Usages,    \* how callers use the store, one of these throughout
    NoExec     \* stands for "no execution"

ASSUME StoreAssumption ==
    /\ OrderQty \in [Orders -> Nat \ {0}]
    /\ ExecOf \in [Execs -> Orders]
    /\ ExecQty \in [Execs -> Nat \ {0}]
    /\ Marks \subseteq MarkEvents
    /\ StartIn \subseteq {"CREATED", "SUBMITTED", "ACKNOWLEDGED", "UNKNOWN"}
    /\ NoExec \notin Execs

VARIABLES
    orders,    \* the orders table: status and the filled_qty column
    ledger,    \* the executions table: the ids of an order, SUM(fill_qty)
    pc,        \* where each worker is
    job,       \* the call each worker is in
    mem,       \* the PaperOrder each worker has read
    reply,     \* how each worker's last call ended
    usage      \* serial: callers wait for each other; jobs: the calls they make

vars == <<orders, ledger, pc, job, mem, reply, usage>>

\* execute_order, or an event applied by cancel_order, expire_order,
\* reject_order or the broker adapter.
Jobs ==
    {[op |-> "EXECUTE", order |-> ExecOf[e], exec |-> e] : e \in Execs}
        \cup [op : Marks, order : Orders, exec : {NoExec}]

ASSUME UsageAssumption == Usages \subseteq [serial : BOOLEAN, jobs : SUBSET Jobs]

Row == [state : States, filled : Nat]
Memory == [state : States, filled : Nat, ids : SUBSET Execs]
Blank == [state |-> "CREATED", filled |-> 0, ids |-> {}]
Idle == [op |-> "NONE", order |-> NoExec, exec |-> NoExec]

TypeOK ==
    /\ orders \in [Orders -> Row]
    /\ ledger \in [Orders -> [ids : SUBSET Execs, sum : Nat]]
    /\ pc \in [Workers -> {"idle", "reading", "ready"}]
    /\ job \in [Workers -> Jobs \cup {Idle}]
    /\ mem \in [Workers -> Memory]
    /\ reply \in [Workers -> {"none", "saved", "refused", "broken"}]
    /\ \A w \in Workers : pc[w] # "idle" => job[w] \in Jobs
    /\ usage \in Usages

Init ==
    /\ \E start \in [Orders -> StartIn] :
          orders = [o \in Orders |-> [state |-> start[o], filled |-> 0]]
    /\ ledger = [o \in Orders |-> [ids |-> {}, sum |-> 0]]
    /\ pc = [w \in Workers |-> "idle"]
    /\ job = [w \in Workers |-> Idle]
    /\ mem = [w \in Workers |-> Blank]
    /\ reply = [w \in Workers |-> "none"]
    /\ usage \in Usages

Order(w) == job[w].order

\* The call ends; the worker drops its copy of the order.
Return(w, how) ==
    /\ pc' = [pc EXCEPT ![w] = "idle"]
    /\ job' = [job EXCEPT ![w] = Idle]
    /\ mem' = [mem EXCEPT ![w] = Blank]
    /\ reply' = [reply EXCEPT ![w] = how]

-----------------------------------------------------------------------------
\* get_order, first SELECT.  PaperOrder.__init__ validates the row and raises
\* on one that is not well formed, so no call gets past it.
ReadRow(w, j) ==
    /\ pc[w] = "idle"
    /\ WellFormed(orders[j.order].state, orders[j.order].filled, OrderQty[j.order])
    /\ pc' = [pc EXCEPT ![w] = "reading"]
    /\ job' = [job EXCEPT ![w] = j]
    /\ mem' = [mem EXCEPT ![w] = [state |-> orders[j.order].state,
                                  filled |-> orders[j.order].filled,
                                  ids |-> {}]]
    /\ UNCHANGED <<orders, ledger, reply>>

\* get_order, second SELECT: when the ledger has executions, their sum
\* replaces the filled_qty column.
ReadLedger(w) ==
    /\ pc[w] = "reading"
    /\ LET l == ledger[Order(w)]
       IN  mem' = [mem EXCEPT ![w] = [state |-> @.state,
                                      filled |-> IF l.ids = {} THEN @.filled ELSE l.sum,
                                      ids |-> l.ids]]
    /\ pc' = [pc EXCEPT ![w] = "ready"]
    /\ UNCHANGED <<orders, ledger, job, reply>>

\* save_transition without a new execution: UPDATE orders.
SaveState(w, state) ==
    /\ orders' = [orders EXCEPT ![Order(w)] = [state |-> state, filled |-> mem[w].filled]]
    /\ UNCHANGED ledger

\* save_transition that inserts even an execution_id the table has.
SaveFillBlindly(w, state, q) ==
    /\ orders' = [orders EXCEPT ![Order(w)] = [state |-> state, filled |-> mem[w].filled + q]]
    /\ ledger' = [ledger EXCEPT ![Order(w)] =
                    [ids |-> @.ids \cup {job[w].exec}, sum |-> @.sum + q]]

\* save_transition of a fill: UPDATE orders and INSERT OR IGNORE INTO
\* executions, under the unique index on execution_id.
SaveFill(w, state, q) ==
    /\ orders' = [orders EXCEPT ![Order(w)] = [state |-> state, filled |-> mem[w].filled + q]]
    /\ ledger' = [ledger EXCEPT ![Order(w)] =
                    IF job[w].exec \in @.ids
                    THEN @
                    ELSE [ids |-> @.ids \cup {job[w].exec}, sum |-> @.sum + q]]

-----------------------------------------------------------------------------
\* execute_order steps an order that has not been acknowledged through SUBMIT
\* and ACKNOWLEDGE first, each saved by a transaction of its own.
StepThrough(w, from, ev) ==
    /\ pc[w] = "ready"
    /\ job[w].op = "EXECUTE"
    /\ mem[w].state = from
    /\ SaveState(w, Target(ev))
    /\ mem' = [mem EXCEPT ![w].state = Target(ev)]
    /\ UNCHANGED <<pc, job, reply>>

Submit(w) == StepThrough(w, "CREATED", "SUBMIT")
Acknowledge(w) == StepThrough(w, "SUBMITTED", "ACKNOWLEDGE")

AtFill(w) ==
    /\ pc[w] = "ready"
    /\ job[w].op = "EXECUTE"
    /\ mem[w].state \notin {"CREATED", "SUBMITTED"}

\* The execution id is not looked up before the fill is applied.
KnownNever(w) == FALSE

\* transition_order: the execution was applied to this order before.
Known(w) == job[w].exec \in mem[w].ids

\* execute_order of a known execution: no transition, but the order is saved
\* again as it was read (the last event of its history is saved with it).
Redeliver(w) ==
    /\ AtFill(w)
    /\ Known(w)
    /\ SaveState(w, mem[w].state)
    /\ Return(w, "saved")

\* execute_order of a new execution.
Execute(w) ==
    /\ AtFill(w)
    /\ ~Known(w)
    /\ LET q == ExecQty[job[w].exec]
           qty == OrderQty[Order(w)]
       IN \E ev \in EventOfFill(mem[w].filled, q, qty) :
            \/ /\ FillAccepted(mem[w].state, ev, mem[w].filled, q, qty)
               /\ SaveFill(w, AfterFill(ev, mem[w].filled, q, qty), q)
               /\ Return(w, "saved")
            \/ \* InvalidOrderTransition or OverfillRejected
               /\ ~(ev \in Allowed(mem[w].state) /\ Fits(mem[w].filled, q, qty))
               /\ UNCHANGED <<orders, ledger>>
               /\ Return(w, "refused")
            \/ \* OrderInvariantViolation, raised after the copy was changed
               /\ ev \in Allowed(mem[w].state) /\ Fits(mem[w].filled, q, qty)
               /\ ~FillAccepted(mem[w].state, ev, mem[w].filled, q, qty)
               /\ UNCHANGED <<orders, ledger>>
               /\ Return(w, "broken")

\* cancel_order, expire_order, reject_order, and the transitions the broker
\* adapter saves: SUBMIT, ACKNOWLEDGE, UNCERTAIN.
Mark(w) ==
    /\ pc[w] = "ready"
    /\ job[w].op \in Marks
    /\ \/ /\ job[w].op \in Allowed(mem[w].state)
          /\ SaveState(w, Target(job[w].op))
          /\ Return(w, "saved")
       \/ /\ job[w].op \notin Allowed(mem[w].state)
          /\ UNCHANGED <<orders, ledger>>
          /\ Return(w, "refused")

\* The process ends, or SQLite gives up with "database is locked", between
\* two steps of a call: what was committed stays.
Fail(w) ==
    /\ pc[w] # "idle"
    /\ UNCHANGED <<orders, ledger>>
    /\ Return(w, "none")

Step(w) ==
    \/ ReadLedger(w)
    \/ Submit(w)
    \/ Acknowledge(w)
    \/ Redeliver(w)
    \/ Execute(w)
    \/ Mark(w)
    \/ Fail(w)

NobodyBusy == \A w \in Workers : pc[w] = "idle"

\* The store itself lets workers interleave; callers that use it one at a time
\* begin a call when no other is in progress.
Next ==
    /\ \E w \in Workers :
          \/ Step(w)
          \/ (usage.serial => NobodyBusy) /\ \E j \in usage.jobs : ReadRow(w, j)
    /\ UNCHANGED usage
Spec == Init /\ [][Next]_vars

-----------------------------------------------------------------------------
\* The unique index on execution_id holds where the look-up before it is stale:
\* whatever workers read and save in between (save_transition), each execution
\* counts once in the sum of its order's ledger, and counts in full.
StoredOnce ==
    \A o \in Orders : ledger[o].sum = SumFunctionOnSet(ExecQty, ledger[o].ids)

\* The executions stored for an order never exceed its size: "under no
\* circumstances can Q_filled exceed Q_order" (p2-3-partial-fill-lifecycle).
NeverOverfilled == \A o \in Orders : ledger[o].sum <= OrderQty[o]

\* The status column and the filled_qty column tell the same story as the
\* executions table: the column is the sum, an order is FILLED exactly when
\* its executions complete it, and PARTIALLY_FILLED only in between.  They
\* are written by different statements from different readings, so this is
\* what one caller at a time can rely on.
RowAgreesWithLedger ==
    usage.serial =>
        \A o \in Orders :
            /\ orders[o].filled = ledger[o].sum
            /\ orders[o].state = "FILLED" <=> ledger[o].sum = OrderQty[o]
            /\ orders[o].state = "PARTIALLY_FILLED" => ledger[o].sum > 0

\* "Once an order enters a terminal state, no further mutations are
\* permitted" (p2-paper-trading-state-machine, section 4): neither its row
\* nor its executions ever change again, whatever one caller at a time does.
TerminalIsFinal ==
    [][usage.serial =>
        \A o \in Orders : orders[o].state \in Terminal =>
            orders'[o] = orders[o] /\ ledger'[o] = ledger[o]]_vars

\* The store used by one caller at a time keeps the promise of FillRegister; of
\* one that several use at once the promise says nothing.
Promised(now, untouched) == IF usage.serial THEN now ELSE untouched
Register == INSTANCE FillRegister WITH
    open <- Promised({o \in Orders : orders[o].state \in Working}, Orders),
    got <- [o \in Orders |-> Promised(ledger[o].ids, {})],
    filled <- [o \in Orders |-> Promised(ledger[o].sum, 0)]
KeepsRegister == Register!RegSpec
=============================================================================
