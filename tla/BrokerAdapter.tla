---------------------------- MODULE BrokerAdapter ----------------------------
(***************************************************************************)
(* BrokerAdapter and the FakeBroker it talks to                            *)
(* (execution/broker_adapter.py), over the order store and the portfolio:  *)
(* submit_order_safe, recover_unknown_order and cancel_order_safe, with    *)
(* lost answers, failed queries, bounded retries, and a process that may   *)
(* die between any two of their commits, broker requests and portfolio     *)
(* updates.                                                                *)
(*                                                                         *)
(* The program makes one call at a time.  An order of the store is one     *)
(* record here, row and executions together: the theorem SerialRowAgrees   *)
(* of DurableOMSProofs is what makes that sound.  The portfolio is the     *)
(* quantity each order has contributed and the execution ids applied.      *)
(*                                                                         *)
(* FakeBroker fills an accepted order at once.  Its tests also set an      *)
(* order's status by hand, to rest in the book and fill in parts, which    *)
(* the environment does here.  Which of the two a behaviour is about, and  *)
(* whether its callers submit an order again that create_order reused, is  *)
(* its usage.                                                              *)
(***************************************************************************)
EXTENDS OrderStates, Sequences, SequencesExt

CONSTANTS
    Orders,         \* orders of one asset, each with its client order id
    OrderQty,       \* their sizes
    MaxRetries,     \* max_retries
    Usages,         \* how broker and callers behave, one of these throughout
    Cancels,        \* TRUE: callers cancel orders
    MaxCrashes,     \* bound on the crashes of a behaviour
    NoOrder         \* stands for no order

ASSUME AdapterAssumption ==
    /\ OrderQty \in [Orders -> Nat \ {0}]
    /\ MaxRetries \in Nat \ {0}
    /\ Usages \subseteq [atOnce : BOOLEAN, again : BOOLEAN]
    /\ Cancels \in BOOLEAN
    /\ MaxCrashes \in Nat
    /\ NoOrder \notin Orders

VARIABLES
    store,       \* the order store: state, filled quantity, known executions
    portfolio,   \* what each order contributed, and the executions applied
    broker,      \* the broker's record of each order, under its client id
    halted,      \* is_trading_halted
    unresolved,  \* unresolved_orders
    starting,    \* UNKNOWN orders a restart still has to recover
    call,        \* the call in progress
    crashes,     \* crashes so far
    usage        \* atOnce: the broker fills whole orders at once;
                 \* again: callers pass orders that were submitted before

memory == <<halted, unresolved, starting>>
vars == <<store, portfolio, broker, memory, call, crashes, usage>>

Total(execs) == FoldLeft(+, 0, execs)
Executed(o) == Total(broker[o].execs)

\* An execution to process: its index in the broker's list, or 0 for one the
\* adapter makes up an id for.
Synthetic(q) == [id |-> 0, qty |-> q]
Reported(o) == [i \in DOMAIN broker[o].execs |-> [id |-> i, qty |-> broker[o].execs[i]]]

ExecIds(o) == 1 .. OrderQty[o]
Fill(o) == [id : 0 .. OrderQty[o], qty : 1 .. OrderQty[o]]
Idle == [op |-> "none", order |-> NoOrder, pc |-> "idle", state |-> "CREATED",
         filled |-> 0, attempt |-> 0, todo |-> <<>>]

TypeOK ==
    /\ \A o \in Orders :
          /\ store[o].state \in States
          /\ store[o].filled \in 0 .. OrderQty[o]
          /\ store[o].ids \subseteq ExecIds(o)
          /\ portfolio[o].qty \in Nat
          /\ portfolio[o].ids \subseteq ExecIds(o)
          /\ broker[o].status \in
                {"NONE", "OPEN", "PARTIALLY_FILLED", "FILLED", "CANCELLED", "REJECTED"}
          /\ broker[o].execs \in Seq(1 .. OrderQty[o])
    /\ halted \in BOOLEAN
    /\ unresolved \subseteq Orders
    /\ starting \subseteq Orders
    /\ call.pc \in {"idle", "send", "query", "cancelled", "fills", "apply"}
    /\ call.pc # "idle" =>
          /\ call.op \in {"submit", "recover", "cancel"}
          /\ call.order \in Orders
          /\ call.state \in States
          /\ call.filled \in 0 .. OrderQty[call.order]
          /\ call.attempt \in 0 .. MaxRetries
          /\ call.todo \in Seq(Fill(call.order))
    /\ crashes \in 0 .. MaxCrashes
    /\ usage \in Usages

Init ==
    /\ store = [o \in Orders |-> [state |-> "CREATED", filled |-> 0, ids |-> {}]]
    /\ portfolio = [o \in Orders |-> [qty |-> 0, ids |-> {}]]
    /\ broker = [o \in Orders |-> [status |-> "NONE", execs |-> <<>>]]
    /\ halted = FALSE
    /\ unresolved = {}
    /\ starting = {}
    /\ call = Idle
    /\ crashes = 0
    /\ usage \in Usages

-----------------------------------------------------------------------------
(* The order store and the broker, as the adapter uses them. *)

\* transition_order and save_transition on the copy the call holds.
SaveCopy(o, state) ==
    store' = [store EXCEPT ![o].state = state, ![o].filled = call.filled]

\* Closes an order in whatever state it is.
ClosedAnyway(o, ev) == [store EXCEPT ![o].state = Target(ev)]

\* cancel_order or reject_order of the store, on the stored order: the state
\* it leads to, or the order as it is when the transition is illegal.
Closed(o, ev) ==
    IF ev \in Allowed(store[o].state)
    THEN [store EXCEPT ![o].state = Target(ev)]
    ELSE store

\* execute_order steps through SUBMIT and ACKNOWLEDGE before the fill.
Stepped(s) == IF s \in {"CREATED", "SUBMITTED"} THEN "ACKNOWLEDGED" ELSE s

FillEvent(o, q) ==
    IF store[o].filled + q >= OrderQty[o] THEN "FILL" ELSE "PARTIAL_FILL"

\* execute_order raises: the execution is new, and illegal or too large.
ExecuteRaises(o, x) ==
    /\ x.id \notin store[o].ids
    /\ ~FillAccepted(Stepped(store[o].state), FillEvent(o, x.qty),
                     store[o].filled, x.qty, OrderQty[o])

\* The order after execute_order: unchanged but for the stepping when the
\* execution is known or refused.
ExecutedOrder(o, x) ==
    LET s == store[o]
        at == Stepped(s.state)
    IN  IF x.id \in s.ids \/ ExecuteRaises(o, x)
        THEN [s EXCEPT !.state = at]
        ELSE [state |-> AfterFill(FillEvent(o, x.qty), s.filled, x.qty, OrderQty[o]),
              filled |-> s.filled + x.qty,
              ids |-> s.ids \cup ({x.id} \ {0})]

\* The broker processes a submission; a client id it knows is a duplicate.
Accepts(o) ==
    broker' = [broker EXCEPT ![o] =
        IF @.status # "NONE" THEN @
        ELSE IF usage.atOnce
             THEN [status |-> "FILLED", execs |-> <<OrderQty[o]>>]
             ELSE [status |-> "OPEN", execs |-> <<>>]]

\* The executions in the answer: a duplicate is answered without the list, and
\* the adapter then makes up one execution of the whole order.
Answered(o) ==
    IF broker'[o].status # "FILLED" THEN <<>>
    ELSE IF broker[o].status # "NONE" THEN <<Synthetic(OrderQty[o])>>
    ELSE <<[id |-> 1, qty |-> OrderQty[o]]>>

-----------------------------------------------------------------------------
(* How calls end. *)

Return == call' = Idle

\* The handler of an uncertain outcome, on the copy the call holds: UNKNOWN is
\* saved and the order is listed as unresolved.  A copy that cannot become
\* UNKNOWN makes the handler itself raise.
Uncertain(o) ==
    /\ IF "UNCERTAIN" \in Allowed(call.state)
       THEN SaveCopy(o, "UNKNOWN") /\ unresolved' = unresolved \cup {o}
       ELSE UNCHANGED <<store, unresolved>>
    /\ Return
    /\ UNCHANGED <<portfolio, halted, starting, crashes>>

\* The end of a recovery that found an answer lifts the halt whoever remains.
ResolvedCarelessly(o) ==
    /\ unresolved' = unresolved \ {o}
    /\ halted' = FALSE

\* The end of a recovery that found an answer.
Resolved(o) ==
    /\ unresolved' = unresolved \ {o}
    /\ halted' = (halted /\ unresolved' # {})

-----------------------------------------------------------------------------
(* submit_order_safe *)

\* Refused while trading is halted; a new order is saved as SUBMITTED.
BeginSubmit(o) ==
    /\ call.pc = "idle"
    /\ starting = {}
    /\ ~halted
    /\ store[o].state = "CREATED" \/ usage.again
    /\ LET s == IF store[o].state = "CREATED" THEN "SUBMITTED" ELSE store[o].state
       IN  /\ store' = [store EXCEPT ![o].state = s]
           /\ call' = [op |-> "submit", order |-> o, pc |-> "send", state |-> s,
                       filled |-> store[o].filled, attempt |-> 1, todo |-> <<>>]
    /\ UNCHANGED <<portfolio, broker, memory, crashes>>

Sending(o) == call.pc = "send" /\ call.order = o

\* A rate-limited answer starts the count of attempts afresh.
RetrySendAfresh(o) ==
    /\ Sending(o)
    /\ call' = [call EXCEPT !.attempt = IF @ < MaxRetries THEN @ + 1 ELSE 1]
    /\ UNCHANGED <<store, portfolio, broker, memory, crashes>>

\* Nothing left the machine, or HTTP 429: the next attempt of the loop.
RetrySend(o) ==
    /\ Sending(o)
    /\ call.attempt < MaxRetries
    /\ call' = [call EXCEPT !.attempt = @ + 1]
    /\ UNCHANGED <<store, portfolio, broker, memory, crashes>>

\* HTTP 400, or the last attempt failed before anything was sent.
SendRejected(o) ==
    /\ Sending(o)
    /\ store' = Closed(o, "REJECT")
    /\ Return
    /\ UNCHANGED <<portfolio, broker, memory, crashes>>

\* The answer is lost or malformed, after the broker processed the order or
\* (HTTP 502, 503, 504) instead of it; the order is taken as not placed.
SendLostRejected(o) ==
    /\ Sending(o)
    /\ Accepts(o) \/ UNCHANGED broker
    /\ store' = Closed(o, "REJECT")
    /\ Return
    /\ UNCHANGED <<portfolio, memory, crashes>>

\* The answer is lost or malformed, after the broker processed the order or
\* (HTTP 502, 503, 504) instead of it.
SendLost(o) ==
    /\ Sending(o)
    /\ Accepts(o) \/ UNCHANGED broker
    /\ Uncertain(o)

\* A valid answer: the order is acknowledged, and executed when the answer
\* says FILLED.  An order that cannot be acknowledged raises inside the try
\* block, which treats the outcome as uncertain.
SendAnswered(o) ==
    /\ Sending(o)
    /\ Accepts(o)
    /\ IF "ACKNOWLEDGE" \in Allowed(call.state)
       THEN /\ SaveCopy(o, "ACKNOWLEDGED")
            /\ call' = IF Answered(o) = <<>> THEN Idle
                       ELSE [call EXCEPT !.pc = "fills", !.state = "ACKNOWLEDGED",
                                         !.todo = Answered(o)]
            /\ UNCHANGED <<portfolio, memory, crashes>>
       ELSE Uncertain(o)

-----------------------------------------------------------------------------
(* The executions of an answer, one by one: store, then portfolio. *)

\* recover_unknown_order about to query, on a fresh copy of the order.
Query(o) == [op |-> "recover", order |-> o, pc |-> "query", state |-> store[o].state,
             filled |-> store[o].filled, attempt |-> 0, todo |-> <<>>]

\* An execution is stored; when execute_order raises, a submission is uncertain,
\* a recovery ends, and one that cancel_order_safe made because the broker
\* answered FILLED is made again by its exception handler, which asks the broker
\* nothing more once the order is FILLED.
StoreFill(o) ==
    /\ call.pc = "fills"
    /\ call.order = o
    /\ LET x == Head(call.todo)
       IN  IF ~ExecuteRaises(o, x)
           THEN /\ store' = [store EXCEPT ![o] = ExecutedOrder(o, x)]
                /\ call' = [call EXCEPT !.pc = "apply"]
                /\ UNCHANGED <<portfolio, broker, memory, crashes>>
           ELSE IF call.op = "submit"
           THEN Uncertain(o) /\ UNCHANGED broker
           ELSE /\ store' = [store EXCEPT ![o] = ExecutedOrder(o, x)]
                /\ call' = IF call.op = "cancel" /\ store'[o].state # "FILLED"
                           THEN [Query(o) EXCEPT !.state = store'[o].state]
                           ELSE Idle
                /\ UNCHANGED <<portfolio, broker, memory, crashes>>

\* The portfolio takes an execution whether or not it had it.
TakenBlindly(p, x) == [qty |-> p.qty + x.qty, ids |-> p.ids \cup ({x.id} \ {0})]

\* apply_order_fill: an execution id applied before is ignored.
Taken(p, x) ==
    IF x.id \in p.ids THEN p
    ELSE [qty |-> p.qty + x.qty, ids |-> p.ids \cup ({x.id} \ {0})]

\* apply_order_fill; after the last execution the call returns.
ApplyFill(o) ==
    /\ call.pc = "apply"
    /\ call.order = o
    /\ portfolio' = [portfolio EXCEPT ![o] = Taken(@, Head(call.todo))]
    /\ IF Len(call.todo) > 1
       THEN /\ call' = [call EXCEPT !.pc = "fills", !.todo = Tail(@)]
            /\ UNCHANGED <<halted, unresolved>>
       ELSE /\ Return
            /\ IF call.op # "submit" THEN Resolved(o) ELSE UNCHANGED <<halted, unresolved>>
    /\ UNCHANGED <<store, broker, starting, crashes>>

-----------------------------------------------------------------------------
(* recover_unknown_order *)

\* Called for UNKNOWN orders, first of all for those a restart finds.
BeginRecover(o) ==
    /\ call.pc = "idle"
    /\ store[o].state = "UNKNOWN"
    /\ starting # {} => o \in starting
    /\ starting' = starting \ {o}
    /\ call' = Query(o)
    /\ UNCHANGED <<store, portfolio, broker, halted, unresolved, crashes>>

Querying(o) == call.pc = "query" /\ call.order = o

\* The status query fails: trading is halted.
QueryFails(o) ==
    /\ Querying(o)
    /\ halted' = TRUE
    /\ Return
    /\ UNCHANGED <<store, portfolio, broker, unresolved, starting, crashes>>

\* FILLED: the broker's executions are processed one by one.
FoundFilled(o) ==
    /\ Querying(o)
    /\ broker[o].status = "FILLED"
    /\ call' = [call EXCEPT !.pc = "fills", !.todo = Reported(o)]
    /\ UNCHANGED <<store, portfolio, broker, memory, crashes>>

\* PARTIALLY_FILLED: one made-up execution of the broker's total; it may be
\* more than there is room for.
FoundPartial(o) ==
    /\ Querying(o)
    /\ broker[o].status = "PARTIALLY_FILLED"
    /\ LET q == Executed(o)
       IN  IF FillAccepted(call.state, "PARTIAL_FILL", call.filled, q, OrderQty[o])
           THEN /\ store' = [store EXCEPT
                      ![o].state = AfterFill("PARTIAL_FILL", call.filled, q, OrderQty[o]),
                      ![o].filled = call.filled + q]
                /\ call' = [call EXCEPT !.pc = "apply", !.todo = <<Synthetic(q)>>]
           ELSE UNCHANGED store /\ Return
    /\ UNCHANGED <<portfolio, broker, memory, crashes>>

\* REJECTED, CANCELLED, or NOT_FOUND: the order is closed, and resolved unless
\* its state does not allow that.
FoundClosed(o) ==
    /\ Querying(o)
    /\ broker[o].status \in {"REJECTED", "CANCELLED", "NONE"}
    /\ LET ev == IF broker[o].status = "CANCELLED" THEN "CANCEL" ELSE "REJECT"
       IN  /\ store' = Closed(o, ev)
           /\ IF ev \in Allowed(store[o].state)
              THEN Resolved(o)
              ELSE UNCHANGED <<halted, unresolved>>
    /\ Return
    /\ UNCHANGED <<portfolio, broker, starting, crashes>>

\* OPEN: "Status unresolved".
FoundOpen(o) ==
    /\ Querying(o)
    /\ broker[o].status = "OPEN"
    /\ Return
    /\ UNCHANGED <<store, portfolio, broker, memory, crashes>>

-----------------------------------------------------------------------------
(* cancel_order_safe *)

\* CANCEL_FILL_RACE: the broker fills the order just before the request; one
\* that has executions keeps just those.
CancelRaced(o) ==
    broker' = [broker EXCEPT ![o] =
        [status |-> "FILLED", execs |-> IF @.execs = <<>> THEN <<OrderQty[o]>> ELSE @.execs]]

\* The broker's answer to the cancel request: CANCELLED; FILLED, which makes the
\* adapter recover the order; lost, with the same consequence; or another
\* status, with none.
Cancel(o) ==
    /\ Cancels
    /\ call.pc = "idle"
    /\ starting = {}
    /\ store[o].state \in Working
    /\ \/ /\ broker[o].status \in {"OPEN", "PARTIALLY_FILLED", "CANCELLED"}
          /\ broker' = [broker EXCEPT ![o].status = "CANCELLED"]
          /\ call' = [Query(o) EXCEPT !.pc = "cancelled"]
       \/ /\ broker[o].status = "FILLED"
          /\ UNCHANGED broker
          /\ call' = [Query(o) EXCEPT !.op = "cancel"]
       \/ /\ broker[o].status # "NONE"
          /\ CancelRaced(o)
          /\ call' = [Query(o) EXCEPT !.op = "cancel"]
       \/ /\ UNCHANGED broker
          /\ call' = Query(o)
    /\ UNCHANGED <<store, portfolio, memory, crashes>>

\* CANCELLED: the store follows.
CancelStored(o) ==
    /\ call.pc = "cancelled"
    /\ call.order = o
    /\ store' = Closed(o, "CANCEL")
    /\ Return
    /\ UNCHANGED <<portfolio, broker, memory, crashes>>

-----------------------------------------------------------------------------
\* The process dies and restarts: a new adapter and a new portfolio, which
\* startup_reconciliation replays from the store before it recovers the orders
\* found UNKNOWN.
Crash ==
    /\ crashes < MaxCrashes
    /\ crashes' = crashes + 1
    /\ call' = Idle
    /\ halted' = FALSE
    /\ unresolved' = {}
    /\ starting' = {o \in Orders : store[o].state = "UNKNOWN"}
    /\ portfolio' = [o \in Orders |-> [qty |-> store[o].filled, ids |-> store[o].ids]]
    /\ UNCHANGED <<store, broker>>

\* The book executes one unit of an order that rests in it.
Trade(o) ==
    /\ broker[o].status \in {"OPEN", "PARTIALLY_FILLED"}
    /\ broker' = [broker EXCEPT ![o] =
          [status |-> IF Executed(o) + 1 = OrderQty[o] THEN "FILLED" ELSE "PARTIALLY_FILLED",
           execs |-> Append(@.execs, 1)]]
    /\ UNCHANGED <<store, portfolio, memory, call, crashes>>

\* The broker closes an order that rests in its book.
BrokerCloses(o) ==
    /\ \/ /\ broker[o].status \in {"OPEN", "PARTIALLY_FILLED"}
          /\ broker' = [broker EXCEPT ![o].status = "CANCELLED"]
       \/ /\ broker[o].status = "OPEN"
          /\ broker' = [broker EXCEPT ![o].status = "REJECTED"]
    /\ UNCHANGED <<store, portfolio, memory, call, crashes>>

Step(o) ==
    \/ RetrySend(o) \/ SendRejected(o) \/ SendLost(o) \/ SendAnswered(o)
    \/ StoreFill(o) \/ ApplyFill(o)
    \/ QueryFails(o) \/ FoundFilled(o) \/ FoundPartial(o) \/ FoundClosed(o) \/ FoundOpen(o)
    \/ CancelStored(o)

Begin(o) == BeginSubmit(o) \/ BeginRecover(o) \/ Cancel(o)

Next ==
    /\ \/ \E o \in Orders : Step(o) \/ Begin(o) \/ Trade(o) \/ BrokerCloses(o)
       \/ Crash
    /\ UNCHANGED usage

\* A call that has begun goes on: it is straight-line code with a bounded loop.
Fairness == \A o \in Orders : WF_vars(Step(o) /\ UNCHANGED usage)
Spec == Init /\ [][Next]_vars /\ Fairness

-----------------------------------------------------------------------------
AtRest == call.pc = "idle" /\ starting = {}

\* Between calls the portfolio holds what the store says was executed, through
\* every lost answer and every crash between storing and applying a fill.
PortfolioFollowsStore ==
    AtRest => \A o \in Orders : portfolio[o].qty = store[o].filled

\* "Authoritative broker outcome applied exactly once": the portfolio never
\* holds more of an order than the broker has executed.
ExposureIsReal == \A o \in Orders : portfolio[o].qty <= Executed(o)

\* An order the store gave up as REJECTED has no execution at the broker:
\* only a request that was never placed is turned into a rejection.
RejectedIsUnplaced ==
    AtRest => \A o \in Orders : store[o].state = "REJECTED" => Executed(o) = 0

\* "An UNKNOWN order produces zero speculative cash, position, or fee
\* mutations" (p2-6-broker-fault-injection, section 9).
UnknownHasNoEffect ==
    \A o \in Orders : store[o].state = "UNKNOWN" => portfolio[o].qty = 0

\* Until the process restarts, every UNKNOWN order is on the list that keeps a
\* halt in force.
UnknownIsListed ==
    AtRest /\ crashes = 0 => {o \in Orders : store[o].state = "UNKNOWN"} \subseteq unresolved

\* "Trading remains halted until manual or authoritative status resolution
\* clears the ambiguity" (p2-6-broker-fault-injection, section 19): in a process
\* that never restarted, and so has listed every order it left UNKNOWN, no
\* recovery lifts a halt while an order is UNKNOWN.
LiftsHaltCleanly ==
    halted /\ ~halted' /\ crashes' = 0 => \A o \in Orders : store'[o].state # "UNKNOWN"

\* What holds of a broker that answers with whole fills, and of callers that
\* submit an order once: the portfolio holds nothing the broker did not execute,
\* a rejected order was never placed, and an UNKNOWN one has no effect and is
\* listed.
WholeFills == usage.atOnce /\ ~usage.again
WholeFillsInv ==
    WholeFills => ExposureIsReal /\ RejectedIsUnplaced /\ UnknownHasNoEffect
                    /\ UnknownIsListed

\* And until its first restart a process lifts its halt only when no order is
\* UNKNOWN (recover_unknown_order).
WholeFillsHaltLasts == [][WholeFills => LiftsHaltCleanly]_vars

\* Whatever the broker reports in whatever order, a closed order keeps its
\* state and its quantity.
ClosedIsFinal ==
    [][\A o \in Orders : store[o].state \in Terminal => store'[o] = store[o]]_vars

\* Every call returns: retries are bounded and no answer is waited for.
CallReturns == (call.pc # "idle") ~> (call.pc = "idle")

=============================================================================
