------------------------- MODULE BrokerAdapterProofs --------------------------
(***************************************************************************)
(* PortfolioFollowsStore and ClosedIsFinal for any orders, sizes, retries  *)
(* and crashes, with every combination of broker and caller the constants  *)
(* allow.                                                                  *)
(*                                                                         *)
(* Neither is inductive.  Between storing a fill and applying it the       *)
(* portfolio lags behind by exactly the execution the call holds; and a    *)
(* call that saves its own copy of an order must not have an old copy.     *)
(*                                                                         *)
(* WholeFillsInv and WholeFillsHaltLasts for the same constants: with      *)
(* whole fills an order and its record at the broker go through a few      *)
(* joint states (Exact), and no request of a submission finds the broker   *)
(* with the order (Steady).                                                *)
(***************************************************************************)
EXTENDS BrokerAdapter, TLAPS

\* FoldLeft, by which Total is defined, adds the later element on the right.
Plus(x, y) == y + x
Largest(S) == Max(S)
Sums == INSTANCE FoldLemmas WITH Op <- Plus, Initial <- 0, Choose <- Largest

\* What the portfolio should hold of an order.
Held(o) == [qty |-> store[o].filled, ids |-> store[o].ids]

StoreShape ==
    /\ store = [o \in Orders |-> [state |-> store[o].state, filled |-> store[o].filled,
                                  ids |-> store[o].ids]]
    /\ \A o \in Orders : 0 \notin store[o].ids

CallShape ==
    /\ call = [op |-> call.op, order |-> call.order, pc |-> call.pc, state |-> call.state,
               filled |-> call.filled, attempt |-> call.attempt, todo |-> call.todo]
    /\ call.pc # "idle" => call.order \in Orders

Shape == StoreShape /\ CallShape /\ portfolio = [o \in Orders |-> portfolio[o]]

\* The portfolio lags behind the store only by the fill about to be applied.
Lag ==
    /\ \A o \in Orders : ~(call.pc = "apply" /\ call.order = o) => portfolio[o] = Held(o)
    /\ call.pc = "apply" =>
          Taken(portfolio[call.order], Head(call.todo)) = Held(call.order)

\* A call that may still save its copy of the order has it as it is stored; a
\* submission has at most one execution to process.
Fresh ==
    /\ call.pc \in {"send", "query"} \/ (call.pc = "fills" /\ call.op = "submit") =>
          call.state = store[call.order].state /\ call.filled = store[call.order].filled
    /\ call.pc \in {"fills", "apply"} /\ call.op = "submit" => Len(call.todo) = 1
    /\ call.pc = "send" => call.op = "submit"
    /\ call.pc = "query" => call.op # "submit"

SyncInv == Shape /\ Lag /\ Fresh

\* The closed orders are left alone.
Frozen == \A o \in Orders : store[o].state \in Terminal => store'[o] = store[o]

\* A terminal state accepts no event.
LEMMA TerminalRefuses == \A s \in Terminal : Allowed(s) = {}
BY DEF Terminal, Allowed

\* Writing a whole order keeps the shape of the store.
LEMMA WriteKeepsShape ==
    ASSUME StoreShape, NEW o \in Orders, NEW st, NEW n, NEW ids, 0 \notin ids,
           store' = [store EXCEPT ![o] = [state |-> st, filled |-> n, ids |-> ids]]
    PROVE  StoreShape'
BY DEF StoreShape

-----------------------------------------------------------------------------
\* Before anything was called, everything agrees.
LEMMA SyncInit == Init => SyncInv
<1> SUFFICES ASSUME Init PROVE SyncInv
  OBVIOUS
<1>1. Shape
  BY DEF Init, Shape, StoreShape, CallShape, Idle
<1>2. Lag
  BY DEF Init, Lag, Idle, Held
<1>3. Fresh
  BY DEF Init, Fresh, Idle
<1> QED
  BY <1>1, <1>2, <1>3 DEF SyncInv

\* A call that ends when the portfolio does not lag, having changed no more
\* of the store than the state of one order.
LEMMA ReturnSyncs ==
    ASSUME SyncInv, call.pc # "apply", Return, UNCHANGED portfolio,
           NEW o \in Orders, NEW s, store' = [store EXCEPT ![o].state = s]
    PROVE  SyncInv'
<1>1. Shape'
  BY DEF SyncInv, Shape, StoreShape, CallShape, Return, Idle
<1>2. Lag'
  BY DEF SyncInv, Shape, StoreShape, CallShape, Lag, Held, Return, Idle
<1>3. Fresh'
  BY DEF Fresh, Return, Idle
<1> QED
  BY <1>1, <1>2, <1>3 DEF SyncInv

\* The same, with the store left alone.
LEMMA ReturnQuiet ==
    ASSUME SyncInv, call.pc # "apply", Return, UNCHANGED <<portfolio, store>>
    PROVE  SyncInv'
BY DEF SyncInv, Shape, StoreShape, CallShape, Lag, Held, Fresh, Return, Idle

\* Saving the copy of a call that is up to date changes only the state.
LEMMA SaveCopyOnlyState ==
    ASSUME SyncInv, call.pc # "idle", call.filled = store[call.order].filled, NEW s,
           SaveCopy(call.order, s)
    PROVE  store' = [store EXCEPT ![call.order].state = s]
BY DEF SyncInv, Shape, StoreShape, CallShape, SaveCopy

\* The handler of an uncertain outcome.
LEMMA UncertainSyncs ==
    ASSUME SyncInv, call.pc \in {"send", "fills"}, call.op = "submit",
           Uncertain(call.order)
    PROVE  SyncInv' /\ Frozen
<1>1. call.order \in Orders /\ call.filled = store[call.order].filled
      /\ call.state = store[call.order].state
  BY DEF SyncInv, Shape, StoreShape, CallShape, Fresh
<1>2. CASE "UNCERTAIN" \in Allowed(call.state)
  <2>1. store' = [store EXCEPT ![call.order].state = "UNKNOWN"]
    BY <1>1, <1>2, SaveCopyOnlyState DEF Uncertain
  <2>2. SyncInv'
    BY <1>1, <2>1, ReturnSyncs DEF Uncertain
  <2>3. store[call.order].state \notin Terminal
    BY <1>1, <1>2, TerminalRefuses
  <2> QED
    BY <2>1, <2>2, <2>3 DEF Frozen, SyncInv, Shape, StoreShape, CallShape
<1>3. CASE "UNCERTAIN" \notin Allowed(call.state)
  <2>1. Return /\ UNCHANGED <<portfolio, store>>
    BY <1>3 DEF Uncertain
  <2>2. SyncInv'
    BY <1>3, <2>1, ReturnQuiet
  <2> QED
    BY <2>1, <2>2 DEF Frozen
<1> QED
  BY <1>2, <1>3

-----------------------------------------------------------------------------
(* submit_order_safe *)

\* Beginning a submission takes a copy that is up to date.
LEMMA BeginSubmitSyncs ==
    ASSUME SyncInv, NEW o \in Orders, BeginSubmit(o)
    PROVE  SyncInv' /\ Frozen
<1>1. PICK s : /\ s = IF store[o].state = "CREATED" THEN "SUBMITTED" ELSE store[o].state
               /\ store' = [store EXCEPT ![o].state = s]
               /\ call' = [op |-> "submit", order |-> o, pc |-> "send", state |-> s,
                           filled |-> store[o].filled, attempt |-> 1, todo |-> <<>>]
               /\ call.pc = "idle" /\ UNCHANGED portfolio
  BY DEF BeginSubmit
<1>2. Shape'
  BY <1>1 DEF SyncInv, Shape, StoreShape, CallShape
<1>3. Lag'
  BY <1>1 DEF SyncInv, Shape, StoreShape, CallShape, Lag, Held
<1>4. Fresh'
  BY <1>1 DEF SyncInv, Shape, StoreShape, CallShape, Fresh
<1>5. Frozen
  BY <1>1 DEF Frozen, SyncInv, Shape, StoreShape, Terminal
<1> QED
  BY <1>2, <1>3, <1>4, <1>5 DEF SyncInv

\* Another attempt changes nothing but the number of attempts.
LEMMA RetrySyncs ==
    ASSUME SyncInv, NEW o \in Orders, RetrySend(o)
    PROVE  SyncInv' /\ Frozen
<1>1. call' = [call EXCEPT !.attempt = @ + 1] /\ UNCHANGED <<store, portfolio>>
      /\ call.pc = "send"
  BY DEF RetrySend, Sending
<1>2. Shape' /\ Lag' /\ Fresh'
  BY <1>1 DEF SyncInv, Shape, StoreShape, CallShape, Lag, Held, Fresh
<1> QED
  BY <1>1, <1>2 DEF SyncInv, Frozen

\* Closing an order by cancel_order or reject_order ends the call; a terminal
\* order is not closed again.
LEMMA CloseSyncs ==
    ASSUME SyncInv, NEW o \in Orders, NEW ev, store' = Closed(o, ev),
           call.pc # "apply", Return, UNCHANGED portfolio
    PROVE  SyncInv' /\ Frozen
<1>1. CASE ev \in Allowed(store[o].state)
  <2>1. store' = [store EXCEPT ![o].state = Target(ev)]
    BY <1>1 DEF Closed
  <2>2. SyncInv'
    BY <2>1, ReturnSyncs
  <2>3. store[o].state \notin Terminal
    BY <1>1, TerminalRefuses
  <2> QED
    BY <2>1, <2>2, <2>3 DEF Frozen, SyncInv, Shape, StoreShape, CallShape
<1>2. CASE ev \notin Allowed(store[o].state)
  BY <1>2, ReturnQuiet DEF Closed, Frozen
<1> QED
  BY <1>1, <1>2

\* A valid answer: acknowledged, and one execution at most to process.
LEMMA AnsweredSyncs ==
    ASSUME SyncInv, NEW o \in Orders, SendAnswered(o)
    PROVE  SyncInv' /\ Frozen
<1>1. /\ call.pc = "send" /\ call.order = o /\ call.op = "submit"
      /\ call.state = store[o].state /\ call.filled = store[o].filled
  BY DEF SendAnswered, Sending, SyncInv, Fresh
<1>2. CASE "ACKNOWLEDGE" \notin Allowed(call.state)
  BY <1>1, <1>2, UncertainSyncs DEF SendAnswered
<1>3. CASE "ACKNOWLEDGE" \in Allowed(call.state)
  <2>1. store' = [store EXCEPT ![o].state = "ACKNOWLEDGED"] /\ UNCHANGED portfolio
    BY <1>1, <1>3, SaveCopyOnlyState DEF SendAnswered
  <2>2. store[o].state \notin Terminal
    BY <1>1, <1>3, TerminalRefuses
  <2>3. Frozen
    BY <2>1, <2>2 DEF Frozen, SyncInv, Shape, StoreShape, CallShape
  <2>4. CASE Answered(o) = <<>>
    BY <1>1, <1>3, <2>1, <2>3, <2>4, ReturnSyncs DEF SendAnswered, Return
  <2>5. CASE Answered(o) # <<>>
    <3>1. call' = [call EXCEPT !.pc = "fills", !.state = "ACKNOWLEDGED",
                               !.todo = Answered(o)]
      BY <1>3, <2>5 DEF SendAnswered
    <3>2. Len(Answered(o)) = 1
      BY <2>5 DEF Answered
    <3>3. Shape'
      <4>1. StoreShape'
        BY <2>1 DEF SyncInv, Shape, StoreShape
      <4>2. CallShape' /\ portfolio' = [p \in Orders |-> portfolio'[p]]
        BY <1>1, <2>1, <3>1 DEF SyncInv, Shape, CallShape
      <4> QED
        BY <4>1, <4>2 DEF Shape
    <3>4. Lag'
      BY <1>1, <2>1, <3>1 DEF SyncInv, Shape, StoreShape, CallShape, Lag, Held
    <3>5. Fresh'
      BY <1>1, <2>1, <3>1, <3>2 DEF SyncInv, Shape, StoreShape, CallShape, Fresh
    <3> QED
      BY <2>3, <3>3, <3>4, <3>5 DEF SyncInv
  <2> QED
    BY <2>4, <2>5
<1> QED
  BY <1>2, <1>3

-----------------------------------------------------------------------------
(* The executions of an answer *)

\* Storing an execution: the portfolio lags by just this one, or not at all.
LEMMA StoreFillSyncs ==
    ASSUME SyncInv, NEW o \in Orders, StoreFill(o)
    PROVE  SyncInv' /\ Frozen
<1> DEFINE x == Head(call.todo)
           s == store[o]
           at == Stepped(s.state)
<1>1. /\ call.pc = "fills" /\ call.order = o /\ portfolio[o] = Held(o)
      /\ 0 \notin s.ids
      /\ s = [state |-> s.state, filled |-> s.filled, ids |-> s.ids]
  BY DEF StoreFill, SyncInv, Shape, StoreShape, CallShape, Lag
<1>2. CASE ExecuteRaises(o, x) /\ call.op = "submit"
  BY <1>1, <1>2, UncertainSyncs DEF StoreFill
<1>3. s.state \in Terminal => at = s.state
  BY DEF Stepped, Terminal
<1>4. x.id \in s.ids \/ ExecuteRaises(o, x) => ExecutedOrder(o, x) = [s EXCEPT !.state = at]
  BY DEF ExecutedOrder
<1>5. CASE ExecuteRaises(o, x) /\ call.op # "submit"
  <2>1. store' = [store EXCEPT ![o].state = at] /\ UNCHANGED portfolio
    BY <1>4, <1>5 DEF StoreFill, SyncInv, Shape, StoreShape, CallShape
  <2>2. Frozen
    BY <1>1, <1>3, <2>1 DEF Frozen, SyncInv, Shape, StoreShape, CallShape
  <2>3. CASE Return
    BY <1>1, <2>1, <2>2, <2>3, ReturnSyncs
  <2>4. CASE call' = [Query(o) EXCEPT !.state = store'[o].state]
    <3>1. call' = [op |-> "recover", order |-> o, pc |-> "query", state |-> store'[o].state,
                   filled |-> store[o].filled, attempt |-> 0, todo |-> <<>>]
      BY <2>4 DEF Query
    <3>2. Shape'
      BY <2>1, <3>1 DEF SyncInv, Shape, StoreShape, CallShape
    <3>3. Lag'
      BY <1>1, <2>1, <3>1 DEF SyncInv, Shape, StoreShape, CallShape, Lag, Held
    <3>4. Fresh'
      BY <2>1, <3>1 DEF SyncInv, Shape, StoreShape, CallShape, Fresh
    <3> QED
      BY <2>2, <3>2, <3>3, <3>4 DEF SyncInv
  <2> QED
    BY <1>5, <2>3, <2>4 DEF StoreFill, Return
<1>6. CASE ~ExecuteRaises(o, x)
  <2>1. /\ store' = [store EXCEPT ![o] = ExecutedOrder(o, x)]
        /\ call' = [call EXCEPT !.pc = "apply"] /\ UNCHANGED portfolio
    BY <1>6 DEF StoreFill
  <2>2. store'[o] = ExecutedOrder(o, x) /\ \A p \in Orders \ {o} : store'[p] = store[p]
    BY <2>1 DEF SyncInv, Shape, StoreShape, CallShape
  <2>3. CASE x.id \in s.ids
    <3>1. store'[o] = [state |-> at, filled |-> s.filled, ids |-> s.ids]
      BY <1>1, <1>4, <2>2, <2>3
    <3>2. Frozen
      BY <1>1, <1>3, <2>2, <3>1 DEF Frozen
    <3>3. Taken(portfolio[o], x) = [qty |-> s.filled, ids |-> s.ids]
      BY <1>1, <2>3 DEF Taken, Held
    <3>4. Shape'
      <4>0. store' = [store EXCEPT ![o] = [state |-> at, filled |-> s.filled, ids |-> s.ids]]
        BY <2>1, <2>2, <3>1
      <4>1. StoreShape'
        BY <1>1, <4>0, WriteKeepsShape DEF SyncInv, Shape
      <4>2. CallShape' /\ portfolio' = [p \in Orders |-> portfolio'[p]]
        BY <1>1, <2>1 DEF SyncInv, Shape, CallShape
      <4> QED
        BY <4>1, <4>2 DEF Shape
    <3>5. Lag'
      BY <1>1, <2>1, <2>2, <3>1, <3>3 DEF SyncInv, Shape, StoreShape, CallShape, Lag, Held
    <3>6. Fresh'
      BY <1>1, <2>1 DEF SyncInv, Shape, StoreShape, CallShape, Fresh
    <3> QED
      BY <3>2, <3>4, <3>5, <3>6 DEF SyncInv
  <2>4. CASE x.id \notin s.ids
    <3> DEFINE st == AfterFill(FillEvent(o, x.qty), s.filled, x.qty, OrderQty[o])
               more == s.ids \cup ({x.id} \ {0})
    <3>1. store'[o] = [state |-> st, filled |-> s.filled + x.qty, ids |-> more]
      BY <1>6, <2>2, <2>4 DEF ExecutedOrder
    <3>2. s.state \notin Terminal
      BY <1>3, <1>6, <2>4, TerminalRefuses DEF ExecuteRaises, FillAccepted
    <3>3. Frozen
      BY <2>2, <3>2 DEF Frozen
    <3>4. Taken(portfolio[o], x) = [qty |-> s.filled + x.qty, ids |-> more]
      BY <1>1, <2>4 DEF Taken, Held
    <3>5. Shape'
      <4>0. /\ store' = [store EXCEPT ![o] = [state |-> st, filled |-> s.filled + x.qty, ids |-> more]]
            /\ 0 \notin more
        BY <1>1, <2>1, <2>2, <3>1
      <4>1. StoreShape'
        BY <4>0, WriteKeepsShape DEF SyncInv, Shape
      <4>2. CallShape' /\ portfolio' = [p \in Orders |-> portfolio'[p]]
        BY <1>1, <2>1 DEF SyncInv, Shape, CallShape
      <4> QED
        BY <4>1, <4>2 DEF Shape
    <3>6. Lag'
      <4>1. call'.pc = "apply" /\ call'.order = o /\ call'.todo = call.todo
        BY <1>1, <2>1 DEF SyncInv, Shape, StoreShape, CallShape
      <4>2. Held(o)' = [qty |-> s.filled + x.qty, ids |-> more]
        BY <3>1 DEF Held
      <4>3. \A p \in Orders \ {o} : portfolio'[p] = Held(p)'
        BY <1>1, <2>1, <2>2 DEF SyncInv, Lag, Held
      <4> QED
        BY <2>1, <3>4, <4>1, <4>2, <4>3 DEF Lag
    <3>7. Fresh'
      BY <1>1, <2>1 DEF SyncInv, Shape, StoreShape, CallShape, Fresh
    <3> QED
      BY <3>3, <3>5, <3>6, <3>7 DEF SyncInv
  <2> QED
    BY <2>3, <2>4
<1> QED
  BY <1>2, <1>5, <1>6

\* Applying it catches up.
LEMMA ApplyFillSyncs ==
    ASSUME SyncInv, NEW o \in Orders, ApplyFill(o)
    PROVE  SyncInv' /\ Frozen
<1>1. /\ call.pc = "apply" /\ call.order = o
      /\ portfolio' = [portfolio EXCEPT ![o] = Taken(portfolio[o], Head(call.todo))]
      /\ UNCHANGED store
  BY DEF ApplyFill
<1>2. \A p \in Orders : portfolio'[p] = Held(p) /\ Held(p)' = Held(p)
  BY <1>1 DEF SyncInv, Shape, StoreShape, CallShape, Lag, Held
<1>3. CASE Len(call.todo) > 1
  <2>1. call' = [call EXCEPT !.pc = "fills", !.todo = Tail(@)]
    BY <1>3 DEF ApplyFill
  <2>2. call.op # "submit"
    <3>1. call.op = "submit" => Len(call.todo) = 1
      BY <1>1 DEF SyncInv, Fresh
    <3>2. ~(1 > 1)
      OBVIOUS
    <3> QED
      BY <1>3, <3>1, <3>2, Zenon
  <2>3. Shape' /\ Lag' /\ Fresh'
    BY <1>1, <1>2, <2>1, <2>2 DEF SyncInv, Shape, StoreShape, CallShape, Lag, Fresh
  <2> QED
    BY <1>1, <2>3 DEF SyncInv, Frozen
<1>4. CASE ~(Len(call.todo) > 1)
  <2>1. call' = Idle
    BY <1>4 DEF ApplyFill, Return
  <2>2. Shape' /\ Lag' /\ Fresh'
    BY <1>1, <1>2, <2>1 DEF SyncInv, Shape, StoreShape, CallShape, Lag, Fresh, Idle
  <2> QED
    BY <1>1, <2>2 DEF SyncInv, Frozen
<1> QED
  BY <1>3, <1>4

-----------------------------------------------------------------------------
(* recover_unknown_order and cancel_order_safe *)

\* A call that moves on to another statement, with its copy of the order up to
\* date or of no more use, while the store and the portfolio rest.
LEMMA MoveSyncs ==
    ASSUME SyncInv, UNCHANGED <<store, portfolio>>, call.pc # "apply",
           CallShape', Fresh', call'.pc # "apply"
    PROVE  SyncInv' /\ Frozen
<1>1. StoreShape' /\ portfolio' = [o \in Orders |-> portfolio'[o]]
  BY DEF SyncInv, Shape, StoreShape
<1>2. Lag'
  BY DEF SyncInv, Lag, Held
<1> QED
  BY <1>1, <1>2 DEF SyncInv, Shape, Frozen

\* Every call of recover_unknown_order or cancel_order_safe begins with a fresh
\* copy of the order.
LEMMA BeginSyncs ==
    ASSUME SyncInv, NEW o \in Orders, BeginRecover(o) \/ Cancel(o)
    PROVE  SyncInv' /\ Frozen
<1>1. call.pc = "idle" /\ UNCHANGED <<store, portfolio>>
  BY DEF BeginRecover, Cancel
<1>2. PICK op \in {"recover", "cancel"}, pc \in {"query", "cancelled"} :
         call' = [op |-> op, order |-> o, pc |-> pc, state |-> store[o].state,
                  filled |-> store[o].filled, attempt |-> 0, todo |-> <<>>]
  <2>1. CASE call' = Query(o)
    BY <2>1 DEF Query
  <2>2. CASE call' = [Query(o) EXCEPT !.pc = "cancelled"]
    BY <2>2 DEF Query
  <2>3. CASE call' = [Query(o) EXCEPT !.op = "cancel"]
    BY <2>3 DEF Query
  <2> QED
    BY <2>1, <2>2, <2>3 DEF BeginRecover, Cancel
<1>3. CallShape' /\ Fresh' /\ call'.pc # "apply"
  BY <1>1, <1>2 DEF CallShape, Fresh
<1> QED
  BY <1>1, <1>3, MoveSyncs

\* FILLED: the list of executions is taken up.
LEMMA FoundFilledSyncs ==
    ASSUME SyncInv, NEW o \in Orders, FoundFilled(o)
    PROVE  SyncInv' /\ Frozen
<1>1. /\ call.pc = "query" /\ call.op # "submit" /\ UNCHANGED <<store, portfolio>>
      /\ call' = [call EXCEPT !.pc = "fills", !.todo = Reported(o)]
      /\ CallShape
  BY DEF FoundFilled, Querying, SyncInv, Shape, Fresh
<1>2. CallShape' /\ call'.pc = "fills" /\ call'.op = call.op
  BY <1>1 DEF CallShape
<1>3. Fresh'
  BY <1>1, <1>2 DEF Fresh
<1> QED
  BY <1>1, <1>2, <1>3, MoveSyncs

\* PARTIALLY_FILLED: one execution of whatever size, with an id of its own, is
\* stored from the copy of the call, and the portfolio lags by just that.
LEMMA FoundPartialSyncs ==
    ASSUME SyncInv, NEW o \in Orders, FoundPartial(o)
    PROVE  SyncInv' /\ Frozen
<1> DEFINE q == Executed(o)
           s == store[o]
           st == AfterFill("PARTIAL_FILL", call.filled, q, OrderQty[o])
<1>1. /\ call.pc = "query" /\ call.order = o /\ call.op # "submit"
      /\ call.state = s.state /\ call.filled = s.filled
      /\ portfolio[o] = Held(o) /\ 0 \notin s.ids /\ UNCHANGED portfolio
  BY DEF FoundPartial, Querying, SyncInv, Shape, StoreShape, Fresh, Lag
<1>2. CASE ~FillAccepted(call.state, "PARTIAL_FILL", call.filled, q, OrderQty[o])
  <2>1. Return /\ UNCHANGED store
    BY <1>2 DEF FoundPartial
  <2> QED
    BY <1>1, <2>1, ReturnQuiet DEF Frozen
<1>3. CASE FillAccepted(call.state, "PARTIAL_FILL", call.filled, q, OrderQty[o])
  <2>1. /\ store' = [store EXCEPT ![o].state = st, ![o].filled = call.filled + q]
        /\ call' = [call EXCEPT !.pc = "apply", !.todo = <<Synthetic(q)>>]
    BY <1>3 DEF FoundPartial
  <2>2. store' = [store EXCEPT ![o] = [state |-> st, filled |-> s.filled + q, ids |-> s.ids]]
    <3> DEFINE r == [s EXCEPT !.state = st]
               total == s.filled + q
    <3>1. s = [state |-> s.state, filled |-> s.filled, ids |-> s.ids]
          /\ store = [p \in Orders |-> store[p]]
      BY DEF SyncInv, Shape, StoreShape
    <3>2. r = [state |-> st, filled |-> s.filled, ids |-> s.ids]
      BY <3>1
    <3>3. [r EXCEPT !.filled = total] = [state |-> st, filled |-> total, ids |-> s.ids]
      <4> HIDE DEF r, total, st
      <4> QED
        BY <3>2
    <3>4. store' = [[store EXCEPT ![o].state = st] EXCEPT ![o].filled = total]
      BY <1>1, <2>1
    <3>5. [store EXCEPT ![o].state = st] = [store EXCEPT ![o] = r]
      BY <3>1
    <3>6. [[store EXCEPT ![o] = r] EXCEPT ![o].filled = total]
             = [store EXCEPT ![o] = [r EXCEPT !.filled = total]]
      BY <3>1
    <3> QED
      BY <3>3, <3>4, <3>5, <3>6
  <2>3. StoreShape'
    BY <1>1, <2>2, WriteKeepsShape DEF SyncInv, Shape
  <2>4. CallShape' /\ call'.pc = "apply" /\ call'.order = o /\ call'.op = call.op
        /\ call'.todo = <<Synthetic(q)>>
    BY <1>1, <2>1 DEF SyncInv, Shape, CallShape
  <2>5. /\ Held(o)' = [qty |-> s.filled + q, ids |-> s.ids]
        /\ \A p \in Orders \ {o} : Held(p)' = Held(p)
    BY <2>2 DEF SyncInv, Shape, StoreShape, Held
  <2>6. Taken(portfolio[o], Synthetic(q)) = [qty |-> s.filled + q, ids |-> s.ids]
    BY <1>1 DEF Taken, Held, Synthetic
  <2>7. Head(<<Synthetic(q)>>) = Synthetic(q)
    OBVIOUS
  <2>8. Lag'
    BY <1>1, <2>4, <2>5, <2>6, <2>7 DEF SyncInv, Lag
  <2>9. Fresh'
    BY <1>1, <2>4 DEF Fresh
  <2>10. s.state \notin Terminal
    BY <1>1, <1>3, TerminalRefuses DEF FillAccepted
  <2>11. Frozen
    BY <2>2, <2>10 DEF SyncInv, Shape, StoreShape, Frozen
  <2> QED
    BY <1>1, <2>3, <2>4, <2>8, <2>9, <2>11 DEF SyncInv, Shape
<1> QED
  BY <1>2, <1>3

\* A restart rebuilds the portfolio from the store.
LEMMA CrashSyncs ==
    ASSUME SyncInv, Crash
    PROVE  SyncInv' /\ Frozen
<1>1. /\ call' = Idle /\ UNCHANGED store
      /\ portfolio' = [o \in Orders |-> [qty |-> store[o].filled, ids |-> store[o].ids]]
  BY DEF Crash
<1>2. Shape'
  BY <1>1 DEF SyncInv, Shape, StoreShape, CallShape, Idle
<1>3. Lag' /\ Fresh'
  BY <1>1 DEF Lag, Fresh, Held, Idle
<1> QED
  BY <1>1, <1>2, <1>3 DEF SyncInv, Frozen

-----------------------------------------------------------------------------
\* Every step keeps the invariant and leaves the closed orders alone.
LEMMA SyncInductive == SyncInv /\ [Next]_vars => SyncInv' /\ Frozen
<1> SUFFICES ASSUME SyncInv, [Next]_vars PROVE SyncInv' /\ Frozen
  OBVIOUS
<1>1. ASSUME NEW o \in Orders, Step(o) PROVE SyncInv' /\ Frozen
  <2>1. CASE SendRejected(o) \/ CancelStored(o)
    BY <2>1, CloseSyncs DEF SendRejected, Sending, CancelStored
  <2>2. CASE SendLost(o)
    BY <2>2, UncertainSyncs DEF SendLost, Sending, SyncInv, Fresh
  <2>3. CASE QueryFails(o) \/ FoundOpen(o)
    BY <2>3, ReturnQuiet DEF QueryFails, FoundOpen, Querying, Frozen
  <2>4. CASE FoundClosed(o)
    BY <2>4, CloseSyncs DEF FoundClosed, Querying
  <2> QED
    BY <1>1, <2>1, <2>2, <2>3, <2>4, RetrySyncs, AnsweredSyncs, StoreFillSyncs,
       ApplyFillSyncs, FoundFilledSyncs, FoundPartialSyncs DEF Step
<1>2. ASSUME UNCHANGED <<store, portfolio, call>> PROVE SyncInv' /\ Frozen
  BY <1>2 DEF SyncInv, Shape, StoreShape, CallShape, Lag, Held, Fresh, Frozen
<1>3. ASSUME NEW o \in Orders, Begin(o) PROVE SyncInv' /\ Frozen
  BY <1>3, BeginSubmitSyncs, BeginSyncs DEF Begin
<1>4. ASSUME NEW o \in Orders, Trade(o) \/ BrokerCloses(o) PROVE SyncInv' /\ Frozen
  BY <1>2, <1>4 DEF Trade, BrokerCloses
<1> QED
  BY <1>1, <1>2, <1>3, <1>4, CrashSyncs DEF Next, vars

\* Between calls the portfolio holds what the store says was executed, for any
\* number of orders, retries and crashes, whatever the broker answers.
THEOREM AdapterPortfolioFollowsStore == Spec => []PortfolioFollowsStore
<1>1. SyncInv => PortfolioFollowsStore
  <2> SUFFICES ASSUME SyncInv, AtRest, NEW o \in Orders
               PROVE  portfolio[o].qty = store[o].filled
    BY DEF PortfolioFollowsStore
  <2>1. portfolio[o] = Held(o)
    BY DEF SyncInv, Lag, AtRest
  <2> QED
    BY <2>1 DEF Held
<1> QED
  BY <1>1, SyncInit, SyncInductive, PTL DEF Spec

\* Whatever the broker reports, and however late, a closed order keeps its
\* state, its quantity and its executions.
THEOREM AdapterClosedIsFinal == Spec => ClosedIsFinal
<1>1. SyncInv /\ [Next]_vars => [Frozen]_vars
  BY SyncInductive
<1>2. SyncInv /\ [Next]_vars => SyncInv'
  BY SyncInductive
<1> QED
  BY <1>1, <1>2, SyncInit, PTL DEF Spec, ClosedIsFinal, Frozen

-----------------------------------------------------------------------------
(* Whole fills *)

Unplaced == [status |-> "NONE", execs |-> <<>>]
Placed(o) == [status |-> "FILLED", execs |-> <<OrderQty[o]>>]
Whole(o) == [id |-> 1, qty |-> OrderQty[o]]

Nought == [qty |-> 0, ids |-> {}]
Full(o) == [qty |-> OrderQty[o], ids |-> {1}]

\* An order is filled as a whole or not at all, at the broker and in the store;
\* one that is new or rejected was never placed.
ExactAt(o) ==
    /\ broker[o] \in {Unplaced, Placed(o)}
    /\ portfolio[o] \in {Nought, Full(o)}
    /\ IF store[o].state = "FILLED"
       THEN Held(o) = Full(o) /\ broker[o] = Placed(o)
       ELSE Held(o) = Nought
    /\ store[o].state \in
          {"CREATED", "SUBMITTED", "ACKNOWLEDGED", "UNKNOWN", "REJECTED", "FILLED"}
    /\ store[o].state \in {"CREATED", "REJECTED"} => broker[o] = Unplaced

Exact ==
    /\ broker = [o \in Orders |-> broker[o]]
    /\ \A o \in Orders : ExactAt(o)

\* A submission sends an order that was not placed before, and the executions
\* to process are those of a placed order.
Steady ==
    /\ call.pc # "cancelled"
    /\ call.pc = "send" =>
          store[call.order].state = "SUBMITTED" /\ broker[call.order] = Unplaced
    /\ call.pc \in {"fills", "apply"} =>
          call.todo = <<Whole(call.order)>> /\ broker[call.order] = Placed(call.order)
    /\ call.pc = "apply" => store[call.order].state = "FILLED"

\* Every UNKNOWN order of a process that never restarted is listed.
Listed ==
    /\ crashes \in Nat
    /\ crashes = 0 => \A o \in Orders : store[o].state = "UNKNOWN" => o \in unresolved

WholeInv == WholeFills => Exact /\ Steady /\ Listed

\* No execution and one execution, added up.
LEMMA TotalOfFew == Total(<<>>) = 0 /\ \A q \in Nat : Total(<<q>>) = q
<1>1. ASSUME NEW s PROVE Total(s) = Sums!Fold(s, DOMAIN s)
  BY DEF Total, FoldLeft, MapThenFoldSet, Sums!Fold, Sums!MapThenFoldSet, Plus, Largest
<1>2. Total(<<>>) = 0
  <2>1. Sums!Fold(<<>>, {}) = 0
    BY Sums!FoldEmpty
  <2>2. DOMAIN <<>> = {}
    OBVIOUS
  <2> QED
    BY <1>1, <2>1, <2>2
<1>3. ASSUME NEW q \in Nat PROVE Total(<<q>>) = q
  <2>1. \A n \in Nat : Sums!Chooses(1 .. n) /\ (n > 0 => Largest(1 .. n) = n)
    BY Sums!MaxOfInterval DEF Largest, Sums!Chooses, Max, Sums!Max
  <2>2. <<>> \in Seq(Nat) /\ Append(<<>>, q) = <<q>>
    OBVIOUS
  <2>3. Sums!Fold(Append(<<>>, q), DOMAIN Append(<<>>, q))
          = Plus(q, Sums!Fold(<<>>, DOMAIN <<>>))
    BY <2>1, <2>2, Sums!FoldAppend
  <2>4. Total(<<q>>) = Plus(q, 0)
    BY <1>1, <1>2, <2>2, <2>3
  <2> QED
    BY <2>4 DEF Plus
<1> QED
  BY <1>2, <1>3

\* The three parts of the invariant at work, in a behaviour with whole fills.
LEMMA WholeInit == Init => WholeInv
<1> SUFFICES ASSUME Init PROVE Exact /\ Steady /\ Listed
  BY DEF WholeInv
<1>1. Exact
  BY DEF Init, Exact, ExactAt, Unplaced, Nought, Held
<1>2. Steady /\ Listed
  BY DEF Init, Steady, Listed, Idle
<1> QED
  BY <1>1, <1>2

\* A step that leaves the other orders alone, and this one exact, leaves all of
\* them exact.
LEMMA ExactByOrder ==
    ASSUME Exact, broker' = [p \in Orders |-> broker'[p]], NEW o \in Orders, ExactAt(o)',
           \A p \in Orders \ {o} : /\ store'[p] = store[p] /\ broker'[p] = broker[p]
                                   /\ portfolio'[p] = portfolio[p]
    PROVE  Exact'
<1> SUFFICES ASSUME NEW p \in Orders PROVE ExactAt(p)'
  BY DEF Exact, ExactAt
<1>1. CASE p = o
  BY <1>1
<1>2. CASE p # o
  <2>1. ExactAt(p)
    BY DEF Exact, ExactAt
  <2>2. store'[p] = store[p] /\ broker'[p] = broker[p] /\ portfolio'[p] = portfolio[p]
    BY <1>2
  <2> QED
    BY <2>1, <2>2 DEF ExactAt, Held
<1> QED
  BY <1>1, <1>2

\* Changing the state of an order that is not FILLED to another such state, but
\* not to that of an order that was never placed, unless it was not.
LEMMA ExactState ==
    ASSUME SyncInv, Exact, NEW o \in Orders, UNCHANGED portfolio,
           NEW s \in {"SUBMITTED", "ACKNOWLEDGED", "UNKNOWN", "REJECTED"},
           store' = [store EXCEPT ![o].state = s],
           store[o].state # "FILLED",
           broker' = broker \/ broker' = [broker EXCEPT ![o] = Placed(o)],
           s = "REJECTED" => broker'[o] = Unplaced
    PROVE  /\ Exact'
           /\ store'[o].state = s
           /\ \A p \in Orders \ {o} : store'[p] = store[p]
<1> DEFINE hand == [broker EXCEPT ![o] = Placed(o)]
<1>1. /\ store'[o] = [state |-> s, filled |-> store[o].filled, ids |-> store[o].ids]
      /\ \A p \in Orders \ {o} : store'[p] = store[p]
  BY DEF SyncInv, Shape, StoreShape
<1>2. broker = [p \in Orders |-> broker[p]] /\ broker[o] \in {Unplaced, Placed(o)}
  BY DEF Exact, ExactAt
<1>3. /\ hand = [p \in Orders |-> hand[p]] /\ hand[o] = Placed(o)
      /\ \A p \in Orders \ {o} : hand[p] = broker[p]
  BY <1>2
<1> HIDE DEF hand
<1>4. /\ broker' = [p \in Orders |-> broker'[p]]
      /\ broker'[o] \in {Unplaced, Placed(o)}
      /\ \A p \in Orders \ {o} : broker'[p] = broker[p]
  <2>1. CASE broker' = broker
    BY <1>2, <2>1
  <2>2. CASE broker' = hand
    BY <1>3, <2>2
  <2> QED
    BY <2>1, <2>2 DEF hand
<1>5. Held(o)' = Held(o)
  BY <1>1 DEF Held
<1>6. ExactAt(o)
  BY DEF Exact
<1>7. ExactAt(o)'
  BY <1>1, <1>4, <1>5, <1>6 DEF ExactAt
<1>8. Exact'
  BY <1>1, <1>4, <1>7, ExactByOrder
<1> QED
  BY <1>1, <1>8

\* The list stays complete as long as an order that is or becomes UNKNOWN is on
\* it or was not taken from it.
LEMMA ListedKept ==
    ASSUME Listed, crashes' = crashes,
           \A p \in Orders : store'[p].state = "UNKNOWN" =>
                p \in unresolved' \/ (store[p].state = "UNKNOWN" /\ p \notin unresolved)
    PROVE  Listed'
BY DEF Listed

WholeNow == SyncInv /\ WholeFills /\ Exact /\ Steady /\ Listed
WholeNext == Exact' /\ Steady' /\ Listed'

\* A submission begins with an order that was never placed.
LEMMA BeginSubmitWhole ==
    ASSUME WholeNow, NEW o \in Orders, BeginSubmit(o)
    PROVE  WholeNext
<1>1. store[o].state = "CREATED"
  BY DEF WholeNow, WholeFills, BeginSubmit
<1>2. /\ store' = [store EXCEPT ![o].state = "SUBMITTED"]
      /\ call' = [op |-> "submit", order |-> o, pc |-> "send", state |-> "SUBMITTED",
                  filled |-> store[o].filled, attempt |-> 1, todo |-> <<>>]
      /\ UNCHANGED <<portfolio, broker, memory, crashes>>
  BY <1>1 DEF BeginSubmit
<1>3. broker[o] = Unplaced
  BY <1>1 DEF WholeNow, Exact, ExactAt
<1>4. /\ Exact' /\ store'[o].state = "SUBMITTED"
      /\ \A p \in Orders \ {o} : store'[p] = store[p]
  BY <1>1, <1>2, ExactState DEF WholeNow
<1>5. Steady'
  BY <1>2, <1>3, <1>4 DEF Steady
<1>6. Listed'
  BY <1>2, <1>4, ListedKept DEF WholeNow, memory
<1> QED
  BY <1>4, <1>5, <1>6 DEF WholeNext

\* What a submission that is about to send knows of its order.
LEMMA SendingWhole ==
    ASSUME WholeNow, NEW o \in Orders, Sending(o)
    PROVE  /\ store[o].state = "SUBMITTED" /\ broker[o] = Unplaced
           /\ call.op = "submit" /\ call.state = "SUBMITTED"
           /\ call.order = o /\ call.pc = "send" /\ call.filled = store[o].filled
BY DEF WholeNow, Sending, Steady, SyncInv, Fresh

\* The broker fills what it accepts.
LEMMA AcceptsWhole ==
    ASSUME WholeNow, NEW o \in Orders, broker[o] = Unplaced, Accepts(o)
    PROVE  broker' = [broker EXCEPT ![o] = Placed(o)] /\ broker'[o] = Placed(o)
BY DEF WholeNow, WholeFills, Accepts, Unplaced, Placed, Exact

\* The outcome of a submission is uncertain: the order becomes UNKNOWN.
LEMMA SendLostWhole ==
    ASSUME WholeNow, NEW o \in Orders, SendLost(o)
    PROVE  WholeNext
<1>1. /\ store[o].state = "SUBMITTED" /\ broker[o] = Unplaced
      /\ call.state = "SUBMITTED" /\ call.order = o /\ call.pc = "send"
      /\ call.filled = store[o].filled
  BY SendingWhole DEF SendLost
<1>2. "UNCERTAIN" \in Allowed(call.state)
  BY <1>1 DEF Allowed, Events, MarkEvents
<1>3. /\ store' = [store EXCEPT ![o].state = "UNKNOWN"]
      /\ unresolved' = unresolved \cup {o} /\ Return
      /\ UNCHANGED <<portfolio, crashes>>
  BY <1>1, <1>2, SaveCopyOnlyState DEF WholeNow, SendLost, Uncertain
<1>4. broker' = broker \/ broker' = [broker EXCEPT ![o] = Placed(o)]
  BY <1>1, AcceptsWhole DEF SendLost
<1>5. Exact' /\ \A p \in Orders \ {o} : store'[p] = store[p]
  BY <1>1, <1>3, <1>4, ExactState DEF WholeNow
<1>6. Steady'
  BY <1>3 DEF Steady, Return, Idle
<1>7. Listed'
  BY <1>3, <1>5, ListedKept DEF WholeNow
<1> QED
  BY <1>5, <1>6, <1>7 DEF WholeNext

\* A request that was never placed is a rejection.
LEMMA CloseWhole ==
    ASSUME WholeNow, NEW o \in Orders, broker[o] = Unplaced, store' = Closed(o, "REJECT"),
           UNCHANGED <<portfolio, broker, crashes>>, Return,
           \/ unresolved' = unresolved
           \/ unresolved' = unresolved \ {o} /\ "REJECT" \in Allowed(store[o].state)
    PROVE  WholeNext
<1>1. Steady'
  BY DEF Steady, Return, Idle
<1>2. CASE "REJECT" \in Allowed(store[o].state)
  <2>1. store' = [store EXCEPT ![o].state = "REJECTED"]
    BY <1>2 DEF Closed, Target
  <2>2. store[o].state # "FILLED"
    BY <1>2, TerminalRefuses DEF Terminal
  <2>3. /\ Exact' /\ store'[o].state = "REJECTED"
        /\ \A p \in Orders \ {o} : store'[p] = store[p]
    BY <2>1, <2>2, ExactState DEF WholeNow
  <2>4. Listed'
    BY <2>3, ListedKept DEF WholeNow
  <2> QED
    BY <1>1, <2>3, <2>4 DEF WholeNext
<1>3. CASE "REJECT" \notin Allowed(store[o].state)
  <2>1. store' = store /\ unresolved' = unresolved
    BY <1>3 DEF Closed
  <2>2. Exact'
    BY <2>1 DEF WholeNow, Exact, ExactAt, Held
  <2>3. Listed'
    BY <2>1 DEF WholeNow, Listed
  <2> QED
    BY <1>1, <2>2, <2>3 DEF WholeNext
<1> QED
  BY <1>2, <1>3

\* A valid answer: the order is acknowledged and its one execution taken up.
LEMMA SendAnsweredWhole ==
    ASSUME WholeNow, NEW o \in Orders, SendAnswered(o)
    PROVE  WholeNext
<1>1. /\ store[o].state = "SUBMITTED" /\ broker[o] = Unplaced
      /\ call.state = "SUBMITTED" /\ call.order = o /\ call.pc = "send"
      /\ call.filled = store[o].filled
  BY SendingWhole DEF SendAnswered
<1>2. "ACKNOWLEDGE" \in Allowed(call.state)
  BY <1>1 DEF Allowed, Events, MarkEvents
<1>3. broker' = [broker EXCEPT ![o] = Placed(o)] /\ broker'[o] = Placed(o)
  BY <1>1, AcceptsWhole DEF SendAnswered
<1>4. Answered(o) = <<Whole(o)>>
  BY <1>1, <1>3 DEF Answered, Placed, Unplaced, Whole
<1>5. Answered(o) # <<>>
  BY <1>4
<1>6. /\ store' = [store EXCEPT ![o].state = "ACKNOWLEDGED"]
      /\ call' = [call EXCEPT !.pc = "fills", !.state = "ACKNOWLEDGED",
                              !.todo = Answered(o)]
      /\ UNCHANGED <<portfolio, memory, crashes>>
  BY <1>1, <1>2, <1>5, SaveCopyOnlyState DEF WholeNow, SendAnswered
<1>7. /\ Exact' /\ store'[o].state = "ACKNOWLEDGED"
      /\ \A p \in Orders \ {o} : store'[p] = store[p]
  BY <1>1, <1>3, <1>6, ExactState DEF WholeNow
<1>8. Steady'
  <2>1. call'.pc = "fills" /\ call'.todo = Answered(o) /\ call'.order = o
    BY <1>1, <1>6 DEF WholeNow, SyncInv, Shape, CallShape
  <2> QED
    BY <1>3, <1>4, <2>1 DEF Steady, Whole, Placed
<1>9. Listed'
  BY <1>6, <1>7, ListedKept DEF WholeNow, memory
<1> QED
  BY <1>7, <1>8, <1>9 DEF WholeNext

\* A store and a portfolio that are left alone stay exact.
LEMMA QuietWhole ==
    ASSUME WholeNow, UNCHANGED <<store, portfolio, broker, crashes>>, Steady',
           unresolved' = unresolved
    PROVE  WholeNext
<1>1. Exact'
  BY DEF WholeNow, Exact, ExactAt, Held
<1>2. Listed'
  BY DEF WholeNow, Listed
<1> QED
  BY <1>1, <1>2 DEF WholeNext

\* The execution of a placed order is stored; it is never refused.
LEMMA StoreFillWhole ==
    ASSUME WholeNow, NEW o \in Orders, StoreFill(o)
    PROVE  WholeNext
<1> DEFINE x == Head(call.todo)
           q == OrderQty[o]
           s == store[o]
<1>1. /\ call.pc = "fills" /\ call.order = o
      /\ call.todo = <<Whole(o)>> /\ broker[o] = Placed(o)
  BY DEF StoreFill, WholeNow, Steady
<1>2. x = Whole(o) /\ x.id = 1 /\ x.qty = q
  BY <1>1 DEF Whole
<1>3. q \in Nat /\ q > 0
  BY AdapterAssumption
<1>4. ExactAt(o) /\ s.state \notin {"CREATED", "REJECTED"}
  BY <1>1 DEF WholeNow, Exact, ExactAt, Unplaced, Placed
<1>5. s = [state |-> s.state, filled |-> s.filled, ids |-> s.ids]
  BY DEF WholeNow, SyncInv, Shape, StoreShape
<1>6. /\ ~ExecuteRaises(o, x)
      /\ ExecutedOrder(o, x) = [state |-> "FILLED", filled |-> q, ids |-> {1}]
  <2>1. CASE s.state = "FILLED"
    <3>1. s.filled = q /\ s.ids = {1}
      BY <1>4, <2>1 DEF ExactAt, Held, Full
    <3>2. ~ExecuteRaises(o, x) /\ ExecutedOrder(o, x) = [s EXCEPT !.state = Stepped(s.state)]
      BY <1>2, <3>1 DEF ExecuteRaises, ExecutedOrder
    <3>3. Stepped(s.state) = "FILLED"
      BY <2>1 DEF Stepped
    <3> QED
      BY <1>5, <3>1, <3>2, <3>3
  <2>2. CASE s.state # "FILLED"
    <3>1. s.filled = 0 /\ s.ids = {}
      BY <1>4, <2>2 DEF ExactAt, Held, Nought
    <3>2. FillEvent(o, x.qty) = "FILL"
      BY <1>2, <1>3, <3>1 DEF FillEvent
    <3>3. Stepped(s.state) \in {"ACKNOWLEDGED", "UNKNOWN"}
      BY <1>4, <2>2 DEF ExactAt, Stepped
    <3>4. "FILL" \in Allowed(Stepped(s.state))
      BY <3>3 DEF Allowed, Events, FillEvents
    <3>5. AfterFill("FILL", s.filled, x.qty, q) = "FILLED"
      BY <1>2, <1>3, <3>1 DEF AfterFill
    <3>6. ~ExecuteRaises(o, x)
      BY <1>2, <1>3, <3>1, <3>2, <3>4, <3>5
         DEF ExecuteRaises, FillAccepted, Fits, WellFormed
    <3>7. x.id \notin s.ids /\ s.filled + x.qty = q /\ s.ids \cup ({x.id} \ {0}) = {1}
      BY <1>2, <1>3, <3>1
    <3>8. ExecutedOrder(o, x) =
             [state |-> AfterFill(FillEvent(o, x.qty), s.filled, x.qty, OrderQty[o]),
              filled |-> s.filled + x.qty, ids |-> s.ids \cup ({x.id} \ {0})]
      BY <3>6, <3>7 DEF ExecutedOrder
    <3> QED
      BY <3>2, <3>5, <3>6, <3>7, <3>8
  <2> QED
    BY <2>1, <2>2
<1>7. /\ store' = [store EXCEPT ![o] = ExecutedOrder(o, x)]
      /\ call' = [call EXCEPT !.pc = "apply"]
      /\ UNCHANGED <<portfolio, broker, memory, crashes>>
  BY <1>6 DEF StoreFill
<1>8. /\ store'[o] = [state |-> "FILLED", filled |-> q, ids |-> {1}]
      /\ \A p \in Orders \ {o} : store'[p] = store[p]
  BY <1>6, <1>7 DEF WholeNow, SyncInv, Shape, StoreShape
<1>9. Exact'
  <2>1. Held(o)' = Full(o)
    BY <1>8 DEF Held, Full
  <2>2. ExactAt(o)'
    BY <1>1, <1>4, <1>7, <1>8, <2>1 DEF ExactAt
  <2>3. broker' = [p \in Orders |-> broker'[p]]
    BY <1>7 DEF WholeNow, Exact
  <2> QED
    BY <1>7, <1>8, <2>2, <2>3, ExactByOrder DEF WholeNow
<1>10. Steady'
  <2>1. call'.pc = "apply" /\ call'.todo = call.todo /\ call'.order = o
    BY <1>1, <1>7 DEF WholeNow, SyncInv, Shape, CallShape
  <2> QED
    BY <1>1, <1>7, <1>8, <2>1 DEF Steady, Whole, Placed
<1>11. Listed'
  BY <1>7, <1>8, ListedKept DEF WholeNow, memory
<1> QED
  BY <1>9, <1>10, <1>11 DEF WholeNext

\* The portfolio takes it, and a recovered order leaves the list.
LEMMA ApplyFillWhole ==
    ASSUME WholeNow, NEW o \in Orders, ApplyFill(o)
    PROVE  WholeNext
<1> DEFINE x == Head(call.todo)
<1>1. /\ call.pc = "apply" /\ call.order = o
      /\ call.todo = <<Whole(o)>> /\ store[o].state = "FILLED"
      /\ Taken(portfolio[o], x) = Held(o)
  BY DEF ApplyFill, WholeNow, Steady, SyncInv, Lag
<1>2. ~(Len(call.todo) > 1)
  <2>1. Len(<<Whole(o)>>) = 1
    OBVIOUS
  <2> QED
    BY <1>1, <2>1
<1>3. /\ portfolio' = [portfolio EXCEPT ![o] = Held(o)]
      /\ call' = Idle /\ UNCHANGED <<store, broker, crashes>>
      /\ unresolved' = unresolved \/ unresolved' = unresolved \ {o}
  BY <1>1, <1>2 DEF ApplyFill, Return, Resolved
<1>4. Exact'
  <2>1. portfolio'[o] = Held(o) /\ \A p \in Orders \ {o} : portfolio'[p] = portfolio[p]
    BY <1>3 DEF WholeNow, SyncInv, Shape
  <2>2. Held(o) = Full(o) /\ Held(o)' = Held(o)
    BY <1>1, <1>3 DEF WholeNow, Exact, ExactAt, Held
  <2>3. ExactAt(o)'
    BY <1>3, <2>1, <2>2 DEF WholeNow, Exact, ExactAt
  <2>4. broker' = [p \in Orders |-> broker'[p]]
    BY <1>3 DEF WholeNow, Exact
  <2> QED
    BY <1>3, <2>1, <2>3, <2>4, ExactByOrder DEF WholeNow
<1>5. Steady'
  BY <1>3 DEF Steady, Idle
<1>6. Listed'
  BY <1>1, <1>3, ListedKept DEF WholeNow
<1> QED
  BY <1>4, <1>5, <1>6 DEF WholeNext

\* Recoveries and cancels begin with a query or with nothing to cancel at all.
LEMMA BeginWhole ==
    ASSUME WholeNow, NEW o \in Orders, BeginRecover(o) \/ Cancel(o)
    PROVE  WholeNext
<1>1. broker[o] \in {Unplaced, Placed(o)} /\ broker = [p \in Orders |-> broker[p]]
  BY DEF WholeNow, Exact, ExactAt
<1>2. CASE BeginRecover(o)
  <2>1. Steady'
    BY <1>2 DEF BeginRecover, Query, Steady
  <2> QED
    BY <1>2, <2>1, QuietWhole DEF BeginRecover
<1>3. CASE Cancel(o)
  <2>1. broker[o].status \in {"NONE", "FILLED"}
    BY <1>1 DEF Unplaced, Placed
  <2>2. CancelRaced(o) /\ broker[o].status # "NONE" => broker' = broker
    <3>1. broker[o].status # "NONE" => broker[o] = Placed(o)
      BY <1>1 DEF Unplaced
    <3>2. <<OrderQty[o]>> # <<>>
      OBVIOUS
    <3>3. broker[o] = Placed(o) /\ CancelRaced(o)
            => broker' = [broker EXCEPT ![o] = Placed(o)]
      BY <1>1, <3>2 DEF CancelRaced, Placed
    <3> QED
      BY <1>1, <3>1, <3>3
  <2>3. /\ broker' = broker /\ UNCHANGED <<store, portfolio, memory, crashes>>
        /\ call' = [Query(o) EXCEPT !.op = "cancel"] \/ call' = Query(o)
    BY <1>3, <2>1, <2>2 DEF Cancel
  <2>4. Steady'
    BY <2>3 DEF Query, Steady
  <2> QED
    BY <2>3, <2>4, QuietWhole DEF memory
<1> QED
  BY <1>2, <1>3

\* The broker's answers to a query.
LEMMA FoundWhole ==
    ASSUME WholeNow, NEW o \in Orders,
           \/ QueryFails(o) \/ FoundFilled(o) \/ FoundPartial(o) \/ FoundClosed(o)
           \/ FoundOpen(o)
    PROVE  WholeNext
<1>1. /\ call.pc = "query" /\ call.order = o
      /\ broker[o] \in {Unplaced, Placed(o)}
      /\ broker[o].status \in {"NONE", "FILLED"}
  BY DEF QueryFails, FoundFilled, FoundPartial, FoundClosed, FoundOpen, Querying,
         WholeNow, Exact, ExactAt, Unplaced, Placed
<1>2. CASE QueryFails(o)
  <2>1. Steady'
    BY <1>2 DEF QueryFails, Return, Idle, Steady
  <2> QED
    BY <1>2, <2>1, QuietWhole DEF QueryFails
<1>3. CASE FoundFilled(o)
  <2>1. broker[o] = Placed(o)
    BY <1>1, <1>3 DEF FoundFilled, Unplaced
  <2>2. Reported(o) = <<Whole(o)>>
    BY <2>1 DEF Reported, Placed, Whole
  <2>3. /\ call' = [call EXCEPT !.pc = "fills", !.todo = Reported(o)]
        /\ UNCHANGED <<store, portfolio, broker, memory, crashes>>
    BY <1>3 DEF FoundFilled
  <2>4. call'.pc = "fills" /\ call'.todo = Reported(o) /\ call'.order = o
    BY <1>1, <2>3 DEF WholeNow, SyncInv, Shape, CallShape
  <2>5. Steady'
    BY <2>1, <2>2, <2>3, <2>4 DEF Steady, Whole, Placed
  <2> QED
    BY <2>3, <2>5, QuietWhole DEF memory
<1>4. CASE FoundClosed(o)
  <2>1. broker[o] = Unplaced
    BY <1>1, <1>4 DEF FoundClosed, Placed
  <2>2. broker[o].status # "CANCELLED"
    BY <1>1
  <2> QED
    BY <1>4, <2>1, <2>2, CloseWhole DEF FoundClosed, Resolved
<1> QED
  BY <1>1, <1>2, <1>3, <1>4 DEF FoundPartial, FoundOpen

\* A restart forgets the list, and that is counted.
LEMMA CrashWhole ==
    ASSUME WholeNow, Crash
    PROVE  WholeNext
<1>1. /\ crashes' = crashes + 1 /\ call' = Idle /\ UNCHANGED <<store, broker>>
      /\ portfolio' = [o \in Orders |-> Held(o)]
  BY DEF Crash, Held
<1>2. Exact'
  BY <1>1 DEF WholeNow, Exact, ExactAt, Held
<1>3. Steady' /\ Listed'
  BY <1>1 DEF WholeNow, Steady, Listed, Idle
<1> QED
  BY <1>2, <1>3 DEF WholeNext

-----------------------------------------------------------------------------
\* Every step of a behaviour keeps the invariant.
LEMMA WholeInductive == SyncInv /\ WholeInv /\ [Next]_vars => WholeInv'
<1> SUFFICES ASSUME SyncInv, WholeInv, [Next]_vars, WholeFills' PROVE WholeNext
  BY DEF WholeInv, WholeNext
<1>1. WholeNow
  BY DEF WholeInv, WholeNow, WholeFills, Next, vars
<1>2. ASSUME NEW o \in Orders, Step(o) PROVE WholeNext
  <2>1. CASE RetrySend(o)
    <3>1. Steady'
      BY <1>1, <2>1 DEF RetrySend, Sending, WholeNow, Steady, SyncInv, Shape, CallShape
    <3> QED
      BY <1>1, <2>1, <3>1, QuietWhole DEF RetrySend, memory
  <2>2. CASE SendRejected(o)
    <3>1. broker[o] = Unplaced
      BY <1>1, <2>2, SendingWhole DEF SendRejected
    <3> QED
      BY <1>1, <2>2, <3>1, CloseWhole DEF SendRejected, memory
  <2>3. ~CancelStored(o)
    BY <1>1 DEF CancelStored, WholeNow, Steady
  <2> QED
    BY <1>1, <1>2, <2>1, <2>2, <2>3, SendLostWhole, SendAnsweredWhole, StoreFillWhole,
       ApplyFillWhole, FoundWhole DEF Step
<1>3. ASSUME NEW o \in Orders, Trade(o) \/ BrokerCloses(o) PROVE WholeNext
  BY <1>1, <1>3 DEF Trade, BrokerCloses, WholeNow, Exact, ExactAt, Unplaced, Placed
<1>4. ASSUME UNCHANGED vars PROVE WholeNext
  <2>1. Steady'
    BY <1>1, <1>4 DEF vars, WholeNow, Steady
  <2> QED
    BY <1>1, <1>4, <2>1, QuietWhole DEF vars, memory
<1> QED
  BY <1>1, <1>2, <1>3, <1>4, BeginSubmitWhole, BeginWhole, CrashWhole DEF Next, Begin

\* With whole fills and callers that submit an order once, the portfolio holds
\* nothing the broker did not execute, a rejected order was never placed, and
\* an UNKNOWN one has no effect and, until the first restart, is listed: for
\* any number of orders, retries and crashes, whichever answers are lost.
THEOREM AdapterWholeFills == Spec => []WholeFillsInv
<1>1. SyncInv /\ WholeInv => WholeFillsInv
  <2> SUFFICES ASSUME WholeNow
               PROVE  ExposureIsReal /\ RejectedIsUnplaced /\ UnknownHasNoEffect
                        /\ UnknownIsListed
    BY DEF WholeNow, WholeInv, WholeFillsInv
  <2>1. ASSUME NEW o \in Orders
        PROVE  /\ portfolio[o].qty <= Executed(o)
               /\ store[o].state = "REJECTED" => Executed(o) = 0
               /\ store[o].state = "UNKNOWN" => portfolio[o].qty = 0
    <3>1. ExactAt(o) /\ OrderQty[o] \in Nat
      BY AdapterAssumption DEF WholeNow, Exact
    <3>2. CASE store[o].state = "FILLED"
      <4>1. Executed(o) = OrderQty[o]
        BY <3>1, <3>2, TotalOfFew DEF ExactAt, Executed, Placed
      <4>2. portfolio[o].qty \in {0, OrderQty[o]}
        BY <3>1 DEF ExactAt, Nought, Full
      <4> QED
        BY <3>1, <3>2, <4>1, <4>2
    <3>3. CASE store[o].state # "FILLED"
      <4>1. portfolio[o] = Held(o) /\ Held(o) = Nought
        BY <3>1, <3>3 DEF ExactAt, WholeNow, SyncInv, Lag, Steady
      <4>2. Executed(o) \in {0, OrderQty[o]}
        BY <3>1, TotalOfFew DEF ExactAt, Executed, Placed, Unplaced
      <4>3. store[o].state = "REJECTED" => Executed(o) = 0
        BY <3>1, TotalOfFew DEF ExactAt, Executed, Unplaced
      <4> QED
        BY <3>1, <4>1, <4>2, <4>3 DEF Nought
    <3> QED
      BY <3>2, <3>3
  <2>2. UnknownIsListed
    BY DEF WholeNow, Listed, UnknownIsListed
  <2> QED
    BY <2>1, <2>2 DEF ExposureIsReal, RejectedIsUnplaced, UnknownHasNoEffect
<1>2. SyncInv /\ [Next]_vars => SyncInv'
  BY SyncInductive
<1> QED
  BY <1>1, <1>2, SyncInit, WholeInit, WholeInductive, PTL DEF Spec

\* And until the first restart no recovery lifts a halt while an order is
\* UNKNOWN: the halt ends with an empty list, and the list was complete.
THEOREM AdapterHaltLasts == Spec => WholeFillsHaltLasts
<1>1. SyncInv /\ WholeInv /\ [Next]_vars => [WholeFills => LiftsHaltCleanly]_vars
  <2> SUFFICES ASSUME SyncInv, WholeInv, Next, WholeFills, halted, ~halted', crashes' = 0,
                      NEW o \in Orders
               PROVE  store'[o].state # "UNKNOWN"
    BY DEF LiftsHaltCleanly
  <2>1. WholeInv'
    BY WholeInductive
  <2>2. Listed'
    BY <2>1 DEF WholeInv, WholeFills, Next
  <2>3. crashes \in Nat
    BY DEF WholeInv, Listed
  <2>4. unresolved' = {}
    <3>1. ~Crash
      BY <2>3 DEF Crash
    <3> QED
      BY <3>1 DEF Next, Step, Begin, Trade, BrokerCloses, BeginSubmit, BeginRecover, Cancel,
             RetrySend, SendRejected, SendLost, SendAnswered, StoreFill, ApplyFill, QueryFails,
             FoundFilled, FoundPartial, FoundClosed, FoundOpen, CancelStored, Uncertain,
             Resolved, memory
  <2> QED
    BY <2>2, <2>4 DEF Listed
<1>2. SyncInv /\ [Next]_vars => SyncInv'
  BY SyncInductive
<1> QED
  BY <1>1, <1>2, SyncInit, WholeInit, WholeInductive, PTL DEF Spec, WholeFillsHaltLasts
=============================================================================
