---------------------------- MODULE ControlProofs ----------------------------
(***************************************************************************)
(* Proofs about what watches and steers the platform: Reconciler, and the  *)
(* coordinator, the dashboard and the shared memory of MCDashboard.        *)
(*                                                                         *)
(* Reconciler, for any orders, executions, quantities, costs, fees, modes  *)
(* and crashes.  That an order is filled by exactly its stored executions  *)
(* is not inductive: recovery overwrites the filled quantity with what the *)
(* exchange executed, and a repair creates the order it needs.  Books says *)
(* why both are right: an order that is recovered has no execution stored  *)
(* yet and room for all of them, and an order that is created by a repair  *)
(* is one the program did not submit.  The comparison reads the exchange   *)
(* four times; Seen says that a later answer knows all that an earlier one *)
(* does.                                                                   *)
(*                                                                         *)
(* The coordinator, for any registrations, topics, queries, clients and    *)
(* loops.  An order of agents is closed if each comes after the registered *)
(* ones it depends on: every round of the resolution keeps what has been   *)
(* ordered so far closed, and each of the nine moves after it keeps one    *)
(* set of agents more in order, in which an agent depends only on members. *)
(* A lane that goes through a closed order then has run, at each agent,    *)
(* all that this one needs (QueryInv).                                     *)
(***************************************************************************)
EXTENDS Reconciler, MCDashboard, FiniteSetTheorems, SequenceTheorems, WellFoundedInduction,
        TLAPS

Plus(x, y) == x + y
AnyOf(S) == CHOOSE x \in S : TRUE
Sums == INSTANCE FoldLemmas WITH Op <- Plus, Initial <- 0, Choose <- AnyOf

\* Nothing is stored for an order before it is acknowledged, or while its fate
\* is unknown.
Unfilled == {"NONE", "CREATED", "SUBMITTED", "UNKNOWN"}

BookOf(o) ==
    /\ store[o].filled = Quantity(ledger \cap ExecsOf(o)) + Quantity(made[o])
    /\ store[o].filled <= store[o].qty
    /\ store[o].state \in Unfilled => ledger \cap ExecsOf(o) = {} /\ made[o] = {}
    /\ store[o].state = "UNKNOWN" => o \notin Outside
    /\ o \notin Outside /\ store[o].state # "NONE" => store[o].qty = OrderQty(o)
    /\ o \notin Outside /\ exchange.status[o] # "NONE" => store[o].state # "NONE"
Books == \A o \in Orders : BookOf(o)

\* The exchange executes only what has reached its book.
Booked == \A e \in exchange.execs : exchange.status[OrderOf[e]] # "NONE"

\* What the call in progress works on: a repair has an execution of the
\* exchange, in the end a stored one, and a startup the orders of unknown fate.
InHand ==
    /\ call.op = "repair" /\ call.pc \in {"find", "step", "execute", "apply"} =>
          call.todo \subseteq exchange.execs
    /\ call.op = "repair" /\ call.pc = "apply" => call.todo \subseteq ledger
    /\ call.pc = "recover" =>
          /\ call.op = "startup"
          /\ call.todo \subseteq {o \in Orders : store[o].state = "UNKNOWN"}

\* A verdict that halts has halted, the one that a call concludes included.
Halted == last \in {"CRITICAL_DRIFT", "DATA_UNAVAILABLE"} => halt.on

Seen ==
    /\ \A i \in DOMAIN call.seen : call.seen[i].execs \subseteq exchange.execs
    /\ \A i, j \in DOMAIN call.seen : i <= j => call.seen[i].execs \subseteq call.seen[j].execs

IInv == TypeOK /\ AppliedIsExecuted /\ Books /\ Booked /\ InHand /\ Halted /\ HaltMatchesVerdict /\ Seen

USE DEF Working, Terminal, States, FillEvents, MarkEvents, Events

-----------------------------------------------------------------------------
(* Quantities *)

LEMMA SumOfExecs ==
    ASSUME NEW f \in [Execs -> Nat], NEW S \in SUBSET Execs
    PROVE  /\ IsFiniteSet(S) /\ Sums!IsSum /\ Sums!IsFiniteSet(S) /\ Sums!Chooses(S)
           /\ Sums!Values(f, S, Int) /\ Sums!Values(f, S, Nat)
           /\ SumFunctionOnSet(f, S) = Sums!Fold(f, S)
<1>1. IsFiniteSet(S)
  BY ReconcilerAssumption, FS_Subset
<1>2. Sums!IsFiniteSet(S)
  BY <1>1 DEF IsFiniteSet, Sums!IsFiniteSet
<1>3. SumFunctionOnSet(f, S) = Sums!Fold(f, S)
  BY DEF SumFunctionOnSet, FoldFunctionOnSet, MapThenFoldSet, Sums!Fold,
         Sums!MapThenFoldSet, Plus, AnyOf
<1> QED
  BY <1>1, <1>2, <1>3 DEF Sums!IsSum, Sums!Chooses, Sums!Values, Plus, AnyOf

\* A quantity is a natural number, nothing has none, and more has no less.
LEMMA QuantityOf ==
    ASSUME NEW T \in SUBSET Execs, NEW S \in SUBSET T
    PROVE  /\ Quantity(S) \in Nat /\ Quantity({}) = 0
           /\ Quantity(S) <= Quantity(T)
<1>1. QtyOf \in [Execs -> Nat]
  BY ReconcilerAssumption
<1>2. Sums!Fold(QtyOf, S) \in Nat /\ Sums!Fold(QtyOf, S) <= Sums!Fold(QtyOf, T)
  BY <1>1, SumOfExecs, Sums!SumMonotone
<1>3. Sums!Fold(QtyOf, {}) = 0
  BY Sums!FoldEmpty
<1>4. S \in SUBSET Execs /\ {} \in SUBSET Execs
  OBVIOUS
<1> QED
  BY <1>1, <1>2, <1>3, <1>4, SumOfExecs DEF Quantity

\* One more execution.
LEMMA QuantityGrows ==
    ASSUME NEW S \in SUBSET Execs, NEW e \in Execs, e \notin S
    PROVE  Quantity(S \cup {e}) = Quantity(S) + QtyOf[e]
<1> DEFINE T == S \cup {e}
<1>1. QtyOf \in [Execs -> Nat] /\ QtyOf[e] \in Nat
  BY ReconcilerAssumption
<1>2. T \in SUBSET Execs /\ e \in T /\ T \ {e} = S
  OBVIOUS
<1> HIDE DEF T
<1>3. Sums!Fold(QtyOf, T) = QtyOf[e] + Sums!Fold(QtyOf, T \ {e})
  BY <1>1, <1>2, SumOfExecs, Sums!SumSplit
<1>4. Quantity(T) = QtyOf[e] + Quantity(S)
  BY <1>1, <1>2, <1>3, SumOfExecs DEF Quantity
<1>5. Quantity(S) \in Nat
  BY QuantityOf
<1> QED
  BY <1>1, <1>4, <1>5 DEF T

\* Executions that come to the same quantity as more of them are the same.
LEMMA QuantityTells ==
    ASSUME NEW T \in SUBSET Execs, NEW S \in SUBSET T, Quantity(S) = Quantity(T)
    PROVE  S = T
<1> SUFFICES ASSUME NEW e \in T, e \notin S PROVE FALSE
  OBVIOUS
<1> DEFINE R == T \ {e}
<1>1. R \in SUBSET Execs /\ S \in SUBSET R /\ e \in Execs /\ e \notin R /\ R \cup {e} = T
  OBVIOUS
<1> HIDE DEF R
<1>2. Quantity(T) = Quantity(R) + QtyOf[e] /\ Quantity(S) <= Quantity(R)
  BY <1>1, QuantityGrows, QuantityOf
<1>3. QtyOf[e] \in Nat /\ QtyOf[e] > 0
  BY <1>1, ReconcilerAssumption
<1>4. Quantity(R) \in Nat /\ Quantity(S) \in Nat
  BY <1>1, QuantityOf
<1> QED
  BY <1>2, <1>3, <1>4

\* Orders that stand for no made-up execution hold none.
LEMMA NothingMade ==
    ASSUME NEW f, NEW S \in SUBSET Orders, \A o \in S : f[o] = 0
    PROVE  SumFunctionOnSet(f, S) = 0
<1>1. IsFiniteSet(S)
  BY ReconcilerAssumption, FS_Subset
<1>2. Sums!IsFiniteSet(S) /\ Sums!IsSum /\ Sums!Chooses(S) /\ Sums!Values(f, S, {0})
  BY <1>1 DEF IsFiniteSet, Sums!IsFiniteSet, Sums!IsSum, Sums!Chooses, Sums!Values, Plus, AnyOf
<1>3. Sums!Fold(f, S) = 0
  BY <1>2, Sums!SumOfZeros
<1>4. SumFunctionOnSet(f, S) = Sums!Fold(f, S)
  BY DEF SumFunctionOnSet, FoldFunctionOnSet, MapThenFoldSet, Sums!Fold,
         Sums!MapThenFoldSet, Plus, AnyOf
<1> QED
  BY <1>3, <1>4

-----------------------------------------------------------------------------
(* The invariant at the start, and what keeps the books in order *)

StoreType == [Orders -> [state : States \cup {"NONE"}, qty : Nat, filled : Nat]]

LEMMA InvInit == Init => IInv
<1> SUFFICES ASSUME Init PROVE IInv
  OBVIOUS
<1>1. TypeOK
  <2>1. exchange \in Records /\ store \in StoreType
    BY DEF Init, Records, StoreType
  <2>2. call = Idle /\ halt = NotHalted
    BY DEF Init
  <2>3. /\ call \in [op : {"none", "reconcile", "repair", "startup"},
                     pc : {"idle", "find", "step", "execute", "apply", "recover", "query", "conclude"},
                     mode : {"FULL", "SYMBOL", "ACCOUNT", "ORDER"}, of : SUBSET Symbols,
                     seen : Seq(Records), stale : BOOLEAN,
                     todo : SUBSET (Orders \cup Execs), feeless : BOOLEAN]
        /\ Len(call.seen) <= 4
    BY <2>2 DEF Idle
  <2> QED
    BY <2>1, <2>2, <2>3, ReconcilerAssumption
       DEF Init, TypeOK, StoreType, NotHalted, Statuses
<1>2. Books
  <2> SUFFICES ASSUME NEW o \in Orders PROVE BookOf(o)
    BY DEF Books
  <2>1. store[o].state = "NONE" /\ store[o].qty = 0 /\ store[o].filled = 0
    BY DEF Init
  <2>2. ledger \cap ExecsOf(o) = {} /\ made[o] = {} /\ exchange.status[o] = "NONE"
    BY DEF Init
  <2>3. Quantity({}) = 0
    BY QuantityOf
  <2> QED
    BY <2>1, <2>2, <2>3 DEF BookOf, Unfilled
<1>3. Seen
  BY DEF Init, Idle, Seen
<1> QED
  BY <1>1, <1>2, <1>3
     DEF Init, IInv, AppliedIsExecuted, Booked, InHand, Halted, HaltMatchesVerdict, Idle, NotHalted

\* A step that concerns one order leaves the books of the others alone.
LEMMA OneOrder ==
    ASSUME Books, NEW o \in Orders, BookOf(o)',
           \A p \in Orders \ {o} : /\ store'[p] = store[p] /\ made'[p] = made[p]
                                   /\ ledger' \cap ExecsOf(p) = ledger \cap ExecsOf(p)
                                   /\ exchange'.status[p] = exchange.status[p]
    PROVE  Books'
<1> SUFFICES ASSUME NEW p \in Orders, p # o PROVE BookOf(p)'
  BY DEF Books
<1> QED
  BY DEF Books, BookOf

\* A state that is set without an execution.
LEMMA SetStateKeeps ==
    ASSUME IInv, NEW o \in Orders, NEW s \in States, SetState(o, s),
           UNCHANGED <<exchange, ledger, made>>, store[o].state # "NONE",
           s \in Unfilled => store[o].state \in Unfilled,
           s = "UNKNOWN" => o \notin Outside
    PROVE  Books' /\ store' \in StoreType
<1>1. /\ store' = [store EXCEPT ![o] = [store[o] EXCEPT !.state = s]]
      /\ store \in StoreType
  BY DEF SetState, IInv, TypeOK, StoreType
<1>2. /\ store'[o].state = s /\ store'[o].qty = store[o].qty
      /\ store'[o].filled = store[o].filled
      /\ \A p \in Orders \ {o} : store'[p] = store[p]
      /\ store' \in StoreType
  BY <1>1 DEF StoreType
<1>3. s # "NONE"
  OBVIOUS
<1>4. BookOf(o)'
  BY <1>2, <1>3 DEF IInv, Books, BookOf
<1> QED
  BY <1>2, <1>4, OneOrder DEF IInv

\* An execution that is stored for the first time: the fill fits.
LEMMA ExecuteKeeps ==
    ASSUME IInv, NEW e \in Execs, e \notin ledger, Fillable(e), store' = Filled(e),
           ledger' = ledger \cup {e}, UNCHANGED <<exchange, made>>
    PROVE  Books' /\ store' \in StoreType
<1> DEFINE o == OrderOf[e]
           s == store[o]
           q == QtyOf[e]
           ev == IF s.filled + q >= s.qty THEN "FILL" ELSE "PARTIAL_FILL"
           st == AfterFill(ev, s.filled, q, s.qty)
<1>1. o \in Orders /\ q \in Nat /\ q > 0
  BY ReconcilerAssumption
<1>2. s.state \in States \cup {"NONE"} /\ s.qty \in Nat /\ s.filled \in Nat /\ store \in StoreType
  BY <1>1 DEF IInv, TypeOK, StoreType
<1>3. s.state # "NONE" /\ s.filled + q <= s.qty
  BY DEF Fillable, FillAccepted, Fits
<1>4. st \in {"FILLED", "PARTIALLY_FILLED"}
  BY DEF AfterFill, Target
<1>5. store' = [store EXCEPT ![o] = [state |-> st, qty |-> s.qty, filled |-> s.filled + q]]
  BY DEF Filled
<1> HIDE DEF o, q, ev, st
<1>6. /\ store'[o] = [state |-> st, qty |-> s.qty, filled |-> s.filled + q]
      /\ \A p \in Orders \ {o} : store'[p] = store[p]
  BY <1>1, <1>2, <1>5 DEF StoreType
<1>7. store' \in StoreType
  BY <1>1, <1>2, <1>4, <1>5 DEF StoreType
<1>8. /\ ledger' \cap ExecsOf(o) = (ledger \cap ExecsOf(o)) \cup {e}
      /\ \A p \in Orders \ {o} : ledger' \cap ExecsOf(p) = ledger \cap ExecsOf(p)
  BY DEF ExecsOf, o
<1>9. Quantity(ledger' \cap ExecsOf(o)) = Quantity(ledger \cap ExecsOf(o)) + q
  BY <1>8, QuantityGrows DEF ExecsOf, q
<1>10. /\ Quantity(ledger \cap ExecsOf(o)) \in Nat /\ Quantity(made[o]) \in Nat
  <2>1. ledger \cap ExecsOf(o) \in SUBSET Execs /\ made[o] \in SUBSET Execs
    BY <1>1 DEF IInv, TypeOK, ExecsOf
  <2> QED
    BY <2>1, QuantityOf
<1>11. BookOf(o)
  BY <1>1 DEF IInv, Books
<1>12. BookOf(o)'
  BY <1>1, <1>2, <1>3, <1>4, <1>6, <1>9, <1>10, <1>11 DEF BookOf, Unfilled
<1> QED
  BY <1>1, <1>6, <1>7, <1>8, <1>12, OneOrder DEF IInv

-----------------------------------------------------------------------------
(* The exchange and the adapter *)

\* Between the steps of a call: the exchange only learns of more executions,
\* and nobody else touches an order during a startup.
LEMMA BetweenSteps ==
    ASSUME IInv, UNCHANGED <<verdict, call, crashes>>, exchange' \in Records,
           exchange.execs \subseteq exchange'.execs, Booked', store' = store \/ Adapting,
           store' \in StoreType, Books', ledger \subseteq ledger', ledger' \subseteq exchange'.execs,
           feeless' \subseteq ledger', made' \in [Orders -> SUBSET Execs],
           applied' \subseteq ledger'
    PROVE  IInv'
<1>1. TypeOK'
  BY DEF IInv, TypeOK, StoreType, verdict, Records
<1>2. AppliedIsExecuted'
  BY DEF AppliedIsExecuted
<1>3. InHand'
  BY DEF IInv, InHand, Adapting
<1>4. Halted' /\ HaltMatchesVerdict'
  BY DEF IInv, Halted, HaltMatchesVerdict, verdict
<1>5. Seen'
  BY DEF IInv, Seen
<1> QED
  BY <1>1, <1>2, <1>3, <1>4, <1>5 DEF IInv

\* What an unchanged store and ledger keep of themselves.
LEMMA SameBooks ==
    ASSUME IInv, UNCHANGED <<store, ledger, made>>, exchange.execs \subseteq exchange'.execs,
           \A o \in Orders : exchange'.status[o] # "NONE" =>
                exchange.status[o] # "NONE" \/ o \in Outside \/ store[o].state # "NONE"
    PROVE  /\ Books' /\ store' \in StoreType
           /\ ledger' \subseteq exchange'.execs /\ made' \in [Orders -> SUBSET Execs]
<1>1. Books'
  <2> SUFFICES ASSUME NEW o \in Orders PROVE BookOf(o)'
    BY DEF Books
  <2>1. BookOf(o)
    BY DEF IInv, Books
  <2> QED
    BY <2>1 DEF BookOf
<1> QED
  BY <1>1 DEF IInv, TypeOK, StoreType, AppliedIsExecuted

\* A step of the exchange.
LEMMA ExchangeKeeps ==
    ASSUME IInv, \/ \E o \in Orders : Place(o) \/ ExchangeCancels(o)
                 \/ \E e \in Execs : Trade(e)
    PROVE  IInv'
<1>1. ASSUME NEW o \in Orders, NEW st \in {"OPEN", "CANCELLED"},
             exchange' = [exchange EXCEPT !.status = [@ EXCEPT ![o] = st]],
             exchange.status[o] # "NONE" \/ o \in Outside \/ store[o].state # "NONE",
             UNCHANGED <<internal, verdict, call, crashes>>
      PROVE  IInv'
  <2>1. exchange \in Records
    BY DEF IInv, TypeOK
  <2> DEFINE after == [exchange.status EXCEPT ![o] = st]
  <2>2. exchange' = [exchange EXCEPT !.status = after]
    BY <1>1
  <2>3. after \in [Orders -> {"NONE", "OPEN", "PARTIALLY_FILLED", "FILLED", "CANCELLED"}]
    BY <1>1, <2>1 DEF Records
  <2> HIDE DEF after
  <2>4. exchange' \in Records /\ exchange'.execs = exchange.execs /\ exchange'.status = after
    BY <2>1, <2>2, <2>3 DEF Records
  <2>5. \A p \in Orders : p # o => after[p] = exchange.status[p]
    BY <2>1 DEF after, Records
  <2>6. after[o] = st
    BY <2>1 DEF after, Records
  <2>7. Booked'
    BY <2>4, <2>5, <2>6, ReconcilerAssumption DEF IInv, Booked, Records
  <2>8. /\ Books' /\ store' \in StoreType
        /\ ledger' \subseteq exchange'.execs /\ made' \in [Orders -> SUBSET Execs]
    BY <1>1, <2>4, <2>5, SameBooks DEF internal
  <2>9. UNCHANGED <<store, ledger, feeless, made, applied>>
    BY <1>1 DEF internal
  <2> QED
    BY <1>1, <2>4, <2>7, <2>8, <2>9, BetweenSteps DEF IInv, TypeOK, AppliedIsExecuted
<1>2. ASSUME NEW e \in Execs, Trade(e) PROVE IInv'
  <2> DEFINE o == OrderOf[e]
             st == IF ExecsOf(o) \subseteq exchange.execs \cup {e} THEN "FILLED" ELSE "PARTIALLY_FILLED"
             after == [exchange.status EXCEPT ![o] = st]
  <2>1. exchange \in Records /\ o \in Orders
    BY ReconcilerAssumption DEF IInv, TypeOK
  <2>2. /\ exchange' = [status |-> after, execs |-> exchange.execs \cup {e}]
        /\ UNCHANGED <<store, ledger, feeless, made, applied>>
        /\ UNCHANGED <<verdict, call, crashes>>
    BY <1>2 DEF Trade, internal
  <2>3. st \in {"FILLED", "PARTIALLY_FILLED"}
    OBVIOUS
  <2> HIDE DEF st
  <2>4. /\ after \in [Orders -> {"NONE", "OPEN", "PARTIALLY_FILLED", "FILLED", "CANCELLED"}]
        /\ after[o] = st /\ \A p \in Orders : p # o => after[p] = exchange.status[p]
    BY <2>1, <2>3 DEF Records
  <2>5. exchange.status[o] # "NONE"
    BY <1>2 DEF Trade, Resting
  <2> HIDE DEF after
  <2>6. /\ exchange' \in Records /\ exchange'.status = after
        /\ exchange'.execs = exchange.execs \cup {e}
    BY <2>1, <2>2, <2>4 DEF Records
  <2>7. Booked'
    BY <2>1, <2>3, <2>4, <2>6, ReconcilerAssumption DEF IInv, Booked, Records
  <2>8. \A p \in Orders : exchange'.status[p] # "NONE" => exchange.status[p] # "NONE"
    BY <2>4, <2>5, <2>6
  <2>9. /\ Books' /\ store' \in StoreType
        /\ ledger' \subseteq exchange'.execs /\ made' \in [Orders -> SUBSET Execs]
    BY <2>2, <2>6, <2>8, SameBooks
  <2> QED
    BY <2>2, <2>6, <2>7, <2>9, BetweenSteps DEF IInv, TypeOK, AppliedIsExecuted
<1> QED
  BY <1>1, <1>2 DEF Place, ExchangeCancels, Resting

\* A step of the adapter.
LEMMA AdapterKeeps ==
    ASSUME IInv, \/ \E o \in Orders : Submit(o) \/ Answer(o) \/ StoreCancelled(o)
                 \/ \E e \in Execs : Book(e) \/ Apply(e)
    PROVE  IInv'
<1>0. /\ exchange \in Records /\ ledger \subseteq exchange.execs /\ applied \subseteq ledger
      /\ feeless \subseteq ledger /\ made \in [Orders -> SUBSET Execs] /\ Booked
  BY DEF IInv, TypeOK, AppliedIsExecuted
<1>1. ASSUME NEW o \in Orders, Submit(o) PROVE IInv'
  <2> DEFINE row == [state |-> "SUBMITTED", qty |-> OrderQty(o), filled |-> 0]
  <2>1. /\ store' = [store EXCEPT ![o] = row]
        /\ UNCHANGED <<exchange, ledger, feeless, made, applied, verdict, call, crashes>>
    BY <1>1 DEF Submit
  <2>2. OrderQty(o) \in Nat
    BY QuantityOf DEF OrderQty, ExecsOf
  <2>3. store \in StoreType
    BY DEF IInv, TypeOK, StoreType
  <2>4. /\ store' \in StoreType /\ store'[o] = row
        /\ \A p \in Orders \ {o} : store'[p] = store[p]
    BY <2>1, <2>2, <2>3 DEF StoreType
  <2>5. BookOf(o) /\ store[o].state = "NONE"
    BY <1>1 DEF IInv, Books, Submit
  <2>6. Quantity({}) = 0
    BY QuantityOf
  <2>7. /\ store'[o].state = "SUBMITTED" /\ store'[o].qty = OrderQty(o) /\ store'[o].filled = 0
        /\ ledger' \cap ExecsOf(o) = {} /\ made'[o] = {}
    BY <2>1, <2>4, <2>5 DEF BookOf, Unfilled
  <2> HIDE DEF row
  <2>8. BookOf(o)'
    BY <2>2, <2>6, <2>7 DEF BookOf, Unfilled
  <2>10. Books'
    BY <2>1, <2>4, <2>8, OneOrder DEF IInv
  <2>9. Booked'
    BY <1>0, <2>1 DEF Booked
  <2> QED
    BY <1>0, <1>1, <2>1, <2>4, <2>10, <2>9, BetweenSteps DEF Submit
<1>2. ASSUME NEW o \in Orders, NEW st \in States, SetState(o, st), Adapting,
             UNCHANGED <<exchange, ledger, feeless, made, applied, verdict, call, crashes>>,
             store[o].state # "NONE", st \in Unfilled => store[o].state \in Unfilled,
             st = "UNKNOWN" => o \notin Outside
      PROVE  IInv'
  <2>1. Books' /\ store' \in StoreType
    BY <1>2, SetStateKeeps
  <2>2. Booked'
    BY <1>0, <1>2 DEF Booked
  <2> QED
    BY <1>0, <1>2, <2>1, <2>2, BetweenSteps
<1>3. ASSUME NEW o \in Orders, Answer(o) PROVE IInv'
  BY <1>2, <1>3 DEF Answer, Unfilled
<1>4. ASSUME NEW o \in Orders, StoreCancelled(o) PROVE IInv'
  BY <1>2, <1>4 DEF StoreCancelled, Unfilled
<1>5. ASSUME NEW e \in Execs, Book(e) PROVE IInv'
  <2>1. /\ store' = Filled(e) /\ ledger' = ledger \cup {e} /\ feeless' = feeless
        /\ e \notin ledger /\ e \in exchange.execs /\ Fillable(e) /\ Adapting
        /\ UNCHANGED <<exchange, made, applied, verdict, call, crashes>>
    BY <1>5 DEF Book, Execute
  <2>2. Books' /\ store' \in StoreType
    BY <2>1, ExecuteKeeps
  <2>3. Booked'
    BY <1>0, <2>1 DEF Booked
  <2> QED
    BY <1>0, <2>1, <2>2, <2>3, BetweenSteps
<1>6. ASSUME NEW e \in Execs, Apply(e) PROVE IInv'
  <2>1. /\ applied' = applied \cup {e} /\ e \in ledger
        /\ UNCHANGED <<exchange, store, ledger, feeless, made, verdict, call, crashes>>
    BY <1>6 DEF Apply
  <2>2. Books' /\ store' \in StoreType
    BY <2>1, SameBooks
  <2>3. Booked'
    BY <1>0, <2>1 DEF Booked
  <2> QED
    BY <1>0, <2>1, <2>2, <2>3, BetweenSteps
<1> QED
  BY <1>1, <1>3, <1>4, <1>5, <1>6

-----------------------------------------------------------------------------
(* The calls of the reconciler *)

CallType == [op : {"none", "reconcile", "repair", "startup"},
             pc : {"idle", "find", "step", "execute", "apply", "recover", "query", "conclude"},
             mode : {"FULL", "SYMBOL", "ACCOUNT", "ORDER"}, of : SUBSET Symbols,
             seen : Seq(Records), stale : BOOLEAN,
             todo : SUBSET (Orders \cup Execs), feeless : BOOLEAN]
HaltType == [on : BOOLEAN, scope : {"NONE", "SYMBOL", "ACCOUNT", "GLOBAL"},
             symbols : SUBSET Symbols]

LEMMA IdleType == Idle \in CallType /\ NotHalted \in HaltType
BY DEF Idle, CallType, NotHalted, HaltType

\* A step of a call: what is left to show when the books are in order.
LEMMA CallKeeps ==
    ASSUME IInv, UNCHANGED exchange, store' \in StoreType, Books',
           ledger' \subseteq exchange.execs, feeless' \subseteq ledger',
           made' \in [Orders -> SUBSET Execs], applied' \subseteq ledger',
           call' \in CallType, Len(call'.seen) <= 4, InHand', Seen',
           halt' \in HaltType, last' \in Statuses, Halted', HaltMatchesVerdict',
           crashes' \in 0 .. MaxCrashes
    PROVE  IInv'
<1>1. exchange' \in Records /\ ledger' \subseteq Execs /\ applied' \subseteq Execs
  BY DEF IInv, TypeOK, Records
<1>2. TypeOK'
  BY <1>1 DEF TypeOK, StoreType, CallType, HaltType
<1>3. AppliedIsExecuted' /\ Booked'
  BY DEF IInv, AppliedIsExecuted, Booked
<1> QED
  BY <1>2, <1>3 DEF IInv

\* A step that changes nothing but the call and the verdict.
LEMMA JudgementKeeps ==
    ASSUME IInv, UNCHANGED <<exchange, internal, crashes>>,
           call' \in CallType, Len(call'.seen) <= 4, InHand', Seen',
           halt' \in HaltType, last' \in Statuses, Halted', HaltMatchesVerdict'
    PROVE  IInv'
<1>1. UNCHANGED <<store, ledger, feeless, made, applied>>
  BY DEF internal
<1>2. Books' /\ store' \in StoreType
  BY <1>1, SameBooks
<1>3. /\ ledger' \subseteq exchange.execs /\ feeless' \subseteq ledger'
      /\ made' \in [Orders -> SUBSET Execs] /\ applied' \subseteq ledger'
      /\ crashes' \in 0 .. MaxCrashes
  BY <1>1 DEF IInv, TypeOK, AppliedIsExecuted
<1> QED
  BY <1>2, <1>3, CallKeeps

\* A step of a call that leaves its answers and the verdict alone.
LEMMA WorkKeeps ==
    ASSUME IInv, UNCHANGED <<exchange, verdict, crashes>>, store' \in StoreType, Books',
           ledger' \subseteq exchange.execs, feeless' \subseteq ledger',
           made' \in [Orders -> SUBSET Execs], applied' \subseteq ledger',
           call' \in CallType, call'.seen = call.seen \/ call'.seen = <<>>, InHand',
           call.pc # "conclude"
    PROVE  IInv'
<1>1. Len(call'.seen) <= 4 /\ Seen'
  BY DEF IInv, TypeOK, Seen
<1>2. halt' \in HaltType /\ last' \in Statuses /\ crashes' \in 0 .. MaxCrashes
  BY DEF IInv, TypeOK, HaltType, verdict
<1>3. Halted' /\ HaltMatchesVerdict'
  BY DEF IInv, Halted, HaltMatchesVerdict, verdict
<1> QED
  BY <1>1, <1>2, <1>3, CallKeeps

LEMMA GotoType ==
    ASSUME IInv, NEW pc \in {"step", "execute", "apply", "query"}, Goto(pc)
    PROVE  call' \in CallType /\ call' = [call EXCEPT !.pc = pc]
BY DEF Goto, IInv, TypeOK, CallType

LEMMA BeginReconcileKeeps ==
    ASSUME IInv, NEW m \in Modes, BeginReconcile(m) PROVE IInv'
<1>1. m[1] \in {"FULL", "SYMBOL", "ACCOUNT", "ORDER"} /\ m[2] \in SUBSET Symbols
  BY ModesAssumption
<1>2. /\ call' = [Idle EXCEPT !.op = "reconcile", !.pc = "query", !.mode = m[1], !.of = m[2]]
      /\ UNCHANGED <<exchange, internal, verdict, crashes>> /\ call.pc = "idle"
  BY DEF BeginReconcile
<1>3. /\ call' \in CallType /\ call'.seen = <<>> /\ call'.op = "reconcile" /\ call'.pc = "query"
  <2> DEFINE mode == m[1]
             of == m[2]
  <2>1. call' = [Idle EXCEPT !.op = "reconcile", !.pc = "query", !.mode = mode, !.of = of]
    BY <1>2
  <2>2. mode \in {"FULL", "SYMBOL", "ACCOUNT", "ORDER"} /\ of \in SUBSET Symbols
    BY <1>1
  <2> HIDE DEF mode, of
  <2>3. Idle.seen = <<>>
    BY DEF Idle
  <2> QED
    BY <2>1, <2>2, <2>3, IdleType DEF CallType
<1>4. InHand'
  BY <1>3 DEF InHand
<1>5. UNCHANGED <<store, ledger, feeless, made, applied>>
  BY <1>2 DEF internal
<1>6. Books' /\ store' \in StoreType
  BY <1>2, <1>5, SameBooks
<1> QED
  BY <1>2, <1>3, <1>4, <1>5, <1>6, WorkKeeps DEF IInv, TypeOK, AppliedIsExecuted

\* One more answer knows of every execution the earlier ones know of.
LEMMA QueryKeeps == ASSUME IInv, Query PROVE IInv'
<1> DEFINE n == Len(call.seen)
           answer == Response(n + 1)
           seen == Append(call.seen, answer)
<1>1. PICK old \in BOOLEAN : call' = [call EXCEPT !.seen = seen, !.stale = old]
  <2>1. call.stale \in BOOLEAN
    BY DEF IInv, TypeOK
  <2> QED
    BY <2>1 DEF Query
<1>2. /\ call.pc = "query" /\ n < 4 /\ UNCHANGED <<exchange, internal, verdict, crashes>>
      /\ exchange \in Records /\ call \in CallType /\ call.seen \in Seq(Records) /\ n \in Nat
  BY DEF Query, Querying, IInv, TypeOK, CallType
<1>3. answer \in Records /\ answer.execs = exchange.execs
  BY <1>2 DEF Response, Records
<1> HIDE DEF answer
<1>4. /\ seen \in Seq(Records) /\ Len(seen) = n + 1 /\ seen[n + 1] = answer
      /\ \A i \in 1 .. n : seen[i] = call.seen[i]
      /\ DOMAIN seen = 1 .. n + 1 /\ DOMAIN call.seen = 1 .. n
  BY <1>2, <1>3
<1> HIDE DEF seen
<1>5. /\ call' \in CallType /\ call'.seen = seen /\ call'.pc = "query" /\ call'.op = call.op
  BY <1>1, <1>2, <1>4 DEF CallType
<1>6. InHand'
  BY <1>5 DEF InHand
<1>7. Seen'
  <2>1. Seen
    BY DEF IInv
  <2>2. \A i \in 1 .. n + 1 : seen[i].execs \subseteq exchange.execs
    BY <1>2, <1>3, <1>4, <2>1 DEF Seen
  <2>3. ASSUME NEW i \in 1 .. n + 1, NEW j \in 1 .. n + 1, i <= j
        PROVE  seen[i].execs \subseteq seen[j].execs
    <3>1. CASE j = n + 1
      BY <3>1, <1>3, <1>4, <2>2
    <3>2. CASE j # n + 1
      <4>1. i \in 1 .. n /\ j \in 1 .. n
        BY <1>2, <2>3, <3>2
      <4> QED
        BY <4>1, <1>4, <2>1, <2>3 DEF Seen
    <3> QED
      BY <3>1, <3>2
  <2> QED
    BY <1>2, <1>4, <1>5, <2>2, <2>3 DEF Seen
<1>8. halt' \in HaltType /\ last' \in Statuses
  BY <1>2 DEF IInv, TypeOK, HaltType, verdict
<1>9. Halted' /\ HaltMatchesVerdict'
  BY <1>2, <1>5 DEF IInv, Halted, HaltMatchesVerdict, verdict
<1>10. Len(call'.seen) <= 4
  BY <1>2, <1>4, <1>5
<1> QED
  BY <1>2, <1>5, <1>6, <1>7, <1>8, <1>9, <1>10, JudgementKeeps

\* The end of a comparison.
LEMMA ReconciledKeeps ==
    ASSUME IInv, call.pc = "query", Reconciled
    PROVE  /\ call' \in CallType /\ Len(call'.seen) <= 4
           /\ call'.pc \in {"idle", "conclude"} /\ InHand' /\ Seen'
<1>1. call \in CallType
  BY DEF IInv, TypeOK, CallType
<1>2. <<>> \in Seq(Records) /\ Len(<<>>) = 0 /\ DOMAIN <<>> = {}
  OBVIOUS
<1>3. CASE call.op = "reconcile"
  BY <1>2, <1>3, IdleType DEF Reconciled, Idle, InHand, Seen
<1>4. CASE call.op # "reconcile"
  <2>1. call' = [call EXCEPT !.pc = "conclude", !.seen = <<>>]
    BY <1>4 DEF Reconciled
  <2>2. call' \in CallType /\ call'.pc = "conclude" /\ call'.seen = <<>>
    BY <1>1, <1>2, <2>1 DEF CallType
  <2> QED
    BY <1>2, <2>2 DEF InHand, Seen
<1> QED
  BY <1>3, <1>4

LEMMA QueryFailsKeeps == ASSUME IInv, QueryFails PROVE IInv'
<1>1. /\ halt' = [halt EXCEPT !.on = TRUE, !.scope = "GLOBAL"] /\ halt \in HaltType
      /\ last' = "DATA_UNAVAILABLE" /\ call.pc = "query" /\ Reconciled
      /\ UNCHANGED <<exchange, internal, crashes>>
  BY DEF QueryFails, Querying, IInv, TypeOK, HaltType
<1>2. halt' \in HaltType /\ halt'.on /\ last' \in Statuses
  BY <1>1 DEF HaltType, Statuses
<1>3. Halted' /\ HaltMatchesVerdict'
  BY <1>1, <1>2 DEF Halted, HaltMatchesVerdict
<1> QED
  BY <1>1, <1>2, <1>3, ReconciledKeeps, JudgementKeeps

\* Only a drift of positions halts a symbol alone.
LEMMA OtherDomains ==
    /\ \A d \in BalanceDrifts : d.domain # "POSITIONS"
    /\ \A d \in OrderDrifts : d.domain # "POSITIONS"
    /\ \A d \in ExecutionDrifts : d.domain # "POSITIONS"
<1>1. \A severity, sym : /\ Drift("BALANCES", severity, sym).domain # "POSITIONS"
                        /\ Drift("ORDERS", severity, sym).domain # "POSITIONS"
                        /\ Drift("EXECUTIONS", severity, sym).domain # "POSITIONS"
                        /\ Drift("FEES", severity, sym).domain # "POSITIONS"
  BY DEF Drift
<1>2. \A d \in BalanceDrifts : d.domain # "POSITIONS"
  BY <1>1, Zenon DEF BalanceDrifts
<1>3. \A d \in OrderDrifts : d.domain # "POSITIONS"
  BY <1>1, Zenon DEF OrderDrifts
<1>4. \A d \in ExecutionDrifts : d.domain # "POSITIONS"
  BY <1>1, Zenon DEF ExecutionDrifts
<1> QED
  BY <1>2, <1>3, <1>4

\* The verdict and the halt policy read the same drifts: a critical one halts.
LEMMA Policy ==
    ASSUME IInv
    PROVE  /\ HaltFor(Drifts) \in HaltType /\ StatusOf(Drifts) \in Statuses
           /\ HaltFor(Drifts).on <=> Has(Drifts, "CRITICAL")
           /\ StatusOf(Drifts) = "CRITICAL_DRIFT" => Has(Drifts, "CRITICAL")
           /\ StatusOf(Drifts) = "HEALTHY" => ~Has(Drifts, "CRITICAL") /\ ~Has(Drifts, "ERROR")
           /\ StatusOf(Drifts) # "DATA_UNAVAILABLE"
<1> DEFINE D == Drifts
           critical == {d \in D : d.severity = "CRITICAL"}
<1>1. \A d \in D : d.domain = "POSITIONS" => d.symbol \in Symbols
  <2>1. \A d \in D : d.domain = "POSITIONS" => d \in PositionDrifts
    BY OtherDomains, Zenon DEF Drifts
  <2>2. ASSUME NEW d \in PositionDrifts PROVE d.symbol \in call.of
    <3>1. PICK sym \in call.of : d = Drift("POSITIONS", "CRITICAL", sym)
      BY Zenon DEF PositionDrifts
    <3> QED
      BY <3>1 DEF Drift
  <2>3. call.of \subseteq Symbols
    BY DEF IInv, TypeOK
  <2> QED
    BY <2>1, <2>2, <2>3
<1>2. HaltFor(D) = CASE \E d \in critical : d.domain # "POSITIONS" ->
                            [on |-> TRUE, scope |-> "ACCOUNT", symbols |-> Symbols]
                     [] critical # {} /\ \A d \in critical : d.domain = "POSITIONS" ->
                            [on |-> TRUE, scope |-> "SYMBOL", symbols |-> {d.symbol : d \in critical}]
                     [] OTHER -> NotHalted
  BY DEF HaltFor
<1> HIDE DEF D
<1>3. Has(D, "CRITICAL") <=> critical # {}
  BY DEF Has
<1>4. HaltFor(D) \in HaltType /\ (HaltFor(D).on <=> critical # {})
  <2>1. CASE \E d \in critical : d.domain # "POSITIONS"
    <3>1. HaltFor(D) = [on |-> TRUE, scope |-> "ACCOUNT", symbols |-> Symbols]
      BY <1>2, <2>1
    <3> QED
      BY <2>1, <3>1 DEF HaltType
  <2>2. CASE critical # {} /\ \A d \in critical : d.domain = "POSITIONS"
    <3>1. HaltFor(D) = [on |-> TRUE, scope |-> "SYMBOL", symbols |-> {d.symbol : d \in critical}]
      BY <1>2, <2>2
    <3>2. {d.symbol : d \in critical} \in SUBSET Symbols
      BY <1>1, <2>2
    <3> QED
      BY <2>2, <3>1, <3>2 DEF HaltType
  <2>3. CASE critical = {}
    <3>1. HaltFor(D) = NotHalted
      BY <1>2, <2>3
    <3> QED
      BY <2>3, <3>1 DEF HaltType, NotHalted
  <2> QED
    BY <2>1, <2>2, <2>3
<1>5. /\ StatusOf(D) \in Statuses \ {"DATA_UNAVAILABLE"}
      /\ StatusOf(D) = "CRITICAL_DRIFT" => Has(D, "CRITICAL")
      /\ StatusOf(D) = "HEALTHY" => ~Has(D, "CRITICAL") /\ ~Has(D, "ERROR")
  BY DEF StatusOf, Statuses
<1> QED
  BY <1>3, <1>4, <1>5 DEF D

LEMMA EvaluateKeeps == ASSUME IInv, Evaluate PROVE IInv'
<1>1. /\ halt' = HaltFor(Drifts) /\ last' = StatusOf(Drifts) /\ call.pc = "query" /\ Reconciled
      /\ UNCHANGED <<exchange, internal, crashes>>
  BY DEF Evaluate
<1>2. Halted' /\ HaltMatchesVerdict'
  BY <1>1, Policy DEF Halted, HaltMatchesVerdict
<1>3. halt' \in HaltType /\ last' \in Statuses
  BY <1>1, Policy
<1> QED
  BY <1>1, <1>2, <1>3, ReconciledKeeps, JudgementKeeps

LEMMA ConcludeKeeps == ASSUME IInv, Conclude PROVE IInv'
<1>1. /\ halt \in HaltType /\ last \in Statuses
      /\ last \in {"CRITICAL_DRIFT", "DATA_UNAVAILABLE"} => halt.on
  BY DEF IInv, TypeOK, HaltType, Halted
<1>2. /\ halt' \in HaltType
      /\ last = "HEALTHY" => ~halt'.on
      /\ last \in {"CRITICAL_DRIFT", "DATA_UNAVAILABLE"} => halt'.on
  <2>1. CASE last = "HEALTHY"
    <3>1. halt' = NotHalted
      BY <2>1 DEF Conclude
    <3> QED
      BY <2>1, <3>1, IdleType DEF NotHalted
  <2>2. CASE last # "HEALTHY" /\ call.op = "startup"
    <3>1. halt' = [halt EXCEPT !.on = TRUE]
      BY <2>2 DEF Conclude
    <3> QED
      BY <1>1, <2>2, <3>1 DEF HaltType
  <2>3. CASE last # "HEALTHY" /\ call.op # "startup"
    <3>1. halt' = halt
      BY <2>3 DEF Conclude
    <3> QED
      BY <1>1, <2>3, <3>1
  <2> QED
    BY <2>1, <2>2, <2>3
<1>3. call' = Idle /\ UNCHANGED <<exchange, internal, crashes>> /\ last' = last
  BY DEF Conclude
<1>4. Halted' /\ HaltMatchesVerdict'
  BY <1>2, <1>3 DEF Halted, HaltMatchesVerdict
<1>5. InHand' /\ Seen' /\ Len(call'.seen) <= 4 /\ call' \in CallType
  BY <1>3, IdleType DEF InHand, Seen, Idle
<1>6. last' \in Statuses
  BY <1>1, <1>3
<1> QED
  BY <1>2, <1>3, <1>4, <1>5, <1>6, JudgementKeeps

-----------------------------------------------------------------------------
(* Repairs and startups *)

LEMMA BeginRepairKeeps ==
    ASSUME IInv, NEW e \in Execs, BeginRepair(e) PROVE IInv'
<1>1. PICK none \in {FALSE, FeeOf[e] > 0} :
          call' = [Idle EXCEPT !.op = "repair", !.pc = "find", !.of = Symbols,
                               !.todo = {e}, !.feeless = none]
  BY DEF BeginRepair
<1>2. none \in BOOLEAN /\ {e} \in SUBSET (Orders \cup Execs)
  <2>1. (FeeOf[e] > 0) \in BOOLEAN
    BY ReconcilerAssumption
  <2> QED
    BY <2>1
<1>3. /\ UNCHANGED <<exchange, internal, verdict, crashes>> /\ call.pc = "idle"
      /\ {e} \subseteq exchange.execs
  BY DEF BeginRepair
<1>4. /\ call' \in CallType /\ call'.seen = <<>> /\ call'.op = "repair"
      /\ call'.pc = "find" /\ call'.todo = {e}
  BY <1>1, <1>2, IdleType DEF CallType, Idle
<1>5. InHand'
  BY <1>3, <1>4 DEF InHand
<1>6. UNCHANGED <<store, ledger, feeless, made, applied>>
  BY <1>3 DEF internal
<1>7. Books' /\ store' \in StoreType
  BY <1>3, <1>6, SameBooks
<1> QED
  BY <1>3, <1>4, <1>5, <1>6, <1>7, WorkKeeps DEF IInv, TypeOK, AppliedIsExecuted

\* An order that a repair creates is not one the program submitted.
LEMMA FindKeeps ==
    ASSUME IInv, NEW e \in Execs, Find(e) PROVE IInv'
<1> DEFINE o == OrderOf[e]
           row == [state |-> "CREATED", qty |-> QtyOf[e], filled |-> 0]
<1>1. o \in Orders /\ QtyOf[e] \in Nat /\ store \in StoreType /\ BookOf(o)
  BY ReconcilerAssumption DEF IInv, TypeOK, StoreType, Books
<1>2. /\ UNCHANGED <<exchange, ledger, feeless, made, applied, verdict, crashes>>
      /\ call.op = "repair" /\ call.pc = "find" /\ call.todo = {e}
      /\ call' = Idle \/ Goto("step")
  BY DEF Find, Repairing
<1>5. Books' /\ store' \in StoreType
  <2>1. CASE store' = store
    BY <1>2, <2>1, SameBooks
  <2>2. CASE store' # store
    <3>1. store[o].state = "NONE" /\ store' = [store EXCEPT ![o] = row]
      BY <2>2 DEF Find
    <3>2. store' \in StoreType
      BY <1>1, <3>1 DEF StoreType
    <3>3. /\ store'[o].state = "CREATED" /\ store'[o].qty = QtyOf[e] /\ store'[o].filled = 0
          /\ \A p \in Orders \ {o} : store'[p] = store[p]
      BY <1>1, <3>1 DEF StoreType
    <3> HIDE DEF row
    <3>4. exchange.status[o] # "NONE"
      BY <1>2 DEF IInv, InHand, Booked
    <3>5. o \in Outside
      BY <1>1, <3>1, <3>4 DEF BookOf
    <3>6. ledger \cap ExecsOf(o) = {} /\ made[o] = {} /\ Quantity({}) = 0
      BY <1>1, <3>1, QuantityOf DEF BookOf, Unfilled
    <3>7. BookOf(o)'
      BY <1>1, <1>2, <3>3, <3>5, <3>6 DEF BookOf
    <3>8. Books'
      BY <1>1, <1>2, <3>3, <3>7, OneOrder DEF IInv
    <3> QED
      BY <3>2, <3>8
  <2> QED
    BY <2>1, <2>2
<1>6. call' \in CallType /\ (call'.seen = call.seen \/ call'.seen = <<>>) /\ InHand'
  <2>1. CASE call' = Idle
    BY <2>1, IdleType DEF Idle, InHand
  <2>2. CASE Goto("step")
    <3>1. call' \in CallType /\ call' = [call EXCEPT !.pc = "step"]
      BY <2>2, GotoType
    <3>2. call'.pc = "step" /\ call'.op = call.op /\ call'.todo = call.todo /\ call'.seen = call.seen
      BY <3>1 DEF IInv, TypeOK
    <3> QED
      BY <1>2, <3>1, <3>2 DEF IInv, InHand
  <2> QED
    BY <1>2, <2>1, <2>2
<1> QED
  BY <1>2, <1>5, <1>6, WorkKeeps DEF IInv, TypeOK, AppliedIsExecuted

LEMMA StepThroughKeeps ==
    ASSUME IInv, NEW e \in Execs, StepThrough(e) PROVE IInv'
<1> DEFINE o == OrderOf[e]
<1>1. o \in Orders
  BY ReconcilerAssumption
<1>2. /\ UNCHANGED <<exchange, ledger, feeless, made, applied, verdict, crashes>>
      /\ call.op = "repair" /\ call.pc = "step" /\ call.todo = {e}
  BY DEF StepThrough, Repairing
<1>3. Books' /\ store' \in StoreType
  <2>1. CASE store' = store
    BY <1>2, <2>1, SameBooks
  <2>2. CASE store[o].state = "CREATED" /\ SetState(o, "SUBMITTED")
    BY <1>1, <1>2, <2>2, SetStateKeeps DEF Unfilled
  <2>3. CASE store[o].state = "SUBMITTED" /\ SetState(o, "ACKNOWLEDGED")
    BY <1>1, <1>2, <2>3, SetStateKeeps DEF Unfilled
  <2> QED
    BY <2>1, <2>2, <2>3 DEF StepThrough
<1>4. call' \in CallType /\ call'.seen = call.seen /\ InHand'
  <2>1. CASE call' = call
    BY <1>2, <2>1 DEF IInv, InHand, TypeOK, CallType
  <2>2. CASE Goto("execute")
    <3>1. call' \in CallType /\ call' = [call EXCEPT !.pc = "execute"]
      BY <2>2, GotoType
    <3>2. call'.pc = "execute" /\ call'.op = call.op /\ call'.todo = call.todo /\ call'.seen = call.seen
      BY <3>1 DEF IInv, TypeOK
    <3> QED
      BY <1>2, <3>1, <3>2 DEF IInv, InHand
  <2> QED
    BY <2>1, <2>2 DEF StepThrough
<1> QED
  BY <1>2, <1>3, <1>4, WorkKeeps DEF IInv, TypeOK, AppliedIsExecuted

LEMMA RepairExecuteKeeps ==
    ASSUME IInv, NEW e \in Execs, RepairExecute(e) PROVE IInv'
<1>1. /\ UNCHANGED <<exchange, made, applied, verdict, crashes>>
      /\ call.op = "repair" /\ call.pc = "execute" /\ call.todo = {e}
      /\ {e} \subseteq exchange.execs /\ ledger \subseteq exchange.execs
      /\ feeless \subseteq ledger /\ applied \subseteq ledger /\ made \in [Orders -> SUBSET Execs]
  BY DEF RepairExecute, Repairing, IInv, InHand, TypeOK, AppliedIsExecuted
<1>2. /\ Books' /\ store' \in StoreType
      /\ ledger' = ledger \/ ledger' = ledger \cup {e}
      /\ feeless' = feeless \/ (feeless' = feeless \cup {e} /\ e \in ledger')
  <2>1. CASE UNCHANGED <<store, ledger, feeless>>
    BY <1>1, <2>1, SameBooks
  <2>2. CASE e \notin ledger /\ Fillable(e)
    <3>1. /\ store' = Filled(e) /\ ledger' = ledger \cup {e}
          /\ feeless' = feeless \/ feeless' = feeless \cup {e}
      BY <2>2 DEF RepairExecute, Execute
    <3> QED
      BY <1>1, <2>2, <3>1, ExecuteKeeps
  <2> QED
    BY <2>1, <2>2 DEF RepairExecute, Execute
<1>3. call' \in CallType /\ (call'.seen = call.seen \/ call'.seen = <<>>) /\ InHand'
  <2>1. CASE call' = Idle
    BY <2>1, IdleType DEF Idle, InHand
  <2>2. CASE Goto("apply") /\ e \in ledger'
    <3>1. call' \in CallType /\ call' = [call EXCEPT !.pc = "apply"]
      BY <2>2, GotoType
    <3>2. call'.pc = "apply" /\ call'.op = call.op /\ call'.todo = call.todo /\ call'.seen = call.seen
      BY <3>1 DEF IInv, TypeOK
    <3> QED
      BY <1>1, <2>2, <3>1, <3>2 DEF InHand
  <2> QED
    BY <2>1, <2>2 DEF RepairExecute, Execute
<1>4. /\ ledger' \subseteq exchange.execs /\ feeless' \subseteq ledger'
      /\ applied' \subseteq ledger' /\ made' \in [Orders -> SUBSET Execs]
  BY <1>1, <1>2
<1> QED
  BY <1>1, <1>2, <1>3, <1>4, WorkKeeps

LEMMA RepairApplyKeeps ==
    ASSUME IInv, NEW e \in Execs, RepairApply(e) PROVE IInv'
<1>1. /\ UNCHANGED <<exchange, store, ledger, feeless, made, verdict, crashes>>
      /\ applied' = applied \cup {e} /\ Goto("query")
      /\ call.op = "repair" /\ call.pc = "apply" /\ call.todo = {e} /\ {e} \subseteq ledger
  BY DEF RepairApply, Repairing, IInv, InHand
<1>2. call' \in CallType /\ call' = [call EXCEPT !.pc = "query"]
  BY <1>1, GotoType
<1>3. call'.pc = "query" /\ call'.op = call.op /\ call'.seen = call.seen
  BY <1>2 DEF IInv, TypeOK
<1>4. InHand'
  BY <1>3 DEF InHand
<1>5. Books' /\ store' \in StoreType
  BY <1>1, SameBooks
<1> QED
  BY <1>1, <1>2, <1>3, <1>4, <1>5, WorkKeeps DEF IInv, TypeOK, AppliedIsExecuted

LEMMA CrashKeeps == ASSUME IInv, Crash PROVE IInv'
<1> DEFINE unknown == {o \in Orders : store[o].state = "UNKNOWN"}
<1>1. /\ call' = [Idle EXCEPT !.op = "startup", !.pc = "recover", !.of = Symbols, !.todo = unknown]
      /\ applied' = ledger /\ halt' = NotHalted /\ last' = "HEALTHY" /\ crashes' = crashes + 1
      /\ crashes < MaxCrashes /\ UNCHANGED <<exchange, store, ledger, feeless, made>>
  BY DEF Crash
<1>2. /\ call' \in CallType /\ call'.seen = <<>> /\ call'.op = "startup" /\ call'.pc = "recover"
      /\ call'.todo = unknown
  BY <1>1, IdleType DEF CallType, Idle
<1>3. InHand' /\ Seen' /\ Len(call'.seen) <= 4
  BY <1>1, <1>2 DEF InHand, Seen
<1>4. halt' \in HaltType /\ last' \in Statuses /\ Halted' /\ HaltMatchesVerdict'
  BY <1>1, IdleType DEF Statuses, Halted, HaltMatchesVerdict, NotHalted
<1>5. crashes' \in 0 .. MaxCrashes
  BY <1>1, ReconcilerAssumption DEF IInv, TypeOK
<1>6. Books' /\ store' \in StoreType
  BY <1>1, SameBooks
<1> QED
  BY <1>1, <1>2, <1>3, <1>4, <1>5, <1>6, CallKeeps DEF IInv, TypeOK, AppliedIsExecuted

\* An order of unknown fate has nothing stored for it yet, so that what the
\* exchange executed is all there is.
LEMMA RecoveryBooks ==
    ASSUME IInv, NEW o \in Orders, store[o].state = "UNKNOWN", NEW s \in {"FILLED", "PARTIALLY_FILLED"},
           NEW done, done = exchange.execs \cap ExecsOf(o), UNCHANGED exchange,
           store' = [store EXCEPT ![o] = [@ EXCEPT !.state = s, !.filled = Quantity(done)]],
           \/ s = "FILLED" /\ ledger' = ledger \cup done /\ made' = made
           \/ s = "PARTIALLY_FILLED" /\ ledger' = ledger /\ made' = [made EXCEPT ![o] = done]
    PROVE  /\ Books' /\ store' \in StoreType /\ made' \in [Orders -> SUBSET Execs]
           /\ \A p \in Orders \ {o} : store'[p] = store[p]
<1> DEFINE q == Quantity(done)
<1>1. /\ BookOf(o) /\ store \in StoreType /\ made \in [Orders -> SUBSET Execs]
      /\ exchange.execs \subseteq Execs
  BY DEF IInv, Books, TypeOK, StoreType, Records
<1>2. ExecsOf(o) \in SUBSET Execs /\ done \in SUBSET ExecsOf(o) /\ done \in SUBSET Execs
  BY DEF ExecsOf
<1>3. q \in Nat /\ q <= OrderQty(o) /\ Quantity({}) = 0
  BY <1>2, QuantityOf DEF OrderQty
<1> HIDE DEF q
<1>4. store' = [store EXCEPT ![o] = [store[o] EXCEPT !.state = s, !.filled = q]]
  BY DEF q
<1>5. /\ store'[o].state = s /\ store'[o].filled = q /\ store'[o].qty = store[o].qty
      /\ \A p \in Orders \ {o} : store'[p] = store[p]
      /\ store' \in StoreType
  <2> DEFINE row == [store[o] EXCEPT !.state = s, !.filled = q]
  <2>1. row \in [state : States \cup {"NONE"}, qty : Nat, filled : Nat]
    BY <1>1, <1>3 DEF StoreType
  <2>2. row.state = s /\ row.filled = q /\ row.qty = store[o].qty
    BY <1>1 DEF StoreType
  <2>3. store' = [store EXCEPT ![o] = row]
    BY <1>4
  <2> HIDE DEF row
  <2> QED
    BY <1>1, <2>1, <2>2, <2>3 DEF StoreType
<1>6. /\ made' \in [Orders -> SUBSET Execs]
      /\ \A p \in Orders \ {o} : made'[p] = made[p]
  BY <1>1, <1>2
<1>7. /\ ledger \cap ExecsOf(o) = {} /\ made[o] = {} /\ o \notin Outside
      /\ store[o].qty = OrderQty(o)
  BY <1>1 DEF BookOf, Unfilled
<1>8. \/ ledger' \cap ExecsOf(o) = done /\ made'[o] = {}
      \/ ledger' \cap ExecsOf(o) = {} /\ made'[o] = done
  BY <1>1, <1>2, <1>7
<1>9. \A p \in Orders \ {o} : ledger' \cap ExecsOf(p) = ledger \cap ExecsOf(p)
  BY <1>2 DEF ExecsOf
<1>10. Quantity(ledger' \cap ExecsOf(o)) + Quantity(made'[o]) = q
  <2>1. CASE ledger' \cap ExecsOf(o) = done /\ made'[o] = {}
    <3>1. Quantity(ledger' \cap ExecsOf(o)) = Quantity(done) /\ Quantity(made'[o]) = Quantity({})
      BY <2>1, Zenon
    <3> QED
      BY <1>3, <3>1 DEF q
  <2>2. CASE ledger' \cap ExecsOf(o) = {} /\ made'[o] = done
    <3>1. Quantity(ledger' \cap ExecsOf(o)) = Quantity({}) /\ Quantity(made'[o]) = Quantity(done)
      BY <2>2, Zenon
    <3> QED
      BY <1>3, <3>1 DEF q
  <2> QED
    BY <1>8, <2>1, <2>2
<1>11. OrderQty(o)' = OrderQty(o)
  BY DEF OrderQty
<1>12. BookOf(o)'
  BY <1>3, <1>5, <1>7, <1>10, <1>11 DEF BookOf, Unfilled
<1> QED
  BY <1>5, <1>6, <1>9, <1>12, OneOrder DEF IInv

LEMMA RecoverKeeps ==
    ASSUME IInv, NEW o \in Orders, Recover(o) PROVE IInv'
<1> DEFINE done == exchange.execs \cap ExecsOf(o)
           rest == call.todo \ {o}
<1>1. /\ call.pc = "recover" /\ o \in call.todo /\ call' = [call EXCEPT !.todo = rest]
      /\ UNCHANGED <<exchange, feeless, verdict, crashes>>
  BY DEF Recover
<1>2. /\ store[o].state = "UNKNOWN" /\ call.op = "startup" /\ call \in CallType
      /\ call.todo \subseteq {p \in Orders : store[p].state = "UNKNOWN"}
      /\ ledger \subseteq exchange.execs /\ applied \subseteq ledger /\ feeless \subseteq ledger
      /\ made \in [Orders -> SUBSET Execs] /\ store \in StoreType
  BY <1>1 DEF IInv, InHand, TypeOK, CallType, AppliedIsExecuted, StoreType
<1>3. /\ Books' /\ store' \in StoreType /\ made' \in [Orders -> SUBSET Execs]
      /\ ledger' \subseteq exchange.execs /\ feeless' \subseteq ledger' /\ applied' \subseteq ledger'
      /\ \A p \in Orders \ {o} : store'[p] = store[p]
  <2>1. CASE /\ store' = [store EXCEPT ![o] = [@ EXCEPT !.state = "FILLED", !.filled = Quantity(done)]]
             /\ ledger' = ledger \cup done /\ applied' = applied \cup done /\ UNCHANGED made
    <3> HIDE DEF done
    <3>1. done = exchange.execs \cap ExecsOf(o)
      BY DEF done
    <3>2. /\ Books' /\ store' \in StoreType /\ made' \in [Orders -> SUBSET Execs]
          /\ \A p \in Orders \ {o} : store'[p] = store[p]
      BY <1>1, <1>2, <2>1, <3>1, RecoveryBooks
    <3> QED
      BY <1>1, <1>2, <2>1, <3>1, <3>2
  <2>2. CASE /\ store' = [store EXCEPT ![o] = [@ EXCEPT !.state = "PARTIALLY_FILLED", !.filled = Quantity(done)]]
             /\ made' = [made EXCEPT ![o] = done] /\ UNCHANGED <<ledger, applied>>
    <3> HIDE DEF done
    <3>1. done = exchange.execs \cap ExecsOf(o)
      BY DEF done
    <3>2. /\ Books' /\ store' \in StoreType /\ made' \in [Orders -> SUBSET Execs]
          /\ \A p \in Orders \ {o} : store'[p] = store[p]
      BY <1>1, <1>2, <2>2, <3>1, RecoveryBooks
    <3> QED
      BY <1>1, <1>2, <2>2, <3>2
  <2>3. ASSUME NEW s \in {"CANCELLED", "REJECTED"}, SetState(o, s), UNCHANGED <<ledger, made, applied>>
        PROVE  <1>3!:
    <3>1. Books' /\ store' \in StoreType
      BY <1>1, <1>2, <2>3, SetStateKeeps DEF Unfilled
    <3>2. \A p \in Orders \ {o} : store'[p] = store[p]
      BY <1>2, <2>3 DEF SetState, StoreType
    <3> QED
      BY <1>1, <1>2, <2>3, <3>1, <3>2
  <2>4. CASE UNCHANGED <<store, ledger, made, applied>>
    BY <1>1, <1>2, <2>4, SameBooks
  <2> QED
    BY <2>1, <2>2, <2>3, <2>4 DEF Recover
<1>4. call' \in CallType /\ call'.seen = call.seen /\ call'.pc = "recover"
      /\ call'.op = "startup" /\ call'.todo = rest
  <2>1. rest \in SUBSET (Orders \cup Execs)
    BY <1>2
  <2> HIDE DEF rest
  <2> QED
    BY <1>1, <1>2, <2>1 DEF CallType
<1>5. InHand'
  <2>1. rest \subseteq {p \in Orders : store'[p].state = "UNKNOWN"}
    BY <1>2, <1>3
  <2> QED
    BY <1>4, <2>1 DEF InHand
<1> QED
  BY <1>1, <1>3, <1>4, <1>5, WorkKeeps

LEMMA RecoveredKeeps == ASSUME IInv, Recovered PROVE IInv'
<1>1. /\ UNCHANGED <<exchange, internal, verdict, crashes>> /\ Goto("query") /\ call.pc = "recover"
  BY DEF Recovered
<1>2. call' \in CallType /\ call' = [call EXCEPT !.pc = "query"]
  BY <1>1, GotoType
<1>3. call'.pc = "query" /\ call'.seen = call.seen
  BY <1>2 DEF IInv, TypeOK
<1>4. InHand'
  BY <1>3 DEF InHand
<1>5. UNCHANGED <<store, ledger, feeless, made, applied>>
  BY <1>1 DEF internal
<1>6. Books' /\ store' \in StoreType
  BY <1>1, <1>5, SameBooks
<1> QED
  BY <1>1, <1>2, <1>3, <1>4, <1>5, <1>6, WorkKeeps DEF IInv, TypeOK, AppliedIsExecuted

-----------------------------------------------------------------------------
(* The theorems *)

LEMMA InvInductive == IInv /\ [Next]_vars => IInv'
<1> SUFFICES ASSUME IInv, [Next]_vars PROVE IInv'
  OBVIOUS
<1>1. CASE CallStep
  BY <1>1, QueryKeeps, QueryFailsKeeps, EvaluateKeeps, RecoveredKeeps, ConcludeKeeps, FindKeeps,
     StepThroughKeeps, RepairExecuteKeeps, RepairApplyKeeps, RecoverKeeps DEF CallStep
<1>2. CASE Environment
  BY <1>2, ExchangeKeeps, AdapterKeeps DEF Environment
<1>3. ASSUME NEW m \in Modes, BeginReconcile(m) PROVE IInv'
  BY <1>3, BeginReconcileKeeps
<1>4. ASSUME NEW e \in Execs, BeginRepair(e) PROVE IInv'
  BY <1>4, BeginRepairKeeps
<1>5. CASE Crash
  BY <1>5, CrashKeeps
<1>6. CASE UNCHANGED vars
  <2>1. UNCHANGED <<exchange, internal, verdict, call, crashes>>
    BY <1>6 DEF vars
  <2>2. UNCHANGED <<store, ledger, feeless, made, applied>> /\ UNCHANGED <<halt, last>>
    BY <2>1 DEF internal, verdict
  <2>3. Books' /\ store' \in StoreType
    BY <2>1, <2>2, SameBooks
  <2>4. /\ ledger' \subseteq exchange.execs /\ feeless' \subseteq ledger'
        /\ made' \in [Orders -> SUBSET Execs] /\ applied' \subseteq ledger'
        /\ call' \in CallType /\ Len(call'.seen) <= 4 /\ halt' \in HaltType
        /\ last' \in Statuses /\ crashes' \in 0 .. MaxCrashes
    BY <2>1, <2>2 DEF IInv, TypeOK, AppliedIsExecuted, CallType, HaltType
  <2>5. InHand' /\ Seen' /\ Halted' /\ HaltMatchesVerdict'
    BY <2>1, <2>2 DEF IInv, InHand, Seen, Halted, HaltMatchesVerdict
  <2> QED
    BY <2>1, <2>3, <2>4, <2>5, CallKeeps
<1> QED
  BY <1>1, <1>2, <1>3, <1>4, <1>5, <1>6 DEF Next

THEOREM ReconcilerInvariance == Spec => []IInv
<1>1. Init => IInv
  BY InvInit
<1>2. IInv /\ [Next]_vars => IInv'
  BY InvInductive
<1> QED
  BY <1>1, <1>2, PTL DEF Spec

\* Only a recovery makes an execution up, and what the exchange executed stays.
LEMMA MadeInductive == IInv /\ MadeIsExecuted /\ [Next]_vars => MadeIsExecuted'
<1> SUFFICES ASSUME IInv, MadeIsExecuted, [Next]_vars PROVE MadeIsExecuted'
  OBVIOUS
<1>1. made \in [Orders -> SUBSET Execs] /\ \A o \in Orders : ExecsOf(o)' = ExecsOf(o)
  BY DEF IInv, TypeOK, ExecsOf
<1>2. CASE made' = made /\ exchange.execs \subseteq exchange'.execs
  BY <1>1, <1>2 DEF MadeIsExecuted
<1>3. ASSUME NEW o \in Orders, Recover(o) PROVE MadeIsExecuted'
  <2>1. exchange' = exchange /\ made' \in {made, [made EXCEPT ![o] = exchange.execs \cap ExecsOf(o)]}
    BY <1>3 DEF Recover
  <2> QED
    BY <1>1, <2>1 DEF MadeIsExecuted
<1>4. ASSUME NEW e \in Execs, Trade(e) PROVE MadeIsExecuted'
  BY <1>2, <1>4 DEF Trade, internal
<1>5. ASSUME NEW o \in Orders, Place(o) \/ ExchangeCancels(o) PROVE MadeIsExecuted'
  BY <1>2, <1>5 DEF Place, ExchangeCancels, internal, IInv, TypeOK, Records
<1>6. ASSUME NEW o \in Orders, Submit(o) \/ Answer(o) \/ StoreCancelled(o) PROVE MadeIsExecuted'
  BY <1>2, <1>6 DEF Submit, Answer, StoreCancelled
<1>7. ASSUME NEW e \in Execs,
             Book(e) \/ Apply(e) \/ Find(e) \/ StepThrough(e) \/ RepairExecute(e) \/ RepairApply(e)
                \/ BeginRepair(e)
      PROVE  MadeIsExecuted'
  BY <1>2, <1>7 DEF Book, Apply, Find, StepThrough, RepairExecute, RepairApply, BeginRepair, internal
<1>8. CASE Query \/ QueryFails \/ Evaluate \/ Recovered \/ Conclude \/ Crash \/ UNCHANGED vars
  BY <1>2, <1>8 DEF Query, QueryFails, Evaluate, Recovered, Conclude, Crash, vars, internal
<1>9. ASSUME NEW m \in Modes, BeginReconcile(m) PROVE MadeIsExecuted'
  BY <1>2, <1>9 DEF BeginReconcile, internal
<1> QED
  BY <1>3, <1>4, <1>5, <1>6, <1>7, <1>8, <1>9 DEF Next, CallStep, Environment

\* The halt flag follows the last verdict, the portfolio counts only stored
\* executions and the store only those of the exchange, a recovery makes up only
\* what the exchange executed, and an order is filled by exactly the rows stored
\* for it, through repairs, answers, recoveries and crashes in every order.
THEOREM ReconcilerIsSound == Spec => []ReconcilerInv
<1>1. IInv /\ MadeIsExecuted => ReconcilerInv
  BY DEF IInv, ReconcilerInv, Books, BookOf, FilledByItsRows
<1>2. Init => MadeIsExecuted
  BY DEF Init, MadeIsExecuted
<1> QED
  BY <1>1, <1>2, MadeInductive, ReconcilerInvariance, PTL DEF Spec

-----------------------------------------------------------------------------
(* A full reconciliation of a quiet exchange *)

\* Money is counted in whole numbers.
LEMMA MoneyIsInt == ASSUME IInv PROVE Spent \in Int /\ Cost(exchange.execs) \in Int
<1>1. CostOf \in [Execs -> Nat] /\ FeeOf \in [Execs -> Nat]
  BY ReconcilerAssumption
<1>2. \A S \in SUBSET Execs : Cost(S) \in Nat /\ Fees(S) \in Nat
  BY <1>1, SumOfExecs, Sums!SumType DEF Cost, Fees
<1>3. /\ applied \in SUBSET Execs /\ applied \cap feeless \in SUBSET Execs
      /\ exchange.execs \in SUBSET Execs /\ made \in [Orders -> SUBSET Execs]
  BY DEF IInv, TypeOK, Records
<1> DEFINE f == [o \in Orders |-> Cost(made[o])]
<1>4. SumFunctionOnSet(f, Orders) \in Nat
  <2>1. \A o \in Orders : f[o] \in Nat
    BY <1>2, <1>3
  <2>2. IsFiniteSet(Orders)
    BY ReconcilerAssumption
  <2> HIDE DEF f
  <2>3. Sums!IsFiniteSet(Orders) /\ Sums!IsSum /\ Sums!Chooses(Orders) /\ Sums!Values(f, Orders, Nat)
    BY <2>1, <2>2 DEF IsFiniteSet, Sums!IsFiniteSet, Sums!IsSum, Sums!Chooses, Sums!Values, Plus, AnyOf
  <2>4. SumFunctionOnSet(f, Orders) = Sums!Fold(f, Orders)
    BY DEF SumFunctionOnSet, FoldFunctionOnSet, MapThenFoldSet, Sums!Fold,
           Sums!MapThenFoldSet, Plus, AnyOf
  <2> QED
    BY <2>3, <2>4, Sums!SumType
<1>5. Spent = Cost(applied) - Fees(applied \cap feeless) + SumFunctionOnSet(f, Orders)
  BY DEF Spent
<1> HIDE DEF f
<1> QED
  BY <1>2, <1>3, <1>4, <1>5

\* What each part of the comparison finds.
LEMMA DriftsFound ==
    /\ \A sym \in call.of :
          Held(sym) # Quantity({e \in call.seen[1].execs : SymbolOf[OrderOf[e]] = sym}) =>
             \E d \in PositionDrifts : d.severity = "CRITICAL"
    /\ LET delta == Cost(call.seen[2].execs) - Spent
       IN  delta > CashTolerance \/ -delta > CashTolerance =>
             \E d \in BalanceDrifts : d.severity = "CRITICAL"
    /\ \A e \in call.seen[4].execs \ ledger : \E d \in ExecutionDrifts : d.severity = "CRITICAL"
    /\ \A e \in ledger \ call.seen[4].execs : ExecutionDrifts # {}
    /\ \A o \in Orders : made[o] # {} => ExecutionDrifts # {}
    /\ \A o \in Orders : store[o].state \notin Working
                         /\ call.seen[3].status[o] \in {"OPEN", "PARTIALLY_FILLED"} => OrderDrifts # {}
    /\ \A o \in Orders : store[o].state \in Working
                         /\ store[o].state # call.seen[3].status[o] => OrderDrifts # {}
<1>1. \A domain, severity, sym : Drift(domain, severity, sym).severity = severity
  BY DEF Drift
<1>2. ASSUME NEW sym \in call.of,
             Held(sym) # Quantity({e \in call.seen[1].execs : SymbolOf[OrderOf[e]] = sym})
      PROVE  \E d \in PositionDrifts : d.severity = "CRITICAL"
  <2>1. Drift("POSITIONS", "CRITICAL", sym) \in PositionDrifts
    BY <1>2, Zenon DEF PositionDrifts
  <2> QED
    BY <1>1, <2>1, Zenon
<1>3. LET delta == Cost(call.seen[2].execs) - Spent
      IN  delta > CashTolerance \/ -delta > CashTolerance =>
             \E d \in BalanceDrifts : d.severity = "CRITICAL"
  BY <1>1, Zenon DEF BalanceDrifts
<1>4. ASSUME NEW e \in call.seen[4].execs \ ledger
      PROVE  \E d \in ExecutionDrifts : d.severity = "CRITICAL"
  <2>1. Drift("EXECUTIONS", "CRITICAL", SymbolOf[OrderOf[e]]) \in ExecutionDrifts
    BY <1>4, Zenon DEF ExecutionDrifts
  <2> QED
    BY <1>1, <2>1, Zenon
<1>5. ASSUME NEW e \in ledger \ call.seen[4].execs PROVE ExecutionDrifts # {}
  <2>1. Drift("EXECUTIONS", "WARNING", SymbolOf[OrderOf[e]]) \in ExecutionDrifts
    BY <1>5, Zenon DEF ExecutionDrifts
  <2> QED
    BY <2>1, Zenon
<1>6. ASSUME NEW o \in Orders, made[o] # {} PROVE ExecutionDrifts # {}
  <2>1. Drift("EXECUTIONS", "WARNING", SymbolOf[o]) \in ExecutionDrifts
    BY <1>6, Zenon DEF ExecutionDrifts
  <2> QED
    BY <2>1, Zenon
<1>7. ASSUME NEW o \in Orders, store[o].state \notin Working,
             call.seen[3].status[o] \in {"OPEN", "PARTIALLY_FILLED"}
      PROVE  OrderDrifts # {}
  <2> HIDE DEF Working
  <2>1. Drift("ORDERS", "CRITICAL", SymbolOf[o]) \in OrderDrifts
    BY <1>7, Zenon DEF OrderDrifts
  <2> QED
    BY <2>1, Zenon
<1>8. ASSUME NEW o \in Orders, store[o].state \in Working,
             store[o].state # call.seen[3].status[o]
      PROVE  OrderDrifts # {}
  <2> HIDE DEF Working
  <2>1. \/ Drift("ORDERS", "CRITICAL", SymbolOf[o]) \in OrderDrifts
        \/ Drift("ORDERS", "ERROR", SymbolOf[o]) \in OrderDrifts
    BY <1>8, Zenon DEF OrderDrifts
  <2> QED
    BY <2>1, Zenon
<1> QED
  BY <1>2, <1>3, <1>4, <1>5, <1>6, <1>7, <1>8

\* HEALTHY is said of nothing but agreement.
LEMMA HealthyIsAgreement == StatusOf(Drifts) = "HEALTHY" => Drifts = {}
<1>1. \A d \in Drifts : d.severity \in {"CRITICAL", "ERROR", "WARNING"}
  <2>1. \A domain, severity, sym : Drift(domain, severity, sym).severity = severity
    BY DEF Drift
  <2> DEFINE Severe(d) == d.severity \in {"CRITICAL", "ERROR", "WARNING"}
  <2>2. \A domain, sym : /\ Severe(Drift(domain, "CRITICAL", sym))
                         /\ Severe(Drift(domain, "ERROR", sym))
                         /\ Severe(Drift(domain, "WARNING", sym))
    BY <2>1
  <2> HIDE DEF Severe
  <2>3. \A d \in PositionDrifts : Severe(d)
    BY <2>2, Zenon DEF PositionDrifts
  <2>4. \A d \in BalanceDrifts : Severe(d)
    BY <2>2, Zenon DEF BalanceDrifts
  <2>5. \A d \in OrderDrifts : Severe(d)
    BY <2>2, Zenon DEF OrderDrifts
  <2>6. \A d \in ExecutionDrifts : Severe(d)
    BY <2>2, Zenon DEF ExecutionDrifts
  <2>7. \A d \in Drifts : Severe(d)
    BY <2>3, <2>4, <2>5, <2>6, Zenon DEF Drifts
  <2> QED
    BY <2>7 DEF Severe
<1>2. Has(Drifts, "CRITICAL") <=> \E d \in Drifts : d.severity = "CRITICAL"
  BY DEF Has
<1>3. Has(Drifts, "ERROR") <=> \E d \in Drifts : d.severity = "ERROR"
  BY DEF Has
<1> DEFINE D == Drifts
<1>4. \A d \in D : d.severity \in {"CRITICAL", "ERROR", "WARNING"}
  BY <1>1
<1> HIDE DEF D
<1>5. StatusOf(D) = "HEALTHY" => D = {}
  BY <1>4 DEF StatusOf, Has
<1> QED
  BY <1>5 DEF D

\* Only the evaluation ends a comparison with all its answers.
LEMMA JudgedByEvaluate ==
    ASSUME IInv, [Next]_vars, JudgedQuietly PROVE Evaluate
<1>1. /\ call.pc = "query" /\ Len(call.seen) = 4 /\ call'.pc # "query" /\ crashes' = crashes
      /\ crashes \in Nat
  BY ReconcilerAssumption DEF JudgedQuietly, IInv, TypeOK
<1>2. CASE CallStep
  BY <1>1, <1>2 DEF CallStep, Query, QueryFails, Querying, Recovered, Conclude, Find, StepThrough,
     RepairExecute, RepairApply, Repairing, Recover
<1>3. CASE Environment
  BY <1>1, <1>3 DEF Environment, Place, ExchangeCancels, Submit, Answer, StoreCancelled, Trade, Book, Apply
<1>4. CASE (\E m \in Modes : BeginReconcile(m)) \/ (\E e \in Execs : BeginRepair(e))
  BY <1>1, <1>4 DEF BeginReconcile, BeginRepair
<1>5. CASE Crash
  BY <1>1, <1>5 DEF Crash
<1>6. CASE UNCHANGED vars
  BY <1>1, <1>6 DEF vars
<1> QED
  BY <1>2, <1>3, <1>4, <1>5, <1>6 DEF Next

LEMMA JudgedIsRight ==
    ASSUME IInv, [Next]_vars, JudgedQuietly
    PROVE  /\ ~halt'.on =>
                /\ exchange.execs \subseteq ledger
                /\ \A sym \in Symbols : Held(sym) =
                      Quantity({e \in exchange.execs : SymbolOf[OrderOf[e]] = sym})
                /\ Cost(exchange.execs) - Spent \in -CashTolerance .. CashTolerance
           /\ last' = "HEALTHY" =>
                /\ ledger = exchange.execs
                /\ applied = ledger
                /\ {o \in Orders : store[o].state \in Working} = {o \in Orders : Resting(o)}
<1> DEFINE Of(S, sym) == {e \in S : SymbolOf[OrderOf[e]] = sym}
<1>1. halt' = HaltFor(Drifts) /\ last' = StatusOf(Drifts)
  BY JudgedByEvaluate DEF Evaluate
<1>2. /\ call.mode = "FULL" /\ call.of = Symbols /\ Len(call.seen) = 4
      /\ call.seen[1].execs = exchange.execs /\ call.seen[3] = exchange
  BY DEF JudgedQuietly
<1>3. call.seen[2].execs = exchange.execs /\ call.seen[4].execs = exchange.execs
  <2>1. DOMAIN call.seen = 1 .. 4
    BY <1>2 DEF IInv, TypeOK
  <2>2. \A i \in {2, 4} : exchange.execs \subseteq call.seen[i].execs /\ call.seen[i].execs \subseteq exchange.execs
    BY <1>2, <2>1 DEF IInv, Seen
  <2> QED
    BY <2>2
<1>4. Drifts = PositionDrifts \cup BalanceDrifts \cup OrderDrifts \cup ExecutionDrifts
  BY <1>2 DEF Drifts
<1>5. ASSUME ~halt'.on
      PROVE  /\ exchange.execs \subseteq ledger
             /\ \A sym \in Symbols : Held(sym) = Quantity(Of(exchange.execs, sym))
             /\ Cost(exchange.execs) - Spent \in -CashTolerance .. CashTolerance
  <2>1. \A d \in Drifts : d.severity # "CRITICAL"
    BY <1>1, <1>5, Policy DEF Has
  <2>2. exchange.execs \subseteq ledger
    BY <1>3, <1>4, <2>1, DriftsFound
  <2>3. ASSUME NEW sym \in Symbols PROVE Held(sym) = Quantity(Of(exchange.execs, sym))
    <3>1. Held(sym) # Quantity(Of(call.seen[1].execs, sym)) =>
             \E d \in PositionDrifts : d.severity = "CRITICAL"
      BY <1>2, DriftsFound
    <3>2. Of(call.seen[1].execs, sym) = Of(exchange.execs, sym)
      BY <1>2
    <3> HIDE DEF Of
    <3> QED
      BY <1>4, <2>1, <3>1, <3>2
  <2>4. Cost(exchange.execs) - Spent \in -CashTolerance .. CashTolerance
    <3> DEFINE delta == Cost(exchange.execs) - Spent
    <3>1. delta > CashTolerance \/ -delta > CashTolerance =>
             \E d \in BalanceDrifts : d.severity = "CRITICAL"
      BY <1>3, DriftsFound
    <3>2. delta \in Int /\ CashTolerance \in Int
      BY MoneyIsInt, ReconcilerAssumption
    <3> HIDE DEF delta
    <3>3. ~(delta > CashTolerance \/ -delta > CashTolerance)
      BY <1>4, <2>1, <3>1
    <3>4. delta \in -CashTolerance .. CashTolerance
      BY <3>2, <3>3
    <3> QED
      BY <3>4 DEF delta
  <2> QED
    BY <2>2, <2>3, <2>4
<1>6. ASSUME last' = "HEALTHY"
      PROVE  /\ ledger = exchange.execs
             /\ applied = ledger
             /\ {o \in Orders : store[o].state \in Working} = {o \in Orders : Resting(o)}
  <2>1. /\ Drifts = {} /\ ~halt'.on
        /\ OrderDrifts = {} /\ ExecutionDrifts = {}
    <3>1. Drifts = {}
      BY <1>1, <1>6, HealthyIsAgreement
    <3>2. ~HaltFor(Drifts).on
      BY <3>1, Policy DEF Has
    <3> QED
      BY <1>1, <1>4, <3>1, <3>2
  <2>2. ledger = exchange.execs
    BY <1>3, <2>1, DriftsFound
  <2>3. \A o \in Orders : made[o] = {}
    BY <2>1, DriftsFound
  <2>4. applied = ledger
    <3>1. applied \subseteq ledger /\ ledger \subseteq Execs /\ OrderOf \in [Execs -> Orders]
      BY ReconcilerAssumption DEF IInv, AppliedIsExecuted, TypeOK
    <3>2. ASSUME NEW e \in ledger PROVE e \in applied
      <4> DEFINE sym == SymbolOf[OrderOf[e]]
                 ours == {o \in Orders : SymbolOf[o] = sym}
                 f == [o \in Orders |-> Quantity(made[o])]
      <4>1. sym \in Symbols /\ e \in Of(ledger, sym)
        BY <3>1, <3>2 DEF Symbols
      <4>2. Held(sym) = Quantity(Of(applied, sym)) + SumFunctionOnSet(f, ours)
        BY DEF Held
      <4>3. SumFunctionOnSet(f, ours) = 0
        <5>1. \A o \in ours : f[o] = 0
          BY <2>3, QuantityOf
        <5>2. ours \in SUBSET Orders
          OBVIOUS
        <5> HIDE DEF f, ours
        <5> QED
          BY <5>1, <5>2, NothingMade
      <4>4. Held(sym) = Quantity(Of(ledger, sym))
        BY <1>5, <2>1, <2>2, <4>1
      <4>5. Of(ledger, sym) \in SUBSET Execs /\ Of(applied, sym) \in SUBSET Of(ledger, sym)
        BY <3>1
      <4>6. Of(applied, sym) \subseteq applied
        OBVIOUS
      <4> HIDE DEF Of, sym, f, ours
      <4>7. Quantity(Of(applied, sym)) \in Nat
        BY <4>5, QuantityOf
      <4>8. Quantity(Of(applied, sym)) = Quantity(Of(ledger, sym))
        BY <4>2, <4>3, <4>4, <4>7
      <4>9. Of(applied, sym) = Of(ledger, sym)
        BY <4>5, <4>8, QuantityTells
      <4> QED
        BY <4>1, <4>6, <4>9
    <3> QED
      BY <3>1, <3>2
  <2>5. ASSUME NEW o \in Orders PROVE store[o].state \in Working <=> Resting(o)
    <3>1. exchange.status[o] \in {"NONE", "OPEN", "PARTIALLY_FILLED", "FILLED", "CANCELLED"}
      BY DEF IInv, TypeOK, Records
    <3>2. /\ ~(store[o].state \notin Working /\ exchange.status[o] \in {"OPEN", "PARTIALLY_FILLED"})
          /\ ~(store[o].state \in Working /\ store[o].state # exchange.status[o])
      BY <1>2, <2>1, DriftsFound
    <3> QED
      BY <3>1, <3>2 DEF Resting
  <2> QED
    BY <2>2, <2>4, <2>5
<1> QED
  BY <1>5, <1>6

\* After a full reconciliation of a quiet exchange trading is halted, or nothing
\* was missed and positions and cash are the exchange's; and a clean bill of
\* health means that both sides agree on every execution and on the orders at
\* work.
THEOREM ReconcilerMatchesOrHalts == Spec => MatchOrHalt
<1>1. IInv /\ [Next]_vars =>
        [JudgedQuietly =>
          /\ ~halt'.on =>
                /\ exchange.execs \subseteq ledger
                /\ \A sym \in Symbols : Held(sym) =
                      Quantity({e \in exchange.execs : SymbolOf[OrderOf[e]] = sym})
                /\ Cost(exchange.execs) - Spent \in -CashTolerance .. CashTolerance
          /\ last' = "HEALTHY" =>
                /\ ledger = exchange.execs
                /\ applied = ledger
                /\ {o \in Orders : store[o].state \in Working} = {o \in Orders : Resting(o)}]_vars
  BY JudgedIsRight
<1> QED
  BY <1>1, ReconcilerInvariance, PTL DEF MatchOrHalt, Spec

-----------------------------------------------------------------------------
(* The order of the agents *)

\* A set of numbers has a smallest one.
LEMMA SmallestNumber ==
    ASSUME NEW T, T \subseteq Nat, T # {}
    PROVE  \E n \in T : \A m \in T : ~(m < n)
<1>1. PICK n \in T : \A m \in T : ~(<<m, n>> \in OpToRel(<, Nat))
  BY NatLessThanWellFounded, WFMin
<1> QED
  BY <1>1 DEF OpToRel

\* A function of the numbers that starts at b and goes on with F.
LEMMA RunExists ==
    ASSUME NEW S, NEW F \in [S -> S], NEW b \in S
    PROVE  \E f \in [Nat -> S] : f[0] = b /\ \A n \in Nat \ {0} : f[n] = F[f[n - 1]]
<1> DEFINE Runs(g, n) ==
             /\ g \in [Nat -> S] /\ g[0] = b
             /\ \A m \in 1 .. n : g[m] = F[g[m - 1]]
           Bad == {n \in Nat : ~ \E g : Runs(g, n)}
<1>1. \A n \in Nat : \E g : Runs(g, n)
  <2>1. SUFFICES ASSUME Bad # {} PROVE FALSE
    OBVIOUS
  <2>2. PICK n \in Bad : \A m \in Bad : ~(m < n)
    <3>1. Bad \subseteq Nat
      OBVIOUS
    <3> HIDE DEF Bad
    <3> QED
      BY <2>1, <3>1, SmallestNumber
  <2>3. n # 0
    <3>1. Runs([m \in Nat |-> b], 0)
      OBVIOUS
    <3> QED
      BY <3>1
  <2>4. n - 1 \in Nat /\ n - 1 < n
    BY <2>3
  <2>5. PICK g : Runs(g, n - 1)
    BY <2>2, <2>4
  <2> DEFINE h == [g EXCEPT ![n] = F[g[n - 1]]]
  <2>6. Runs(h, n)
    BY <2>3, <2>4, <2>5
  <2> QED
    BY <2>6
<1> DEFINE W(n) == CHOOSE g : Runs(g, n)
           f == [n \in Nat |-> W(n)[n]]
<1>2. \A n \in Nat : Runs(W(n), n)
  BY <1>1
<1> HIDE DEF W
<1>3. f \in [Nat -> S]
  BY <1>2
<1>4. ASSUME NEW n \in Nat, NEW m \in 1 .. n
      PROVE  W(n)[m] = F[W(n)[m - 1]]
  BY <1>2, <1>4
<1>5. \A n \in Nat : W(n)[0] = b
  BY <1>2
<1>6. ASSUME NEW n \in Nat, n # 0
      PROVE  f[n] = F[f[n - 1]]
  <2>1. \A m \in 0 .. n - 1 : W(n)[m] = W(n - 1)[m]
    <3> DEFINE Off == {m \in 0 .. n - 1 : W(n)[m] # W(n - 1)[m]}
    <3>1. SUFFICES ASSUME Off # {} PROVE FALSE
      OBVIOUS
    <3>2. PICK m \in Off : \A k \in Off : ~(k < m)
      <4>1. Off \subseteq Nat
        BY <1>6
      <4> HIDE DEF Off
      <4> QED
        BY <3>1, <4>1, SmallestNumber
    <3>3. m # 0
      BY <1>5, <1>6
    <3>4. m - 1 \in 0 .. n - 1 /\ m - 1 < m /\ m \in 1 .. n /\ m \in 1 .. n - 1 /\ n - 1 \in Nat
      BY <1>6, <3>3
    <3>5. W(n)[m - 1] = W(n - 1)[m - 1]
      BY <3>2, <3>4
    <3>6. W(n)[m] = F[W(n)[m - 1]] /\ W(n - 1)[m] = F[W(n - 1)[m - 1]]
      <4> HIDE DEF Off
      <4> QED
        BY <3>4, <1>4
    <3> QED
      BY <3>5, <3>6
  <2>2. W(n)[n] = F[W(n)[n - 1]]
    BY <1>4, <1>6
  <2>3. W(n)[n - 1] = W(n - 1)[n - 1]
    BY <2>1, <1>6
  <2> QED
    BY <2>2, <2>3, <1>6
<1>7. f[0] = b /\ \A n \in Nat \ {0} : f[n] = F[f[n - 1]]
  BY <1>5, <1>6
<1> HIDE DEF f
<1> QED
  BY <1>3, <1>7

\* What an agent depends on.
Needs(a) == ToSet(Dependencies[a])

LEMMA AgentsAre ==
    AllAgents = {"data", "regime", "quant", "research", "risk", "multistyle", "supervisor", "cio",
                 "portfolio", "review", "rl_agent", "governance", "compliance", "execution", "algo",
                 "tca"}
BY DEF AllAgents, Dependencies

LEMMA NeedsAre ==
    /\ Needs("data") = {} /\ Needs("regime") = {"data"} /\ Needs("quant") = {"data", "regime"}
    /\ Needs("research") = {"data", "regime"} /\ Needs("risk") = {"data", "quant", "regime"}
    /\ Needs("multistyle") = {"data"}
    /\ Needs("supervisor") = {"multistyle", "data", "quant", "research", "risk"}
    /\ Needs("cio") = {"supervisor"} /\ Needs("portfolio") = {"cio"} /\ Needs("review") = {}
    /\ Needs("rl_agent") = {"data", "quant", "research", "risk", "regime"}
    /\ Needs("governance") = {"rl_agent"} /\ Needs("compliance") = {"portfolio"}
    /\ Needs("execution") = {"compliance"} /\ Needs("algo") = {"execution"}
    /\ Needs("tca") = {"algo"}
BY DEF Needs, ToSet, Dependencies

LEMMA NeedsType ==
    \A a \in AllAgents : Dependencies[a] \in Seq(AllAgents) /\ Needs(a) \subseteq AllAgents \ {a}
<1>1. \A a \in AllAgents : Needs(a) \subseteq AllAgents \ {a}
  BY AgentsAre, NeedsAre
<1>2. \A a \in AllAgents : Dependencies[a] \in Seq(AllAgents)
  <2>1. /\ Dependencies["data"] \in Seq(AllAgents) /\ Dependencies["regime"] \in Seq(AllAgents)
        /\ Dependencies["quant"] \in Seq(AllAgents) /\ Dependencies["research"] \in Seq(AllAgents)
        /\ Dependencies["risk"] \in Seq(AllAgents) /\ Dependencies["cio"] \in Seq(AllAgents)
        /\ Dependencies["multistyle"] \in Seq(AllAgents)
    BY AgentsAre DEF Dependencies
  <2>2. /\ Dependencies["supervisor"] \in Seq(AllAgents)
        /\ Dependencies["rl_agent"] \in Seq(AllAgents)
    BY AgentsAre DEF Dependencies
  <2>3. /\ Dependencies["portfolio"] \in Seq(AllAgents) /\ Dependencies["review"] \in Seq(AllAgents)
        /\ Dependencies["governance"] \in Seq(AllAgents) /\ Dependencies["tca"] \in Seq(AllAgents)
        /\ Dependencies["compliance"] \in Seq(AllAgents) /\ Dependencies["algo"] \in Seq(AllAgents)
        /\ Dependencies["execution"] \in Seq(AllAgents)
    BY AgentsAre DEF Dependencies
  <2> QED
    BY AgentsAre, <2>1, <2>2, <2>3
<1> QED
  BY <1>1, <1>2

\* a comes before b.
Precedes(order, a, b) ==
    \E i, j \in DOMAIN order : i < j /\ order[i] = a /\ order[j] = b

Once(order) == \A i, j \in DOMAIN order : order[i] = order[j] => i = j

\* Every registered agent comes after the registered ones it depends on.
Closed(agents, order) ==
    \A i \in DOMAIN order : order[i] \in agents =>
        \A d \in Needs(order[i]) \cap agents : \E j \in 1 .. i - 1 : order[j] = d

Resolutions == [order : Seq(AllAgents), stack : Seq(AllAgents)]

LEMMA EightInARow ==
    ASSUME NEW S, NEW s1 \in Seq(S), NEW s2 \in Seq(S), NEW s3 \in Seq(S), NEW s4 \in Seq(S),
           NEW s5 \in Seq(S), NEW s6 \in Seq(S), NEW s7 \in Seq(S), NEW s8 \in Seq(S)
    PROVE  s1 \o s2 \o s3 \o s4 \o s5 \o s6 \o s7 \o s8 \in Seq(S)
<1>1. s1 \o s2 \in Seq(S)
  OBVIOUS
<1>2. s1 \o s2 \o s3 \in Seq(S)
  BY <1>1
<1>3. s1 \o s2 \o s3 \o s4 \in Seq(S)
  BY <1>2
<1>4. s1 \o s2 \o s3 \o s4 \o s5 \in Seq(S)
  BY <1>3
<1>5. s1 \o s2 \o s3 \o s4 \o s5 \o s6 \in Seq(S)
  BY <1>4
<1>6. s1 \o s2 \o s3 \o s4 \o s5 \o s6 \o s7 \in Seq(S)
  BY <1>5
<1> QED
  BY <1>6

LEMMA TargetsType ==
    ASSUME NEW agents \in SUBSET AllAgents, NEW topics
    PROVE  Targets(agents, topics) \in Seq(AllAgents)
<1> DEFINE Named(t, s) == IF t \in topics THEN s ELSE <<>>
           Here(a) == IF a \in agents THEN <<a>> ELSE <<>>
<1>1. \A t : \A s \in Seq(AllAgents) : Named(t, s) \in Seq(AllAgents)
  OBVIOUS
<1>2. \A a \in AllAgents : Here(a) \in Seq(AllAgents)
  OBVIOUS
<1>3. /\ <<"data">> \in Seq(AllAgents) /\ <<"quant">> \in Seq(AllAgents)
      /\ <<"regime">> \in Seq(AllAgents) /\ <<"research">> \in Seq(AllAgents)
      /\ <<"risk">> \in Seq(AllAgents) /\ <<"review">> \in Seq(AllAgents)
      /\ <<"supervisor">> \in Seq(AllAgents)
      /\ <<"execution", "rl_agent", "portfolio", "compliance">> \in Seq(AllAgents)
  BY AgentsAre
<1>4. Targets(agents, topics) =
        IF topics # {}
        THEN Named("market", <<"data">>) \o Named("technical", <<"quant">>)
             \o Named("regime", <<"regime">>) \o Named("fundamental", <<"research">>)
             \o Named("risk", <<"risk">>)
             \o Named("trade", <<"execution", "rl_agent", "portfolio", "compliance">>)
             \o Named("review", <<"review">>) \o Named("advice", <<"supervisor">>)
        ELSE Here("data") \o Here("regime") \o Here("quant") \o Here("research") \o Here("risk")
             \o Here("multistyle") \o Here("supervisor") \o Here("rl_agent")
  BY DEF Targets
<1>5. /\ Here("data") \in Seq(AllAgents) /\ Here("regime") \in Seq(AllAgents)
      /\ Here("quant") \in Seq(AllAgents) /\ Here("research") \in Seq(AllAgents)
      /\ Here("risk") \in Seq(AllAgents) /\ Here("multistyle") \in Seq(AllAgents)
      /\ Here("supervisor") \in Seq(AllAgents) /\ Here("rl_agent") \in Seq(AllAgents)
  BY <1>2, AgentsAre
<1>6. /\ Named("market", <<"data">>) \in Seq(AllAgents)
      /\ Named("technical", <<"quant">>) \in Seq(AllAgents)
      /\ Named("regime", <<"regime">>) \in Seq(AllAgents)
      /\ Named("fundamental", <<"research">>) \in Seq(AllAgents)
      /\ Named("risk", <<"risk">>) \in Seq(AllAgents)
      /\ Named("trade", <<"execution", "rl_agent", "portfolio", "compliance">>) \in Seq(AllAgents)
      /\ Named("review", <<"review">>) \in Seq(AllAgents)
      /\ Named("advice", <<"supervisor">>) \in Seq(AllAgents)
  BY <1>1, <1>3
<1> HIDE DEF Named, Here
<1> QED
  BY <1>4, <1>5, <1>6, EightInARow

\* A round of the resolution keeps the order closed.
LEMMA VisitKeeps ==
    ASSUME NEW agents \in SUBSET AllAgents, NEW s \in Resolutions
    PROVE  /\ Visit(agents, s) \in Resolutions
           /\ Once(s.order) => Once(Visit(agents, s).order)
           /\ Closed(agents, s.order) => Closed(agents, Visit(agents, s).order)
<1> DEFINE a == Head(s.stack)
           deps == IF a \in agents THEN Dependencies[a] ELSE <<>>
           missing == {i \in DOMAIN deps : deps[i] \in agents \ ToSet(s.order)}
<1>1. CASE s.stack = <<>>
  BY <1>1 DEF Visit
<1>2. CASE s.stack # <<>> /\ a \in ToSet(s.order)
  <2>1. Visit(agents, s) = [s EXCEPT !.stack = Tail(@)]
    BY <1>2 DEF Visit
  <2>2. Tail(s.stack) \in Seq(AllAgents)
    BY <1>2 DEF Resolutions
  <2> QED
    BY <2>1, <2>2 DEF Resolutions
<1>3. CASE s.stack # <<>> /\ a \notin ToSet(s.order) /\ missing # {}
  <2>1. Visit(agents, s) = [s EXCEPT !.stack = <<deps[Min(missing)]>> \o @]
    BY <1>3 DEF Visit
  <2>2. a \in AllAgents /\ deps \in Seq(AllAgents)
    BY <1>3, NeedsType DEF Resolutions
  <2>3. missing \subseteq Nat /\ missing # {}
    BY <1>3, <2>2
  <2>4. Min(missing) \in missing
    <3> HIDE DEF missing
    <3>1. PICK n \in missing : \A m \in missing : ~(m < n)
      BY <2>3, SmallestNumber
    <3>2. n \in missing /\ \A m \in missing : n <= m
      BY <3>1, <2>3
    <3> QED
      BY <3>2 DEF Min
  <2>5. deps[Min(missing)] \in AllAgents
    BY <2>2, <2>4
  <2>6. <<deps[Min(missing)]>> \o s.stack \in Seq(AllAgents)
    <3> DEFINE x == deps[Min(missing)]
    <3> HIDE DEF x
    <3>1. x \in AllAgents
      BY <2>5 DEF x
    <3> QED
      BY <3>1 DEF Resolutions, x
  <2> QED
    BY <2>1, <2>6 DEF Resolutions
<1>4. CASE s.stack # <<>> /\ a \notin ToSet(s.order) /\ missing = {}
  <2>1. Visit(agents, s) = [order |-> Append(s.order, a), stack |-> Tail(s.stack)]
    BY <1>4 DEF Visit
  <2>2. a \in AllAgents /\ s.order \in Seq(AllAgents) /\ Tail(s.stack) \in Seq(AllAgents)
    BY <1>4 DEF Resolutions
  <2> DEFINE o == Append(s.order, a)
  <2>3. /\ o \in Seq(AllAgents) /\ Len(o) = Len(s.order) + 1 /\ DOMAIN o = 1 .. Len(s.order) + 1
        /\ o[Len(o)] = a /\ \A i \in DOMAIN s.order : o[i] = s.order[i]
        /\ DOMAIN s.order = 1 .. Len(s.order) /\ Len(s.order) \in Nat
    BY <2>2
  <2>4. \A i \in DOMAIN s.order : s.order[i] # a
    BY <1>4 DEF ToSet
  <2> HIDE DEF o, a
  <2>5. Once(s.order) => Once(o)
    BY <2>3, <2>4 DEF Once
  <2>6. ASSUME Closed(agents, s.order), NEW i \in DOMAIN o, o[i] \in agents,
               NEW d \in Needs(o[i]) \cap agents
        PROVE  \E j \in 1 .. i - 1 : o[j] = d
    <3>1. CASE i \in DOMAIN s.order
      <4>1. PICK j \in 1 .. i - 1 : s.order[j] = d
        BY <2>3, <2>6, <3>1 DEF Closed
      <4> QED
        BY <2>3, <3>1, <4>1
    <3>2. CASE i = Len(s.order) + 1
      <4>1. a \in agents /\ d \in Needs(a) /\ d \in agents
        BY <2>3, <2>6, <3>2
      <4>2. deps = Dependencies[a]
        BY <4>1
      <4>3. PICK k \in DOMAIN deps : deps[k] = d
        BY <4>1, <4>2 DEF Needs, ToSet
      <4>4. d \in ToSet(s.order)
        BY <1>4, <4>1, <4>3
      <4> QED
        BY <2>3, <3>2, <4>4 DEF ToSet
    <3> QED
      BY <2>3, <3>1, <3>2
  <2>7. Closed(agents, s.order) => Closed(agents, o)
    BY <2>6 DEF Closed
  <2>8. Visit(agents, s).order = o /\ Visit(agents, s).stack = Tail(s.stack)
    BY <2>1 DEF o
  <2>9. Visit(agents, s) \in Resolutions
    BY <2>1, <2>2, <2>3 DEF Resolutions, o
  <2> QED
    BY <2>5, <2>7, <2>8, <2>9
<1> QED
  BY <1>1, <1>2, <1>3, <1>4

\* What a resolution ends with.
LEMMA ResolvedIsClosed ==
    ASSUME NEW agents \in SUBSET AllAgents, NEW topics
    PROVE  /\ Resolved(agents, topics) \in Seq(AllAgents)
           /\ Once(Resolved(agents, topics))
           /\ Closed(agents, Resolved(agents, topics))
<1> DEFINE start == [order |-> <<>>, stack |-> Targets(agents, topics)]
           F == [s \in Resolutions |-> Visit(agents, s)]
           IsRun(v) == v = [n \in Nat |-> IF n = 0 THEN start ELSE Visit(agents, v[n - 1])]
           run == CHOOSE v : IsRun(v)
           Fine(s) == s \in Resolutions /\ Once(s.order) /\ Closed(agents, s.order)
<1>1. start \in Resolutions /\ Fine(start)
  BY TargetsType DEF Resolutions, Once, Closed
<1>2. F \in [Resolutions -> Resolutions]
  BY VisitKeeps
<1>3. IsRun(run)
  <2> HIDE DEF start
  <2>1. PICK f \in [Nat -> Resolutions] : f[0] = start /\ \A n \in Nat \ {0} : f[n] = F[f[n - 1]]
    <3>1. start \in Resolutions
      BY <1>1
    <3> HIDE DEF F, start, Fine, run, IsRun
    <3> QED
      BY <3>1, <1>2, RunExists
  <2>2. ASSUME NEW n \in Nat
        PROVE  f[n] = IF n = 0 THEN start ELSE Visit(agents, f[n - 1])
    <3>1. CASE n = 0
      BY <2>1, <3>1
    <3>2. CASE n # 0
      <4>1. n - 1 \in Nat
        BY <3>2
      <4>2. f[n - 1] \in Resolutions
        BY <4>1
      <4>3. F[f[n - 1]] = Visit(agents, f[n - 1])
        BY <4>2
      <4> HIDE DEF F
      <4> QED
        BY <2>1, <3>2, <4>3
    <3> QED
      BY <3>1, <3>2
  <2>3. f = [n \in Nat |-> IF n = 0 THEN start ELSE Visit(agents, f[n - 1])]
    BY <2>2
  <2>4. IsRun(f)
    BY <2>3
  <2> HIDE DEF F, IsRun
  <2> QED
    BY <2>4
<1>4. Resolved(agents, topics) = run[Rounds].order
  BY DEF Resolved
<1>5. \A n \in Nat : run[n] = IF n = 0 THEN start ELSE Visit(agents, run[n - 1])
  <2> HIDE DEF run, start
  <2> QED
    BY <1>3
<1>6. \A n \in Nat : Fine(run[n])
  <2> HIDE DEF run, start, F
  <2> DEFINE Bad == {n \in Nat : ~Fine(run[n])}
  <2>1. SUFFICES ASSUME Bad # {} PROVE FALSE
    OBVIOUS
  <2>2. Bad \subseteq Nat
    OBVIOUS
  <2>3. PICK n \in Bad : \A m \in Bad : ~(m < n)
    <3> HIDE DEF Bad
    <3> QED
      BY <2>1, <2>2, SmallestNumber
  <2>4. n # 0
    BY <1>1, <1>5
  <2>5. n - 1 \in Nat /\ Fine(run[n - 1]) /\ run[n] = Visit(agents, run[n - 1])
    <3>1. n - 1 \in Nat /\ n - 1 < n
      BY <2>4
    <3> QED
      BY <1>5, <2>3, <2>4, <3>1
  <2>6. Fine(Visit(agents, run[n - 1]))
    BY <2>5, VisitKeeps
  <2> QED
    BY <2>5, <2>6
<1>7. Fine(run[Rounds])
  <2>1. Rounds \in Nat
    BY DEF Rounds
  <2> HIDE DEF run, Fine
  <2> QED
    BY <1>6, <2>1
<1> QED
  <2> HIDE DEF run
  <2> QED
    BY <1>4, <1>7 DEF Resolutions

\* Where an element that is there once is found, and what is left without it.
LEMMA OnceFound ==
    ASSUME NEW S, NEW s \in Seq(S), Once(s), NEW i \in DOMAIN s, NEW x, s[i] = x
    PROVE  /\ {j \in 1 .. Len(s) : s[j] = x} = {i}
           /\ Min({i}) = i
           /\ RemoveFirst(s, x) = RemoveAt(s, i)
<1> DEFINE I == {j \in 1 .. Len(s) : s[j] = x}
<1>1. I = {i}
  BY DEF Once
<1>2. Min({i}) = i
  BY DEF Min
<1>3. SelectInSeq(s, LAMBDA c : c = x) = i
  <2>1. SelectInSeq(s, LAMBDA c : c = x) = IF I # {} THEN Min(I) ELSE 0
    BY DEF SelectInSeq
  <2> QED
    BY <1>1, <1>2, <2>1
<1>4. \E j \in 1 .. Len(s) : s[j] = x
  OBVIOUS
<1>5. RemoveFirst(s, x) = RemoveAt(s, SelectInSeq(s, LAMBDA c : c = x))
  BY <1>4 DEF RemoveFirst
<1> QED
  BY <1>1, <1>2, <1>3, <1>5

LEMMA Joined ==
    ASSUME NEW S, NEW s \in Seq(S), NEW t \in Seq(S)
    PROVE  /\ s \o t \in Seq(S) /\ Len(s \o t) = Len(s) + Len(t)
           /\ \A j \in 1 .. Len(s) : (s \o t)[j] = s[j]
           /\ \A j \in 1 .. Len(t) : (s \o t)[Len(s) + j] = t[j]
OBVIOUS

LEMMA OneMore ==
    ASSUME NEW S, NEW s \in Seq(S), NEW x \in S
    PROVE  /\ s \o <<x>> \in Seq(S) /\ Len(s \o <<x>>) = Len(s) + 1
           /\ (s \o <<x>>)[Len(s) + 1] = x
           /\ \A j \in 1 .. Len(s) : (s \o <<x>>)[j] = s[j]
OBVIOUS

LEMMA LeftOver ==
    ASSUME NEW S, NEW s \in Seq(S), NEW i \in DOMAIN s
    PROVE  /\ RemoveAt(s, i) \in Seq(S) /\ Len(RemoveAt(s, i)) = Len(s) - 1
           /\ \A j \in 1 .. Len(s) - 1 : RemoveAt(s, i)[j] = IF j < i THEN s[j] ELSE s[j + 1]
<1> DEFINE u == SubSeq(s, 1, i - 1)
           v == SubSeq(s, i + 1, Len(s))
<1>1. u \in Seq(S) /\ Len(u) = i - 1 /\ \A j \in 1 .. i - 1 : u[j] = s[j]
  OBVIOUS
<1>2. v \in Seq(S) /\ Len(v) = Len(s) - i /\ \A j \in 1 .. Len(s) - i : v[j] = s[i + j]
  OBVIOUS
<1>3. RemoveAt(s, i) = u \o v
  BY DEF RemoveAt
<1>4. i \in Nat /\ Len(s) \in Nat /\ i >= 1 /\ i <= Len(s)
  OBVIOUS
<1> HIDE DEF u, v
<1>5. /\ u \o v \in Seq(S) /\ Len(u \o v) = Len(s) - 1
      /\ \A j \in 1 .. i - 1 : (u \o v)[j] = s[j]
      /\ \A j \in 1 .. Len(s) - i : (u \o v)[i - 1 + j] = s[i + j]
  <2>0. u \in Seq(S) /\ v \in Seq(S)
    BY <1>1, <1>2
  <2>1. /\ u \o v \in Seq(S) /\ Len(u \o v) = Len(u) + Len(v)
        /\ \A j \in 1 .. Len(u) : (u \o v)[j] = u[j]
        /\ \A j \in 1 .. Len(v) : (u \o v)[Len(u) + j] = v[j]
    BY ONLY <2>0, Joined
  <2>2. Len(u \o v) = Len(s) - 1
    BY <1>1, <1>2, <1>4, <2>1
  <2>3. \A j \in 1 .. i - 1 : (u \o v)[j] = s[j]
    BY <1>1, <1>4, <2>1
  <2>4. \A j \in 1 .. Len(s) - i : (u \o v)[i - 1 + j] = s[i + j]
    BY <1>1, <1>2, <1>4, <2>1
  <2> QED
    BY <2>1, <2>2, <2>3, <2>4
<1>6. ASSUME NEW j \in 1 .. Len(s) - 1, ~(j < i)
      PROVE  (u \o v)[j] = s[j + 1]
  <2>1. j - i + 1 \in 1 .. Len(s) - i
    BY <1>4, <1>6
  <2>2. (u \o v)[i - 1 + (j - i + 1)] = s[i + (j - i + 1)]
    BY <1>5, <2>1
  <2>3. i - 1 + (j - i + 1) = j /\ i + (j - i + 1) = j + 1
    BY <1>4, <1>6
  <2> QED
    BY <2>2, <2>3
<1> QED
  BY <1>3, <1>4, <1>5, <1>6

LEMMA Inserted ==
    ASSUME NEW S, NEW s \in Seq(S), NEW x \in S, NEW i \in 1 .. Len(s) + 1
    PROVE  /\ InsertAt(s, i, x) \in Seq(S) /\ Len(InsertAt(s, i, x)) = Len(s) + 1
           /\ InsertAt(s, i, x)[i] = x
           /\ \A j \in 1 .. i - 1 : InsertAt(s, i, x)[j] = s[j]
           /\ \A j \in i .. Len(s) : InsertAt(s, i, x)[j + 1] = s[j]
<1>1. SubSeq(s, 1, i - 1) \in Seq(S) /\ Len(SubSeq(s, 1, i - 1)) = i - 1
      /\ \A j \in 1 .. i - 1 : SubSeq(s, 1, i - 1)[j] = s[j]
  OBVIOUS
<1>2. SubSeq(s, i, Len(s)) \in Seq(S) /\ Len(SubSeq(s, i, Len(s))) = Len(s) - i + 1
      /\ \A j \in 1 .. Len(s) - i + 1 : SubSeq(s, i, Len(s))[j] = s[i + j - 1]
  OBVIOUS
<1> DEFINE front == SubSeq(s, 1, i - 1) \o <<x>>
<1>3. front \in Seq(S) /\ Len(front) = i /\ front[i] = x /\ \A j \in 1 .. i - 1 : front[j] = s[j]
  <2> DEFINE start == SubSeq(s, 1, i - 1)
  <2> HIDE DEF start
  <2>1. start \in Seq(S) /\ Len(start) = i - 1 /\ \A j \in 1 .. i - 1 : start[j] = s[j]
    BY <1>1 DEF start
  <2>2. front = start \o <<x>>
    BY DEF start
  <2> HIDE DEF front
  <2> QED
    BY <2>1, <2>2, OneMore
<1>4. InsertAt(s, i, x) = front \o SubSeq(s, i, Len(s))
  BY DEF InsertAt
<1> HIDE DEF front
<1>5. /\ InsertAt(s, i, x) \in Seq(S) /\ Len(InsertAt(s, i, x)) = Len(s) + 1
      /\ \A j \in 1 .. i : InsertAt(s, i, x)[j] = front[j]
      /\ \A j \in 1 .. Len(s) - i + 1 : InsertAt(s, i, x)[i + j] = SubSeq(s, i, Len(s))[j]
  <2> DEFINE back == SubSeq(s, i, Len(s))
  <2> HIDE DEF back
  <2>1. /\ front \o back \in Seq(S) /\ Len(front \o back) = Len(front) + Len(back)
        /\ \A j \in 1 .. Len(front) : (front \o back)[j] = front[j]
        /\ \A j \in 1 .. Len(back) : (front \o back)[Len(front) + j] = back[j]
    BY <1>2, <1>3, Joined DEF back
  <2>2. Len(back) = Len(s) - i + 1 /\ Len(front) + Len(back) = Len(s) + 1
    BY <1>2, <1>3 DEF back
  <2> QED
    BY <1>3, <1>4, <2>1, <2>2 DEF back
<1>6. ASSUME NEW j \in i .. Len(s)
      PROVE  InsertAt(s, i, x)[j + 1] = s[j]
  <2>1. j - i + 1 \in 1 .. Len(s) - i + 1
    BY <1>6
  <2>2. InsertAt(s, i, x)[i + (j - i + 1)] = SubSeq(s, i, Len(s))[j - i + 1]
    BY <1>5, <2>1
  <2>3. SubSeq(s, i, Len(s))[j - i + 1] = s[i + (j - i + 1) - 1]
    BY <1>2, <2>1
  <2>4. i + (j - i + 1) = j + 1 /\ i + (j - i + 1) - 1 = j
    BY <1>6
  <2> QED
    BY <2>2, <2>3, <2>4
<1> QED
  BY <1>3, <1>5, <1>6

\* An agent is taken out: the others stay in their order.
LEMMA TakenOut ==
    ASSUME NEW S, NEW s \in Seq(S), Once(s), NEW x \in ToSet(s)
    PROVE  LET o == RemoveFirst(s, x)
           IN  /\ o \in Seq(S) /\ Once(o) /\ ToSet(o) = ToSet(s) \ {x}
               /\ \A a, b \in ToSet(o) : Precedes(s, a, b) => Precedes(o, a, b)
<1>1. PICK i \in DOMAIN s : s[i] = x
  BY DEF ToSet
<1> DEFINE o == RemoveFirst(s, x)
<1>2. /\ o \in Seq(S) /\ Len(o) = Len(s) - 1
      /\ \A j \in 1 .. Len(s) - 1 : o[j] = IF j < i THEN s[j] ELSE s[j + 1]
  <2>1. o = RemoveAt(s, i)
    BY <1>1, OnceFound
  <2> HIDE DEF o
  <2> QED
    BY <2>1, LeftOver
<1>3. DOMAIN o = 1 .. Len(s) - 1 /\ DOMAIN s = 1 .. Len(s) /\ Len(s) \in Nat /\ i \in 1 .. Len(s)
  BY <1>2
<1> HIDE DEF o
<1>4. Once(o)
  BY <1>2, <1>3 DEF Once
<1>5. \A k \in DOMAIN s : s[k] # x => (IF k < i THEN k ELSE k - 1) \in DOMAIN o
                                      /\ o[IF k < i THEN k ELSE k - 1] = s[k]
  BY <1>1, <1>2, <1>3
<1>6. ToSet(o) = ToSet(s) \ {x}
  <2>1. ASSUME NEW j \in DOMAIN o
        PROVE  o[j] \in ToSet(s) \ {x}
    BY <1>1, <1>2, <1>3, <2>1 DEF Once, ToSet
  <2>2. ASSUME NEW a \in ToSet(s) \ {x}
        PROVE  a \in ToSet(o)
    BY <1>5, <2>2 DEF ToSet
  <2> QED
    BY <2>1, <2>2 DEF ToSet
<1>7. ASSUME NEW a \in ToSet(o), NEW b \in ToSet(o), Precedes(s, a, b)
      PROVE  Precedes(o, a, b)
  <2>1. PICK k, l \in DOMAIN s : k < l /\ s[k] = a /\ s[l] = b
    BY <1>7 DEF Precedes
  <2>2. a # x /\ b # x
    BY <1>6, <1>7
  <2>3. (IF k < i THEN k ELSE k - 1) < (IF l < i THEN l ELSE l - 1)
    BY <1>1, <1>3, <2>1, <2>2
  <2> QED
    BY <1>5, <2>1, <2>2, <2>3 DEF Precedes
<1> QED
  BY <1>2, <1>4, <1>6, <1>7 DEF o

\* o is s with x at another place.
Moved(s, o, x) ==
    /\ o \in Seq(AllAgents) /\ Once(o) /\ ToSet(o) = ToSet(s)
    /\ \A a, b \in ToSet(s) \ {x} : Precedes(s, a, b) => Precedes(o, a, b)

LEMMA ToEndIs ==
    ASSUME NEW s \in Seq(AllAgents), Once(s), NEW x
    PROVE  /\ Moved(s, ToEnd(s, x), x)
           /\ x \in ToSet(s) => \A a \in ToSet(s) \ {x} : Precedes(ToEnd(s, x), a, x)
<1>1. CASE x \notin ToSet(s)
  BY <1>1 DEF ToEnd, Moved
<1>2. CASE x \in ToSet(s)
  <2> DEFINE u == RemoveFirst(s, x)
             o == Append(u, x)
  <2>1. /\ u \in Seq(AllAgents) /\ Once(u) /\ ToSet(u) = ToSet(s) \ {x}
        /\ \A a, b \in ToSet(u) : Precedes(s, a, b) => Precedes(u, a, b)
    BY <1>2, TakenOut
  <2>2. ToEnd(s, x) = o /\ x \in AllAgents
    BY <1>2 DEF ToEnd, ToSet
  <2> HIDE DEF u
  <2>3. /\ o \in Seq(AllAgents) /\ DOMAIN o = 1 .. Len(u) + 1 /\ DOMAIN u = 1 .. Len(u)
        /\ Len(u) \in Nat /\ o[Len(u) + 1] = x /\ \A j \in DOMAIN u : o[j] = u[j]
    BY <2>1, <2>2
  <2> HIDE DEF o
  <2>4. \A j \in DOMAIN u : u[j] # x
    BY <2>1 DEF ToSet
  <2>5. Once(o)
    BY <2>1, <2>3, <2>4 DEF Once
  <2>6. ToSet(o) = ToSet(s)
    <3>1. ToSet(o) = ToSet(u) \cup {x}
      BY <2>3 DEF ToSet
    <3> QED
      BY <1>2, <2>1, <3>1
  <2>7. ASSUME NEW a \in ToSet(u), NEW b \in ToSet(u), Precedes(u, a, b)
        PROVE  Precedes(o, a, b)
    BY <2>3, <2>7 DEF Precedes
  <2>8. ASSUME NEW a \in ToSet(u)
        PROVE  Precedes(o, a, x)
    <3>1. PICK i \in DOMAIN u : u[i] = a
      BY DEF ToSet
    <3>2. i \in DOMAIN o /\ Len(u) + 1 \in DOMAIN o /\ i < Len(u) + 1
      BY <2>3
    <3> QED
      BY <2>3, <3>1, <3>2 DEF Precedes
  <2> QED
    BY <2>1, <2>2, <2>3, <2>5, <2>6, <2>7, <2>8 DEF Moved
<1> QED
  BY <1>1, <1>2

LEMMA BehindIs ==
    ASSUME NEW s \in Seq(AllAgents), Once(s), NEW x, NEW h, h # x,
           x \in ToSet(s) => h \in ToSet(s)
    PROVE  /\ Moved(s, Behind(s, x, h), x)
           /\ x \in ToSet(s) =>
                /\ Precedes(Behind(s, x, h), h, x)
                /\ \A a \in ToSet(s) \ {x} : Precedes(s, a, h) => Precedes(Behind(s, x, h), a, x)
<1>1. CASE x \notin ToSet(s)
  BY <1>1 DEF Behind, Moved
<1>2. CASE x \in ToSet(s)
  <2> DEFINE u == RemoveFirst(s, x)
  <2>1. /\ u \in Seq(AllAgents) /\ Once(u) /\ ToSet(u) = ToSet(s) \ {x}
        /\ \A a, b \in ToSet(u) : Precedes(s, a, b) => Precedes(u, a, b)
    BY <1>2, TakenOut
  <2>2. x \in AllAgents /\ h \in ToSet(u)
    <3>1. x \in AllAgents
      BY <1>2 DEF ToSet
    <3> HIDE DEF u
    <3> QED
      BY <1>2, <2>1, <3>1
  <2>3. LET I == {j \in 1 .. Len(u) : u[j] = h}
        IN  Behind(s, x, h) = InsertAt(u, (IF I # {} THEN Min(I) ELSE 0) + 1, x)
    BY <1>2 DEF Behind, SelectInSeq
  <2> HIDE DEF u
  <2>4. PICK k \in DOMAIN u : u[k] = h
    BY <2>2 DEF ToSet
  <2>5. {j \in 1 .. Len(u) : u[j] = h} = {k} /\ Min({k}) = k
    BY <2>1, <2>4, OnceFound
  <2> DEFINE o == InsertAt(u, k + 1, x)
             To(j) == IF j <= k THEN j ELSE j + 1
  <2>6. Behind(s, x, h) = o
    BY <2>3, <2>5
  <2>7. DOMAIN u = 1 .. Len(u) /\ Len(u) \in Nat /\ k \in 1 .. Len(u) /\ k + 1 \in 1 .. Len(u) + 1
    BY <2>1, <2>4
  <2>8. /\ o \in Seq(AllAgents) /\ Len(o) = Len(u) + 1 /\ o[k + 1] = x
        /\ \A j \in 1 .. k + 1 - 1 : o[j] = u[j]
        /\ \A j \in k + 1 .. Len(u) : o[j + 1] = u[j]
    <3>1. u \in Seq(AllAgents) /\ x \in AllAgents /\ k + 1 \in 1 .. Len(u) + 1
      BY <2>1, <2>2, <2>7
    <3> QED
      BY ONLY <3>1, Inserted
  <2> HIDE DEF o
  <2>9. DOMAIN o = 1 .. Len(u) + 1 /\ k + 1 \in DOMAIN o
    BY <2>7, <2>8
  <2>10. \A j \in DOMAIN u : To(j) \in DOMAIN o /\ To(j) # k + 1 /\ o[To(j)] = u[j]
    BY <2>7, <2>8, <2>9
  <2>11. \A i \in DOMAIN o : i # k + 1 => \E j \in DOMAIN u : To(j) = i
    <3>1. ASSUME NEW i \in DOMAIN o, i # k + 1
          PROVE  \E j \in DOMAIN u : To(j) = i
      <4>1. CASE i <= k
        BY <2>7, <4>1, <2>9
      <4>2. CASE i > k + 1
        <5>1. i - 1 \in DOMAIN u /\ To(i - 1) = i
          BY <2>7, <2>9, <4>2
        <5> QED
          BY <5>1
      <4> QED
        BY <3>1, <4>1, <4>2, <2>7, <2>9
    <3> QED
      BY <3>1
  <2>12. \A j, l \in DOMAIN u : j < l => To(j) < To(l)
    BY <2>7
  <2> HIDE DEF To
  <2>13. \A j \in DOMAIN u : u[j] # x
    BY <2>1 DEF ToSet
  <2>14. Once(o)
    <3>1. ASSUME NEW i \in DOMAIN o, NEW l \in DOMAIN o, o[i] = o[l], i # k + 1
          PROVE  i = l
      <4>1. PICK j \in DOMAIN u : To(j) = i
        BY <2>11, <3>1
      <4>2. l # k + 1
        BY <2>8, <2>10, <2>13, <3>1, <4>1
      <4>3. PICK m \in DOMAIN u : To(m) = l
        BY <2>11, <4>2
      <4>4. u[j] = u[m]
        BY <2>10, <3>1, <4>1, <4>3
      <4> QED
        BY <2>1, <4>1, <4>3, <4>4 DEF Once
    <3> QED
      BY <3>1 DEF Once
  <2>15. ToSet(o) = ToSet(s)
    <3>1. ASSUME NEW i \in DOMAIN o
          PROVE  o[i] \in ToSet(u) \cup {x}
      BY <2>8, <2>10, <2>11 DEF ToSet
    <3>2. ASSUME NEW a \in ToSet(u) \cup {x}
          PROVE  a \in ToSet(o)
      BY <2>8, <2>9, <2>10 DEF ToSet
    <3>3. ToSet(o) = ToSet(u) \cup {x}
      BY <3>1, <3>2 DEF ToSet
    <3> QED
      BY <1>2, <2>1, <3>3
  <2>16. ASSUME NEW a, NEW b, Precedes(u, a, b)
         PROVE  Precedes(o, a, b)
    <3>1. PICK i, j \in DOMAIN u : i < j /\ u[i] = a /\ u[j] = b
      BY <2>16 DEF Precedes
    <3>2. To(i) < To(j) /\ To(i) \in DOMAIN o /\ To(j) \in DOMAIN o /\ o[To(i)] = a /\ o[To(j)] = b
      BY <2>10, <2>12, <3>1
    <3> QED
      BY <3>2 DEF Precedes
  <2>17. To(k) = k /\ k \in DOMAIN o /\ k < k + 1 /\ o[k] = h
    <3>1. To(k) = k
      BY <2>7 DEF To
    <3> QED
      BY <2>4, <2>7, <2>9, <2>10, <3>1
  <2>18. Precedes(o, h, x)
    BY <2>8, <2>9, <2>17 DEF Precedes
  <2>19. ASSUME NEW a \in ToSet(s) \ {x}, Precedes(s, a, h)
         PROVE  Precedes(o, a, x)
    <3>1. PICK i, j \in DOMAIN u : i < j /\ u[i] = a /\ u[j] = h
      BY <2>1, <2>2, <2>19 DEF Precedes
    <3>2. j = k
      BY <2>1, <2>4, <3>1 DEF Once
    <3>3. To(i) < To(k) /\ To(i) \in DOMAIN o /\ o[To(i)] = a
      BY <2>10, <2>12, <3>1, <3>2
    <3>4. To(i) < k + 1
      BY <2>7, <2>9, <2>17, <3>3
    <3> QED
      BY <2>8, <2>9, <3>3, <3>4 DEF Precedes
  <2> QED
    BY <2>1, <2>6, <2>8, <2>14, <2>15, <2>16, <2>18, <2>19 DEF Moved
<1> QED
  BY <1>1, <1>2

\* The agents of K come after the registered ones they depend on.
Sorted(agents, s, K) ==
    \A a \in K \cap agents \cap ToSet(s) : \A d \in Needs(a) \cap agents : Precedes(s, d, a)

\* A move disturbs only what is moved.
LEMMA MoveSorts ==
    ASSUME NEW agents, NEW s \in Seq(AllAgents), NEW o, NEW x, Moved(s, o, x),
           NEW K, Sorted(agents, s, K), x \notin K,
           \A a \in K : Needs(a) \subseteq K,
           x \in agents \cap ToSet(s) => \A d \in Needs(x) \cap agents : Precedes(o, d, x)
    PROVE  Sorted(agents, o, K \cup {x})
<1>1. SUFFICES ASSUME NEW a \in (K \cup {x}) \cap agents \cap ToSet(o),
                      NEW d \in Needs(a) \cap agents
               PROVE  Precedes(o, d, a)
  BY DEF Sorted
<1>2. a \in ToSet(s)
  BY <1>1 DEF Moved
<1>3. CASE a = x
  BY <1>2, <1>3
<1>4. CASE a # x
  <2>1. a \in K /\ d \in K /\ Precedes(s, d, a)
    BY <1>1, <1>2, <1>4 DEF Sorted
  <2>2. d \in ToSet(s)
    BY <2>1 DEF Precedes, ToSet
  <2> QED
    BY <1>2, <1>4, <2>1, <2>2 DEF Moved
<1> QED
  BY <1>3, <1>4

LEMMA ClosedIsSorted ==
    ASSUME NEW agents \in SUBSET AllAgents, NEW s \in Seq(AllAgents), Once(s)
    PROVE  Closed(agents, s) <=> Sorted(agents, s, AllAgents)
<1>1. DOMAIN s = 1 .. Len(s) /\ Len(s) \in Nat
  OBVIOUS
<1>2. ASSUME Closed(agents, s), NEW a \in AllAgents \cap agents \cap ToSet(s),
             NEW d \in Needs(a) \cap agents
      PROVE  Precedes(s, d, a)
  <2>1. PICK i \in DOMAIN s : s[i] = a
    BY DEF ToSet
  <2>2. PICK j \in 1 .. i - 1 : s[j] = d
    BY <1>2, <2>1 DEF Closed
  <2>3. j \in DOMAIN s /\ j < i
    BY <1>1, <2>2
  <2> QED
    BY <2>1, <2>2, <2>3 DEF Precedes
<1>3. ASSUME Sorted(agents, s, AllAgents), NEW i \in DOMAIN s, s[i] \in agents,
             NEW d \in Needs(s[i]) \cap agents
      PROVE  \E j \in 1 .. i - 1 : s[j] = d
  <2>1. s[i] \in AllAgents /\ s[i] \in ToSet(s)
    BY DEF ToSet
  <2>2. PICK j, k \in DOMAIN s : j < k /\ s[j] = d /\ s[k] = s[i]
    BY <1>3, <2>1 DEF Sorted, Precedes
  <2>3. k = i
    BY <2>2 DEF Once
  <2>4. j \in 1 .. i - 1
    BY <1>1, <2>2, <2>3
  <2> QED
    BY <2>2, <2>4
<1> QED
  BY <1>2, <1>3 DEF Closed, Sorted

Analysts == {"data", "regime", "quant", "research", "risk", "multistyle", "review"}

\* The moves of route_query leave an order closed that the resolution has closed.
LEMMA PlacedIsClosed ==
    ASSUME NEW agents \in SUBSET AllAgents, NEW order \in Seq(AllAgents), Once(order),
           Closed(agents, order), ~Unplaceable(order)
    PROVE  /\ Placed(order) \in Seq(AllAgents)
           /\ ToSet(Placed(order)) = ToSet(order)
           /\ Once(Placed(order)) /\ Closed(agents, Placed(order))
<1> DEFINE o1 == ToEnd(order, "supervisor")
           o2 == Behind(o1, "rl_agent", "supervisor")
           h3 == EitherOf(o2, "rl_agent", "supervisor")
           o3 == Behind(o2, "governance", h3)
           o4 == Behind(o3, "cio", "supervisor")
           h5 == EitherOf(o4, "cio", "supervisor")
           o5 == Behind(o4, "portfolio", h5)
           h6 == EitherOf(o5, "portfolio", "supervisor")
           o6 == Behind(o5, "compliance", h6)
           o7 == ToEnd(o6, "execution")
           o8 == ToEnd(o7, "algo")
           o9 == ToEnd(o8, "tca")
           K1 == Analysts \cup {"supervisor"}
           K2 == K1 \cup {"rl_agent"}
           K3 == K2 \cup {"governance"}
           K4 == K3 \cup {"cio"}
           K5 == K4 \cup {"portfolio"}
           K6 == K5 \cup {"compliance"}
           K7 == K6 \cup {"execution"}
           K8 == K7 \cup {"algo"}
           K9 == K8 \cup {"tca"}
           Fine(o, K) == o \in Seq(AllAgents) /\ Once(o) /\ ToSet(o) = ToSet(order)
                         /\ Sorted(agents, o, K)
<1>1. Placed(order) = o9
  BY DEF Placed
<1>2. K9 = AllAgents
  BY AgentsAre DEF Analysts
<1>3. /\ \A a \in Analysts : Needs(a) \subseteq Analysts
      /\ \A a \in K1 : Needs(a) \subseteq K1
      /\ \A a \in K2 : Needs(a) \subseteq K2
      /\ \A a \in K3 : Needs(a) \subseteq K3
      /\ \A a \in K4 : Needs(a) \subseteq K4
      /\ \A a \in K5 : Needs(a) \subseteq K5
      /\ \A a \in K6 : Needs(a) \subseteq K6
      /\ \A a \in K7 : Needs(a) \subseteq K7
      /\ \A a \in K8 : Needs(a) \subseteq K8
  BY NeedsAre DEF Analysts
<1>4. /\ "supervisor" \notin Analysts /\ "rl_agent" \notin K1 /\ "governance" \notin K2
      /\ "cio" \notin K3 /\ "portfolio" \notin K4 /\ "compliance" \notin K5
      /\ "execution" \notin K6 /\ "algo" \notin K7 /\ "tca" \notin K8
  BY DEF Analysts
<1>5. \A a \in agents \cap ToSet(order) : Needs(a) \cap agents \subseteq ToSet(order)
  BY DEF Closed, ToSet
<1>6. \A a \in {"rl_agent", "governance", "cio", "portfolio", "compliance"} :
          a \in ToSet(order) => "supervisor" \in ToSet(order)
  BY DEF Unplaceable
<1>7. \A a \in AllAgents : a \notin Needs(a)
  BY NeedsType
<1>8. Fine(order, Analysts)
  BY ClosedIsSorted, AgentsAre DEF Sorted, Analysts
<1>9. Fine(o1, K1)
      /\ ("supervisor" \in ToSet(order) =>
            \A a \in ToSet(order) \ {"supervisor"} : Precedes(o1, a, "supervisor"))
  <2>1. /\ Moved(order, o1, "supervisor")
        /\ "supervisor" \in ToSet(order) =>
              \A a \in ToSet(order) \ {"supervisor"} : Precedes(o1, a, "supervisor")
    BY ToEndIs
  <2>2. Sorted(agents, o1, K1)
    <3>1. "supervisor" \in agents \cap ToSet(order) =>
             \A d \in Needs("supervisor") \cap agents : Precedes(o1, d, "supervisor")
      BY <1>5, <1>7, <2>1, AgentsAre
    <3> HIDE DEF o1
    <3> QED
      BY <1>3, <1>4, <1>8, <2>1, <3>1, MoveSorts
  <2> QED
    BY <2>1, <2>2 DEF Moved
<1> HIDE DEF o1
<1>10. Fine(o2, K2)
  <2>1. /\ Moved(o1, o2, "rl_agent")
        /\ "rl_agent" \in ToSet(o1) =>
              \A a \in ToSet(o1) \ {"rl_agent"} :
                  Precedes(o1, a, "supervisor") => Precedes(o2, a, "rl_agent")
    <3>1. "rl_agent" \in ToSet(o1) => "supervisor" \in ToSet(o1)
      BY <1>6, <1>9
    <3> QED
      BY <1>9, <3>1, BehindIs
  <2>2. "rl_agent" \in agents \cap ToSet(o1) =>
          \A d \in Needs("rl_agent") \cap agents : Precedes(o2, d, "rl_agent")
    <3>1. "rl_agent" \notin Needs("rl_agent") /\ "supervisor" \notin Needs("rl_agent")
      BY NeedsAre
    <3> QED
      BY <1>5, <1>6, <1>9, <2>1, <3>1
  <2>3. Sorted(agents, o2, K2)
    <3> HIDE DEF o2
    <3> QED
      BY <1>3, <1>4, <1>9, <2>1, <2>2, MoveSorts
  <2> QED
    BY <1>9, <2>1, <2>3 DEF Moved
<1> HIDE DEF o2
\* The moves behind an agent x depends on, or behind the supervisor.
<1>11. ASSUME NEW s, NEW K, Fine(s, K), NEW x, NEW y, NEW h, h = EitherOf(s, y, "supervisor"),
              x \in {"governance", "cio", "portfolio", "compliance"}, x # y, Needs(x) = {y},
              x \notin K, \A a \in K : Needs(a) \subseteq K
       PROVE  Fine(Behind(s, x, h), K \cup {x})
  <2> DEFINE o == Behind(s, x, h)
  <2>1. h \in {y, "supervisor"} /\ h # x /\ (x \in ToSet(s) => h \in ToSet(s))
    BY <1>6, <1>11 DEF EitherOf
  <2>2. /\ Moved(s, o, x)
        /\ x \in ToSet(s) => Precedes(o, h, x)
    BY <1>11, <2>1, BehindIs
  <2>3. x \in agents \cap ToSet(s) => \A d \in Needs(x) \cap agents : Precedes(o, d, x)
    <3> HIDE DEF o
    <3> QED
      BY <1>5, <1>11, <2>2 DEF EitherOf
  <2> HIDE DEF o
  <2>4. Sorted(agents, o, K \cup {x})
    BY <1>11, <2>2, <2>3, MoveSorts
  <2>5. Fine(o, K \cup {x})
    BY <1>11, <2>2, <2>4 DEF Moved
  <2> QED
    BY <2>5 DEF o
\* The moves to the end.
<1>12. ASSUME NEW s, NEW K, Fine(s, K), NEW x \in AllAgents,
              x \notin K, \A a \in K : Needs(a) \subseteq K
       PROVE  Fine(ToEnd(s, x), K \cup {x})
  <2> DEFINE o == ToEnd(s, x)
  <2>1. /\ Moved(s, o, x)
        /\ x \in ToSet(s) => \A a \in ToSet(s) \ {x} : Precedes(o, a, x)
    BY <1>12, ToEndIs
  <2> HIDE DEF o
  <2>2. x \in agents \cap ToSet(s) => \A d \in Needs(x) \cap agents : Precedes(o, d, x)
    BY <1>5, <1>7, <1>12, <2>1
  <2>3. Sorted(agents, o, K \cup {x})
    BY <1>12, <2>1, <2>2, MoveSorts
  <2>4. Fine(o, K \cup {x})
    BY <1>12, <2>1, <2>3 DEF Moved
  <2> QED
    BY <2>4 DEF o
<1> HIDE DEF Fine
<1>13. Fine(o3, K3)
  <2>1. Needs("governance") = {"rl_agent"}
    BY NeedsAre
  <2> HIDE DEF K2
  <2> QED
    BY <1>3, <1>4, <1>10, <1>11, <2>1
<1> HIDE DEF o3
<1>14. Fine(o4, K4)
  <2>1. Needs("cio") = {"supervisor"} /\ "supervisor" = EitherOf(o3, "supervisor", "supervisor")
    BY NeedsAre DEF EitherOf
  <2> HIDE DEF K3
  <2> QED
    BY <1>3, <1>4, <1>13, <1>11, <2>1
<1> HIDE DEF o4
<1>15. Fine(o5, K5)
  <2>1. Needs("portfolio") = {"cio"}
    BY NeedsAre
  <2> HIDE DEF K4
  <2> QED
    BY <1>3, <1>4, <1>14, <1>11, <2>1
<1> HIDE DEF o5
<1>16. Fine(o6, K6)
  <2>1. Needs("compliance") = {"portfolio"}
    BY NeedsAre
  <2> HIDE DEF K5
  <2> QED
    BY <1>3, <1>4, <1>15, <1>11, <2>1
<1> HIDE DEF o6
<1>17. "execution" \in AllAgents /\ "algo" \in AllAgents /\ "tca" \in AllAgents
  BY AgentsAre
<1>18. Fine(o7, K7)
  <2> HIDE DEF K6
  <2> QED
    BY <1>3, <1>4, <1>12, <1>16, <1>17
<1> HIDE DEF o7
<1>19. Fine(o8, K8)
  <2> HIDE DEF K7
  <2> QED
    BY <1>3, <1>4, <1>12, <1>18, <1>17
<1> HIDE DEF o8
<1>20. Fine(o9, K9)
  <2> HIDE DEF K8
  <2> QED
    BY <1>3, <1>4, <1>12, <1>19, <1>17
<1> HIDE DEF o9
<1> QED
  BY <1>1, <1>2, <1>20, ClosedIsSorted DEF Fine

\* What route_query runs: whatever the query names, no agent runs before a
\* registered one it depends on, and none runs twice.
THEOREM PlanIsClosed ==
    ASSUME NEW agents \in Registrations, NEW topics \in Topics, Plan[agents][topics] # None
    PROVE  /\ Plan[agents][topics] \in Seq(AllAgents)
           /\ Once(Plan[agents][topics]) /\ Closed(agents, Plan[agents][topics])
<1> DEFINE order == Resolved(agents, topics)
<1>1. agents \in SUBSET AllAgents
  BY RouterAssumption
<1>2. order \in Seq(AllAgents) /\ Once(order) /\ Closed(agents, order)
  BY <1>1, ResolvedIsClosed
<1>3. Plan[agents][topics] = IF Unplaceable(order) THEN None ELSE Placed(order)
  BY DEF Plan
<1>4. ~Unplaceable(order)
  BY <1>3
<1> HIDE DEF order
<1>5. Placed(order) \in Seq(AllAgents) /\ Once(Placed(order)) /\ Closed(agents, Placed(order))
  BY <1>1, <1>2, <1>4, PlacedIsClosed
<1> QED
  BY <1>3, <1>4, <1>5

-----------------------------------------------------------------------------
(* The queries *)

RouterState ==
    /\ registered \in Registrations
    /\ halted \in BOOLEAN
    /\ stage \in [Queries -> Stages]
    /\ plan \in [Queries -> Seq(AllAgents)]
    /\ at \in [Queries -> Nat]
    /\ running \in [Queries -> AllAgents \cup {None}]
    /\ results \in [Queries -> SUBSET registered]
    /\ errors \in [Queries -> SUBSET registered]
    /\ final = [q \in Queries |-> final[q]]
    /\ status \in [AllAgents -> {"idle", "active", "error"}]

\* The registered agents among the first n of a plan, and those that ran or run.
Upto(q, n) == {plan[q][i] : i \in 1 .. n} \cap registered
Reached(q) == results[q] \cup errors[q] \cup ({running[q]} \ {None})

\* What a lane has behind it has run, every other agent has not; the slow lane
\* begins where all of the fast one has run.
QueryInv(q) ==
    /\ stage[q] \in {"new", "waiting", "rejected", "raised"} =>
          running[q] = None /\ results[q] = {} /\ errors[q] = {} /\ at[q] = 0
    /\ stage[q] \in {"fast", "slow"} =>
          Closed(registered, plan[q]) /\ at[q] \in 0 .. Len(plan[q])
    /\ stage[q] = "fast" => Reached(q) = Upto(q, at[q]) \cap FastLane
    /\ stage[q] = "slow" =>
          Reached(q) = (Upto(q, Len(plan[q])) \cap FastLane) \cup (Upto(q, at[q]) \ FastLane)
    /\ running[q] # None => /\ stage[q] \in {"fast", "slow"}
                            /\ at[q] \in 1 .. Len(plan[q])
                            /\ running[q] = plan[q][at[q]] /\ InLane(q, at[q])
    /\ LET f == final[q]
           ran == ToSet(plan[q]) \cap registered
       IN  f # None => /\ stage[q] = "done"
                       /\ f.results \cup f.errors = ran
                       /\ f.success => f.results = ran

\* Who is at the lock; only the first may have it.
QueueInv ==
    /\ queue \in Seq(Queries) /\ Once(queue)
    /\ ToSet(queue) = {q \in Queries : stage[q] \in {"waiting", "fast"}}
    /\ \A i \in DOMAIN queue : i # 1 => stage[queue[i]] = "waiting"

\* An agent shown as active is the one some lane waits for.
StatusInv == \A a \in AllAgents : status[a] = "active" => \E q \in Queries : running[q] = a

RouterIInv ==
    /\ RouterState
    /\ \A q \in Queries : QueryInv(q)
    /\ QueueInv
    /\ StatusInv

\* The invariant says what RouterInv says.
LEMMA RouterInvHolds == RouterIInv => RouterInv
<1> SUFFICES ASSUME RouterIInv PROVE RouterInv
  OBVIOUS
<1> USE DEF RouterIInv
<1>1. RouterTypes
  BY DEF RouterState, QueueInv, RouterTypes
<1>2. AnalystsFirst
  <2>1. SUFFICES ASSUME NEW q \in Queries, running[q] # None,
                        NEW d \in (Needs(running[q]) \cap registered)
                                    \ (IF running[q] \in FastLane THEN {"regime"} ELSE {})
                 PROVE  d \in results[q] \cup errors[q]
    BY DEF AnalystsFirst, Needs
  <2> DEFINE a == running[q]
             n == at[q]
  <2>2. /\ stage[q] \in {"fast", "slow"} /\ n \in 1 .. Len(plan[q]) /\ a = plan[q][n]
        /\ a \in registered /\ (a \in FastLane <=> stage[q] = "fast")
        /\ plan[q] \in Seq(AllAgents) /\ a \in AllAgents
    BY <2>1 DEF QueryInv, RouterState, InLane
  <2>3. PICK j \in 1 .. n - 1 : plan[q][j] = d
    BY <2>1, <2>2 DEF QueryInv, Closed
  <2>4. d # a
    BY <2>1, <2>2, NeedsType
  <2>5. d \in Reached(q)
    <3>1. d \in Upto(q, n) /\ d \in Upto(q, Len(plan[q]))
      BY <2>1, <2>2, <2>3 DEF Upto
    <3>2. CASE stage[q] = "fast"
      <4>1. d \in FastLane
        BY <2>1, <2>2, <3>2, NeedsAre DEF FastLane
      <4> QED
        BY <3>1, <3>2, <4>1 DEF QueryInv
    <3>3. CASE stage[q] = "slow"
      BY <3>1, <3>3 DEF QueryInv
    <3> QED
      BY <2>2, <3>2, <3>3
  <2> QED
    BY <2>4, <2>5 DEF Reached
<1>3. OneFastLane
  <2>1. SUFFICES ASSUME NEW q \in Queries, stage[q] = "fast"
                 PROVE  Head(queue) = q
    BY DEF OneFastLane
  <2>2. PICK i \in DOMAIN queue : queue[i] = q
    BY <2>1 DEF QueueInv, ToSet
  <2> QED
    BY <2>1, <2>2 DEF QueueInv
<1>4. FinalTells
  BY DEF FinalTells, QueryInv
<1>5. StatusSettles
  BY RouterAssumption DEF StatusSettles, StatusInv
<1> QED
  BY <1>1, <1>2, <1>3, <1>4, <1>5 DEF RouterInv

LEMMA RouterInitHolds == RouterInit => RouterIInv
<1> SUFFICES ASSUME RouterInit PROVE RouterIInv
  OBVIOUS
<1> USE DEF RouterInit
<1>1. RouterState
  <2>1. /\ registered \in Registrations /\ halted \in BOOLEAN
        /\ stage \in [Queries -> Stages] /\ at \in [Queries -> Nat]
        /\ results \in [Queries -> SUBSET registered] /\ errors \in [Queries -> SUBSET registered]
    BY DEF Stages
  <2>2. plan \in [Queries -> Seq(AllAgents)]
    OBVIOUS
  <2>3. running \in [Queries -> AllAgents \cup {None}]
    OBVIOUS
  <2>4. status \in [AllAgents -> {"idle", "active", "error"}]
    OBVIOUS
  <2>5. final = [q \in Queries |-> final[q]]
    OBVIOUS
  <2> QED
    BY <2>1, <2>2, <2>3, <2>4, <2>5 DEF RouterState
<1>2. ASSUME NEW q \in Queries PROVE QueryInv(q)
  BY DEF QueryInv
<1>3. QueueInv
  BY DEF QueueInv, Once, ToSet
<1>4. StatusInv
  BY DEF StatusInv
<1> QED
  BY <1>1, <1>2, <1>3, <1>4 DEF RouterIInv

\* A query whose state does not change keeps its invariant.
LEMMA OtherQuery ==
    ASSUME NEW q, QueryInv(q), registered' = registered,
           stage'[q] = stage[q], plan'[q] = plan[q], at'[q] = at[q], running'[q] = running[q],
           results'[q] = results[q], errors'[q] = errors[q], final'[q] = final[q]
    PROVE  QueryInv(q)'
BY DEF QueryInv, Closed, Reached, Upto, InLane

\* Nothing that the queries at the lock depend on changes.
LEMMA SameQueue ==
    ASSUME QueueInv, queue' = queue, \A q \in Queries : stage'[q] = stage[q]
    PROVE  QueueInv'
<1>1. \A i \in DOMAIN queue : queue[i] \in Queries
  BY DEF QueueInv
<1>2. {q \in Queries : stage'[q] \in {"waiting", "fast"}}
        = {q \in Queries : stage[q] \in {"waiting", "fast"}}
  OBVIOUS
<1> QED
  BY <1>1, <1>2 DEF QueueInv

\* Asked, refused, or halted.
LEMMA AskKeeps ==
    ASSUME RouterIInv, NEW q \in Queries, Ask(q)
    PROVE  RouterIInv'
<1> USE DEF Ask, RouterIInv
<1>1. RouterState'
  BY DEF RouterState, Stages
<1>2. stage'[q] = "waiting" /\ \A p \in Queries \ {q} : stage'[p] = stage[p]
  BY DEF RouterState
<1>3. ASSUME NEW p \in Queries PROVE QueryInv(p)'
  <2>1. CASE p # q
    BY <2>1, <1>2, OtherQuery
  <2>2. CASE p = q
    BY <2>2, <1>2 DEF QueryInv
  <2> QED
    BY <2>1, <2>2
<1>4. QueueInv'
  <2>1. q \notin ToSet(queue) /\ queue \in Seq(Queries) /\ Once(queue)
    BY DEF QueueInv
  <2>2. /\ queue' \in Seq(Queries) /\ DOMAIN queue' = 1 .. Len(queue) + 1
        /\ DOMAIN queue = 1 .. Len(queue) /\ Len(queue) \in Nat
        /\ queue'[Len(queue) + 1] = q /\ \A i \in DOMAIN queue : queue'[i] = queue[i]
    BY <2>1
  <2>3. \A i \in DOMAIN queue : queue[i] # q
    BY <2>1 DEF ToSet
  <2>4. Once(queue')
    BY <2>1, <2>2, <2>3 DEF Once
  <2>5. ToSet(queue') = ToSet(queue) \cup {q}
    BY <2>2 DEF ToSet
  <2>6. {p \in Queries : stage'[p] \in {"waiting", "fast"}}
          = {p \in Queries : stage[p] \in {"waiting", "fast"}} \cup {q}
    BY <1>2
  <2>7. ASSUME NEW i \in DOMAIN queue', i # 1 PROVE stage'[queue'[i]] = "waiting"
    <3>1. CASE i \in DOMAIN queue
      <4>1. stage[queue[i]] = "waiting" /\ queue[i] \in Queries
        BY <2>1, <2>7, <3>1 DEF QueueInv
      <4> QED
        BY <1>2, <2>2, <2>3, <3>1, <4>1
    <3>2. CASE i = Len(queue) + 1
      BY <1>2, <2>2, <3>2
    <3> QED
      BY <2>2, <3>1, <3>2
  <2>8. ToSet(queue) = {p \in Queries : stage[p] \in {"waiting", "fast"}}
    BY DEF QueueInv
  <2>9. (ToSet(queue) = {p \in Queries : stage[p] \in {"waiting", "fast"}})'
    BY <2>5, <2>6, <2>8
  <2> QED
    BY <2>2, <2>4, <2>7, <2>9 DEF QueueInv
<1>5. StatusInv'
  BY DEF StatusInv
<1> QED
  BY <1>1, <1>3, <1>4, <1>5

LEMMA RejectKeeps ==
    ASSUME RouterIInv, NEW q \in Queries, Reject(q)
    PROVE  RouterIInv'
<1> USE DEF Reject, RouterIInv
<1>1. RouterState'
  BY DEF RouterState, Stages
<1>2. stage'[q] = "rejected" /\ \A p \in Queries \ {q} : stage'[p] = stage[p]
  BY DEF RouterState
<1>3. ASSUME NEW p \in Queries PROVE QueryInv(p)'
  <2>1. CASE p # q
    BY <2>1, <1>2, OtherQuery
  <2>2. CASE p = q
    BY <2>2, <1>2 DEF QueryInv
  <2> QED
    BY <2>1, <2>2
<1>4. QueueInv'
  <2>1. {p \in Queries : stage'[p] \in {"waiting", "fast"}}
          = {p \in Queries : stage[p] \in {"waiting", "fast"}}
    BY <1>2
  <2>2. \A i \in DOMAIN queue : queue[i] \in Queries
    BY DEF QueueInv
  <2>3. \A i \in DOMAIN queue : i # 1 => stage'[queue[i]] = "waiting"
    BY <1>2, <2>2 DEF QueueInv
  <2> QED
    BY <2>1, <2>3 DEF QueueInv
<1>5. StatusInv'
  BY DEF StatusInv
<1> QED
  BY <1>1, <1>3, <1>4, <1>5

LEMMA HaltKeeps ==
    ASSUME RouterIInv, Halt
    PROVE  RouterIInv'
<1> USE DEF Halt, RouterIInv
<1>1. RouterState'
  BY DEF RouterState
<1>2. ASSUME NEW p \in Queries PROVE QueryInv(p)'
  BY OtherQuery
<1>3. QueueInv'
  BY SameQueue
<1>4. StatusInv'
  BY DEF StatusInv
<1> QED
  BY <1>1, <1>2, <1>3, <1>4

\* The first query leaves the lock to the next.
LEMMA QueueMoves ==
    ASSUME RouterIInv, NEW q \in Queries, stage[q] \in {"waiting", "fast"}, Head(queue) = q,
           queue' = Tail(queue), stage'[q] \notin {"waiting", "fast"},
           \A p \in Queries \ {q} : stage'[p] = stage[p]
    PROVE  QueueInv'
<1>1. /\ queue \in Seq(Queries) /\ Once(queue)
      /\ ToSet(queue) = {p \in Queries : stage[p] \in {"waiting", "fast"}}
      /\ \A i \in DOMAIN queue : i # 1 => stage[queue[i]] = "waiting"
  BY DEF RouterIInv, QueueInv
<1>2. queue # <<>>
  BY <1>1 DEF ToSet
<1>3. /\ queue' \in Seq(Queries) /\ DOMAIN queue' = 1 .. Len(queue) - 1
      /\ DOMAIN queue = 1 .. Len(queue) /\ Len(queue) \in Nat \ {0}
      /\ queue[1] = q /\ \A i \in DOMAIN queue' : i + 1 \in DOMAIN queue /\ queue'[i] = queue[i + 1]
  BY <1>1, <1>2
<1>4. Once(queue')
  BY <1>1, <1>3 DEF Once
<1>5. ToSet(queue') = ToSet(queue) \ {q}
  <2>1. ASSUME NEW i \in DOMAIN queue' PROVE queue'[i] \in ToSet(queue) \ {q}
    BY <1>1, <1>3, <2>1 DEF Once, ToSet
  <2>2. ASSUME NEW p \in ToSet(queue) \ {q} PROVE p \in ToSet(queue')
    <3>1. PICK i \in DOMAIN queue : queue[i] = p
      BY DEF ToSet
    <3>2. i # 1 /\ i - 1 \in DOMAIN queue' /\ (i - 1) + 1 = i
      BY <1>3, <2>2, <3>1
    <3> QED
      BY <1>3, <3>1, <3>2 DEF ToSet
  <2> QED
    BY <2>1, <2>2 DEF ToSet
<1>6. {p \in Queries : stage'[p] \in {"waiting", "fast"}}
        = {p \in Queries : stage[p] \in {"waiting", "fast"}} \ {q}
  OBVIOUS
<1>7. ASSUME NEW i \in DOMAIN queue' PROVE stage'[queue'[i]] = "waiting"
  <2>1. i + 1 \in DOMAIN queue /\ i + 1 # 1 /\ queue'[i] = queue[i + 1] /\ queue'[i] \in Queries
    BY <1>1, <1>3
  <2>2. queue'[i] # q
    BY <1>5 DEF ToSet
  <2> QED
    BY <1>1, <2>1, <2>2
<1> QED
  BY <1>1, <1>3, <1>4, <1>5, <1>6, <1>7 DEF QueueInv

LEMMA BeginKeeps ==
    ASSUME RouterIInv, NEW q \in Queries, NEW t \in Topics, Begin(q, t)
    PROVE  RouterIInv'
<1> USE DEF RouterIInv
<1>1. registered \in Registrations /\ Plan[registered][t] # None
  BY DEF Begin, RouterState
<1>2. Plan[registered][t] \in Seq(AllAgents) /\ Closed(registered, Plan[registered][t])
  BY <1>1, PlanIsClosed
<1>3. RouterState'
  BY <1>2 DEF Begin, RouterState, Stages
<1>4. /\ stage'[q] = "fast" /\ \A p \in Queries \ {q} : stage'[p] = stage[p]
      /\ plan'[q] = Plan[registered][t] /\ \A p \in Queries \ {q} : plan'[p] = plan[p]
      /\ stage[q] = "waiting" /\ Head(queue) = q
      /\ UNCHANGED <<registered, halted, queue, at, running, results, errors, final, status>>
  BY DEF Begin, RouterState
<1>5. ASSUME NEW p \in Queries PROVE QueryInv(p)'
  <2>1. CASE p # q
    BY <2>1, <1>4, OtherQuery
  <2>2. CASE p = q
    <3>1. /\ running'[q] = None /\ results'[q] = {} /\ errors'[q] = {} /\ at'[q] = 0
          /\ final'[q] = None
      BY <1>4 DEF QueryInv
    <3>2. Closed(registered', plan'[q]) /\ at'[q] \in 0 .. Len(plan'[q])
      BY <1>2, <1>4, <3>1
    <3>3. Reached(q)' = Upto(q, at[q])' \cap FastLane
      BY <3>1 DEF Reached, Upto
    <3> QED
      BY <1>4, <2>2, <3>1, <3>2, <3>3 DEF QueryInv
  <2> QED
    BY <2>1, <2>2
<1>6. QueueInv'
  <2>1. {p \in Queries : stage'[p] \in {"waiting", "fast"}}
          = {p \in Queries : stage[p] \in {"waiting", "fast"}}
    BY <1>4
  <2>2. queue # <<>> /\ queue \in Seq(Queries)
    BY <1>4 DEF QueueInv, ToSet
  <2>3. 1 \in DOMAIN queue /\ queue[1] = q /\ \A i \in DOMAIN queue : queue[i] \in Queries
    BY <1>4, <2>2
  <2>4. \A i \in DOMAIN queue : i # 1 => stage'[queue[i]] = "waiting"
    BY <1>4, <2>3 DEF QueueInv, Once
  <2> QED
    BY <1>4, <2>1, <2>4 DEF QueueInv
<1>7. StatusInv'
  BY <1>4 DEF StatusInv
<1> QED
  BY <1>3, <1>5, <1>6, <1>7

LEMMA RaiseKeeps ==
    ASSUME RouterIInv, NEW q \in Queries, NEW t \in Topics, Raise(q, t)
    PROVE  RouterIInv'
<1> USE DEF RouterIInv
<1>1. RouterState'
  BY DEF Raise, RouterState, Stages
<1>2. /\ stage'[q] = "raised" /\ \A p \in Queries \ {q} : stage'[p] = stage[p]
      /\ stage[q] = "waiting" /\ Head(queue) = q /\ queue' = Tail(queue)
      /\ UNCHANGED <<registered, halted, plan, at, running, results, errors, final, status>>
  BY DEF Raise, RouterState
<1>3. ASSUME NEW p \in Queries PROVE QueryInv(p)'
  <2>1. CASE p # q
    BY <2>1, <1>2, OtherQuery
  <2>2. CASE p = q
    BY <2>2, <1>2 DEF QueryInv
  <2> QED
    BY <2>1, <2>2
<1>4. QueueInv'
  BY <1>2, QueueMoves
<1>5. StatusInv'
  BY <1>2 DEF StatusInv
<1> QED
  BY <1>1, <1>3, <1>4, <1>5

LEMMA MinIs ==
    ASSUME NEW T, T \subseteq Nat, T # {}
    PROVE  Min(T) \in T /\ \A m \in T : Min(T) <= m
<1>1. PICK n \in T : \A m \in T : ~(m < n)
  BY SmallestNumber
<1>2. n \in T /\ \A m \in T : n <= m
  BY <1>1
<1> QED
  BY <1>2 DEF Min

\* A lane goes on to the next of its agents.
LEMMA StartKeeps ==
    ASSUME RouterIInv, NEW q \in Queries, Start(q)
    PROVE  RouterIInv'
<1> USE DEF RouterIInv
<1> DEFINE n == Min(Ahead(q))
           a == plan[q][n]
<1>1. /\ stage[q] \in {"fast", "slow"} /\ running[q] = None /\ Ahead(q) # {}
      /\ plan[q] \in Seq(AllAgents) /\ at[q] \in 0 .. Len(plan[q])
  BY DEF Start, QueryInv, RouterState
<1>2. n \in Ahead(q) /\ \A m \in Ahead(q) : n <= m
  <2>1. Ahead(q) \subseteq Nat
    BY <1>1 DEF Ahead
  <2> QED
    BY <1>1, <2>1, MinIs
<1> HIDE DEF n
<1>3. /\ n \in at[q] + 1 .. Len(plan[q]) /\ InLane(q, n)
      /\ \A m \in at[q] + 1 .. n - 1 : ~InLane(q, m)
  BY <1>1, <1>2 DEF Ahead
<1>4. n \in 1 .. Len(plan[q]) /\ n \in Nat /\ a \in AllAgents /\ a \in registered /\ a # None
  BY <1>1, <1>3, RouterAssumption DEF InLane
<1> HIDE DEF a
<1>5. /\ at' = [at EXCEPT ![q] = n]
      /\ running' = [running EXCEPT ![q] = a]
      /\ status' = [status EXCEPT ![a] = "active"]
      /\ UNCHANGED <<registered, halted, queue, stage, plan, results, errors, final>>
  <2>1. at' = [at EXCEPT ![q] = n] /\ at'[q] = n
    BY DEF Start, RouterState, n
  <2>2. running' = [running EXCEPT ![q] = a] /\ running'[q] = a
    BY <2>1 DEF Start, RouterState, a
  <2> QED
    BY <2>1, <2>2 DEF Start
<1>6. RouterState'
  BY <1>4, <1>5 DEF RouterState
<1>7. /\ at'[q] = n /\ running'[q] = a
      /\ \A p \in Queries \ {q} : at'[p] = at[p] /\ running'[p] = running[p]
  BY <1>5 DEF RouterState
<1>8. ASSUME NEW p \in Queries PROVE QueryInv(p)'
  <2>1. CASE p # q
    BY <2>1, <1>5, <1>7, OtherQuery
  <2>2. CASE p = q
    <3>1. Reached(q)' = Reached(q) \cup {a}
      BY <1>1, <1>4, <1>5, <1>7 DEF Reached
    <3>2. plan[q][n] = a
      BY DEF a
    <3>3. CASE stage[q] = "fast"
      <4>1. a \in FastLane
        BY <1>3, <3>2, <3>3 DEF InLane
      <4>2. \A m \in at[q] + 1 .. n - 1 : plan[q][m] \notin registered \cap FastLane
        BY <1>3, <3>3 DEF InLane
      <4>3. Upto(q, n) \cap FastLane = (Upto(q, at[q]) \cap FastLane) \cup {a}
        <5>1. \A m \in 1 .. n : m \in 1 .. at[q] \/ m \in at[q] + 1 .. n - 1 \/ m = n
          BY <1>1, <1>4
        <5>2. \A m \in 1 .. at[q] : m \in 1 .. n
          BY <1>1, <1>3
        <5>3. n \in 1 .. n
          BY <1>4
        <5> QED
          BY <1>4, <3>2, <4>1, <4>2, <5>1, <5>2, <5>3 DEF Upto
      <4>4. Reached(q)' = (Upto(q, at[q]))' \cap FastLane
        <5>1. Reached(q) = Upto(q, at[q]) \cap FastLane
          BY <3>3 DEF QueryInv
        <5>2. Upto(q, at[q])' = Upto(q, n)
          BY <1>5, <1>7 DEF Upto
        <5> QED
          BY <3>1, <4>3, <5>1, <5>2
      <4>5. final[q] = None
        BY <3>3 DEF QueryInv
      <4>6. at'[q] \in 0 .. Len(plan'[q]) /\ at'[q] \in 1 .. Len(plan'[q])
        BY <1>4, <1>5, <1>7
      <4>7. Closed(registered', plan'[q])
        BY <1>5, <3>3 DEF QueryInv
      <4>8. InLane(q, at[q])' /\ running'[q] = plan'[q][at'[q]]
        BY <1>3, <1>5, <1>7, <3>2 DEF InLane
      <4> QED
        BY <1>5, <2>2, <3>3, <4>4, <4>5, <4>6, <4>7, <4>8 DEF QueryInv
    <3>4. CASE stage[q] = "slow"
      <4>1. a \notin FastLane
        BY <1>3, <3>2, <3>4 DEF InLane
      <4>2. \A m \in at[q] + 1 .. n - 1 : plan[q][m] \notin registered \/ plan[q][m] \in FastLane
        BY <1>3, <3>4 DEF InLane
      <4>3. Upto(q, n) \ FastLane = (Upto(q, at[q]) \ FastLane) \cup {a}
        <5>1. \A m \in 1 .. n : m \in 1 .. at[q] \/ m \in at[q] + 1 .. n - 1 \/ m = n
          BY <1>1, <1>4
        <5>2. \A m \in 1 .. at[q] : m \in 1 .. n
          BY <1>1, <1>3
        <5>3. n \in 1 .. n
          BY <1>4
        <5> QED
          BY <1>4, <3>2, <4>1, <4>2, <5>1, <5>2, <5>3 DEF Upto
      <4>4. Reached(q) = (Upto(q, Len(plan[q])) \cap FastLane) \cup (Upto(q, at[q]) \ FastLane)
        BY <3>4 DEF QueryInv
      <4>5. /\ Upto(q, at[q])' = Upto(q, n)
            /\ Upto(q, Len(plan[q]))' = Upto(q, Len(plan[q]))
        BY <1>5, <1>7 DEF Upto
      <4>6. Reached(q)' = ((Upto(q, Len(plan[q])))' \cap FastLane) \cup ((Upto(q, at[q]))' \ FastLane)
        BY <3>1, <4>3, <4>4, <4>5
      <4>7. final[q] = None
        BY <3>4 DEF QueryInv
      <4>8. at'[q] \in 0 .. Len(plan'[q]) /\ at'[q] \in 1 .. Len(plan'[q])
        BY <1>4, <1>5, <1>7
      <4>9. Closed(registered', plan'[q])
        BY <1>5, <3>4 DEF QueryInv
      <4>10. InLane(q, at[q])' /\ running'[q] = plan'[q][at'[q]]
        BY <1>3, <1>5, <1>7, <3>2 DEF InLane
      <4> QED
        BY <1>5, <2>2, <3>4, <4>6, <4>7, <4>8, <4>9, <4>10 DEF QueryInv
    <3> QED
      BY <1>1, <3>3, <3>4
  <2> QED
    BY <2>1, <2>2
<1>9. QueueInv'
  BY <1>5, SameQueue
<1>10. StatusInv'
  BY <1>1, <1>4, <1>5, <1>7, RouterAssumption DEF StatusInv, RouterState
<1> QED
  BY <1>6, <1>8, <1>9, <1>10

\* The agent a lane waited for has ended.
LEMMA EndKeeps ==
    ASSUME RouterIInv, NEW q \in Queries, running[q] # None,
           NEW r \in SUBSET {running[q]}, NEW e \in SUBSET {running[q]}, r \cup e = {running[q]},
           NEW after \in {"idle", "error"},
           results' = [results EXCEPT ![q] = @ \cup r],
           errors' = [errors EXCEPT ![q] = @ \cup e],
           status' = [status EXCEPT ![running[q]] = after],
           running' = [running EXCEPT ![q] = None],
           UNCHANGED <<registered, halted, queue, stage, plan, at, final>>
    PROVE  RouterIInv'
<1> USE DEF RouterIInv
<1>1. running[q] \in registered /\ running[q] \in AllAgents /\ stage[q] \in {"fast", "slow"}
  BY RouterAssumption DEF QueryInv, InLane, RouterState
<1>2. RouterState'
  <2>1. results' \in [Queries -> SUBSET registered] /\ errors' \in [Queries -> SUBSET registered]
    BY <1>1 DEF RouterState
  <2>2. status' \in [AllAgents -> {"idle", "active", "error"}]
    BY DEF RouterState
  <2>3. running' \in [Queries -> AllAgents \cup {None}]
    BY DEF RouterState
  <2> QED
    BY <2>1, <2>2, <2>3 DEF RouterState
<1>3. /\ running'[q] = None /\ results'[q] = results[q] \cup r /\ errors'[q] = errors[q] \cup e
      /\ \A p \in Queries \ {q} : /\ running'[p] = running[p] /\ results'[p] = results[p]
                                  /\ errors'[p] = errors[p]
  BY DEF RouterState
<1>4. ASSUME NEW p \in Queries PROVE QueryInv(p)'
  <2>1. CASE p # q
    BY <2>1, <1>3, OtherQuery
  <2>2. CASE p = q
    <3>1. Reached(q)' = Reached(q)
      BY <1>3 DEF Reached
    <3>2. final[q] = None
      BY <1>1 DEF QueryInv
    <3>3. Upto(q, at[q])' = Upto(q, at[q]) /\ Upto(q, Len(plan[q]))' = Upto(q, Len(plan[q]))
      BY DEF Upto
    <3> QED
      BY <1>1, <1>3, <2>2, <3>1, <3>2, <3>3 DEF QueryInv
  <2> QED
    BY <2>1, <2>2
<1>5. QueueInv'
  BY SameQueue
<1>6. StatusInv'
  <2>1. SUFFICES ASSUME NEW a \in AllAgents, status'[a] = "active"
                 PROVE  \E p \in Queries : running'[p] = a
    BY DEF StatusInv
  <2>2. a # running[q] /\ status[a] = "active"
    BY <1>1, <2>1 DEF RouterState
  <2>3. PICK p \in Queries : running[p] = a
    BY <2>2 DEF StatusInv
  <2> QED
    BY <1>3, <2>2, <2>3
<1> QED
  BY <1>2, <1>4, <1>5, <1>6

LEMMA ReturnKeeps ==
    ASSUME RouterIInv, NEW q \in Queries, Return(q)
    PROVE  RouterIInv'
<1>1. errors = [errors EXCEPT ![q] = @ \cup {}]
  BY DEF RouterIInv, RouterState
<1> QED
  BY <1>1, EndKeeps DEF Return

LEMMA FailKeeps ==
    ASSUME RouterIInv, NEW q \in Queries, Fail(q)
    PROVE  RouterIInv'
<1>1. \E r \in SUBSET {running[q]} : results' = [results EXCEPT ![q] = @ \cup r]
  <2>1. results = [results EXCEPT ![q] = @ \cup {}]
    BY DEF RouterIInv, RouterState
  <2> QED
    BY <2>1 DEF Fail
<1> QED
  BY <1>1, EndKeeps DEF Fail

\* A lane that has ended has run all of its agents.
LEMMA EndedLane ==
    ASSUME RouterIInv, NEW q \in Queries, stage[q] \in {"fast", "slow"}, LaneEnded(q)
    PROVE  /\ results[q] \cup errors[q] = Reached(q)
           /\ stage[q] = "fast" => Upto(q, at[q]) \cap FastLane = Upto(q, Len(plan[q])) \cap FastLane
           /\ stage[q] = "slow" => Upto(q, at[q]) \ FastLane = Upto(q, Len(plan[q])) \ FastLane
<1>1. /\ at[q] \in 0 .. Len(plan[q]) /\ plan[q] \in Seq(AllAgents) /\ running[q] = None
      /\ \A m \in at[q] + 1 .. Len(plan[q]) : ~InLane(q, m)
  BY DEF RouterIInv, RouterState, QueryInv, LaneEnded, Ahead
<1>2. /\ \A m \in 1 .. Len(plan[q]) : m \in 1 .. at[q] \/ m \in at[q] + 1 .. Len(plan[q])
      /\ \A m \in 1 .. at[q] : m \in 1 .. Len(plan[q])
  BY <1>1
<1> QED
  BY <1>1, <1>2 DEF Upto, InLane, Reached

LEMMA FastAnswerKeeps ==
    ASSUME RouterIInv, NEW q \in Queries, FastAnswer(q)
    PROVE  RouterIInv'
<1> USE DEF RouterIInv
<1>1. RouterState'
  BY DEF FastAnswer, RouterState, Stages
<1>2. /\ stage'[q] = "slow" /\ at'[q] = 0 /\ stage[q] = "fast" /\ queue' = Tail(queue)
      /\ \A p \in Queries \ {q} : stage'[p] = stage[p] /\ at'[p] = at[p]
      /\ UNCHANGED <<registered, halted, plan, running, results, errors, final, status>>
  BY DEF FastAnswer, RouterState
<1>3. ASSUME NEW p \in Queries PROVE QueryInv(p)'
  <2>1. CASE p # q
    BY <2>1, <1>2, OtherQuery
  <2>2. CASE p = q
    <3>1. Reached(q) = Upto(q, Len(plan[q])) \cap FastLane
      BY <1>2, EndedLane DEF FastAnswer, QueryInv
    <3>2. /\ Reached(q)' = Reached(q) /\ Upto(q, Len(plan[q]))' = Upto(q, Len(plan[q]))
          /\ Upto(q, at[q])' = {}
      BY <1>2 DEF Reached, Upto
    <3>3. Closed(registered', plan'[q]) /\ at'[q] \in 0 .. Len(plan'[q])
      <4>1. plan[q] \in Seq(AllAgents)
        BY DEF RouterState
      <4> QED
        BY <1>2, <4>1 DEF QueryInv
    <3>4. running'[q] = None /\ final'[q] = None
      BY <1>2 DEF FastAnswer, LaneEnded, QueryInv
    <3> QED
      BY <1>2, <2>2, <3>1, <3>2, <3>3, <3>4 DEF QueryInv
  <2> QED
    BY <2>1, <2>2
<1>4. QueueInv'
  <2>1. Head(queue) = q
    BY <1>2, RouterInvHolds DEF RouterInv, OneFastLane
  <2> QED
    BY <1>2, <2>1, QueueMoves
<1>5. StatusInv'
  BY <1>2 DEF StatusInv
<1> QED
  BY <1>1, <1>3, <1>4, <1>5

LEMMA CompleteKeeps ==
    ASSUME RouterIInv, NEW q \in Queries, Complete(q)
    PROVE  RouterIInv'
<1> USE DEF RouterIInv
<1> DEFINE f == [results |-> results[q], errors |-> errors[q], success |-> errors[q] = {}]
<1>1. /\ stage'[q] = "done" /\ stage[q] = "slow" /\ final'[q] = f
      /\ \A p \in Queries \ {q} : stage'[p] = stage[p] /\ final'[p] = final[p]
      /\ UNCHANGED <<registered, halted, queue, plan, at, running, results, errors, status>>
  BY DEF Complete, RouterState
<1>2. RouterState'
  BY DEF Complete, RouterState, Stages
<1>3. ASSUME NEW p \in Queries PROVE QueryInv(p)'
  <2>1. CASE p # q
    BY <2>1, <1>1, OtherQuery
  <2>2. CASE p = q
    <3>1. results[q] \cup errors[q] = Upto(q, Len(plan[q]))
      BY <1>1, EndedLane DEF Complete, QueryInv
    <3>2. Upto(q, Len(plan[q])) = ToSet(plan[q]) \cap registered
      <4>1. plan[q] \in Seq(AllAgents)
        BY DEF RouterState
      <4> QED
        BY <4>1 DEF Upto, ToSet
    <3>3. running'[q] = None
      BY <1>1 DEF Complete, LaneEnded
    <3> DEFINE ran == ToSet(plan'[q]) \cap registered'
    <3>4. ran = ToSet(plan[q]) \cap registered
      BY <1>1
    <3>5. /\ final'[q].results \cup final'[q].errors = ran
          /\ final'[q].success => final'[q].results = ran
      <4>1. final'[q].results = results[q] /\ final'[q].errors = errors[q]
        BY <1>1
      <4>2. final'[q].success => errors[q] = {}
        <5>1. f.success = (errors[q] = {})
          BY Zenon
        <5>2. final'[q] = f
          BY <1>1
        <5> HIDE DEF f
        <5> QED
          BY <5>1, <5>2, Zenon
      <4> HIDE DEF f, ran
      <4> QED
        BY <3>1, <3>2, <3>4, <4>1, <4>2
    <3> HIDE DEF f
    <3> QED
      BY <1>1, <2>2, <3>3, <3>5 DEF QueryInv
  <2> QED
    BY <2>1, <2>2
<1>4. QueueInv'
  <2>1. \A p \in Queries : stage[p] = "waiting" => stage'[p] = "waiting"
    BY <1>1
  <2>2. {p \in Queries : stage'[p] \in {"waiting", "fast"}}
          = {p \in Queries : stage[p] \in {"waiting", "fast"}}
    BY <1>1
  <2>3. \A i \in DOMAIN queue : queue[i] \in Queries
    BY DEF QueueInv
  <2> QED
    BY <1>1, <2>1, <2>2, <2>3 DEF QueueInv
<1>5. StatusInv'
  BY <1>1 DEF StatusInv
<1> QED
  BY <1>2, <1>3, <1>4, <1>5

-----------------------------------------------------------------------------
(* The dashboard *)

SocketInv ==
    /\ peer \in [Clients -> {"away", "open", "gone"}]
    /\ connections \in Seq(Clients) /\ Once(connections)
    /\ \A c \in Clients : /\ peer[c] = "away" => c \notin ToSet(connections)
                          /\ peer[c] = "open" => c \in ToSet(connections) \/ c \in lost
                          /\ c \in lost => c \notin ToSet(connections) /\ peer[c] # "away"
    /\ sending \in [Loops -> Seq(Clients)]

HistoryInv ==
    /\ history \in Seq(Queries)
    /\ NewestIsLatest

DashboardIInv == RouterIInv /\ SocketInv /\ HistoryInv

LEMMA OpenIsThereOnce == SocketInv => NobodyDropped
<1> SUFFICES ASSUME SocketInv, NEW c \in Clients, peer[c] = "open"
             PROVE  Cardinality({i \in DOMAIN connections : connections[i] = c})
                      = IF c \in lost THEN 0 ELSE 1
  BY DEF NobodyDropped
<1>1. CASE c \in lost
  <2>1. {i \in DOMAIN connections : connections[i] = c} = {}
    BY <1>1 DEF SocketInv, ToSet
  <2> QED
    BY <1>1, <2>1, FS_EmptySet
<1>2. CASE c \notin lost
  <2>1. PICK k \in DOMAIN connections : connections[k] = c
    BY <1>2 DEF SocketInv, ToSet
  <2>2. {i \in DOMAIN connections : connections[i] = c} = {k}
    BY <2>1 DEF SocketInv, Once
  <2> QED
    BY <1>2, <2>2, FS_Singleton
<1> QED
  BY <1>1, <1>2

\* A connection leaves the list: the others stay.
LEMMA WithoutIs ==
    ASSUME SocketInv, NEW c \in Clients
    PROVE  Without(c) \in Seq(Clients) /\ Once(Without(c))
           /\ ToSet(Without(c)) = ToSet(connections) \ {c}
<1>1. connections \in Seq(Clients) /\ Once(connections)
  BY DEF SocketInv
<1>2. CASE c \in ToSet(connections)
  BY <1>1, <1>2, TakenOut DEF Without
<1>3. CASE c \notin ToSet(connections)
  <2>1. ~ \E i \in 1 .. Len(connections) : connections[i] = c
    BY <1>1, <1>3 DEF ToSet
  <2>2. Without(c) = connections
    BY <2>1 DEF Without, RemoveFirst
  <2> QED
    BY <1>1, <1>3, <2>2
<1> QED
  BY <1>2, <1>3

\* The history is cut at its old end.
LEMMA TrimmedIs ==
    ASSUME NEW h \in Seq(Queries), h # <<>>
    PROVE  Trimmed(h) \in Seq(Queries) /\ Trimmed(h) # <<>> /\ Last(Trimmed(h)) = Last(h)
<1>1. CASE Len(h) > HistoryLimit
  <2> DEFINE n == Len(h) - HistoryLimit + 1
  <2>1. n \in 1 .. Len(h) /\ Len(h) \in Nat
    BY <1>1, DashboardAssumption
  <2>2. Trimmed(h) = SubSeq(h, n, Len(h))
    BY <1>1 DEF Trimmed
  <2> HIDE DEF n
  <2>3. /\ SubSeq(h, n, Len(h)) \in Seq(Queries) /\ Len(SubSeq(h, n, Len(h))) = Len(h) - n + 1
        /\ SubSeq(h, n, Len(h))[Len(h) - n + 1] = h[n + (Len(h) - n + 1) - 1]
    BY <2>1
  <2>4. n + (Len(h) - n + 1) - 1 = Len(h) /\ Len(h) - n + 1 >= 1
    BY <2>1
  <2> DEFINE t == SubSeq(h, n, Len(h))
  <2>5. t \in Seq(Queries) /\ Len(t) >= 1 /\ t[Len(t)] = h[Len(h)]
    BY <2>3, <2>4
  <2> HIDE DEF t
  <2>6. t # <<>> /\ Last(t) = Last(h)
    BY <2>5 DEF Last
  <2> QED
    BY <2>2, <2>5, <2>6 DEF t
<1>2. CASE ~(Len(h) > HistoryLimit)
  BY <1>2 DEF Trimmed
<1> QED
  BY <1>1, <1>2

\* Whoever asked, the newest entry of the history is what latest_results shows.
LEMMA RecordKeeps ==
    ASSUME HistoryInv, NEW q \in Queries, Record(q) \/ RecordError(q)
    PROVE  HistoryInv'
<1> DEFINE h == Append(history, q)
<1>1. h \in Seq(Queries) /\ h # <<>> /\ Last(h) = q
  BY DEF HistoryInv, Last
<1> HIDE DEF h
<1>2. Trimmed(h) \in Seq(Queries) /\ Trimmed(h) # <<>> /\ Last(Trimmed(h)) = q
  BY <1>1, TrimmedIs
<1>3. \/ history' \in {h, Trimmed(h)} /\ latest' = q
      \/ history' = history /\ latest' = latest
  BY DEF Record, RecordError, h
<1> QED
  BY <1>1, <1>2, <1>3 DEF HistoryInv, NewestIsLatest

LEMMA DashInitHolds == DashInit => DashboardIInv
<1> SUFFICES ASSUME DashInit PROVE DashboardIInv
  OBVIOUS
<1>1. RouterIInv
  BY RouterInitHolds DEF DashInit
<1>2. SocketInv
  BY DEF DashInit, SocketInv, Once, ToSet
<1>3. HistoryInv
  BY DEF DashInit, HistoryInv, NewestIsLatest
<1> QED
  BY <1>1, <1>2, <1>3 DEF DashboardIInv

\* The coordinator's part of a step.
LEMMA RouterStep ==
    ASSUME RouterIInv, DashNext
    PROVE  RouterIInv'
<1>1. CASE UNCHANGED routerVars
  <2>1. \A q \in Queries : QueryInv(q)'
    BY <1>1, OtherQuery DEF RouterIInv, routerVars
  <2>2. QueueInv'
    BY <1>1, SameQueue DEF RouterIInv, routerVars
  <2> QED
    BY <1>1, <2>1, <2>2 DEF RouterIInv, RouterState, StatusInv, routerVars
<1>2. ASSUME NEW q \in Queries, Enter(q) \/ External(q)
      PROVE  RouterIInv'
  BY <1>2, AskKeeps, RejectKeeps DEF Enter, External
<1>3. ASSUME NEW q \in Queries, Work(q)
      PROVE  RouterIInv'
  BY <1>3, BeginKeeps, RaiseKeeps, StartKeeps, ReturnKeeps, FailKeeps, FastAnswerKeeps, CompleteKeeps
     DEF Work
<1>4. CASE HaltComes
  BY <1>4, HaltKeeps DEF HaltComes
<1>5. CASE \E q \in Queries, how \in {"client", "api"} : Request(q, how)
  BY <1>1, <1>5 DEF Request
<1>6. CASE \E c \in Clients : Connect(c) \/ Leave(c) \/ BadMessage(c) \/ Notice(c)
  BY <1>1, <1>6 DEF Connect, Leave, BadMessage, Notice
<1>7. CASE \/ \E l \in Loops : Wake(l) \/ Send(l)
           \/ \E l \in Updaters : RefusedUpdate(l)
  BY <1>1, <1>7 DEF Wake, Send, RefusedUpdate
<1> QED
  BY <1>2, <1>3, <1>4, <1>5, <1>6, <1>7 DEF DashNext

\* Clients come and go, and loops take the ones that have gone off the list.
LEMMA SocketStep ==
    ASSUME SocketInv, DashNext
    PROVE  SocketInv'
<1> USE DEF SocketInv
<1>1. CASE UNCHANGED <<peer, connections, sending, lost>>
  BY <1>1
<1>2. ASSUME NEW c \in Clients, Connect(c)
      PROVE  SocketInv'
  <2>1. c \notin ToSet(connections) /\ connections \in Seq(Clients) /\ Once(connections)
    BY <1>2 DEF Connect
  <2> DEFINE o == Append(connections, c)
  <2>2. /\ o \in Seq(Clients) /\ DOMAIN o = 1 .. Len(connections) + 1
        /\ DOMAIN connections = 1 .. Len(connections) /\ Len(connections) \in Nat
        /\ o[Len(connections) + 1] = c /\ \A i \in DOMAIN connections : o[i] = connections[i]
    BY <2>1
  <2> HIDE DEF o
  <2>3. Once(o)
    BY <2>1, <2>2 DEF Once, ToSet
  <2>4. ToSet(o) = ToSet(connections) \cup {c}
    <3>1. \A i \in DOMAIN o : i \in DOMAIN connections \/ i = Len(connections) + 1
      BY <2>2
    <3>2. DOMAIN connections \subseteq DOMAIN o /\ Len(connections) + 1 \in DOMAIN o
      BY <2>2
    <3>3. \A d \in ToSet(o) : d \in ToSet(connections) \cup {c}
      BY <2>2, <3>1 DEF ToSet
    <3>4. c \in ToSet(o)
      BY <2>2, <3>2 DEF ToSet
    <3>5. \A d \in ToSet(connections) : d \in ToSet(o)
      BY <2>2, <3>2 DEF ToSet
    <3> QED
      BY <3>3, <3>4, <3>5
  <2>5. /\ connections' = o /\ sending' = sending /\ lost' = lost
        /\ peer' = [peer EXCEPT ![c] = "open"] /\ c \notin lost
    BY <1>2 DEF Connect, o
  <2> QED
    BY <2>2, <2>3, <2>4, <2>5
<1>3. ASSUME NEW c \in Clients, Leave(c) \/ BadMessage(c)
      PROVE  SocketInv'
  BY <1>3 DEF Leave, BadMessage
<1>4. ASSUME NEW c \in Clients, Notice(c)
      PROVE  SocketInv'
  BY <1>4, WithoutIs DEF Notice
<1>5. ASSUME NEW l \in Loops, Wake(l)
      PROVE  SocketInv'
  BY <1>5 DEF Wake
<1>6. ASSUME NEW l \in Loops, Send(l)
      PROVE  SocketInv'
  <2> DEFINE c == Head(sending[l])
  <2>1. sending[l] \in Seq(Clients) /\ sending[l] # <<>>
    BY <1>6 DEF Send
  <2>2. c \in Clients /\ Tail(sending[l]) \in Seq(Clients)
    BY <2>1
  <2>3. connections' = IF peer[c] = "gone" THEN Without(c) ELSE connections
    BY <1>6 DEF Send
  <2>4. sending' \in [Loops -> Seq(Clients)]
    BY <1>6, <2>2 DEF Send
  <2>5. peer' = peer /\ lost' = lost
    BY <1>6 DEF Send
  <2> HIDE DEF c
  <2>6. connections' \in Seq(Clients) /\ Once(connections')
        /\ ToSet(connections') \subseteq ToSet(connections)
        /\ \A d \in ToSet(connections) : (d = c /\ peer[c] = "gone") \/ d \in ToSet(connections')
    BY <2>2, <2>3, WithoutIs
  <2> QED
    BY <2>4, <2>5, <2>6
<1>7. ASSUME NEW q \in Queries, Enter(q) \/ External(q) \/ Work(q)
      PROVE  SocketInv'
  BY <1>1, <1>7 DEF Enter, External, Work, Record, RecordError, sockets
<1>8. CASE \E q \in Queries, how \in {"client", "api"} : Request(q, how)
  BY <1>1, <1>8 DEF Request, sockets
<1>9. CASE HaltComes
  BY <1>1, <1>9 DEF HaltComes, sockets
<1>10. ASSUME NEW l \in Updaters, RefusedUpdate(l)
       PROVE  SocketInv'
  <2>1. /\ connections' = <<>> /\ peer' = peer /\ sending' = sending
        /\ lost' = lost \cup {c \in ToSet(connections) : peer[c] = "open"}
    BY <1>10 DEF RefusedUpdate
  <2>2. connections' \in Seq(Clients) /\ Once(connections') /\ ToSet(connections') = {}
    BY <2>1 DEF Once, ToSet
  <2>3. \A c \in Clients : peer[c] = "open" => c \in lost'
    BY <2>1
  <2> HIDE DEF SocketInv
  <2>4. \A c \in Clients : c \in lost' => peer[c] # "away"
    BY <2>1 DEF SocketInv
  <2> QED
    BY <2>1, <2>2, <2>3, <2>4 DEF SocketInv
<1> QED
  BY <1>2, <1>3, <1>4, <1>5, <1>6, <1>7, <1>8, <1>9, <1>10 DEF DashNext

LEMMA HistoryStep ==
    ASSUME HistoryInv, DashNext
    PROVE  HistoryInv'
<1>1. CASE UNCHANGED <<latest, history>>
  BY <1>1 DEF HistoryInv, NewestIsLatest
<1>2. ASSUME NEW q \in Queries, Enter(q) \/ External(q) \/ Work(q)
      PROVE  HistoryInv'
  <2>1. \/ UNCHANGED <<latest, history>>
        \/ Record(q) \/ RecordError(q)
    BY <1>2 DEF Enter, External, Work, served
  <2> QED
    BY <1>1, <2>1, RecordKeeps
<1>3. CASE \E q \in Queries, how \in {"client", "api"} : Request(q, how)
  BY <1>1, <1>3 DEF Request
<1>4. CASE \E c \in Clients : Connect(c) \/ Leave(c) \/ BadMessage(c) \/ Notice(c)
  BY <1>1, <1>4 DEF Connect, Leave, BadMessage, Notice, served
<1>5. CASE \/ \E l \in Loops : Wake(l) \/ Send(l)
           \/ \E l \in Updaters : RefusedUpdate(l)
  BY <1>1, <1>5 DEF Wake, Send, RefusedUpdate, served
<1>6. CASE HaltComes
  BY <1>1, <1>6 DEF HaltComes, served
<1> QED
  BY <1>2, <1>3, <1>4, <1>5, <1>6 DEF DashNext

LEMMA DashStep ==
    ASSUME DashboardIInv, [DashNext]_dashVars
    PROVE  DashboardIInv'
<1>1. CASE DashNext
  BY <1>1, RouterStep, SocketStep, HistoryStep DEF DashboardIInv
<1>2. CASE UNCHANGED dashVars
  <2>1. UNCHANGED routerVars /\ UNCHANGED <<latest, history, peer, connections, sending, lost>>
    BY <1>2 DEF dashVars, served, sockets
  <2>2. \A q \in Queries : RouterIInv => QueryInv(q)'
    BY <2>1, OtherQuery DEF RouterIInv, routerVars
  <2>3. RouterIInv => QueueInv'
    BY <2>1, SameQueue DEF RouterIInv, routerVars
  <2>4. RouterIInv'
    BY <2>1, <2>2, <2>3 DEF DashboardIInv, RouterIInv, RouterState, StatusInv, routerVars
  <2>5. SocketInv' /\ HistoryInv'
    BY <2>1 DEF DashboardIInv, SocketInv, HistoryInv, NewestIsLatest
  <2> QED
    BY <2>4, <2>5 DEF DashboardIInv
<1> QED
  BY <1>1, <1>2

\* The dashboard in front of the coordinator: an agent runs after those it depends
\* on, the lock serves the queries in their order, the final result tells of every
\* agent, a client whose socket works leaves the list only with an update that json
\* refuses, and what is shown last is the newest entry of the history; for any
\* agents, queries, clients and loops.
THEOREM DashboardIsSafe == DashSpec => []DashboardInv
<1>1. DashboardIInv => DashboardInv
  BY RouterInvHolds, OpenIsThereOnce DEF DashboardIInv, DashboardInv, HistoryInv
<1> QED
  BY <1>1, DashInitHolds, DashStep, PTL DEF DashSpec

LEMMA MemoryInitHolds == Memory!Init => Memory!AllOrNothing
BY DEF Memory!Init, Memory!AllOrNothing

LEMMA MemoryStep ==
    ASSUME Memory!AllOrNothing, [Memory!Next]_<<storage, dump, saving>>
    PROVE  Memory!AllOrNothing'
<1> USE DEF Memory!AllOrNothing
<1>1. CASE UNCHANGED <<storage, dump, saving>>
  BY <1>1 DEF Memory!Serialisable
<1>2. ASSUME NEW s, Memory!Change(s)
      PROVE  Memory!AllOrNothing'
  BY <1>2 DEF Memory!Change
<1>3. CASE Memory!Saved
  BY <1>3 DEF Memory!Saved, Memory!Serialisable
<1>4. CASE Memory!Restart
  BY <1>4 DEF Memory!Restart
<1> QED
  BY <1>1, <1>2, <1>3, <1>4
  DEF Memory!Next, Memory!Store, Memory!Update, Memory!Delete, Memory!Clear

\* The platform of the run Dashboard: what the dashboard shows and the memory that
\* its process shares.
THEOREM PlatformIsSafe == FewSpec => []PlatformInv
<1> DEFINE Inv == DashboardIInv /\ Memory!AllOrNothing
<1>1. FewInit => Inv
  BY DashInitHolds, MemoryInitHolds DEF FewInit
<1>2. Inv /\ [FewNext]_<<dashVars, storage, dump, saving>> => Inv'
  <2>1. [FewNext]_<<dashVars, storage, dump, saving>>
          => [DashNext]_dashVars /\ [Memory!Next]_<<storage, dump, saving>>
    BY DEF FewNext
  <2> QED
    BY <2>1, DashStep, MemoryStep
<1>3. Inv => PlatformInv
  BY RouterInvHolds, OpenIsThereOnce DEF DashboardIInv, DashboardInv, HistoryInv, PlatformInv
<1> QED
  BY <1>1, <1>2, <1>3, PTL DEF FewSpec
=============================================================================
