-------------------------- MODULE DurableOMSProofs ---------------------------
(***************************************************************************)
(* Proofs about the order store, for every set of orders, executions,      *)
(* workers and calls, every quantity and every value of the tolerance:     *)
(* about DurableOMS with workers that interleave, then with callers that   *)
(* use it one at a time; about concurrent calls of create_order            *)
(* (IdempotentCreate); and about the portfolio that is rebuilt from the    *)
(* executions (PortfolioLedger).                                           *)
(*                                                                         *)
(* That the row agrees with the ledger is not inductive by itself: a save  *)
(* writes what the worker remembers.  What makes it so is that the one     *)
(* worker in a call remembers the order as it is (Fresh), which holds      *)
(* because no other worker is in a call (OneBusy).                         *)
(*                                                                         *)
(* AppliedIsStored of the portfolio holds for any number of workers,       *)
(* because an execution is committed to the table before its worker looks  *)
(* at the portfolio, the table only grows, and a restart takes its applied *)
(* ids from the table alone.  AtRestIsReplay and WealthIsConserved hold    *)
(* for one worker: until it has recorded an execution, that one is the     *)
(* last row of the table and the portfolio is what the rows before it      *)
(* give.                                                                   *)
(***************************************************************************)
EXTENDS DurableOMS, IdempotentCreate, PortfolioLedger, FiniteSetTheorems, SequenceTheorems, TLAPS

Plus(x, y) == x + y
AnyOf(S) == CHOOSE x \in S : TRUE
Sums == INSTANCE FoldLemmas WITH Op <- Plus, Initial <- 0, Choose <- AnyOf

\* The executions of an order's ledger are finitely many, and its own.
LedgerShape ==
    \A o \in Orders :
        /\ IsFiniteSet(ledger[o].ids)
        /\ \A e \in ledger[o].ids : ExecOf[e] = o

StoreInv == TypeOK /\ LedgerShape /\ StoredOnce

\* At most one worker is inside a call.
OneBusy == \A v, w \in Workers : pc[v] # "idle" /\ pc[w] # "idle" => v = w

\* What a worker has read so far is what the tables hold.
Fresh ==
    \A w \in Workers :
        /\ pc[w] # "idle" =>
              /\ mem[w].state = orders[Order(w)].state
              /\ mem[w].filled = orders[Order(w)].filled
        /\ pc[w] = "ready" => mem[w].ids = ledger[Order(w)].ids

SerialInv == usage.serial /\ TypeOK /\ OneBusy /\ Fresh /\ RowAgreesWithLedger /\ NeverOverfilled

USE DEF Working, Terminal, States, FillEvents, MarkEvents, Events

-----------------------------------------------------------------------------
\* Every event leads to a state of the machine.
LEMMA TargetIsState == \A ev \in Events : Target(ev) \in States
BY DEF Target

\* A terminal state accepts no event.
LEMMA TerminalAcceptsNothing == \A s \in Terminal : Allowed(s) = {}
BY DEF Allowed

\* The jobs of a store name one of its orders.
LEMMA JobOrder ==
    ASSUME NEW j \in Jobs
    PROVE  /\ j.order \in Orders
           /\ j.op = "EXECUTE" => j.exec \in Execs /\ j.order = ExecOf[j.exec]
           /\ j.op \in Marks \cup {"EXECUTE"}
BY StoreAssumption DEF Jobs

-----------------------------------------------------------------------------
(* Workers that interleave *)

\* The sum of a ledger is the sum of its executions, and one more execution adds
\* its quantity.
LEMMA SumGrows ==
    ASSUME NEW S \in SUBSET Execs, IsFiniteSet(S), NEW e \in Execs, e \notin S
    PROVE  SumFunctionOnSet(ExecQty, S \cup {e}) = SumFunctionOnSet(ExecQty, S) + ExecQty[e]
<1> DEFINE T == S \cup {e}
<1>1. \A U : SumFunctionOnSet(ExecQty, U) = Sums!Fold(ExecQty, U)
  BY DEF SumFunctionOnSet, FoldFunctionOnSet, MapThenFoldSet, Sums!Fold,
         Sums!MapThenFoldSet, Plus, AnyOf
<1>2. IsFiniteSet(T) /\ T \ {e} = S
  BY FS_AddElement
<1>3. Sums!IsSum /\ Sums!IsFiniteSet(T) /\ Sums!Chooses(T)
  BY <1>2 DEF Sums!IsSum, Sums!IsFiniteSet, IsFiniteSet, Sums!Chooses, Plus, AnyOf
<1>4. Sums!Values(ExecQty, T, Int) /\ ExecQty[e] \in Int
  BY StoreAssumption DEF Sums!Values
<1>5. e \in T
  OBVIOUS
<1> HIDE DEF T
<1>6. /\ Sums!Fold(ExecQty, T \ {e}) \in Int
      /\ Sums!Fold(ExecQty, T) = ExecQty[e] + Sums!Fold(ExecQty, T \ {e})
  BY <1>3, <1>4, <1>5, Sums!SumSplit
<1>7. Sums!Fold(ExecQty, T) = Sums!Fold(ExecQty, S) + ExecQty[e]
  <2> DEFINE rest == Sums!Fold(ExecQty, S)
             all == Sums!Fold(ExecQty, T)
  <2>1. rest \in Int /\ all = ExecQty[e] + rest
    BY <1>2, <1>6
  <2> HIDE DEF rest, all
  <2>2. all = rest + ExecQty[e]
    BY <1>4, <2>1
  <2> QED
    BY <2>2 DEF rest, all
<1>8. SumFunctionOnSet(ExecQty, T) = SumFunctionOnSet(ExecQty, S) + ExecQty[e]
  BY <1>1, <1>7
<1> QED
  BY <1>8 DEF T

LEMMA SumOfNone == SumFunctionOnSet(ExecQty, {}) = 0
BY Sums!FoldEmpty DEF SumFunctionOnSet, FoldFunctionOnSet, MapThenFoldSet, Sums!Fold,
   Sums!MapThenFoldSet, Plus, AnyOf

LEMMA StoreInit == Init => StoreInv
<1> SUFFICES ASSUME Init PROVE StoreInv
  OBVIOUS
<1>1. orders \in [Orders -> Row]
  <2>1. PICK start \in [Orders -> StartIn] :
           orders = [o \in Orders |-> [state |-> start[o], filled |-> 0]]
    BY DEF Init
  <2>2. \A o \in Orders : start[o] \in States
    BY StoreAssumption
  <2> QED
    BY <2>1, <2>2 DEF Row
<1>2. ledger \in [Orders -> [ids : SUBSET Execs, sum : Nat]]
  BY DEF Init
<1>3. mem \in [Workers -> Memory]
  BY DEF Init, Memory, Blank
<1>4. TypeOK
  BY <1>1, <1>2, <1>3 DEF Init, TypeOK
<1>5. \A o \in Orders : ledger[o].ids = {} /\ ledger[o].sum = 0
  BY DEF Init
<1>6. LedgerShape
  BY <1>5, FS_EmptySet DEF LedgerShape
<1>7. StoredOnce
  BY <1>5, SumOfNone DEF StoredOnce
<1> QED
  BY <1>4, <1>6, <1>7 DEF StoreInv

\* What a worker in a call works on.
LEMMA JobOfCall ==
    ASSUME TypeOK, NEW w \in Workers, pc[w] # "idle"
    PROVE  /\ job[w] \in Jobs /\ Order(w) \in Orders /\ mem[w] \in Memory
           /\ job[w].op = "EXECUTE" => job[w].exec \in Execs /\ Order(w) = ExecOf[job[w].exec]
BY JobOrder DEF TypeOK, Order

\* A call that ends leaves the worker's variables well typed.
LEMMA ReturnTypes ==
    ASSUME TypeOK, NEW w \in Workers, NEW how \in {"none", "saved", "refused", "broken"},
           Return(w, how)
    PROVE  /\ pc' \in [Workers -> {"idle", "reading", "ready"}]
           /\ job' \in [Workers -> Jobs \cup {Idle}]
           /\ mem' \in [Workers -> Memory]
           /\ reply' \in [Workers -> {"none", "saved", "refused", "broken"}]
           /\ \A v \in Workers : pc'[v] # "idle" => job'[v] \in Jobs
<1>1. Blank \in Memory
  BY DEF Blank, Memory
<1> QED
  BY <1>1 DEF Return, TypeOK

\* A saved state touches the row alone.
LEMMA SaveStateKeeps ==
    ASSUME StoreInv, NEW w \in Workers, pc[w] # "idle", NEW st \in States, SaveState(w, st)
    PROVE  /\ orders' \in [Orders -> Row] /\ LedgerShape' /\ StoredOnce'
           /\ ledger' \in [Orders -> [ids : SUBSET Execs, sum : Nat]]
<1>1. Order(w) \in Orders /\ mem[w].filled \in Nat
  BY JobOfCall DEF StoreInv, Memory
<1>2. orders' \in [Orders -> Row]
  BY <1>1 DEF SaveState, StoreInv, TypeOK, Row
<1> QED
  BY <1>2 DEF SaveState, StoreInv, TypeOK, LedgerShape, StoredOnce

\* A saved fill adds an execution the ledger does not have, and its quantity.
LEMMA SaveFillKeeps ==
    ASSUME StoreInv, NEW w \in Workers, pc[w] # "idle", job[w].op = "EXECUTE",
           NEW st \in States, SaveFill(w, st, ExecQty[job[w].exec])
    PROVE  /\ orders' \in [Orders -> Row] /\ LedgerShape' /\ StoredOnce'
           /\ ledger' \in [Orders -> [ids : SUBSET Execs, sum : Nat]]
<1> DEFINE o == Order(w)
           e == job[w].exec
           l == ledger[o]
<1>1. /\ o \in Orders /\ e \in Execs /\ ExecOf[e] = o
      /\ mem[w].filled \in Nat /\ ExecQty[e] \in Nat
  BY JobOfCall, StoreAssumption DEF StoreInv, Memory
<1>2. orders' \in [Orders -> Row]
  BY <1>1 DEF SaveFill, StoreInv, TypeOK, Row
<1>3. /\ l.ids \in SUBSET Execs /\ l.sum \in Nat /\ IsFiniteSet(l.ids)
      /\ l.sum = SumFunctionOnSet(ExecQty, l.ids)
      /\ \A x \in l.ids : ExecOf[x] = o
  BY <1>1 DEF StoreInv, TypeOK, LedgerShape, StoredOnce
<1>4. CASE e \in l.ids
  <2>1. ledger' = ledger
    BY <1>1, <1>4 DEF SaveFill, StoreInv, TypeOK
  <2> QED
    BY <1>2, <2>1 DEF StoreInv, TypeOK, LedgerShape, StoredOnce
<1>5. CASE e \notin l.ids
  <2>1. ledger' = [ledger EXCEPT ![o] = [ids |-> l.ids \cup {e}, sum |-> l.sum + ExecQty[e]]]
    BY <1>5 DEF SaveFill
  <2>2. /\ ledger'[o] = [ids |-> l.ids \cup {e}, sum |-> l.sum + ExecQty[e]]
        /\ \A p \in Orders \ {o} : ledger'[p] = ledger[p]
        /\ ledger' \in [Orders -> [ids : SUBSET Execs, sum : Nat]]
    BY <1>1, <1>3, <2>1 DEF StoreInv, TypeOK
  <2>3. LedgerShape'
    <3>1. IsFiniteSet(l.ids \cup {e})
      BY <1>3, FS_AddElement
    <3>2. \A x \in l.ids \cup {e} : ExecOf[x] = o
      BY <1>1, <1>3
    <3>3. ledger'[o].ids = l.ids \cup {e}
      BY <2>2
    <3>4. ASSUME NEW p \in Orders
          PROVE  /\ IsFiniteSet(ledger'[p].ids)
                 /\ \A x \in ledger'[p].ids : ExecOf[x] = p
      <4>1. CASE p = o
        BY <3>1, <3>2, <3>3, <4>1
      <4>2. CASE p # o
        BY <2>2, <4>2 DEF StoreInv, LedgerShape
      <4> QED
        BY <4>1, <4>2
    <3> QED
      BY <3>4 DEF LedgerShape
  <2>4. StoredOnce'
    <3>1. SumFunctionOnSet(ExecQty, l.ids \cup {e}) = l.sum + ExecQty[e]
      BY <1>1, <1>3, <1>5, SumGrows
    <3>2. ASSUME NEW p \in Orders
          PROVE  ledger'[p].sum = SumFunctionOnSet(ExecQty, ledger'[p].ids)
      <4>1. CASE p = o
        <5>1. ledger'[o].ids = l.ids \cup {e} /\ ledger'[o].sum = l.sum + ExecQty[e]
          BY <2>2
        <5> HIDE DEF l, e, o
        <5> QED
          BY <3>1, <4>1, <5>1
      <4>2. CASE p # o
        BY <2>2, <4>2 DEF StoreInv, StoredOnce
      <4> QED
        BY <4>1, <4>2
    <3> QED
      BY <3>2 DEF StoredOnce
  <2> QED
    BY <1>2, <2>2, <2>3, <2>4
<1> QED
  BY <1>4, <1>5

\* Every step keeps the invariant, however the workers interleave.
LEMMA StoreInductive == StoreInv /\ [Next]_vars => StoreInv'
<1> SUFFICES ASSUME StoreInv, [Next]_vars PROVE StoreInv'
  OBVIOUS
<1>1. ASSUME UNCHANGED <<orders, ledger>>
      PROVE  /\ orders' \in [Orders -> Row] /\ LedgerShape' /\ StoredOnce'
             /\ ledger' \in [Orders -> [ids : SUBSET Execs, sum : Nat]]
  BY <1>1 DEF StoreInv, TypeOK, LedgerShape, StoredOnce
<1>2. ASSUME NEW w \in Workers, UNCHANGED usage,
             NEW how \in {"none", "saved", "refused", "broken"}, Return(w, how),
             orders' \in [Orders -> Row], LedgerShape', StoredOnce',
             ledger' \in [Orders -> [ids : SUBSET Execs, sum : Nat]]
      PROVE  StoreInv'
  BY <1>2, ReturnTypes DEF StoreInv, TypeOK
<1>3. ASSUME NEW w \in Workers, UNCHANGED usage, Step(w) PROVE StoreInv'
  <2>1. CASE ReadLedger(w)
    <3>1. Order(w) \in Orders /\ mem[w] \in Memory
      BY <2>1, JobOfCall DEF ReadLedger, StoreInv
    <3>2. mem' \in [Workers -> Memory]
      BY <2>1, <3>1 DEF ReadLedger, StoreInv, TypeOK, Memory
    <3> QED
      BY <1>1, <1>3, <2>1, <3>2 DEF ReadLedger, StoreInv, TypeOK
  <2>2. ASSUME NEW from, NEW ev \in {"SUBMIT", "ACKNOWLEDGE"}, StepThrough(w, from, ev)
        PROVE  StoreInv'
    <3>1. pc[w] # "idle" /\ Target(ev) \in States /\ SaveState(w, Target(ev))
      BY <2>2 DEF StepThrough, Target
    <3>2. mem[w] \in Memory
      BY <3>1, JobOfCall DEF StoreInv
    <3>3. mem' \in [Workers -> Memory]
      BY <2>2, <3>1, <3>2 DEF StepThrough, StoreInv, TypeOK, Memory
    <3> QED
      BY <1>3, <2>2, <3>1, <3>3, SaveStateKeeps DEF StepThrough, StoreInv, TypeOK
  <2>3. CASE Submit(w) \/ Acknowledge(w)
    BY <2>2, <2>3 DEF Submit, Acknowledge
  <2>4. CASE Redeliver(w)
    <3>1. pc[w] # "idle" /\ SaveState(w, mem[w].state) /\ Return(w, "saved")
      BY <2>4 DEF Redeliver, AtFill
    <3>2. mem[w].state \in States
      BY <3>1, JobOfCall DEF StoreInv, Memory
    <3> QED
      BY <1>2, <1>3, <3>1, <3>2, SaveStateKeeps
  <2>5. CASE Execute(w)
    <3> DEFINE q == ExecQty[job[w].exec]
    <3>1. PICK ev \in FillEvents :
            \/ /\ SaveFill(w, AfterFill(ev, mem[w].filled, q, OrderQty[Order(w)]), q)
               /\ Return(w, "saved")
            \/ UNCHANGED <<orders, ledger>> /\ Return(w, "refused")
            \/ UNCHANGED <<orders, ledger>> /\ Return(w, "broken")
      BY <2>5 DEF Execute, EventOfFill
    <3>2. pc[w] # "idle" /\ job[w].op = "EXECUTE"
      BY <2>5 DEF Execute, AtFill
    <3>3. AfterFill(ev, mem[w].filled, q, OrderQty[Order(w)]) \in States
      BY TargetIsState DEF AfterFill
    <3> QED
      BY <1>1, <1>2, <1>3, <3>1, <3>2, <3>3, SaveFillKeeps
  <2>6. CASE Mark(w)
    <3>1. pc[w] # "idle" /\ (job[w].op \in Marks => Target(job[w].op) \in States)
      BY <2>6, StoreAssumption, TargetIsState DEF Mark
    <3> QED
      BY <1>1, <1>2, <1>3, <2>6, <3>1, SaveStateKeeps DEF Mark
  <2>7. CASE Fail(w)
    BY <1>1, <1>2, <1>3, <2>7 DEF Fail
  <2> QED
    BY <1>3, <2>1, <2>3, <2>4, <2>5, <2>6, <2>7 DEF Step
<1>4. ASSUME NEW w \in Workers, NEW j \in usage.jobs, UNCHANGED usage, ReadRow(w, j)
      PROVE  StoreInv'
  <2>1. j \in Jobs /\ j.order \in Orders
    BY JobOrder, UsageAssumption DEF StoreInv, TypeOK
  <2>2. mem' \in [Workers -> Memory]
    BY <1>4, <2>1 DEF ReadRow, StoreInv, TypeOK, Memory, Row
  <2> QED
    BY <1>1, <1>4, <2>1, <2>2 DEF ReadRow, StoreInv, TypeOK
<1>5. CASE UNCHANGED vars
  BY <1>5 DEF vars, StoreInv, TypeOK, LedgerShape, StoredOnce
<1> QED
  BY <1>3, <1>4, <1>5 DEF Next

THEOREM StoreInvariance == Spec => []StoreInv
BY StoreInit, StoreInductive, PTL DEF Spec

\* Type correctness of the store, however its workers interleave.
THEOREM StoreTypeOK == Spec => []TypeOK
BY StoreInvariance, PTL DEF StoreInv

\* However many workers deliver the same executions, and whatever each of them
\* read before the others saved: each execution is stored once.
THEOREM StoreStoredOnce == Spec => []StoredOnce
BY StoreInvariance, PTL DEF StoreInv

-----------------------------------------------------------------------------
\* The first state satisfies the invariant.
LEMMA SerialInit == Init /\ usage.serial => SerialInv
<1> SUFFICES ASSUME Init, usage.serial PROVE SerialInv
  OBVIOUS
<1>1. \A o \in Orders : orders[o].state \in StartIn /\ orders[o].filled = 0
  BY DEF Init
<1>2. TypeOK
  BY StoreInit DEF StoreInv
<1>3. RowAgreesWithLedger
  BY <1>1, StoreAssumption DEF Init, RowAgreesWithLedger
<1>4. OneBusy /\ Fresh /\ NeverOverfilled
  BY StoreAssumption DEF Init, OneBusy, Fresh, NeverOverfilled
<1> QED
  BY <1>2, <1>3, <1>4 DEF SerialInv

\* What a worker inside a call knows: its order exists, is as remembered, and
\* its remembered quantity is the sum of the ledger.
LEMMA InCall ==
    ASSUME SerialInv, NEW w \in Workers, pc[w] # "idle"
    PROVE  /\ job[w] \in Jobs
           /\ Order(w) \in Orders
           /\ mem[w].state = orders[Order(w)].state
           /\ mem[w].filled = ledger[Order(w)].sum
           /\ pc[w] = "ready" => mem[w].ids = ledger[Order(w)].ids
           /\ \A v \in Workers : v # w => pc[v] = "idle"
BY JobOrder DEF SerialInv, TypeOK, OneBusy, Fresh, RowAgreesWithLedger, Order

\* Returning from a call leaves nobody busy.
LEMMA ReturnQuiet ==
    ASSUME SerialInv, NEW w \in Workers, pc[w] # "idle",
           NEW how \in {"none", "saved", "refused", "broken"}, Return(w, how)
    PROVE  /\ \A v \in Workers : pc'[v] = "idle"
           /\ OneBusy' /\ Fresh'
           /\ pc' \in [Workers -> {"idle", "reading", "ready"}]
           /\ job' \in [Workers -> Jobs \cup {Idle}]
           /\ mem' \in [Workers -> Memory]
           /\ reply' \in [Workers -> {"none", "saved", "refused", "broken"}]
<1>1. \A v \in Workers : pc'[v] = "idle"
  BY InCall DEF Return, SerialInv, TypeOK
<1>2. Blank \in Memory
  BY DEF Blank, Memory
<1> QED
  BY <1>1, <1>2 DEF Return, SerialInv, TypeOK, OneBusy, Fresh

\* A state that is saved again over an order, with the quantity remembered,
\* keeps the row in agreement: it is the old state, or neither it nor the old
\* one is FILLED and it is not PARTIALLY_FILLED.
LEMMA SavePreserves ==
    ASSUME SerialInv, NEW w \in Workers, pc[w] # "idle", NEW st \in States,
           SaveState(w, st), UNCHANGED usage,
           \/ st = mem[w].state
           \/ mem[w].state \in Working /\ st \notin {"FILLED", "PARTIALLY_FILLED"}
    PROVE  /\ RowAgreesWithLedger' /\ NeverOverfilled'
           /\ orders' \in [Orders -> Row]
           /\ ledger' \in [Orders -> [ids : SUBSET Execs, sum : Nat]]
<1> DEFINE o == Order(w)
<1>1. o \in Orders /\ mem[w].state = orders[o].state /\ mem[w].filled = ledger[o].sum
  BY InCall
<1>2. ledger' = ledger
  BY DEF SaveState
<1>3. orders'[o] = [state |-> st, filled |-> ledger[o].sum]
  BY <1>1 DEF SaveState, SerialInv, TypeOK
<1>4. \A p \in Orders : p # o => orders'[p] = orders[p]
  BY <1>1 DEF SaveState, SerialInv, TypeOK
<1>5. ledger[o].sum \in Nat
  BY <1>1 DEF SerialInv, TypeOK
<1>6. orders' \in [Orders -> Row]
  BY <1>1, <1>5 DEF SaveState, SerialInv, TypeOK, Row
<1>7. st = "FILLED" <=> ledger[o].sum = OrderQty[o]
  BY <1>1 DEF SerialInv, RowAgreesWithLedger
<1>8. st = "PARTIALLY_FILLED" => ledger[o].sum > 0
  BY <1>1 DEF SerialInv, RowAgreesWithLedger
<1>9. RowAgreesWithLedger'
  <2> SUFFICES ASSUME NEW p \in Orders
               PROVE  /\ orders'[p].filled = ledger'[p].sum
                      /\ orders'[p].state = "FILLED" <=> ledger'[p].sum = OrderQty[p]
                      /\ orders'[p].state = "PARTIALLY_FILLED" => ledger'[p].sum > 0
    BY DEF RowAgreesWithLedger
  <2>1. CASE p = o
    BY <2>1, <1>2, <1>3, <1>7, <1>8
  <2>2. CASE p # o
    BY <2>2, <1>2, <1>4 DEF SerialInv, RowAgreesWithLedger
  <2> QED
    BY <2>1, <2>2
<1> QED
  BY <1>2, <1>6, <1>9 DEF SerialInv, TypeOK, NeverOverfilled

\* What an accepted fill leaves: the order complete and FILLED, or short of
\* its size and PARTIALLY_FILLED.
LEMMA FillOutcome ==
    ASSUME NEW st \in States, NEW ev \in FillEvents, NEW filled \in Nat,
           NEW q \in Nat \ {0}, NEW qty \in Nat \ {0},
           FillAccepted(st, ev, filled, q, qty)
    PROVE  /\ st \in Working
           /\ filled + q <= qty
           /\ AfterFill(ev, filled, q, qty) =
                 IF filled + q = qty THEN "FILLED" ELSE "PARTIALLY_FILLED"
BY DEF FillAccepted, Fits, WellFormed, AfterFill, Target, Allowed

\* An accepted fill: what it writes to the tables.
LEMMA FillWrites ==
    ASSUME SerialInv, NEW w \in Workers, AtFill(w), ~Known(w),
           NEW ev \in FillEvents,
           FillAccepted(mem[w].state, ev, mem[w].filled,
                        ExecQty[job[w].exec], OrderQty[Order(w)]),
           SaveFill(w, AfterFill(ev, mem[w].filled, ExecQty[job[w].exec],
                                 OrderQty[Order(w)]), ExecQty[job[w].exec])
    PROVE  LET o == Order(w)
               e == job[w].exec
               total == ledger[o].sum + ExecQty[e]
               st == IF total = OrderQty[o] THEN "FILLED" ELSE "PARTIALLY_FILLED"
           IN  /\ o \in Orders /\ e \in Execs /\ ExecOf[e] = o
               /\ e \notin ledger[o].ids
               /\ orders[o].state \in Working
               /\ total \in Nat /\ 0 < total /\ total <= OrderQty[o]
               /\ orders' = [orders EXCEPT ![o] = [state |-> st, filled |-> total]]
               /\ ledger' = [ledger EXCEPT ![o] = [ids |-> ledger[o].ids \cup {e},
                                                  sum |-> total]]
<1> DEFINE o == Order(w)
           e == job[w].exec
<1>1. pc[w] = "ready" /\ job[w].op = "EXECUTE"
  BY DEF AtFill
<1>2. /\ job[w] \in Jobs /\ o \in Orders /\ mem[w].state = orders[o].state
      /\ mem[w].filled = ledger[o].sum /\ mem[w].ids = ledger[o].ids
  BY <1>1, InCall
<1>3. e \in Execs /\ ExecOf[e] = o
  BY <1>1, <1>2, JobOrder DEF Order
<1>4. e \notin ledger[o].ids
  BY <1>2 DEF Known
<1>5. ExecQty[e] \in Nat \ {0} /\ OrderQty[o] \in Nat \ {0} /\ ledger[o].sum \in Nat
  BY <1>2, <1>3, StoreAssumption DEF SerialInv, TypeOK
<1>6. orders[o].state \in States
  BY <1>2 DEF SerialInv, TypeOK, Row
<1>7. /\ orders[o].state \in Working
      /\ ledger[o].sum + ExecQty[e] <= OrderQty[o]
      /\ AfterFill(ev, mem[w].filled, ExecQty[e], OrderQty[o]) =
            IF ledger[o].sum + ExecQty[e] = OrderQty[o]
            THEN "FILLED" ELSE "PARTIALLY_FILLED"
  <2>1. FillAccepted(orders[o].state, ev, ledger[o].sum, ExecQty[e], OrderQty[o])
    BY <1>2
  <2> QED
    BY <2>1, <1>2, <1>5, <1>6, FillOutcome
<1>8. /\ orders' = [orders EXCEPT ![o] =
               [state |-> AfterFill(ev, mem[w].filled, ExecQty[e], OrderQty[o]),
                filled |-> ledger[o].sum + ExecQty[e]]]
      /\ ledger' = [ledger EXCEPT ![o] = [ids |-> ledger[o].ids \cup {e},
                                         sum |-> ledger[o].sum + ExecQty[e]]]
  BY <1>2, <1>4 DEF SaveFill, SerialInv, TypeOK
<1> QED
  BY <1>2, <1>3, <1>4, <1>5, <1>7, <1>8

-----------------------------------------------------------------------------
\* Every step of the one worker preserves the invariant.
LEMMA SerialStep ==
    ASSUME SerialInv, NEW w \in Workers, Step(w), UNCHANGED usage
    PROVE  SerialInv'
<1> pc[w] # "idle"
  BY DEF Step, ReadLedger, Submit, Acknowledge, StepThrough, Redeliver, Execute,
         AtFill, Mark, Fail
<1> DEFINE o == Order(w)
<1>0. /\ job[w] \in Jobs /\ o \in Orders
      /\ mem[w].state = orders[o].state /\ mem[w].state \in States
      /\ mem[w].filled = ledger[o].sum
      /\ \A v \in Workers : v # w => pc[v] = "idle"
  BY InCall DEF SerialInv, TypeOK, Memory
<1>1. CASE ReadLedger(w)
  <2>1. UNCHANGED <<orders, ledger, job, reply>>
    BY <1>1 DEF ReadLedger
  <2>2. pc' = [pc EXCEPT ![w] = "ready"]
    BY <1>1 DEF ReadLedger
  <2>3. mem' = [mem EXCEPT ![w] = [state |-> orders[o].state,
                                   filled |-> orders[o].filled,
                                   ids |-> ledger[o].ids]]
    BY <1>0, <1>1 DEF ReadLedger, SerialInv, TypeOK, RowAgreesWithLedger
  <2>4. mem' \in [Workers -> Memory]
    BY <1>0, <2>3 DEF SerialInv, TypeOK, Memory, Row
  <2>5. TypeOK'
    BY <1>0, <2>1, <2>2, <2>4 DEF SerialInv, TypeOK
  <2>6. OneBusy'
    BY <1>0, <2>2 DEF SerialInv, TypeOK, OneBusy
  <2>7. Fresh'
    BY <1>0, <2>1, <2>2, <2>3 DEF SerialInv, TypeOK, Fresh, Order
  <2> QED
    BY <2>1, <2>5, <2>6, <2>7 DEF SerialInv, RowAgreesWithLedger, NeverOverfilled
<1>2. ASSUME NEW from \in {"CREATED", "SUBMITTED"}, NEW ev \in {"SUBMIT", "ACKNOWLEDGE"},
             StepThrough(w, from, ev)
      PROVE  SerialInv'
  <2>1. Target(ev) \in {"SUBMITTED", "ACKNOWLEDGED"}
    BY DEF Target
  <2>2. /\ mem[w].state \in Working /\ SaveState(w, Target(ev))
        /\ mem' = [mem EXCEPT ![w].state = Target(ev)]
        /\ UNCHANGED <<pc, job, reply>>
    BY <1>2 DEF StepThrough
  <2>3. /\ RowAgreesWithLedger' /\ NeverOverfilled'
        /\ orders' \in [Orders -> Row]
        /\ ledger' \in [Orders -> [ids : SUBSET Execs, sum : Nat]]
    BY <2>1, <2>2, SavePreserves
  <2>4. TypeOK'
    BY <2>1, <2>2, <2>3 DEF SerialInv, TypeOK, Memory
  <2>5. OneBusy'
    BY <2>2 DEF SerialInv, OneBusy
  <2>6. Fresh'
    BY <1>0, <2>1, <2>2 DEF SerialInv, TypeOK, Fresh, Order, SaveState, Memory
  <2> QED
    BY <2>3, <2>4, <2>5, <2>6 DEF SerialInv
<1>3. CASE Submit(w) \/ Acknowledge(w)
  BY <1>2, <1>3 DEF Submit, Acknowledge
<1>4. CASE Redeliver(w)
  <2>1. SaveState(w, mem[w].state) /\ Return(w, "saved")
    BY <1>4 DEF Redeliver
  <2> QED
    BY <1>0, <2>1, SavePreserves, ReturnQuiet DEF SerialInv, TypeOK
<1>5. ASSUME UNCHANGED <<orders, ledger>>, NEW how \in {"none", "saved", "refused", "broken"},
             Return(w, how)
      PROVE  SerialInv'
  BY <1>5, ReturnQuiet DEF SerialInv, TypeOK, RowAgreesWithLedger, NeverOverfilled
<1>6. CASE Execute(w)
  <2> DEFINE e == job[w].exec
             q == ExecQty[e]
  <2>1. PICK ev \in FillEvents :
          \/ /\ FillAccepted(mem[w].state, ev, mem[w].filled, q, OrderQty[o])
             /\ SaveFill(w, AfterFill(ev, mem[w].filled, q, OrderQty[o]), q)
             /\ Return(w, "saved")
          \/ UNCHANGED <<orders, ledger>> /\ Return(w, "refused")
          \/ UNCHANGED <<orders, ledger>> /\ Return(w, "broken")
    BY <1>6 DEF Execute, EventOfFill
  <2>2. CASE /\ FillAccepted(mem[w].state, ev, mem[w].filled, q, OrderQty[o])
             /\ SaveFill(w, AfterFill(ev, mem[w].filled, q, OrderQty[o]), q)
             /\ Return(w, "saved")
    <3> DEFINE total == ledger[o].sum + q
               st == IF total = OrderQty[o] THEN "FILLED" ELSE "PARTIALLY_FILLED"
    <3>1. /\ e \in Execs
          /\ total \in Nat /\ 0 < total /\ total <= OrderQty[o]
          /\ orders' = [orders EXCEPT ![o] = [state |-> st, filled |-> total]]
          /\ ledger' = [ledger EXCEPT ![o] = [ids |-> ledger[o].ids \cup {e},
                                             sum |-> total]]
      BY <1>6, <2>2, FillWrites DEF Execute
    <3>2. orders' \in [Orders -> Row]
      BY <1>0, <3>1 DEF SerialInv, TypeOK, Row
    <3>3. ledger' \in [Orders -> [ids : SUBSET Execs, sum : Nat]]
      BY <1>0, <3>1 DEF SerialInv, TypeOK
    <3>4. RowAgreesWithLedger'
      BY <1>0, <3>1 DEF SerialInv, TypeOK, RowAgreesWithLedger
    <3>5. NeverOverfilled'
      BY <1>0, <3>1 DEF SerialInv, TypeOK, NeverOverfilled
    <3> QED
      BY <2>2, <3>2, <3>3, <3>4, <3>5, ReturnQuiet DEF SerialInv, TypeOK
  <2> QED
    BY <1>5, <2>1, <2>2
<1>7. CASE Mark(w)
  <2>1. CASE /\ job[w].op \in Marks
             /\ job[w].op \in Allowed(mem[w].state)
             /\ SaveState(w, Target(job[w].op)) /\ Return(w, "saved")
    <3>1. mem[w].state \in Working
      BY <1>0, <2>1, TerminalAcceptsNothing
    <3>2. /\ Target(job[w].op) \in States
          /\ Target(job[w].op) \notin {"FILLED", "PARTIALLY_FILLED"}
      BY <2>1, StoreAssumption DEF Target
    <3> QED
      BY <2>1, <3>1, <3>2, SavePreserves, ReturnQuiet DEF SerialInv, TypeOK
  <2> QED
    BY <1>5, <1>7, <2>1 DEF Mark
<1>8. CASE Fail(w)
  BY <1>5, <1>8 DEF Fail
<1> QED
  BY <1>1, <1>3, <1>4, <1>6, <1>7, <1>8 DEF Step

\* Starting a call while nobody is busy preserves it too.
LEMMA SerialRead ==
    ASSUME SerialInv, NEW w \in Workers, NEW j \in Jobs, NobodyBusy, ReadRow(w, j),
           UNCHANGED usage
    PROVE  SerialInv'
<1>1. j.order \in Orders
  BY JobOrder
<1>2. /\ pc' = [pc EXCEPT ![w] = "reading"] /\ job' = [job EXCEPT ![w] = j]
      /\ mem' = [mem EXCEPT ![w] = [state |-> orders[j.order].state,
                                    filled |-> orders[j.order].filled, ids |-> {}]]
      /\ UNCHANGED <<orders, ledger, reply>>
  BY DEF ReadRow
<1>3. mem' \in [Workers -> Memory]
  BY <1>1, <1>2 DEF SerialInv, TypeOK, Memory, Row
<1>4. TypeOK'
  BY <1>2, <1>3 DEF SerialInv, TypeOK, NobodyBusy
<1>5. OneBusy'
  BY <1>2 DEF SerialInv, TypeOK, OneBusy, NobodyBusy
<1>6. Fresh'
  BY <1>1, <1>2 DEF SerialInv, TypeOK, Fresh, NobodyBusy, Order
<1> QED
  BY <1>2, <1>4, <1>5, <1>6 DEF SerialInv, RowAgreesWithLedger, NeverOverfilled

\* Every step of the serial store, stuttering included, keeps the invariant.
LEMMA SerialInductive == SerialInv /\ [Next]_vars => SerialInv'
<1> SUFFICES ASSUME SerialInv, [Next]_vars PROVE SerialInv'
  OBVIOUS
<1>1. CASE Next
  <2>1. PICK w \in Workers : Step(w) \/ (NobodyBusy /\ \E j \in usage.jobs : ReadRow(w, j))
    BY <1>1 DEF Next, SerialInv
  <2>2. usage.jobs \subseteq Jobs /\ UNCHANGED usage
    BY <1>1, UsageAssumption DEF Next, SerialInv, TypeOK
  <2> QED
    BY <2>1, <2>2, SerialStep, SerialRead
<1>2. CASE UNCHANGED vars
  BY <1>2 DEF vars, SerialInv, TypeOK, OneBusy, Fresh, RowAgreesWithLedger,
              NeverOverfilled, Order
<1> QED
  BY <1>1, <1>2

\* The usage a behaviour began with is the one it keeps.
LEMMA UsageStays == [Next]_vars => UNCHANGED usage
BY DEF Next, vars

\* The strengthened invariant holds whenever one caller at a time uses the
\* store: the theorems below read their property off it.
THEOREM SerialInvariance == Spec => [](usage.serial => SerialInv)
<1>1. Init => (usage.serial => SerialInv)
  BY SerialInit
<1>2. (usage.serial => SerialInv) /\ [Next]_vars => (usage.serial => SerialInv)'
  BY SerialInductive, UsageStays
<1> QED
  BY <1>1, <1>2, PTL DEF Spec

\* Used by one caller at a time, the store never holds more executions than
\* an order has room for.
THEOREM SerialNeverOverfilled == Spec => [](usage.serial => NeverOverfilled)
<1>1. (usage.serial => SerialInv) => (usage.serial => NeverOverfilled)
  BY DEF SerialInv
<1> QED
  BY <1>1, SerialInvariance, PTL

\* Used by one caller at a time, status, filled_qty and the executions table
\* agree, across every crash between two transactions of a call.
THEOREM SerialRowAgrees == Spec => []RowAgreesWithLedger
<1>1. (usage.serial => SerialInv) => RowAgreesWithLedger
  BY DEF SerialInv, RowAgreesWithLedger
<1> QED
  BY <1>1, SerialInvariance, PTL

-----------------------------------------------------------------------------
\* What a step does to the promise: it stutters, collects an execution or
\* closes an order.
USE DEF Register!regVars, Register!RegNext, Promised

\* A row saved without leaving or entering the working states is a stutter.
LEMMA SaveStutters ==
    ASSUME SerialInv, NEW w \in Workers, pc[w] # "idle", NEW st \in States,
           SaveState(w, st), st \in Working <=> mem[w].state \in Working,
           UNCHANGED usage
    PROVE  UNCHANGED Register!regVars
<1>1. /\ Order(w) \in Orders /\ mem[w].state = orders[Order(w)].state
      /\ orders \in [Orders -> Row]
  BY InCall DEF SerialInv, TypeOK
<1>2. \A o \in Orders : orders'[o].state \in Working <=> orders[o].state \in Working
  BY <1>1 DEF SaveState
<1>3. ledger' = ledger
  BY DEF SaveState
<1>4. \A o \in Orders : ledger'[o] = ledger[o]
  BY <1>3
<1> QED
  BY <1>2, <1>4

\* A call that returns without writing is a stutter.
LEMMA NoWriteStutters == UNCHANGED <<orders, ledger, usage>> => UNCHANGED Register!regVars
OBVIOUS

\* Every step of a call collects one execution, closes one order, or stutters.
LEMMA StepKeepsPromise ==
    ASSUME SerialInv, NEW w \in Workers, Step(w), UNCHANGED usage
    PROVE  Register!RegNext \/ UNCHANGED Register!regVars
<1> pc[w] # "idle"
  BY DEF Step, ReadLedger, Submit, Acknowledge, StepThrough, Redeliver, Execute,
         AtFill, Mark, Fail
<1> usage.serial /\ usage'.serial
  BY DEF SerialInv
<1> DEFINE o == Order(w)
<1>0. /\ job[w] \in Jobs /\ o \in Orders
      /\ mem[w].state = orders[o].state /\ mem[w].state \in States
  BY InCall DEF SerialInv, TypeOK, Memory
<1>1. CASE ReadLedger(w) \/ Fail(w)
  BY <1>1, NoWriteStutters DEF ReadLedger, Fail
<1>2. CASE Submit(w) \/ Acknowledge(w)
  BY <1>2, SaveStutters DEF Submit, Acknowledge, StepThrough, Target
<1>3. CASE Redeliver(w)
  BY <1>0, <1>3, SaveStutters DEF Redeliver
<1>4. CASE Execute(w)
  <2> DEFINE e == job[w].exec
             q == ExecQty[e]
  <2>1. PICK ev \in FillEvents :
          \/ /\ FillAccepted(mem[w].state, ev, mem[w].filled, q, OrderQty[o])
             /\ SaveFill(w, AfterFill(ev, mem[w].filled, q, OrderQty[o]), q)
          \/ UNCHANGED <<orders, ledger>>
    BY <1>4 DEF Execute, EventOfFill
  <2>2. CASE /\ FillAccepted(mem[w].state, ev, mem[w].filled, q, OrderQty[o])
             /\ SaveFill(w, AfterFill(ev, mem[w].filled, q, OrderQty[o]), q)
    <3> DEFINE total == ledger[o].sum + q
               st == IF total = OrderQty[o] THEN "FILLED" ELSE "PARTIALLY_FILLED"
    <3>1. /\ e \in Execs /\ ExecOf[e] = o /\ e \notin ledger[o].ids
          /\ orders[o].state \in Working
          /\ total \in Nat /\ total <= OrderQty[o]
          /\ orders' = [orders EXCEPT ![o] = [state |-> st, filled |-> total]]
          /\ ledger' = [ledger EXCEPT ![o] = [ids |-> ledger[o].ids \cup {e},
                                             sum |-> total]]
      BY <1>4, <2>2, FillWrites DEF Execute
    <3>2. PICK x \in Execs, y \in Orders : x = e /\ y = o
      BY <1>0, <3>1
    <3> DEFINE open == Promised({p \in Orders : orders[p].state \in Working}, Orders)
               got == [p \in Orders |-> Promised(ledger[p].ids, {})]
               filled == [p \in Orders |-> Promised(ledger[p].sum, 0)]
    <3>3. /\ ledger'[y].ids = ledger[y].ids \cup {x} /\ ledger'[y].sum = total
          /\ \A p \in Orders \ {y} : ledger'[p] = ledger[p]
      BY <3>1, <3>2 DEF SerialInv, TypeOK
    <3>4. got' = [got EXCEPT ![y] = @ \cup {x}]
      BY <3>3
    <3>5. filled' = [filled EXCEPT ![y] = total]
      BY <3>3
    <3>6. open' = IF total = OrderQty[y] THEN open \ {y} ELSE open
      BY <3>1, <3>2 DEF SerialInv, TypeOK
    <3>7. /\ y \in open /\ x \notin got[y]
          /\ total = filled[y] + ExecQty[x] /\ total <= OrderQty[y]
      BY <3>1, <3>2
    <3>8. ExecOf[x] = y
      BY <3>1, <3>2
    <3> HIDE DEF open, got, filled, total
    <3>9. Register!Collect(x)
      BY <3>4, <3>5, <3>6, <3>7, <3>8 DEF Register!Collect, open, got, filled
    <3> QED
      BY <3>9
  <2> QED
    BY <2>1, <2>2, NoWriteStutters
<1>5. CASE Mark(w)
  <2> DEFINE st == Target(job[w].op)
  <2>1. CASE /\ job[w].op \in Marks
             /\ job[w].op \in Allowed(mem[w].state)
             /\ SaveState(w, st)
    <3>1. mem[w].state \in Working
      BY <1>0, <2>1, TerminalAcceptsNothing
    <3>2. st \in States
      BY <2>1, StoreAssumption, TargetIsState
    <3>3. CASE st \in Working
      BY <2>1, <3>1, <3>2, <3>3, SaveStutters
    <3>4. CASE st \notin Working
      <4>1. orders' = [orders EXCEPT ![o] = [state |-> st, filled |-> mem[w].filled]]
            /\ ledger' = ledger
        BY <2>1 DEF SaveState
      <4>2. {p \in Orders : orders'[p].state \in Working}
              = {p \in Orders : orders[p].state \in Working} \ {o}
        BY <1>0, <3>4, <4>1 DEF SerialInv, TypeOK
      <4>3. PICK p \in Orders : p = o
        BY <1>0
      <4>4. Register!Close(p)
        BY <1>0, <3>1, <4>1, <4>2, <4>3 DEF Register!Close
      <4> QED
        BY <4>4
    <3> QED
      BY <3>3, <3>4
  <2> QED
    BY <1>5, <2>1, NoWriteStutters DEF Mark
<1> QED
  BY <1>1, <1>2, <1>3, <1>4, <1>5 DEF Step

\* The store used by one caller at a time implements the fill register: each
\* execution counts once and within the size of its order, whatever is
\* redelivered, refused, or cut short between two transactions.
THEOREM SerialKeepsRegister == Spec => KeepsRegister
<1>1. Init => Register!RegInit
  <2> SUFFICES ASSUME Init PROVE Register!RegInit
    OBVIOUS
  <2>1. PICK start \in [Orders -> StartIn] :
           orders = [o \in Orders |-> [state |-> start[o], filled |-> 0]]
    BY DEF Init
  <2>2. \A o \in Orders : start[o] \in Working
    BY StoreAssumption
  <2>3. \A o \in Orders : orders[o].state \in Working
    BY <2>1, <2>2
  <2> QED
    BY <2>3 DEF Init, Register!RegInit
<1>2. (usage.serial => SerialInv) /\ [Next]_vars
        => [Register!RegNext]_(Register!regVars)
  <2> SUFFICES ASSUME usage.serial => SerialInv, [Next]_vars
               PROVE  [Register!RegNext]_(Register!regVars)
    OBVIOUS
  <2>1. CASE ~usage.serial
    BY <2>1, UsageStays
  <2>2. CASE SerialInv /\ Next
    <3>1. UNCHANGED usage
      BY UsageStays
    <3>2. ASSUME NEW w \in Workers, NEW j, ReadRow(w, j)
          PROVE  UNCHANGED Register!regVars
      BY <3>1, <3>2, NoWriteStutters DEF ReadRow
    <3> QED
      BY <2>2, <3>1, <3>2, StepKeepsPromise DEF Next
  <2>3. CASE UNCHANGED vars
    BY <2>3, NoWriteStutters DEF vars
  <2> QED
    BY <2>1, <2>2, <2>3
<1> QED
  BY <1>1, <1>2, SerialInvariance, PTL DEF Spec, KeepsRegister, Register!RegSpec

\* A terminal order is frozen: no step of a single caller changes its row or
\* its executions.
THEOREM SerialTerminalIsFinal == Spec => TerminalIsFinal
<1> DEFINE Frozen == \A o \in Orders : orders[o].state \in Terminal =>
                        orders'[o] = orders[o] /\ ledger'[o] = ledger[o]
<1>1. (usage.serial => SerialInv) /\ [Next]_vars => [usage.serial => Frozen]_vars
  <2> SUFFICES ASSUME SerialInv, Next PROVE Frozen
    OBVIOUS
  <2>1. UNCHANGED <<orders, ledger>> => Frozen
    OBVIOUS
  <2>2. ASSUME NEW w \in Workers, pc[w] # "idle", SaveState(w, mem[w].state)
        PROVE  Frozen
    BY <2>2, InCall DEF SaveState, SerialInv, TypeOK, Row, RowAgreesWithLedger
  <2>3. ASSUME NEW w \in Workers, pc[w] # "idle", mem[w].state \notin Terminal,
               \/ \E st \in States : SaveState(w, st)
               \/ \E st \in States, q \in Nat : SaveFill(w, st, q)
        PROVE  Frozen
    BY <2>3, InCall DEF SaveState, SaveFill, SerialInv, TypeOK
  <2>4. ASSUME NEW w \in Workers, Step(w) PROVE Frozen
    <3>1. CASE ReadLedger(w) \/ Fail(w)
      BY <2>1, <3>1 DEF ReadLedger, Fail
    <3>2. CASE Submit(w) \/ Acknowledge(w)
      BY <2>3, <3>2, TargetIsState DEF Submit, Acknowledge, StepThrough
    <3>3. CASE Redeliver(w)
      BY <2>2, <3>3 DEF Redeliver, AtFill
    <3>4. CASE Execute(w)
      <4> DEFINE q == ExecQty[job[w].exec]
                 o == Order(w)
      <4>1. PICK ev \in FillEvents :
              \/ /\ FillAccepted(mem[w].state, ev, mem[w].filled, q, OrderQty[o])
                 /\ SaveFill(w, AfterFill(ev, mem[w].filled, q, OrderQty[o]), q)
              \/ UNCHANGED <<orders, ledger>>
        BY <3>4 DEF Execute, EventOfFill
      <4>2. pc[w] # "idle" /\ q \in Nat
        BY <3>4, InCall, JobOrder, StoreAssumption DEF Execute, AtFill
      <4>3. AfterFill(ev, mem[w].filled, q, OrderQty[o]) \in States
        BY TargetIsState DEF AfterFill
      <4>4. FillAccepted(mem[w].state, ev, mem[w].filled, q, OrderQty[o])
              => mem[w].state \notin Terminal
        BY TerminalAcceptsNothing DEF FillAccepted
      <4> QED
        BY <2>1, <2>3, <4>1, <4>2, <4>3, <4>4
    <3>5. CASE Mark(w)
      <4>1. pc[w] # "idle" /\ job[w].op \in Events
        BY <3>5, StoreAssumption DEF Mark
      <4>2. job[w].op \in Allowed(mem[w].state) => mem[w].state \notin Terminal
        BY TerminalAcceptsNothing
      <4> QED
        BY <2>1, <2>3, <3>5, <4>1, <4>2, TargetIsState DEF Mark
    <3> QED
      BY <2>4, <3>1, <3>2, <3>3, <3>4, <3>5 DEF Step
  <2> QED
    BY <2>1, <2>4 DEF Next, ReadRow
<1> QED
  BY <1>1, SerialInvariance, PTL DEF Spec, TerminalIsFinal

-----------------------------------------------------------------------------
(***************************************************************************)
(* create_order, for any set of calls.  That a call is answered with its   *)
(* own parameters needs nothing; that an intent has one order, and that a  *)
(* lost race is always resolved, need that a client id is never shared by  *)
(* two keys (CidDeterminesKey): the handler of a lost insert looks for the *)
(* winner under the key only.                                              *)
(***************************************************************************)
\* The unique index on idempotency_key.
KeysUnique ==
    \A r, s \in rows : KeyOf[r] = KeyOf[s] /\ KeyOf[r] # NoKey => r = s

PrintInv == CreateTypes /\ KeysUnique /\ AnswersOwnRequest

\* What the answer and the lost race rest on when client ids are not shared.
RaceInv ==
    /\ \A c \in Calls : Created(c) => KeyOf[answer[c]] = KeyOf[c]
    /\ \A c \in Calls : stmt[c] = "resolve" => Winner(c) # {}
    /\ RaceIsResolved

\* Reusing a row that is in the table keeps what is known of answers.
LEMMA ReusePreserves ==
    ASSUME PrintInv, NEW c \in Calls, NEW r \in rows, Reuse(c, r)
    PROVE  PrintInv'
<1>1. r \in Calls
  BY DEF PrintInv, CreateTypes
<1>2. CreateTypes'
  BY <1>1 DEF PrintInv, CreateTypes, Reuse, Answer, Outcomes
<1>3. AnswersOwnRequest'
  BY <1>1, CallsAssumption DEF PrintInv, CreateTypes, AnswersOwnRequest, Created, Reuse, Answer
<1> QED
  BY <1>2, <1>3 DEF PrintInv, KeysUnique, Reuse

\* Going on to the next statement changes no row and no answer.
LEMMA GotoPreserves ==
    ASSUME PrintInv, NEW c \in Calls,
           NEW label \in {"by_key", "by_cid", "insert", "resolve"}, Goto(c, label)
    PROVE  PrintInv'
BY DEF PrintInv, CreateTypes, KeysUnique, AnswersOwnRequest, Created, Goto

\* A call that ends without an order changes nothing the invariant speaks of.
LEMMA FailPreserves ==
    ASSUME PrintInv, NEW c \in Calls, NEW how \in {"error", "crashed"},
           Answer(c, how), UNCHANGED rows
    PROVE  PrintInv'
<1>1. how \notin Calls
  BY CallsAssumption
<1> QED
  BY <1>1 DEF PrintInv, CreateTypes, Outcomes, KeysUnique, AnswersOwnRequest, Created, Answer

\* An insert is made only where no row has the key.
LEMMA InsertPreserves ==
    ASSUME PrintInv, NEW c \in Calls, ~Clashes(c), rows' = rows \cup {c}, Answer(c, c)
    PROVE  PrintInv'
<1>1. CreateTypes'
  BY DEF PrintInv, CreateTypes, Outcomes, Answer
<1>2. KeysUnique'
  BY DEF PrintInv, KeysUnique, Clashes, RowsByKey
<1>3. AnswersOwnRequest'
  BY DEF PrintInv, CreateTypes, AnswersOwnRequest, Created, Answer
<1> QED
  BY <1>1, <1>2, <1>3 DEF PrintInv

\* With no rows and no answers there is nothing to disagree about.
LEMMA PrintInit == CreateInit => PrintInv
BY CallsAssumption DEF CreateInit, PrintInv, CreateTypes, Outcomes, KeysUnique,
                       AnswersOwnRequest, Created

\* Every statement of every call, and every crash, keeps the invariant.
LEMMA PrintInductive == PrintInv /\ [CreateNext]_createVars => PrintInv'
<1> SUFFICES ASSUME PrintInv, [CreateNext]_createVars PROVE PrintInv'
  OBVIOUS
<1>1. ASSUME NEW c \in Calls, LookUpKey(c) PROVE PrintInv'
  BY <1>1, ReusePreserves, GotoPreserves DEF LookUpKey, RowsByKey
<1>2. ASSUME NEW c \in Calls, LookUpCid(c) PROVE PrintInv'
  BY <1>2, ReusePreserves, GotoPreserves DEF LookUpCid, RowsByCid
<1>3. ASSUME NEW c \in Calls, Insert(c) PROVE PrintInv'
  BY <1>3, InsertPreserves, GotoPreserves DEF Insert
<1>4. ASSUME NEW c \in Calls, Resolve(c) PROVE PrintInv'
  <2>1. Winner(c) \subseteq rows
    BY DEF Winner, RowsByKey, RowsByCid
  <2> QED
    BY <1>4, <2>1, ReusePreserves, FailPreserves DEF Resolve
<1>5. ASSUME NEW c \in Calls, Crash(c) PROVE PrintInv'
  BY <1>5, FailPreserves DEF Crash
<1>6. CASE UNCHANGED createVars
  BY <1>6 DEF createVars, PrintInv, CreateTypes, KeysUnique, AnswersOwnRequest, Created
<1> QED
  BY <1>1, <1>2, <1>3, <1>4, <1>5, <1>6 DEF CreateNext, CreateStep, AllDone

\* Type correctness.
THEOREM CreateTypeOK == CreateSpec => []CreateTypes
BY PrintInit, PrintInductive, PTL DEF CreateSpec, PrintInv

\* Whatever keys, client ids and fingerprints the calls carry, a call is never
\* handed an order with other parameters than its own.
THEOREM CreateAnswersOwnRequest == CreateSpec => []AnswersOwnRequest
BY PrintInit, PrintInductive, PTL DEF CreateSpec, PrintInv

-----------------------------------------------------------------------------
\* A lost insert leaves a winner under the call's key.
LEMMA ClashHasWinner ==
    ASSUME CreateTypes, CidDeterminesKey, NEW c \in Calls, Clashes(c)
    PROVE  Winner(c) # {}
<1>1. CASE RowsByKey(c) # {}
  BY <1>1 DEF RowsByKey, Winner
<1>2. CASE RowsByCid(c) # {}
  BY <1>2 DEF CreateTypes, CidDeterminesKey, RowsByKey, RowsByCid, Winner
<1> QED
  BY <1>1, <1>2 DEF Clashes

\* Rows are never deleted, so neither are winners.
LEMMA WinnersStay ==
    ASSUME NEW c \in Calls, rows \subseteq rows', Winner(c) # {}
    PROVE  Winner(c)' # {}
BY DEF Winner, RowsByKey, RowsByCid

\* Every step keeps what a lost race relies on: a call that has to resolve
\* one still finds its winner.
LEMMA RaceInductive ==
    ASSUME CidDeterminesKey
    PROVE  PrintInv /\ RaceInv /\ [CreateNext]_createVars => RaceInv'
<1> SUFFICES ASSUME PrintInv, RaceInv, [CreateNext]_createVars PROVE RaceInv'
  OBVIOUS
<1>1. ASSUME NEW c \in Calls, NEW r \in rows, Reuse(c, r),
             KeyOf[r] = KeyOf[c] \/ CidOf[r] = CidOf[c]
      PROVE  RaceInv'
  <2>1. KeyOf[r] = KeyOf[c] /\ r \in Calls
    BY <1>1 DEF CidDeterminesKey, PrintInv, CreateTypes
  <2>2. "conflict" \notin Calls
    BY CallsAssumption
  <2>3. \A d \in Calls : Winner(d)' = Winner(d)
    BY <1>1 DEF Reuse, Winner, RowsByKey, RowsByCid
  <2>4. answer' = [answer EXCEPT ![c] = IF PrintOf[r] = PrintOf[c] THEN r ELSE "conflict"]
        /\ stmt' = [stmt EXCEPT ![c] = "done"]
    BY <1>1 DEF Reuse, Answer
  <2>5. \A d \in Calls : answer'[d] \in Calls => KeyOf[answer'[d]] = KeyOf[d]
    BY <2>1, <2>2, <2>4 DEF PrintInv, CreateTypes, RaceInv, Created
  <2>6. \A d \in Calls : answer'[d] # "error"
    BY <2>1, <2>4, CallsAssumption DEF PrintInv, CreateTypes, RaceInv, RaceIsResolved
  <2> QED
    BY <2>3, <2>4, <2>5, <2>6 DEF PrintInv, CreateTypes, RaceInv, RaceIsResolved, Created
<1>2. ASSUME NEW c \in Calls, NEW label \in {"by_cid", "insert", "resolve"},
             Goto(c, label), label = "resolve" => Winner(c) # {}
      PROVE  RaceInv'
  <2>1. \A d \in Calls : Winner(d)' = Winner(d)
    BY <1>2 DEF Goto, Winner, RowsByKey, RowsByCid
  <2> QED
    BY <1>2, <2>1 DEF Goto, PrintInv, CreateTypes, RaceInv, RaceIsResolved, Created
<1>3. ASSUME NEW c \in Calls, LookUpKey(c) PROVE RaceInv'
  BY <1>1, <1>2, <1>3 DEF LookUpKey, RowsByKey
<1>4. ASSUME NEW c \in Calls, LookUpCid(c) PROVE RaceInv'
  BY <1>1, <1>2, <1>4 DEF LookUpCid, RowsByCid
<1>5. ASSUME NEW c \in Calls, Insert(c) PROVE RaceInv'
  <2>1. CASE Goto(c, "resolve") /\ Clashes(c)
    BY <1>2, <2>1, ClashHasWinner DEF PrintInv
  <2>2. CASE rows' = rows \cup {c} /\ Answer(c, c)
    <3>1. \A d \in Calls : Winner(d) # {} => Winner(d)' # {}
      BY <2>2, WinnersStay
    <3> QED
      BY <2>2, <3>1, CallsAssumption DEF Answer, PrintInv, CreateTypes, RaceInv, RaceIsResolved, Created
  <2> QED
    BY <1>5, <2>1, <2>2 DEF Insert
<1>6. ASSUME NEW c \in Calls, Resolve(c) PROVE RaceInv'
  <2>1. Winner(c) # {}
    BY <1>6 DEF RaceInv, Resolve
  <2>2. \A r \in Winner(c) : r \in rows /\ (KeyOf[r] = KeyOf[c] \/ CidOf[r] = CidOf[c])
    BY DEF Winner, RowsByKey, RowsByCid
  <2> QED
    BY <1>1, <1>6, <2>1, <2>2 DEF Resolve
<1>7. ASSUME NEW c \in Calls, Crash(c) PROVE RaceInv'
  <2>1. \A d \in Calls : Winner(d)' = Winner(d)
    BY <1>7 DEF Crash, Winner, RowsByKey, RowsByCid
  <2> QED
    BY <1>7, <2>1, CallsAssumption DEF Crash, Answer, PrintInv, CreateTypes, RaceInv,
                                       RaceIsResolved, Created
<1>8. CASE UNCHANGED createVars
  BY <1>8 DEF createVars, RaceInv, RaceIsResolved, Created, Winner, RowsByKey, RowsByCid
<1> QED
  BY <1>3, <1>4, <1>5, <1>6, <1>7, <1>8 DEF CreateNext, CreateStep, AllDone

\* Both invariants hold throughout, when client ids are not shared.
LEMMA RaceInvariance ==
    ASSUME CidDeterminesKey
    PROVE  CreateSpec => [](PrintInv /\ RaceInv)
<1>1. CreateInit => RaceInv
  <2> SUFFICES ASSUME CreateInit PROVE RaceInv
    OBVIOUS
  <2>1. \A c \in Calls : stmt[c] = "by_key" /\ answer[c] = None
    BY DEF CreateInit
  <2> QED
    BY <2>1, CallsAssumption DEF RaceInv, RaceIsResolved, Created
<1> QED
  BY <1>1, PrintInit, PrintInductive, RaceInductive, PTL DEF CreateSpec

\* When client ids are not shared between keys, an intent has at most one
\* order, over every interleaving of its calls and every crash.
THEOREM CreateOneOrderPerIntent ==
    ASSUME CidDeterminesKey
    PROVE  CreateSpec => []OneOrderPerIntent
<1>1. PrintInv /\ RaceInv => OneOrderPerIntent
  <2> SUFFICES ASSUME PrintInv, RaceInv, NEW c \in Calls, NEW d \in Calls,
                      Created(c), Created(d), KeyOf[c] # NoKey, KeyOf[c] = KeyOf[d]
               PROVE  answer[c] = answer[d]
    BY DEF OneOrderPerIntent
  <2>1. answer[c] \in rows /\ answer[d] \in rows
    BY DEF PrintInv, AnswersOwnRequest
  <2>2. KeyOf[answer[c]] = KeyOf[c] /\ KeyOf[answer[d]] = KeyOf[d]
    BY DEF RaceInv
  <2> QED
    BY <2>1, <2>2 DEF PrintInv, KeysUnique
<1> QED
  BY <1>1, RaceInvariance, PTL

\* When client ids are not shared between keys, a lost race is always
\* resolved: IntegrityError never reaches the caller.
THEOREM CreateRaceIsResolved ==
    ASSUME CidDeterminesKey
    PROVE  CreateSpec => []RaceIsResolved
BY RaceInvariance, PTL DEF RaceInv

-----------------------------------------------------------------------------
(* The portfolio and its ledger *)

Later(e, acct) == Filled(acct, e)
Rows == INSTANCE FoldLemmas WITH Op <- Later, Initial <- Opening, Choose <- Max

Shape ==
    /\ table \in Seq(Executions)
    /\ at \in [Threads -> {"idle", "check", "mutate", "record"}]
    /\ task \in [Threads -> Executions \cup {Nothing}]

\* A worker inside a call works on an execution the ledger has.
JobIsStored == \A w \in Threads : at[w] # "idle" => task[w] \in Stored

StoredInv == Shape /\ AppliedIsStored /\ JobIsStored

\* Storing an execution keeps the ones stored and adds it.
LEMMA StoreGrows ==
    ASSUME NEW w \in Threads, NEW e \in Executions, Shape, Store(w, e)
    PROVE  Stored \subseteq Stored' /\ e \in Stored' /\ table' \in Seq(Executions)
<1>1. CASE e \in Stored
  BY <1>1 DEF Store, Stored, Shape
<1>2. CASE e \notin Stored
  <2>1. table' = Append(table, e)
    BY <1>2 DEF Store
  <2>2. table' \in Seq(Executions) /\ DOMAIN table' = 1 .. Len(table) + 1
    BY <2>1 DEF Shape
  <2>3. \A i \in DOMAIN table : i \in DOMAIN table' /\ table'[i] = table[i]
    BY <2>1, <2>2 DEF Shape
  <2>4. table'[Len(table) + 1] = e /\ Len(table) + 1 \in DOMAIN table'
    BY <2>1, <2>2 DEF Shape
  <2> QED
    BY <2>2, <2>3, <2>4 DEF Stored
<1> QED
  BY <1>1, <1>2

\* The initial state: nothing is stored, applied or being worked on.
LEMMA StoredInit == LedgerInit => StoredInv
<1> SUFFICES ASSUME LedgerInit PROVE StoredInv
  OBVIOUS
<1>1. Shape
  BY DEF LedgerInit, Shape
<1>2. AppliedIsStored /\ JobIsStored
  BY DEF LedgerInit, AppliedIsStored, JobIsStored
<1> QED
  BY <1>1, <1>2 DEF StoredInv

\* Every step keeps the invariant.
LEMMA StoredInductive == StoredInv /\ [LedgerNext]_ledgerVars => StoredInv'
<1> SUFFICES ASSUME StoredInv, [LedgerNext]_ledgerVars PROVE StoredInv'
  OBVIOUS
<1> USE DEF StoredInv
<1>1. ASSUME NEW w \in Threads, NEW e \in Executions, Store(w, e) PROVE StoredInv'
  <2>1. Stored \subseteq Stored' /\ e \in Stored' /\ table' \in Seq(Executions)
    BY <1>1, StoreGrows
  <2>2. Shape'
    BY <1>1, <2>1 DEF Store, Shape
  <2>3. AppliedIsStored'
    BY <1>1, <2>1 DEF Store, memory, AppliedIsStored
  <2>4. JobIsStored'
    BY <1>1, <2>1 DEF Store, Shape, JobIsStored
  <2> QED
    BY <2>2, <2>3, <2>4
<1>2. ASSUME NEW w \in Threads, Check(w) PROVE StoredInv'
  <2>1. Stored' = Stored /\ applied' = applied
    BY <1>2 DEF Check, memory, Stored
  <2>2. Shape'
    BY <1>2 DEF Check, Shape
  <2>3. JobIsStored'
    BY <1>2, <2>1 DEF Check, Shape, JobIsStored
  <2> QED
    BY <2>1, <2>2, <2>3 DEF AppliedIsStored
<1>3. ASSUME NEW w \in Threads, Mutate(w) PROVE StoredInv'
  <2>1. Stored' = Stored /\ applied' = applied
    BY <1>3 DEF Mutate, Stored
  <2>2. Shape'
    BY <1>3 DEF Mutate, Shape
  <2>3. JobIsStored'
    BY <1>3, <2>1 DEF Mutate, Shape, JobIsStored
  <2> QED
    BY <2>1, <2>2, <2>3 DEF AppliedIsStored
<1>4. ASSUME NEW w \in Threads, Record(w) PROVE StoredInv'
  <2>1. Stored' = Stored
    BY <1>4 DEF Record, Stored
  <2>2. AppliedIsStored'
    BY <1>4, <2>1 DEF Record, JobIsStored, AppliedIsStored
  <2>3. Shape'
    BY <1>4 DEF Record, Shape
  <2>4. JobIsStored'
    BY <1>4, <2>1 DEF Record, Shape, JobIsStored
  <2> QED
    BY <2>2, <2>3, <2>4
<1>6. CASE ProcessDies
  <2>1. Shape'
    BY <1>6 DEF ProcessDies, Shape
  <2>2. AppliedIsStored' /\ JobIsStored'
    BY <1>6 DEF ProcessDies, AppliedIsStored, JobIsStored
  <2> QED
    BY <2>1, <2>2
<1>7. CASE Recover
  BY <1>7 DEF Recover, Shape, Stored, AppliedIsStored, JobIsStored
<1>8. CASE UNCHANGED ledgerVars
  BY <1>8 DEF ledgerVars, memory, Shape, Stored, AppliedIsStored, JobIsStored
<1> QED
  BY <1>1, <1>2, <1>3, <1>4, <1>6, <1>7, <1>8 DEF LedgerNext, Work

\* The portfolio never counts an execution that a restart would forget, for
\* any number of concurrent workers, redeliveries and crashes.
THEOREM LedgerAppliedIsStored == LedgerSpec => []AppliedIsStored
<1>1. StoredInv => AppliedIsStored
  BY DEF StoredInv
<1> QED
  BY <1>1, StoredInit, StoredInductive, PTL DEF LedgerSpec

-----------------------------------------------------------------------------
(***************************************************************************)
(* The rest is about a process with one worker, as the callers of          *)
(* apply_order_fill are: with two of them a redelivered execution can be   *)
(* looked up twice before it is recorded once.                             *)
(***************************************************************************)
OneWorker == \A v, w \in Threads : v = w

Rowset(l) == {l[i] : i \in DOMAIN l}

\* A replay takes one row after the other.
LEMMA ReplayIsFold ==
    ASSUME NEW l
    PROVE  Replay(l) = Rows!Fold(l, DOMAIN l)
BY DEF Replay, FoldLeft, MapThenFoldSet, Rows!Fold, Rows!MapThenFoldSet, Later

LEMMA ReplayAppend ==
    ASSUME NEW l \in Seq(Executions), NEW e \in Executions
    PROVE  Replay(Append(l, e)) = Filled(Replay(l), e)
<1>1. ASSUME NEW n \in Nat PROVE Rows!Chooses(1 .. n) /\ (n > 0 => Max(1 .. n) = n)
  BY Rows!MaxOfInterval DEF Rows!Chooses, Rows!Max, Max
<1>2. Rows!Fold(Append(l, e), DOMAIN Append(l, e)) = Later(e, Rows!Fold(l, DOMAIN l))
  BY <1>1, Rows!FoldAppend
<1> QED
  BY <1>2, ReplayIsFold DEF Later

LEMMA ReplayEmpty == Replay(<<>>) = Opening
<1>1. DOMAIN <<>> = {}
  OBVIOUS
<1>2. Rows!Fold(<<>>, {}) = Opening
  BY Rows!FoldEmpty
<1> QED
  BY <1>1, <1>2, ReplayIsFold

LEMMA RowsetAppend ==
    ASSUME NEW l \in Seq(Executions), NEW e \in Executions
    PROVE  /\ Append(l, e) \in Seq(Executions) /\ Len(Append(l, e)) = Len(l) + 1
           /\ Rowset(Append(l, e)) = Rowset(l) \cup {e}
<1>1. /\ Append(l, e) \in Seq(Executions) /\ Len(Append(l, e)) = Len(l) + 1
      /\ DOMAIN Append(l, e) = 1 .. Len(l) + 1 /\ DOMAIN l = 1 .. Len(l) /\ Len(l) \in Nat
      /\ \A i \in 1 .. Len(l) : Append(l, e)[i] = l[i]
      /\ Append(l, e)[Len(l) + 1] = e
  BY AppendProperties, LenProperties
<1>2. 1 .. Len(l) + 1 = 1 .. Len(l) \cup {Len(l) + 1}
  BY <1>1
<1> QED
  BY <1>1, <1>2 DEF Rowset

-----------------------------------------------------------------------------
\* The ledger has execution e as its last row, and the portfolio is what the
\* rows before it give.
Before(e) ==
    \E l \in Seq(Executions) : /\ table = Append(l, e) /\ e \notin Rowset(l)
                          /\ account = Replay(l) /\ applied = Rowset(l)

\* Cash and position took the execution, its id is not recorded yet.
Between(e) ==
    /\ account = Replay(table)
    /\ \E l \in Seq(Executions) : table = Append(l, e) /\ applied = Rowset(l)

Current == account = Replay(table) /\ applied = Stored

\* How far a worker's fill is.
Progress ==
    \A w \in Threads :
        /\ at[w] = "check" => task[w] \in Stored /\ (Current \/ Before(task[w]))
        /\ at[w] = "mutate" => Before(task[w])
        /\ at[w] = "record" => Between(task[w])

ReplayInv ==
    /\ Shape
    /\ \A w \in Threads : at[w] # "idle" => up /\ task[w] \in Executions
    /\ AtRestIsReplay
    /\ Progress

LEMMA ReplayInit == LedgerInit => ReplayInv
<1> SUFFICES ASSUME LedgerInit PROVE ReplayInv
  OBVIOUS
<1>1. Shape /\ Stored = {}
  BY DEF LedgerInit, Shape, Stored
<1>2. AtRestIsReplay
  BY <1>1, ReplayEmpty DEF LedgerInit, AtRestIsReplay
<1> QED
  BY <1>1, <1>2 DEF LedgerInit, ReplayInv, Progress

LEMMA StoredIsRowset == Stored = Rowset(table)
BY DEF Stored, Rowset

\* Every step of a process with one worker keeps the invariant.
LEMMA ReplayInductive ==
    ASSUME OneWorker
    PROVE  ReplayInv /\ [LedgerNext]_ledgerVars => ReplayInv'
<1> SUFFICES ASSUME ReplayInv, [LedgerNext]_ledgerVars PROVE ReplayInv'
  OBVIOUS
<1>1. ASSUME NEW w \in Threads, NEW e \in Executions, Store(w, e) PROVE ReplayInv'
  <2>1. /\ up /\ at[w] = "idle" /\ up' = up
        /\ table' = IF e \in Stored THEN table ELSE Append(table, e)
        /\ at' = [at EXCEPT ![w] = "check"] /\ task' = [task EXCEPT ![w] = e]
        /\ account' = account /\ applied' = applied
    BY <1>1 DEF Store, memory
  <2>2. Current
    BY <2>1 DEF OneWorker, ReplayInv, AtRestIsReplay, AtRest, AllIdle, Current
  <2>3. e \in Stored' /\ table' \in Seq(Executions)
    BY <1>1, StoreGrows DEF ReplayInv
  <2>4. Shape'
    BY <2>1, <2>3 DEF ReplayInv, Shape
  <2>5. at'[w] = "check" /\ task'[w] = e /\ \A v \in Threads : v = w
    BY <2>1 DEF OneWorker, ReplayInv, Shape
  <2>6. Current' \/ Before(e)'
    <3>1. CASE e \in Stored
      BY <2>1, <2>2, <3>1 DEF Current, Stored
    <3>2. CASE e \notin Stored
      <4>1. table \in Seq(Executions) /\ table' = Append(table, e) /\ e \notin Rowset(table)
        BY <2>1, <3>2, StoredIsRowset DEF ReplayInv, Shape
      <4>2. account' = Replay(table) /\ applied' = Rowset(table)
        BY <2>1, <2>2, StoredIsRowset DEF Current
      <4> QED
        BY <4>1, <4>2 DEF Before
    <3> QED
      BY <3>1, <3>2
  <2>7. Progress'
    BY <2>3, <2>5, <2>6 DEF Progress
  <2>8. AtRestIsReplay'
    BY <2>5 DEF AtRestIsReplay, AtRest, AllIdle
  <2> QED
    BY <2>1, <2>4, <2>5, <2>7, <2>8 DEF ReplayInv
<1>2. ASSUME NEW w \in Threads, Check(w) PROVE ReplayInv'
  <2>1. /\ up /\ up' = up /\ at[w] = "check"
        /\ at' = [at EXCEPT ![w] = IF task[w] \in applied THEN "idle" ELSE "mutate"]
        /\ task' = [task EXCEPT ![w] = IF @ \in applied THEN Nothing ELSE @]
        /\ table' = table /\ account' = account /\ applied' = applied
    BY <1>2 DEF Check, memory
  <2>2. Stored' = Stored /\ (Current' <=> Current) /\ \A e : Before(e)' <=> Before(e)
    BY <2>1 DEF Stored, Current, Before
  <2>3. task[w] \in Stored /\ task[w] \in Executions /\ (Current \/ Before(task[w]))
    BY <2>1 DEF ReplayInv, Progress
  <2>4. \A v \in Threads : v = w
    BY DEF OneWorker
  <2>5. Shape'
    BY <2>1 DEF ReplayInv, Shape
  <2>6. CASE task[w] \in applied
    <3>1. Current
      BY <2>3, <2>6 DEF Before
    <3>2. at'[w] = "idle"
      BY <2>1, <2>6 DEF ReplayInv, Shape
    <3> QED
      BY <2>2, <2>4, <2>5, <3>1, <3>2 DEF ReplayInv, Progress, AtRestIsReplay, Current
  <2>7. CASE task[w] \notin applied
    <3>1. Before(task[w])
      BY <2>3, <2>7 DEF Current
    <3>2. at'[w] = "mutate" /\ task'[w] = task[w]
      BY <2>1, <2>7 DEF ReplayInv, Shape
    <3> QED
      BY <2>1, <2>2, <2>3, <2>4, <2>5, <3>1, <3>2
         DEF ReplayInv, Progress, AtRestIsReplay, AtRest, AllIdle
  <2> QED
    BY <2>6, <2>7
<1>3. ASSUME NEW w \in Threads, Mutate(w) PROVE ReplayInv'
  <2>1. /\ up /\ up' = up /\ at[w] = "mutate" /\ task' = task
        /\ account' = Filled(account, task[w]) /\ at' = [at EXCEPT ![w] = "record"]
        /\ table' = table /\ applied' = applied
    BY <1>3 DEF Mutate
  <2>2. task[w] \in Executions
    BY <2>1 DEF ReplayInv
  <2>3. PICK l \in Seq(Executions) : /\ table = Append(l, task[w])
                                /\ account = Replay(l) /\ applied = Rowset(l)
    BY <2>1 DEF ReplayInv, Progress, Before
  <2>4. account' = Replay(table')
    BY <2>1, <2>2, <2>3, ReplayAppend
  <2>5. Between(task[w])'
    BY <2>1, <2>3, <2>4 DEF Between
  <2>6. at'[w] = "record" /\ task'[w] = task[w] /\ \A v \in Threads : v = w
    BY <2>1 DEF OneWorker, ReplayInv, Shape
  <2>7. Shape'
    BY <2>1 DEF ReplayInv, Shape
  <2>8. Progress'
    BY <2>1, <2>5, <2>6 DEF Progress, Between
  <2> QED
    BY <2>1, <2>2, <2>6, <2>7, <2>8 DEF ReplayInv, AtRestIsReplay, AtRest, AllIdle
<1>4. ASSUME NEW w \in Threads, Record(w) PROVE ReplayInv'
  <2>1. /\ up /\ up' = up /\ at[w] = "record"
        /\ applied' = applied \cup {task[w]} /\ at' = [at EXCEPT ![w] = "idle"]
        /\ task' = [task EXCEPT ![w] = Nothing]
        /\ table' = table /\ account' = account
    BY <1>4 DEF Record
  <2>2. task[w] \in Executions
    BY <2>1 DEF ReplayInv
  <2>3. account = Replay(table) /\ \E l \in Seq(Executions) : table = Append(l, task[w]) /\ applied = Rowset(l)
    BY <2>1 DEF ReplayInv, Progress, Between
  <2>4. applied' = Stored'
    <3>1. PICK l \in Seq(Executions) : table = Append(l, task[w]) /\ applied = Rowset(l)
      BY <2>3
    <3>2. Rowset(table) = Rowset(l) \cup {task[w]}
      BY <2>2, <3>1, RowsetAppend
    <3>3. Stored' = Rowset(table)
      BY <2>1 DEF Stored, Rowset
    <3> QED
      BY <2>1, <3>1, <3>2, <3>3
  <2>5. at'[w] = "idle" /\ \A v \in Threads : v = w
    BY <2>1 DEF OneWorker, ReplayInv, Shape
  <2>6. Shape'
    BY <2>1 DEF ReplayInv, Shape
  <2> QED
    BY <2>1, <2>3, <2>4, <2>5, <2>6 DEF ReplayInv, Progress, AtRestIsReplay
<1>5. CASE UNCHANGED ledgerVars
  <2>1. UNCHANGED <<table, account, applied, up, at, task>>
    BY <1>5 DEF ledgerVars
  <2> QED
    BY <2>1 DEF ReplayInv, Shape, AtRestIsReplay, AtRest, AllIdle, Stored, Progress,
                Current, Before, Between
<1>6. CASE ProcessDies
  <2>1. ~up' /\ table' = table /\ \A w \in Threads : at'[w] = "idle"
    BY <1>6 DEF ProcessDies
  <2>2. Shape'
    BY <1>6 DEF ProcessDies, ReplayInv, Shape
  <2> QED
    BY <2>1, <2>2 DEF ReplayInv, Progress, AtRestIsReplay, AtRest
<1>7. CASE Recover
  <2>1. /\ ~up /\ table' = table /\ account' = Replay(table) /\ applied' = Stored
        /\ at' = at /\ task' = task
    BY <1>7 DEF Recover
  <2>2. \A w \in Threads : at'[w] = "idle"
    BY <2>1 DEF ReplayInv, Shape
  <2>3. Stored' = Stored
    BY <2>1 DEF Stored
  <2> QED
    BY <2>1, <2>2, <2>3 DEF ReplayInv, Shape, Progress, AtRestIsReplay
<1> QED
  BY <1>1, <1>2, <1>3, <1>4, <1>5, <1>6, <1>7 DEF LedgerNext, Work

\* Whenever its worker is not inside a call, the portfolio is what a restart
\* would rebuild, whatever is redelivered and whenever the process dies.
THEOREM LedgerAtRestIsReplay ==
    ASSUME OneWorker
    PROVE  LedgerSpec => []AtRestIsReplay
<1>1. ReplayInv => AtRestIsReplay
  BY DEF ReplayInv
<1> QED
  BY <1>1, ReplayInit, ReplayInductive, PTL DEF LedgerSpec

-----------------------------------------------------------------------------
\* The ledger stays as it is or grows by an execution it does not have, at a
\* moment when the portfolio is current.
Grows ==
    \/ table' = table
    \/ \E e \in Executions : /\ table' = Append(table, e) /\ e \notin Stored
                        /\ Current

LEMMA LedgerGrows ==
    ASSUME OneWorker, ReplayInv, [LedgerNext]_ledgerVars
    PROVE  Grows
<1>1. ASSUME NEW w \in Threads, NEW e \in Executions, Store(w, e) PROVE Grows
  <2>1. up /\ at[w] = "idle"
    BY <1>1 DEF Store
  <2>2. Current
    BY <2>1 DEF OneWorker, ReplayInv, AtRestIsReplay, AtRest, AllIdle, Current
  <2> QED
    BY <1>1, <2>2 DEF Store, Grows
<1>2. ASSUME NEW w \in Threads, Work(w) PROVE Grows
  BY <1>2 DEF Work, Check, Mutate, Record, Grows
<1>3. CASE ProcessDies \/ Recover \/ UNCHANGED ledgerVars
  BY <1>3 DEF ProcessDies, Recover, ledgerVars, Grows
<1> QED
  BY <1>1, <1>2, <1>3 DEF LedgerNext

\* A row that is added leaves the prefixes before it as they are.
LEMMA AppendKeepsPrefix ==
    ASSUME NEW l \in Seq(Executions), NEW e \in Executions, NEW n \in 1 .. Len(l) + 1
    PROVE  SubSeq(Append(l, e), 1, n - 1) = SubSeq(l, 1, n - 1)
<1> DEFINE k == Append(l, e)
           m == n - 1
<1>1. /\ k \in Seq(Executions) /\ Len(k) = Len(l) + 1
      /\ \A i \in 1 .. Len(l) : k[i] = l[i] /\ l[i] \in Executions
      /\ Len(l) \in Nat /\ m \in Nat /\ m <= Len(l) /\ m <= Len(k)
  BY AppendProperties, LenProperties, ElementOfSeq
<1> HIDE DEF k, m
<1>2. \A i \in 1 .. m : l[i] \in Executions /\ k[i] \in Executions /\ k[i] = l[i]
  BY <1>1
<1>3. /\ SubSeq(l, 1, m) \in Seq(Executions) /\ SubSeq(k, 1, m) \in Seq(Executions)
      /\ Len(SubSeq(l, 1, m)) = m /\ Len(SubSeq(k, 1, m)) = m
      /\ \A i \in 1 .. m : SubSeq(l, 1, m)[i] = l[i] /\ SubSeq(k, 1, m)[i] = k[i]
  <2>1. m - 1 + 1 = m /\ (IF 1 <= m THEN m - 1 + 1 ELSE 0) = m /\ \A i \in 1 .. m : 1 + i - 1 = i
    BY <1>1
  <2>2. /\ SubSeq(l, 1, m) \in Seq(Executions)
        /\ Len(SubSeq(l, 1, m)) = IF 1 <= m THEN m - 1 + 1 ELSE 0
        /\ \A i \in 1 .. m - 1 + 1 : SubSeq(l, 1, m)[i] = l[1 + i - 1]
    BY <1>1, <1>2, SubSeqProperties
  <2>3. /\ SubSeq(k, 1, m) \in Seq(Executions)
        /\ Len(SubSeq(k, 1, m)) = IF 1 <= m THEN m - 1 + 1 ELSE 0
        /\ \A i \in 1 .. m - 1 + 1 : SubSeq(k, 1, m)[i] = k[1 + i - 1]
    BY <1>1, <1>2, SubSeqProperties
  <2> QED
    BY <2>1, <2>2, <2>3
<1>4. SubSeq(k, 1, m) = SubSeq(l, 1, m)
  BY <1>2, <1>3, SeqEqual
<1> QED
  BY <1>4 DEF k, m

-----------------------------------------------------------------------------
Sound(acct) ==
    /\ acct \in Account
    /\ acct.side = "FLAT" <=> acct.size = 0
    /\ acct.side = "FLAT" => acct.basis = 0

Worth(e, mark) == Signed(e) * (mark - PriceOf[e]) - FeeOf[e]

\* The position after some of it is closed, with the cash it leaves.
LEMMA ReducedIsSound ==
    ASSUME NEW acct, Sound(acct), acct.side # "FLAT", NEW q \in Nat \ {0}, NEW cash \in Int
    PROVE  LET part == (q * acct.basis) \div acct.size
           IN  /\ part \in Int /\ acct.size \in Nat \ {0}
               /\ q = acct.size => part = acct.basis
               /\ Reduced(acct, q, cash) =
                    IF q >= acct.size
                    THEN [cash |-> cash, side |-> "FLAT", size |-> 0, basis |-> 0]
                    ELSE [cash |-> cash, side |-> acct.side, size |-> acct.size - q,
                          basis |-> acct.basis - part]
               /\ Sound(Reduced(acct, q, cash))
<1> DEFINE n == acct.size
           b == acct.basis
           part == (q * b) \div n
           rest == b - part
           left == n - q
<1>1. /\ acct = [cash |-> acct.cash, side |-> acct.side, size |-> n, basis |-> b]
      /\ acct.cash \in Int /\ n \in Nat \ {0} /\ b \in Int /\ acct.side \in {"LONG", "SHORT"}
  BY DEF Sound, Account
<1>2. part \in Int /\ (q = n => part = b)
  <2>1. q * b \in Int
    BY <1>1
  <2>2. \A x \in Int, d \in Nat \ {0} : x \div d \in Int /\ (d * x) \div d = x
    OBVIOUS
  <2> QED
    BY <1>1, <2>1, <2>2
<1>3. CASE q >= n
  <2>1. Reduced(acct, q, cash) = [cash |-> cash, side |-> "FLAT", size |-> 0, basis |-> 0]
    BY <1>3 DEF Reduced
  <2>2. Sound(Reduced(acct, q, cash))
    BY <2>1 DEF Sound, Account
  <2> QED
    BY <1>1, <1>2, <1>3, <2>1, <2>2
<1>4. CASE ~(q >= n)
  <2>1. left \in Nat \ {0} /\ rest \in Int
    BY <1>1, <1>2, <1>4
  <2>2. Reduced(acct, q, cash) = [acct EXCEPT !.cash = cash, !.size = left, !.basis = rest]
    BY <1>4 DEF Reduced
  <2>3. Reduced(acct, q, cash) = [cash |-> cash, side |-> acct.side, size |-> left, basis |-> rest]
    <3> HIDE DEF n, b, left, rest, part
    <3> DEFINE x == [acct EXCEPT !.cash = cash]
               y == [x EXCEPT !.size = left]
    <3>1. Reduced(acct, q, cash) = [y EXCEPT !.basis = rest]
      BY <2>2
    <3>2. x = [cash |-> cash, side |-> acct.side, size |-> n, basis |-> b]
      BY <1>1
    <3> HIDE DEF x
    <3>3. y = [cash |-> cash, side |-> acct.side, size |-> left, basis |-> b]
      BY <3>2
    <3> HIDE DEF y
    <3>4. [y EXCEPT !.basis = rest] = [cash |-> cash, side |-> acct.side, size |-> left, basis |-> rest]
      BY <3>3
    <3> QED
      BY <3>1, <3>4
  <2>4. Sound(Reduced(acct, q, cash))
    <3> HIDE DEF left, rest
    <3> QED
      BY <1>1, <2>1, <2>3 DEF Sound, Account
  <2> QED
    BY <1>1, <1>2, <1>4, <2>3, <2>4
<1> QED
  BY <1>3, <1>4

\* A fill moves the value of the portfolio by what the execution is worth at the
\* mark price, and by what the model calls unearned.
LEMMA FilledKeepsWealth ==
    ASSUME NEW acct, Sound(acct), NEW e \in Executions, NEW mark \in Nat
    PROVE  /\ Sound(Filled(acct, e))
           /\ Worth(e, mark) \in Int /\ Unearned(acct, e, mark) \in Int
           /\ Equity(Filled(acct, e), mark) =
                Equity(acct, mark) + Worth(e, mark) + Unearned(acct, e, mark)
<1> DEFINE q == QtyOf[e]
           p == PriceOf[e]
           x == FeeOf[e]
           c == acct.cash
           n == acct.size
           b == acct.basis
<1>1. q \in Nat \ {0} /\ p \in Nat /\ x \in Nat /\ SideOf[e] \in {"BUY", "SELL"}
  BY PortfolioAssumption
<1>2. /\ acct = [cash |-> c, side |-> acct.side, size |-> n, basis |-> b]
      /\ c \in Int /\ n \in Nat /\ b \in Int
      /\ acct.side \in {"LONG", "SHORT", "FLAT"}
      /\ (acct.side = "FLAT" <=> n = 0) /\ (acct.side = "FLAT" => b = 0)
  BY DEF Sound, Account
<1>3. /\ Worth(e, mark) = (IF SideOf[e] = "BUY" THEN q ELSE -q) * (mark - p) - x
      /\ Cost(e) = q * p
  BY DEF Worth, Signed, Cost
<1>4. CASE SideOf[e] = "BUY" /\ acct.side # "SHORT"
  <2>1. Filled(acct, e) = [cash |-> c - Cost(e) - x, side |-> "LONG",
                           size |-> n + q, basis |-> b + Cost(e)]
    BY <1>4 DEF Filled, Grown
  <2>2. Unearned(acct, e, mark) = 0
    BY <1>4 DEF Unearned
  <2> HIDE DEF q, p, x, c, n, b
  <2>3. Cost(e) \in Int /\ q * p \in Int /\ q * mark \in Int /\ n * mark \in Int
        /\ Worth(e, mark) = q * mark - q * p - x /\ (n + q) * mark = n * mark + q * mark
    BY <1>1, <1>2, <1>3, <1>4
  <2>4. Sound(Filled(acct, e))
    <3> DEFINE cash == c - Cost(e) - x
               size == n + q
               basis == b + Cost(e)
    <3>1. cash \in Int /\ size \in Nat \ {0} /\ basis \in Int
      BY <1>1, <1>2, <2>3
    <3>2. Filled(acct, e) = [cash |-> cash, side |-> "LONG", size |-> size, basis |-> basis]
      BY <2>1
    <3> HIDE DEF cash, size, basis
    <3> QED
      BY <3>1, <3>2 DEF Sound, Account
  <2>5. Equity(Filled(acct, e), mark) = (c - Cost(e) - x) + (n + q) * mark
    BY <2>1 DEF Equity
  <2>6. Equity(acct, mark) = c + n * mark
    <3>1. acct.side = "FLAT" => n * mark = 0
      BY <1>2
    <3> QED
      BY <1>2, <1>4, <3>1 DEF Equity, c, n
  <2> QED
    BY <1>1, <1>2, <1>3, <2>2, <2>3, <2>4, <2>5, <2>6
<1>5. CASE SideOf[e] = "SELL" /\ acct.side # "LONG"
  <2>1. Filled(acct, e) = [cash |-> c - x, side |-> "SHORT",
                           size |-> n + q, basis |-> b + Cost(e)]
    BY <1>5 DEF Filled, Grown
  <2>2. Unearned(acct, e, mark) = Cost(e)
    BY <1>5 DEF Unearned
  <2>3. Equity(acct, mark) = c + 2 * b - n * mark
    <3>1. acct.side = "FLAT" => n * mark = 0 /\ 2 * b = 0
      BY <1>2
    <3> HIDE DEF n, b, c
    <3>2. acct.side = "FLAT" => Equity(acct, mark) = c
      BY DEF Equity, c
    <3>3. acct.side = "SHORT" => Equity(acct, mark) = c + 2 * b - n * mark
      BY DEF Equity, c, n, b
    <3> QED
      BY <1>2, <1>5, <3>1, <3>2, <3>3
  <2> HIDE DEF q, p, x, c, n, b
  <2>5. Cost(e) \in Int /\ q * p \in Int /\ q * mark \in Int /\ n * mark \in Int
        /\ Worth(e, mark) = q * p - q * mark - x /\ (n + q) * mark = n * mark + q * mark
    <3>1. \A i, j, k \in Int : (-i) * (j - k) = i * k - i * j /\ i * j \in Int
      OBVIOUS
    <3>2. q \in Int /\ p \in Int /\ mark \in Int /\ n \in Int
      BY <1>1, <1>2
    <3>3. (-q) * (mark - p) = q * p - q * mark
      BY <3>1, <3>2
    <3>4. (n + q) * mark = n * mark + q * mark
      BY <3>2
    <3> QED
      BY <1>3, <1>5, <3>1, <3>2, <3>3, <3>4
  <2>6. Sound(Filled(acct, e))
    <3> DEFINE cash == c - x
               size == n + q
               basis == b + Cost(e)
    <3>1. cash \in Int /\ size \in Nat \ {0} /\ basis \in Int
      BY <1>1, <1>2, <2>5
    <3>2. Filled(acct, e) = [cash |-> cash, side |-> "SHORT", size |-> size, basis |-> basis]
      BY <2>1
    <3> HIDE DEF cash, size, basis
    <3> QED
      BY <3>1, <3>2 DEF Sound, Account
  <2>7. Equity(Filled(acct, e), mark) = (c - x) + 2 * (b + Cost(e)) - (n + q) * mark
    BY <2>1 DEF Equity
  <2> QED
    BY <1>1, <1>2, <1>3, <2>2, <2>3, <2>5, <2>6, <2>7
<1>6. CASE SideOf[e] = "SELL" /\ acct.side = "LONG"
  <2> DEFINE cash == c + Cost(e) - x
  <2>1. /\ Filled(acct, e) = Reduced(acct, q, cash)
        /\ Unearned(acct, e, mark) = IF q - n > 0 THEN (q - n) * mark ELSE 0
        /\ Equity(acct, mark) = c + n * mark
    BY <1>6 DEF Filled, Unearned, Equity
  <2>2. Cost(e) \in Int /\ q * p \in Int /\ q * mark \in Int /\ n * mark \in Int
        /\ Worth(e, mark) = q * p - q * mark - x /\ (q - n) * mark = q * mark - n * mark
        /\ (n - q) * mark = n * mark - q * mark
    <3> HIDE DEF q, p, x, n
    <3>1. \A i, j, k \in Int : (-i) * (j - k) = i * k - i * j /\ i * j \in Int
      OBVIOUS
    <3>2. q \in Int /\ p \in Int /\ mark \in Int /\ n \in Int
      BY <1>1, <1>2
    <3>3. (-q) * (mark - p) = q * p - q * mark
      BY <3>1, <3>2
    <3>4. (q - n) * mark = q * mark - n * mark /\ (n - q) * mark = n * mark - q * mark
      BY <3>2
    <3> QED
      BY <1>3, <1>6, <3>1, <3>2, <3>3, <3>4
  <2>3. cash \in Int
    BY <1>1, <1>2, <2>2
  <2>4. /\ Reduced(acct, q, cash) =
              IF q >= n
              THEN [cash |-> cash, side |-> "FLAT", size |-> 0, basis |-> 0]
              ELSE [cash |-> cash, side |-> "LONG", size |-> n - q,
                    basis |-> b - (q * b) \div n]
        /\ Sound(Filled(acct, e))
    <3> HIDE DEF cash
    <3>1. Sound(acct) /\ acct.side = "LONG" /\ acct.side # "FLAT"
      BY <1>6
    <3>2. /\ Reduced(acct, q, cash) =
              IF q >= n
              THEN [cash |-> cash, side |-> "FLAT", size |-> 0, basis |-> 0]
              ELSE [cash |-> cash, side |-> acct.side, size |-> n - q,
                    basis |-> b - (q * b) \div n]
          /\ Sound(Reduced(acct, q, cash))
      BY <1>1, <2>3, <3>1, ReducedIsSound
    <3> QED
      BY <2>1, <3>1, <3>2
  <2>5. Equity(Filled(acct, e), mark) =
            IF q >= n THEN cash ELSE cash + (n - q) * mark
    BY <2>1, <2>4 DEF Equity
  <2> HIDE DEF q, p, x, c, n, b
  <2> QED
    BY <1>1, <1>2, <1>3, <2>1, <2>2, <2>4, <2>5
<1>7. CASE SideOf[e] = "BUY" /\ acct.side = "SHORT"
  <2> DEFINE part == (q * b) \div n
             cash == c + part + (part - Cost(e) - x)
  <2>1. /\ Filled(acct, e) = Reduced(acct, q, cash)
        /\ Unearned(acct, e, mark) = IF q - n > 0 THEN 2 * (part - b) - (q - n) * mark ELSE 0
        /\ Equity(acct, mark) = c + 2 * b - n * mark
    BY <1>7 DEF Filled, Unearned, Equity
  <2>2. Cost(e) \in Int /\ q * p \in Int /\ q * mark \in Int /\ n * mark \in Int
        /\ Worth(e, mark) = q * mark - q * p - x /\ (q - n) * mark = q * mark - n * mark
        /\ (n - q) * mark = n * mark - q * mark
    <3> HIDE DEF q, p, x, n
    <3>1. \A i, j, k \in Int : i * (j - k) = i * j - i * k /\ i * j \in Int
      OBVIOUS
    <3>2. q \in Int /\ p \in Int /\ mark \in Int /\ n \in Int
      BY <1>1, <1>2
    <3>3. q * (mark - p) = q * mark - q * p
      BY <3>1, <3>2
    <3>4. (q - n) * mark = q * mark - n * mark /\ (n - q) * mark = n * mark - q * mark
      BY <3>2
    <3> QED
      BY <1>3, <1>7, <3>1, <3>2, <3>3, <3>4
  <2>3. part \in Int /\ n \in Nat \ {0} /\ (q = n => part = b)
    BY <1>1, <1>2, <1>7, ReducedIsSound
  <2>4. cash \in Int
    <3> HIDE DEF part, q, p, x, n, b, c
    <3> QED
      BY <1>1, <1>2, <2>2, <2>3
  <2>5. /\ Reduced(acct, q, cash) =
              IF q >= n
              THEN [cash |-> cash, side |-> "FLAT", size |-> 0, basis |-> 0]
              ELSE [cash |-> cash, side |-> "SHORT", size |-> n - q, basis |-> b - part]
        /\ Sound(Filled(acct, e))
    BY <1>1, <1>7, <2>1, <2>4, ReducedIsSound
  <2>6. Equity(Filled(acct, e), mark) =
            IF q >= n THEN cash ELSE cash + 2 * (b - part) - (n - q) * mark
    BY <2>1, <2>5 DEF Equity
  <2> HIDE DEF q, p, x, c, n, b, part
  <2> QED
    <3>1. CASE q = n
      BY <1>1, <1>2, <1>3, <2>1, <2>2, <2>3, <2>5, <2>6, <3>1
    <3>2. CASE q > n
      BY <1>1, <1>2, <1>3, <2>1, <2>2, <2>3, <2>5, <2>6, <3>2
    <3>3. CASE q < n
      BY <1>1, <1>2, <1>3, <2>1, <2>2, <2>3, <2>5, <2>6, <3>3
    <3> QED
      BY <1>1, <1>2, <3>1, <3>2, <3>3
<1> QED
  BY <1>1, <1>2, <1>4, <1>5, <1>6, <1>7

\* What the stored executions are worth together.
Worths(S, mark) == SumFunctionOnSet([e \in S |-> Worth(e, mark)], S)

LEMMA WorthType ==
    ASSUME NEW e \in Executions, NEW mark \in Nat
    PROVE  Worth(e, mark) \in Int
<1>1. QtyOf[e] \in Nat /\ PriceOf[e] \in Nat /\ FeeOf[e] \in Nat
  BY PortfolioAssumption
<1>2. Signed(e) \in Int /\ mark - PriceOf[e] \in Int
  BY <1>1 DEF Signed
<1> QED
  BY <1>1, <1>2 DEF Worth

LEMMA WorthsStep ==
    ASSUME NEW S \in SUBSET Executions, IsFiniteSet(S), NEW e \in Executions, e \notin S, NEW mark \in Nat
    PROVE  Worths(S, mark) \in Int /\ Worths(S \cup {e}, mark) = Worth(e, mark) + Worths(S, mark)
<1> DEFINE T == S \cup {e}
           f == [x \in S |-> Worth(x, mark)]
           g == [x \in T |-> Worth(x, mark)]
<1>1. Worths(S, mark) = Sums!Fold(f, S) /\ Worths(T, mark) = Sums!Fold(g, T)
  BY DEF Worths, SumFunctionOnSet, FoldFunctionOnSet, MapThenFoldSet, Sums!Fold,
         Sums!MapThenFoldSet, Plus, AnyOf
<1>2. Sums!Values(f, S, Int) /\ Sums!Values(g, T, Int)
  BY WorthType DEF Sums!Values
<1>3. g[e] = Worth(e, mark) /\ \A x \in S : f[x] = g[x]
  OBVIOUS
<1>4. e \in T /\ T \ {e} = S /\ IsFiniteSet(T)
  BY FS_AddElement
<1> HIDE DEF f, g, T
<1>5. /\ Sums!IsSum /\ Sums!IsFiniteSet(S) /\ Sums!Chooses(S)
      /\ Sums!IsFiniteSet(T) /\ Sums!Chooses(T)
  BY <1>4 DEF Sums!IsSum, Sums!IsFiniteSet, IsFiniteSet, Sums!Chooses, Plus, AnyOf
<1>6. Sums!Fold(g, T) = g[e] + Sums!Fold(g, T \ {e})
  BY <1>2, <1>4, <1>5, Sums!SumSplit
<1>7. Sums!Fold(f, S) = Sums!Fold(g, S)
  BY <1>3, <1>5, Sums!FoldSame
<1>8. Sums!Fold(f, S) \in Int
  BY <1>2, <1>5, Sums!SumType
<1> QED
  BY <1>1, <1>3, <1>4, <1>6, <1>7, <1>8 DEF T

LEMMA StoredIsFinite ==
    ASSUME table \in Seq(Executions)
    PROVE  IsFiniteSet(Stored) /\ Stored \in SUBSET Executions
<1>1. DOMAIN table = 1 .. Len(table) /\ \A i \in DOMAIN table : table[i] \in Executions
  BY LenProperties, ElementOfSeq
<1>2. IsFiniteSet(DOMAIN table)
  BY <1>1, FS_Interval, LenProperties
<1> DEFINE f == [i \in DOMAIN table |-> table[i]]
<1>3. f \in Surjection(DOMAIN table, Stored)
  BY DEF Surjection, Stored
<1> HIDE DEF f
<1> QED
  BY <1>1, <1>2, <1>3, FS_Surjection DEF Stored

\* What the rows of a ledger made or lost beyond their worth.
Extra(l, mark) == [n \in DOMAIN l |-> Unearned(Replay(SubSeq(l, 1, n - 1)), l[n], mark)]
Extras(l, mark) == SumFunctionOnSet(Extra(l, mark), DOMAIN l)

\* The accounts before each row of a ledger are sound.
SoundRows(l) == \A n \in DOMAIN l : Sound(Replay(SubSeq(l, 1, n - 1)))

LEMMA ExtrasIsFold ==
    ASSUME NEW l, NEW mark
    PROVE  Extras(l, mark) = Sums!Fold(Extra(l, mark), DOMAIN l)
BY DEF Extras, SumFunctionOnSet, FoldFunctionOnSet, MapThenFoldSet, Sums!Fold,
       Sums!MapThenFoldSet, Plus, AnyOf

LEMMA ExtrasStep ==
    ASSUME NEW l \in Seq(Executions), NEW e \in Executions, NEW mark \in Nat,
           SoundRows(l), Sound(Replay(l))
    PROVE  /\ SoundRows(Append(l, e))
           /\ Extras(l, mark) \in Int
           /\ Extras(Append(l, e), mark) = Unearned(Replay(l), e, mark) + Extras(l, mark)
<1> DEFINE k == Append(l, e)
           f == Extra(l, mark)
           g == Extra(k, mark)
           last == Len(l) + 1
<1>1. /\ k \in Seq(Executions) /\ DOMAIN k = 1 .. last /\ DOMAIN l = 1 .. Len(l)
      /\ Len(l) \in Nat /\ k[last] = e
      /\ \A n \in 1 .. Len(l) : k[n] = l[n] /\ l[n] \in Executions
  BY AppendProperties, LenProperties, ElementOfSeq
<1>2. /\ last \in DOMAIN k /\ DOMAIN k \ {last} = DOMAIN l
      /\ IsFiniteSet(DOMAIN k) /\ IsFiniteSet(DOMAIN l) /\ DOMAIN l \subseteq DOMAIN k
  <2>1. last \in 1 .. last /\ (1 .. last) \ {last} = 1 .. Len(l) /\ 1 .. Len(l) \subseteq 1 .. last
    BY <1>1
  <2>2. 1 \in Int /\ last \in Int /\ Len(l) \in Int
    BY <1>1
  <2>3. IsFiniteSet(1 .. last) /\ IsFiniteSet(1 .. Len(l))
    BY <2>2, FS_Interval
  <2> HIDE DEF k, last
  <2> QED
    BY <1>1, <2>1, <2>3
<1>3. \A n \in DOMAIN k : SubSeq(k, 1, n - 1) = SubSeq(l, 1, n - 1)
  BY <1>1, AppendKeepsPrefix
<1>4. SubSeq(k, 1, last - 1) = l
  BY <1>1, <1>2, <1>3, SubSeqFull
<1>5. SoundRows(k)
  BY <1>1, <1>2, <1>3, <1>4 DEF SoundRows
<1>6. \A n \in DOMAIN k : g[n] \in Int
  <2> SUFFICES ASSUME NEW n \in DOMAIN k PROVE g[n] \in Int
    OBVIOUS
  <2>1. k[n] \in Executions
    BY <1>1
  <2>2. Sound(Replay(SubSeq(k, 1, n - 1)))
    BY <1>5 DEF SoundRows
  <2>3. Unearned(Replay(SubSeq(k, 1, n - 1)), k[n], mark) \in Int
    BY <2>1, <2>2, FilledKeepsWealth
  <2> HIDE DEF k
  <2> QED
    BY <2>3 DEF Extra
<1>7. \A n \in DOMAIN l : f[n] = g[n]
  BY <1>1, <1>2, <1>3 DEF Extra
<1>8. g[last] = Unearned(Replay(l), e, mark)
  BY <1>1, <1>2, <1>4 DEF Extra
<1> HIDE DEF f, g, k, last
<1>9. Sums!Values(f, DOMAIN l, Int) /\ Sums!Values(g, DOMAIN k, Int)
  BY <1>2, <1>6, <1>7 DEF Sums!Values
<1>10. /\ Sums!IsSum /\ Sums!IsFiniteSet(DOMAIN l) /\ Sums!Chooses(DOMAIN l)
       /\ Sums!IsFiniteSet(DOMAIN k) /\ Sums!Chooses(DOMAIN k)
  BY <1>2 DEF Sums!IsSum, Sums!IsFiniteSet, IsFiniteSet, Sums!Chooses, Plus, AnyOf
<1>11. Sums!Fold(g, DOMAIN k) = g[last] + Sums!Fold(g, DOMAIN l)
  BY <1>2, <1>9, <1>10, Sums!SumSplit
<1>12. Sums!Fold(f, DOMAIN l) = Sums!Fold(g, DOMAIN l)
  BY <1>7, <1>10, Sums!FoldSame
<1>13. Sums!Fold(f, DOMAIN l) \in Int
  BY <1>9, <1>10, Sums!SumType
<1> QED
  BY <1>5, <1>8, <1>11, <1>12, <1>13, ExtrasIsFold DEF f, g, k

\* The replay of the ledger is worth its opening cash, what the stored
\* executions are worth, and what its rows made beyond that.
Wealthy ==
    /\ SoundRows(table) /\ Sound(Replay(table))
    /\ \A mark \in Nat :
            Equity(Replay(table), mark) = StartCash + Worths(Stored, mark) + Extras(table, mark)

WealthInv == ReplayInv /\ Wealthy

LEMMA WealthInit == LedgerInit => WealthInv
<1> SUFFICES ASSUME LedgerInit PROVE WealthInv
  OBVIOUS
<1>1. table = <<>> /\ Replay(table) = Opening /\ Stored = {} /\ DOMAIN table = {}
  BY ReplayEmpty DEF LedgerInit, Stored
<1>2. Sound(Opening) /\ \A mark \in Nat : Equity(Opening, mark) = StartCash
  BY PortfolioAssumption DEF Sound, Account, Opening, Equity
<1>3. \A mark \in Nat : Worths({}, mark) = 0
  BY Sums!FoldEmpty DEF Worths, SumFunctionOnSet, FoldFunctionOnSet, MapThenFoldSet, Sums!Fold,
         Sums!MapThenFoldSet, Plus, AnyOf
<1>4. SoundRows(table) /\ \A mark \in Nat : Extras(table, mark) = 0
  BY <1>1, ExtrasIsFold, Sums!FoldEmpty DEF SoundRows
<1> QED
  BY <1>1, <1>2, <1>3, <1>4, ReplayInit, PortfolioAssumption DEF WealthInv, Wealthy

LEMMA WealthInductive ==
    ASSUME OneWorker
    PROVE  WealthInv /\ [LedgerNext]_ledgerVars => WealthInv'
<1> SUFFICES ASSUME WealthInv, [LedgerNext]_ledgerVars PROVE WealthInv'
  OBVIOUS
<1>1. ReplayInv' /\ Grows /\ table \in Seq(Executions)
  BY ReplayInductive, LedgerGrows DEF WealthInv, ReplayInv, Shape
<1>2. CASE table' = table
  <2>1. Stored' = Stored
    BY <1>2 DEF Stored
  <2> QED
    BY <1>1, <1>2, <2>1 DEF WealthInv, Wealthy
<1>3. ASSUME NEW e \in Executions, table' = Append(table, e), e \notin Stored, Current
      PROVE  WealthInv'
  <2>1. Replay(table') = Filled(Replay(table), e)
    BY <1>1, <1>3, ReplayAppend
  <2>2. Stored' = Stored \cup {e} /\ IsFiniteSet(Stored) /\ Stored \in SUBSET Executions
    BY <1>1, <1>3, RowsetAppend, StoredIsFinite DEF Rowset, Stored
  <2>3. /\ SoundRows(table) /\ Sound(Replay(table))
        /\ \A mark \in Nat :
              Equity(Replay(table), mark) = StartCash + Worths(Stored, mark) + Extras(table, mark)
    BY DEF WealthInv, Wealthy
  <2>4. ASSUME NEW mark \in Nat
        PROVE  /\ SoundRows(table') /\ Sound(Replay(table'))
               /\ Equity(Replay(table'), mark)
                    = StartCash + Worths(Stored', mark) + Extras(table', mark)
    <3>1. /\ Worths(Stored, mark) \in Int
          /\ Worths(Stored', mark) = Worth(e, mark) + Worths(Stored, mark)
      BY <1>3, <2>2, WorthsStep
    <3>2. /\ Sound(Replay(table')) /\ Worth(e, mark) \in Int
          /\ Unearned(Replay(table), e, mark) \in Int
          /\ Equity(Replay(table'), mark) =
               Equity(Replay(table), mark) + Worth(e, mark) + Unearned(Replay(table), e, mark)
      BY <2>1, <2>3, FilledKeepsWealth
    <3>3. /\ SoundRows(table') /\ Extras(table, mark) \in Int
          /\ Extras(table', mark) = Unearned(Replay(table), e, mark) + Extras(table, mark)
      BY <1>1, <1>3, <2>3, ExtrasStep
    <3> QED
      BY <2>3, <3>1, <3>2, <3>3, PortfolioAssumption
  <2>5. 0 \in Nat
    OBVIOUS
  <2> QED
    BY <1>1, <2>4, <2>5 DEF WealthInv, Wealthy
<1> QED
  BY <1>2, <1>3, <1>1 DEF Grows

\* Whatever is bought, sold, oversold, sold short, covered, redelivered or cut off
\* by a crash: the account is worth what its fills make it, each counted once, and
\* beyond that exactly what short sales and overshooting fills make.
THEOREM LedgerWealthIsConserved ==
    ASSUME OneWorker
    PROVE  LedgerSpec => []WealthIsConserved
<1>1. WealthInv => WealthIsConserved
  <2> SUFFICES ASSUME WealthInv, AtRest, NEW mark \in {PriceOf[e] : e \in Executions}
               PROVE  Equity(account, mark) = StartCash + Gain(mark) + AllUnearned(mark)
    BY DEF WealthIsConserved
  <2>1. mark \in Nat
    BY PortfolioAssumption
  <2>2. account = Replay(table) /\ applied = Stored
    BY DEF WealthInv, ReplayInv, AtRestIsReplay
  <2>3. Gain(mark) = Worths(applied, mark) /\ AllUnearned(mark) = Extras(table, mark)
    BY DEF Gain, Worths, Worth, AllUnearned, Extras, Extra
  <2> QED
    BY <2>1, <2>2, <2>3 DEF WealthInv, Wealthy
<1> QED
  BY <1>1, WealthInit, WealthInductive, PTL DEF LedgerSpec

-----------------------------------------------------------------------------
\* The same, for any number of workers, of the account in memory and of the one a
\* replay would give.
TypesInv == LedgerTypes /\ StoredInv /\ Sound(account) /\ Sound(Replay(table))

LEMMA TypesInit == LedgerInit => TypesInv
<1> SUFFICES ASSUME LedgerInit PROVE TypesInv
  OBVIOUS
<1>1. Sound(Opening)
  BY PortfolioAssumption DEF Sound, Account, Opening
<1>2. account = Opening /\ Replay(table) = Opening
  BY ReplayEmpty DEF LedgerInit
<1>3. LedgerTypes
  BY <1>1, <1>2, LedgerAssumption DEF LedgerInit, LedgerTypes, Sound
<1> QED
  BY <1>1, <1>2, <1>3, StoredInit DEF TypesInv

LEMMA TypesInductive == TypesInv /\ [LedgerNext]_ledgerVars => TypesInv'
<1> SUFFICES ASSUME TypesInv, [LedgerNext]_ledgerVars PROVE TypesInv'
  OBVIOUS
<1>1. StoredInv' /\ Sound(account) /\ Sound(Replay(table)) /\ table \in Seq(Executions)
  BY StoredInductive DEF TypesInv, StoredInv, Shape
<1>2. \A acct : \A e \in Executions : Sound(acct) => Sound(Filled(acct, e))
  <2> SUFFICES ASSUME NEW acct, NEW e \in Executions, Sound(acct) PROVE Sound(Filled(acct, e))
    OBVIOUS
  <2>1. 0 \in Nat
    OBVIOUS
  <2> QED
    BY <2>1, FilledKeepsWealth
<1>3. Sound(Replay(table'))
  <2>1. CASE table' = table
    BY <1>1, <2>1
  <2>2. ASSUME NEW e \in Executions, table' = Append(table, e) PROVE Sound(Replay(table'))
    BY <1>1, <1>2, <2>2, ReplayAppend
  <2> QED
    BY <2>1, <2>2 DEF LedgerNext, Work, Store, Check, Mutate, Record, ProcessDies, Recover, ledgerVars
<1>4. Sound(account')
  <2>1. ASSUME NEW w \in Threads, Mutate(w) PROVE Sound(account')
    <3>1. task[w] \in Executions /\ account' = Filled(account, task[w])
      BY <2>1 DEF Mutate, TypesInv, StoredInv, JobIsStored, Shape, Stored
    <3> QED
      BY <1>1, <1>2, <3>1
  <2>2. CASE ProcessDies
    BY <2>2, PortfolioAssumption DEF ProcessDies, Sound, Account, Opening
  <2>3. CASE Recover
    BY <1>1, <2>3 DEF Recover
  <2>4. CASE account' = account
    BY <1>1, <2>4
  <2> QED
    BY <2>1, <2>2, <2>3, <2>4 DEF LedgerNext, Work, Store, Check, Record, ledgerVars, memory
<1>5. LedgerTypes'
  <2>1. /\ up' \in BOOLEAN /\ crashes' \in 0 .. MaxCrashes
    <3>1. up \in BOOLEAN /\ crashes \in 0 .. MaxCrashes /\ MaxCrashes \in Nat
      BY LedgerAssumption DEF TypesInv, LedgerTypes
    <3>2. CASE ProcessDies
      <4>1. up' = FALSE /\ crashes < MaxCrashes /\ crashes' = crashes + 1
        BY <3>2 DEF ProcessDies
      <4>2. crashes' \in 0 .. MaxCrashes
        BY <3>1, <4>1
      <4> QED
        BY <4>1, <4>2
    <3>3. CASE Recover
      BY <3>1, <3>3 DEF Recover
    <3>4. CASE up' = up /\ crashes' = crashes
      BY <3>1, <3>4
    <3>5. ASSUME NEW w \in Threads, Work(w) \/ \E e \in Executions : Store(w, e)
          PROVE  up' = up /\ crashes' = crashes
      BY <3>5 DEF Work, Store, Check, Mutate, Record
    <3>6. CASE UNCHANGED ledgerVars
      BY <3>4, <3>6 DEF ledgerVars
    <3> QED
      BY <3>2, <3>3, <3>4, <3>5, <3>6 DEF LedgerNext
  <2>2. applied' \subseteq Executions
    BY <1>1 DEF StoredInv, AppliedIsStored, Shape, Stored
  <2>3. account' \in Account /\ (account'.side = "FLAT" <=> account'.size = 0)
    BY <1>4 DEF Sound
  <2> QED
    BY <1>1, <2>1, <2>2, <2>3 DEF LedgerTypes, StoredInv, Shape
<1> QED
  BY <1>1, <1>3, <1>4, <1>5 DEF TypesInv

\* Type correctness of portfolio and ledger: a position has a side exactly when it
\* has a size, whatever is bought, sold and covered, by however many workers.
THEOREM LedgerTypeOK == LedgerSpec => []LedgerTypes
<1>1. TypesInv => LedgerTypes
  BY DEF TypesInv
<1> QED
  BY <1>1, TypesInit, TypesInductive, PTL DEF LedgerSpec
=============================================================================
