--------------------------- MODULE PortfolioLedger ---------------------------
(***************************************************************************)
(* The portfolio in memory and the executions table on disk, across        *)
(* crashes of the process (PaperPortfolioManager and the callers of its    *)
(* apply_order_fill in execution/broker_adapter.py and                     *)
(* reconciliation/portfolio_reconciler.py).                                *)
(*                                                                         *)
(* For each execution a worker first stores it with execute_order and then *)
(* applies it to the portfolio all workers share.  apply_order_fill checks *)
(* the applied ids, changes cash and position, and only then records the   *)
(* id; nothing locks the portfolio in between.                             *)
(***************************************************************************)
EXTENDS Portfolio

CONSTANTS
    Threads,        \* threads that store and apply executions
    MaxCrashes,     \* bound on the crashes of a behaviour
    Nothing         \* stands for no execution

ASSUME LedgerAssumption ==
    /\ MaxCrashes \in Nat
    /\ Nothing \notin Executions

VARIABLES
    table,     \* the executions table, in the order of its row ids
    account,   \* cash and position in memory
    applied,   \* applied_execution_ids
    up,        \* is the process running (and recovered)?
    at, task,  \* what each worker is doing, and for which execution
    crashes    \* crashes so far

memory == <<account, applied>>
ledgerVars == <<table, account, applied, up, at, task, crashes>>

Stored == {table[i] : i \in DOMAIN table}

\* A position has a side exactly when it has a size, through every branch of
\* apply_order_fill.
LedgerTypes ==
    /\ table \in Seq(Executions)
    /\ account \in Account
    /\ account.side = "FLAT" <=> account.size = 0
    /\ applied \subseteq Executions
    /\ up \in BOOLEAN
    /\ at \in [Threads -> {"idle", "check", "mutate", "record"}]
    /\ task \in [Threads -> Executions \cup {Nothing}]
    /\ crashes \in 0 .. MaxCrashes

LedgerInit ==
    /\ table = <<>>
    /\ account = Opening
    /\ applied = {}
    /\ up = TRUE
    /\ at = [w \in Threads |-> "idle"]
    /\ task = [w \in Threads |-> Nothing]
    /\ crashes = 0

AllIdle == \A w \in Threads : at[w] = "idle"

-----------------------------------------------------------------------------

\* execute_order: the execution is committed to the ledger, or it is there
\* already (a redelivery) and the unique index ignores it.  Nothing asks whether
\* the portfolio holds what is sold: a fill may open, reverse or overshoot.
Store(w, e) ==
    /\ up
    /\ at[w] = "idle"
    /\ table' = IF e \in Stored THEN table ELSE Append(table, e)
    /\ at' = [at EXCEPT ![w] = "check"]
    /\ task' = [task EXCEPT ![w] = e]
    /\ UNCHANGED <<memory, up, crashes>>

\* apply_order_fill that does not look the execution up.
CheckNothing(w) ==
    /\ up
    /\ at[w] = "check"
    /\ at' = [at EXCEPT ![w] = "mutate"]
    /\ UNCHANGED <<table, memory, up, task, crashes>>

\* apply_order_fill: an execution applied before is ignored.
Check(w) ==
    /\ up
    /\ at[w] = "check"
    /\ at' = [at EXCEPT ![w] = IF task[w] \in applied THEN "idle" ELSE "mutate"]
    /\ task' = [task EXCEPT ![w] = IF @ \in applied THEN Nothing ELSE @]
    /\ UNCHANGED <<table, memory, up, crashes>>

\* apply_order_fill: cash and position.
Mutate(w) ==
    /\ up
    /\ at[w] = "mutate"
    /\ account' = Filled(account, task[w])
    /\ at' = [at EXCEPT ![w] = "record"]
    /\ UNCHANGED <<table, applied, up, task, crashes>>

\* apply_order_fill: applied_execution_ids.add.
Record(w) ==
    /\ up
    /\ at[w] = "record"
    /\ applied' = applied \cup {task[w]}
    /\ at' = [at EXCEPT ![w] = "idle"]
    /\ task' = [task EXCEPT ![w] = Nothing]
    /\ UNCHANGED <<table, account, up, crashes>>

\* The process dies at any point: memory is lost, the ledger stays.
ProcessDies ==
    /\ up
    /\ crashes < MaxCrashes
    /\ up' = FALSE
    /\ account' = Opening
    /\ applied' = {}
    /\ at' = [w \in Threads |-> "idle"]
    /\ task' = [w \in Threads |-> Nothing]
    /\ crashes' = crashes + 1
    /\ UNCHANGED table

\* A restart that does not replay the ledger.
RecoverEmpty ==
    /\ ~up
    /\ up' = TRUE
    /\ account' = Opening
    /\ applied' = {}
    /\ UNCHANGED <<table, at, task, crashes>>

\* Restart: replay_from_oms on a fresh portfolio.
Recover ==
    /\ ~up
    /\ up' = TRUE
    /\ account' = Replay(table)
    /\ applied' = Stored
    /\ UNCHANGED <<table, at, task, crashes>>

Work(w) == Check(w) \/ Mutate(w) \/ Record(w)

LedgerNext ==
    \/ \E w \in Threads : Work(w) \/ \E e \in Executions : Store(w, e)
    \/ ProcessDies
    \/ Recover

\* A worker finishes what it began, and a crashed process is restarted.
Fairness == WF_ledgerVars(Recover) /\ \A w \in Threads : WF_ledgerVars(Work(w))
LedgerSpec == LedgerInit /\ [][LedgerNext]_ledgerVars /\ Fairness

-----------------------------------------------------------------------------
AtRest == up /\ AllIdle

\* "Recovered state = replay of the ledger = expected pre-crash state"
\* (p2-4-crash-recovery): whenever no worker is inside a call, the portfolio
\* in memory is what a restart would rebuild, so a crash then changes nothing.
AtRestIsReplay ==
    AtRest => account = Replay(table) /\ applied = Stored

\* The portfolio never counts an execution that a restart would forget.
AppliedIsStored == applied \subseteq Stored

Signed(e) == IF SideOf[e] = "BUY" THEN QtyOf[e] ELSE -QtyOf[e]

\* What the applied fills are worth at a mark price.
Gain(mark) ==
    SumFunctionOnSet([e \in applied |-> Signed(e) * (mark - PriceOf[e]) - FeeOf[e]], applied)

\* What a fill of an account makes or loses beyond its worth, at a mark price:
\* a sale that closes more than is held is paid in full, a purchase that covers
\* more than was sold returns the entry value of all of it, and a short sale is
\* valued as if its proceeds had been paid in.
Unearned(acct, e, mark) ==
    LET excess == QtyOf[e] - acct.size
    IN  CASE SideOf[e] = "SELL" /\ acct.side = "LONG" ->
                IF excess > 0 THEN excess * mark ELSE 0
          [] SideOf[e] = "SELL" /\ acct.side # "LONG" -> Cost(e)
          [] SideOf[e] = "BUY" /\ acct.side = "SHORT" ->
                IF excess > 0
                THEN 2 * ((QtyOf[e] * acct.basis) \div acct.size - acct.basis) - excess * mark
                ELSE 0
          [] OTHER -> 0

\* The same for all rows of the ledger, each on the account of the rows before.
AllUnearned(mark) ==
    SumFunctionOnSet([n \in DOMAIN table |->
                         Unearned(Replay(SubSeq(table, 1, n - 1)), table[n], mark)],
                     DOMAIN table)

\* The portfolio is worth at any mark price its opening cash plus what its fills
\* gained, each counted once, plus what short sales and overshooting fills make:
\* as long as only what is held is sold no money appears or disappears, and a
\* short that is covered in parts loses nothing between its two branches.
WealthIsConserved ==
    AtRest => \A mark \in {PriceOf[e] : e \in Executions} :
                Equity(account, mark) = StartCash + Gain(mark) + AllUnearned(mark)

\* A stored execution takes its effect in the end, though the process may die
\* between storing and applying it.
StoredIsApplied == \A e \in Executions : e \in Stored ~> e \in applied
=============================================================================
