------------------------------ MODULE Portfolio ------------------------------
(***************************************************************************)
(* The accounting of PaperPortfolioManager (execution/                     *)
(* paper_state_machine.py) for one symbol, as operators: what a fill does  *)
(* to cash and position, what the portfolio is worth, and what a replay of *)
(* a ledger of executions gives.  Positions of different symbols share     *)
(* only the cash balance.                                                  *)
(*                                                                         *)
(* Money and prices are integers of some unit.  A position keeps the cost  *)
(* of what it holds, basis = size * entry_price, so that the entry price   *)
(* is basis / size.                                                        *)
(***************************************************************************)
EXTENDS Integers, Sequences, FiniteSets, SequencesExt

CONSTANTS
    Executions,      \* executions
    SideOf,     \* "BUY" or "SELL"
    QtyOf,      \* fill_qty
    PriceOf,    \* fill_price
    FeeOf,      \* fee
    StartCash   \* _initial_cash

ASSUME PortfolioAssumption ==
    /\ SideOf \in [Executions -> {"BUY", "SELL"}]
    /\ QtyOf \in [Executions -> Nat \ {0}]
    /\ PriceOf \in [Executions -> Nat \ {0}]
    /\ FeeOf \in [Executions -> Nat]
    /\ StartCash \in Int

Account == [cash : Int, side : {"LONG", "SHORT", "FLAT"}, size : Nat, basis : Int]
Opening == [cash |-> StartCash, side |-> "FLAT", size |-> 0, basis |-> 0]

Cost(e) == QtyOf[e] * PriceOf[e]

\* A position that is closed keeps its side.
ReducedKeepingSide(acct, q, cash) ==
    IF q >= acct.size
    THEN [acct EXCEPT !.cash = cash, !.size = 0, !.basis = 0]
    ELSE [acct EXCEPT !.cash = cash,
                      !.size = @ - q,
                      !.basis = @ - (q * @) \div acct.size]

\* The position after q units of it are closed: what is left at the same entry
\* price, and FLAT when nothing is (closing more than there is also gives FLAT).
Reduced(acct, q, cash) ==
    IF q >= acct.size
    THEN [cash |-> cash, side |-> "FLAT", size |-> 0, basis |-> 0]
    ELSE [acct EXCEPT !.cash = cash,
                      !.size = @ - q,
                      !.basis = @ - (q * @) \div acct.size]

\* The position after q units costing cost are added to it.
Grown(acct, side, e, cash) ==
    [cash |-> cash, side |-> side,
     size |-> acct.size + QtyOf[e], basis |-> acct.basis + Cost(e)]

\* The fee of a closing sale is left out of the proceeds.
FilledFeeless(acct, e) ==
    CASE SideOf[e] = "BUY" -> Grown(acct, "LONG", e, acct.cash - Cost(e) - FeeOf[e])
      [] OTHER -> Reduced(acct, QtyOf[e], acct.cash + Cost(e))

\* apply_order_fill, the mutation of cash and position.  A covered short
\* returns its entry value and its profit; a new short only pays its fee.
Filled(acct, e) ==
    CASE SideOf[e] = "BUY" /\ acct.side = "SHORT" ->
            LET entry == (QtyOf[e] * acct.basis) \div acct.size
                pnl == entry - Cost(e) - FeeOf[e]
            IN  Reduced(acct, QtyOf[e], acct.cash + entry + pnl)
      [] SideOf[e] = "BUY" /\ acct.side # "SHORT" ->
            Grown(acct, "LONG", e, acct.cash - Cost(e) - FeeOf[e])
      [] SideOf[e] = "SELL" /\ acct.side = "LONG" ->
            Reduced(acct, QtyOf[e], acct.cash + Cost(e) - FeeOf[e])
      [] OTHER ->
            Grown(acct, "SHORT", e, acct.cash - FeeOf[e])

\* compute_total_equity at a mark price.
Equity(acct, mark) ==
    CASE acct.side = "LONG" -> acct.cash + acct.size * mark
      [] acct.side = "SHORT" -> acct.cash + 2 * acct.basis - acct.size * mark
      [] OTHER -> acct.cash

\* replay_from_oms: the account that the ledger gives, in the order of its rows.
Replay(ledger) == FoldLeft(Filled, Opening, ledger)
=============================================================================
