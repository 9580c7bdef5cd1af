----------------------------- MODULE OrderStates -----------------------------
(***************************************************************************)
(* The paper-trading order state machine: the states and events of an      *)
(* order, the table LEGAL_TRANSITIONS, and the checks and effects of       *)
(* PaperStateMachine.transition_order on the data the order carries        *)
(* (execution/paper_state_machine.py).  The module has no variables: it is *)
(* the vocabulary of every module about orders.                            *)
(*                                                                         *)
(* Quantities are natural numbers of some unit.  The program rounds them   *)
(* to 8 decimals, so a unit of 1e-8 is exact; a run that takes a lot as    *)
(* its unit sets Tolerance = 0, one that takes 1e-8 sets Tolerance = 1.    *)
(***************************************************************************)
EXTENDS Integers, FiniteSets

CONSTANT Tolerance  \* the 1e-8 of the program's "is this fill complete" test

ASSUME ToleranceAssumption == Tolerance \in Nat

Working == {"CREATED", "SUBMITTED", "ACKNOWLEDGED", "PARTIALLY_FILLED", "UNKNOWN"}
Terminal == {"FILLED", "REJECTED", "CANCELLED", "EXPIRED"}
States == Working \cup Terminal

FillEvents == {"FILL", "PARTIAL_FILL"}
MarkEvents == {"SUBMIT", "ACKNOWLEDGE", "UNCERTAIN", "CANCEL", "REJECT", "EXPIRE"}
Events == FillEvents \cup MarkEvents

\* LEGAL_TRANSITIONS: the events each state accepts; a terminal state none.
Allowed(s) ==
    {ev \in Events :
        \/ s = "CREATED" /\ ev \in {"SUBMIT", "CANCEL", "REJECT", "EXPIRE"}
        \/ s \in {"SUBMITTED", "UNKNOWN"} /\ ev # "SUBMIT"
        \/ s = "ACKNOWLEDGED" /\ ev \notin {"SUBMIT", "ACKNOWLEDGE"}
        \/ s = "PARTIALLY_FILLED" /\ ev \notin {"SUBMIT", "ACKNOWLEDGE", "REJECT"}}

\* LEGAL_TRANSITIONS: an event leads to one state, whatever the state it is
\* accepted in (the last case is EXPIRE).
Target(ev) ==
    CASE ev = "SUBMIT" -> "SUBMITTED"
      [] ev = "ACKNOWLEDGE" -> "ACKNOWLEDGED"
      [] ev = "PARTIAL_FILL" -> "PARTIALLY_FILLED"
      [] ev = "FILL" -> "FILLED"
      [] ev = "UNCERTAIN" -> "UNKNOWN"
      [] ev = "CANCEL" -> "CANCELLED"
      [] ev = "REJECT" -> "REJECTED"
      [] OTHER -> "EXPIRED"

-----------------------------------------------------------------------------
\* _validate_invariants, on an order of size qty.
WellFormed(state, filled, qty) ==
    /\ filled <= qty
    /\ state = "FILLED" => filled = qty

\* The overfill guard of transition_order.
Fits(filled, q, qty) == q > 0 /\ filled + q <= qty

\* Every fill leaves the order working, the one that completes it included.
AfterFillWorking(ev, filled, q, qty) == "PARTIALLY_FILLED"

\* The state after an accepted fill: a partial fill that completes the order
\* is promoted to FILLED.
AfterFill(ev, filled, q, qty) ==
    IF filled + q = qty THEN "FILLED" ELSE Target(ev)

\* The fill as transition_order sees it is carried through: the event is
\* legal, it does not overfill, and the order it leaves is well formed.
FillAccepted(state, ev, filled, q, qty) ==
    /\ ev \in Allowed(state)
    /\ Fits(filled, q, qty)
    /\ WellFormed(AfterFill(ev, filled, q, qty), filled + q, qty)

\* execute_order picks FILL when filled + q >= qty - 1e-8.  At equality the
\* outcome of the floating-point comparison depends on the operands.
EventOfFill(filled, q, qty) ==
    {ev \in FillEvents :
        /\ ev = "FILL" => filled + q >= qty - Tolerance
        /\ ev = "PARTIAL_FILL" => filled + q < qty /\ filled + q <= qty - Tolerance}
=============================================================================
