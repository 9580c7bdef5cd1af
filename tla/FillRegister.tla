---------------------------- MODULE FillRegister -----------------------------
(***************************************************************************)
(* What the durable order store promises, without its states, rows, calls  *)
(* or processes: an order collects executions while it is open, each at    *)
(* most once and never beyond its size; the one that completes it closes   *)
(* it; anything else may close it too; a closed order never changes again. *)
(***************************************************************************)
EXTENDS Integers

CONSTANTS
    Orders,    \* the orders of the book
    Execs,     \* execution identifiers the broker may report
    OrderQty,  \* the size of each order
    ExecOf,    \* the order an execution belongs to
    ExecQty    \* the quantity of an execution

VARIABLES
    open,      \* the orders still working
    got,       \* the executions each order has collected
    filled     \* the quantity each order has collected

regVars == <<open, got, filled>>

RegInit ==
    /\ open = Orders
    /\ got = [o \in Orders |-> {}]
    /\ filled = [o \in Orders |-> 0]

Collect(e) ==
    LET o == ExecOf[e]
        total == filled[o] + ExecQty[e]
    IN  /\ o \in open
        /\ e \notin got[o]
        /\ total <= OrderQty[o]
        /\ got' = [got EXCEPT ![o] = @ \cup {e}]
        /\ filled' = [filled EXCEPT ![o] = total]
        /\ open' = IF total = OrderQty[o] THEN open \ {o} ELSE open

Close(o) ==
    /\ o \in open
    /\ open' = open \ {o}
    /\ UNCHANGED <<got, filled>>

RegNext == (\E e \in Execs : Collect(e)) \/ (\E o \in Orders : Close(o))

RegSpec == RegInit /\ [][RegNext]_regVars
=============================================================================
