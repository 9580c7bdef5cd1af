--------------------------- MODULE IdempotentCreate --------------------------
(***************************************************************************)
(* DurablePaperOMS.create_order called by several threads or processes at  *)
(* once (execution/paper_state_machine.py).  A call carries an idempotency *)
(* key (or none), a client order id (the caller's, or a fresh one) and a   *)
(* fingerprint of its economic parameters.  It looks for an order with its *)
(* key, then for one with its client id, then inserts, and when a unique   *)
(* index refuses the insert looks again.  Each of these is a statement of  *)
(* its own; between them other calls run and the process may die.          *)
(*                                                                         *)
(* A row of the orders table is named by the call that inserted it, so its *)
(* key, client id and fingerprint are those of that call.                  *)
(***************************************************************************)
EXTENDS Integers, FiniteSets

CONSTANTS
    Calls,     \* calls of create_order, a retry being a call of its own
    KeyOf,     \* idempotency_key of a call, NoKey when it passes none
    CidOf,     \* client_order_id of a call
    PrintOf,   \* request_fingerprint of a call
    NoKey,
    None       \* no answer yet

ASSUME CallsAssumption ==
    /\ None \notin Calls \cup {"conflict", "error", "crashed"}
    /\ Calls \cap {"conflict", "error", "crashed"} = {}

VARIABLES
    rows,      \* the orders table
    stmt,      \* the next statement of each call
    answer     \* what each call returned: a row, or how it failed

createVars == <<rows, stmt, answer>>

Outcomes == Calls \cup {None, "conflict", "error", "crashed"}

CreateTypes ==
    /\ rows \subseteq Calls
    /\ stmt \in [Calls -> {"by_key", "by_cid", "insert", "resolve", "done"}]
    /\ answer \in [Calls -> Outcomes]

CreateInit ==
    /\ rows = {}
    /\ stmt = [c \in Calls |-> "by_key"]
    /\ answer = [c \in Calls |-> None]

RowsByKey(c) == {r \in rows : KeyOf[c] # NoKey /\ KeyOf[r] = KeyOf[c]}
RowsByCid(c) == {r \in rows : CidOf[r] = CidOf[c]}

Goto(c, label) ==
    /\ stmt' = [stmt EXCEPT ![c] = label]
    /\ UNCHANGED <<rows, answer>>

Answer(c, a) ==
    /\ stmt' = [stmt EXCEPT ![c] = "done"]
    /\ answer' = [answer EXCEPT ![c] = a]

\* Reuses whatever order was found.
ReuseUnchecked(c, r) == Answer(c, r) /\ UNCHANGED rows

\* An order was found: it is reused when its fingerprint is the caller's, and
\* IdempotencyConflict is raised otherwise.
Reuse(c, r) ==
    /\ Answer(c, IF PrintOf[r] = PrintOf[c] THEN r ELSE "conflict")
    /\ UNCHANGED rows

-----------------------------------------------------------------------------
\* SELECT ... WHERE idempotency_key = ?, when the call has a key.
LookUpKey(c) ==
    /\ stmt[c] = "by_key"
    /\ \/ \E r \in RowsByKey(c) : Reuse(c, r)
       \/ RowsByKey(c) = {} /\ Goto(c, "by_cid")

\* SELECT ... WHERE client_order_id = ?
LookUpCid(c) ==
    /\ stmt[c] = "by_cid"
    /\ \/ \E r \in RowsByCid(c) : Reuse(c, r)
       \/ RowsByCid(c) = {} /\ Goto(c, "insert")

\* An index on the client id alone.
ClashesOnCid(c) == RowsByCid(c) # {}

\* The two unique indexes of the orders table.
Clashes(c) == RowsByKey(c) # {} \/ RowsByCid(c) # {}

\* INSERT and COMMIT, or IntegrityError and ROLLBACK.
Insert(c) ==
    /\ stmt[c] = "insert"
    /\ \/ /\ ~Clashes(c)
          /\ rows' = rows \cup {c}
          /\ Answer(c, c)
       \/ Clashes(c) /\ Goto(c, "resolve")

\* Looks for the winner by client id only.
WinnerByCid(c) == RowsByCid(c)

\* The row the handler of IntegrityError looks for: by key when the call has
\* a key, and only otherwise by client id.
Winner(c) == IF KeyOf[c] # NoKey THEN RowsByKey(c) ELSE RowsByCid(c)

\* The handler of IntegrityError; without a winner it raises the error again.
Resolve(c) ==
    /\ stmt[c] = "resolve"
    /\ \/ \E r \in Winner(c) : Reuse(c, r)
       \/ Winner(c) = {} /\ Answer(c, "error") /\ UNCHANGED rows

\* The process of the call dies before the call has answered.
Crash(c) ==
    /\ stmt[c] # "done"
    /\ Answer(c, "crashed")
    /\ UNCHANGED rows

CreateStep(c) == LookUpKey(c) \/ LookUpCid(c) \/ Insert(c) \/ Resolve(c)
AllDone == (\A c \in Calls : stmt[c] = "done") /\ UNCHANGED createVars

CreateNext == (\E c \in Calls : CreateStep(c) \/ Crash(c)) \/ AllDone
CreateSpec == CreateInit /\ [][CreateNext]_createVars

-----------------------------------------------------------------------------
Created(c) == answer[c] \in Calls

\* One intent, one order: two calls with the same key that both got an order
\* got the same one, however their statements interleave and whichever of
\* their processes died.
OneOrderPerIntent ==
    \A c, d \in Calls :
        Created(c) /\ Created(d) /\ KeyOf[c] # NoKey /\ KeyOf[c] = KeyOf[d]
            => answer[c] = answer[d]

\* A call is never handed an order whose economic parameters differ from the
\* ones it asked for, whichever of the three look-ups found it.
AnswersOwnRequest ==
    \A c \in Calls : Created(c) =>
        answer[c] \in rows /\ PrintOf[answer[c]] = PrintOf[c]

\* "Subsequent concurrent threads encounter IntegrityError, rollback cleanly
\* [...] and return the single persisted order record": the error itself
\* never reaches the caller (p2-2-order-idempotency, section 6).
RaceIsResolved == \A c \in Calls : answer[c] # "error"

\* The client id names no orders of two different intents.
CidDeterminesKey ==
    \A c, d \in Calls : CidOf[c] = CidOf[d] => KeyOf[c] = KeyOf[d]
=============================================================================
