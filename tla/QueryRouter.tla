----------------------------- MODULE QueryRouter -----------------------------
(***************************************************************************)
(* MasterCoordinator (core/orchestrator.py): a query is turned into a list *)
(* of agents, ordered by what they depend on.  The agents that fetch and   *)
(* compute (the fast lane) run under the coordinator's lock and are        *)
(* answered at once; the others follow in a background task (the slow      *)
(* lane), beside the queries that come later.                              *)
(*                                                                         *)
(* The event loop is one thread; an agent that awaits lets other tasks in. *)
(* Agents whose execute is a plain function do not, here they may too.     *)
(* An agent is code of its own: here it returns or raises.                 *)
(***************************************************************************)
EXTENDS Integers, SequencesExt

CONSTANTS
    Queries,        \* calls of route_query
    Registrations,  \* the sets of agents a process may have registered
    Topics,         \* the sets of topics a query's words may touch
    MaxFailures,    \* bounds the agents that raise in a behaviour
    None

\* capabilities[...]["dependencies"]
Dependencies == [
    data |-> <<>>, regime |-> <<"data">>, quant |-> <<"data", "regime">>,
    research |-> <<"data", "regime">>, risk |-> <<"data", "quant", "regime">>,
    multistyle |-> <<"data">>,
    supervisor |-> <<"multistyle", "data", "quant", "research", "risk">>,
    cio |-> <<"supervisor">>, portfolio |-> <<"cio">>, review |-> <<>>,
    rl_agent |-> <<"data", "quant", "research", "risk", "regime">>,
    governance |-> <<"rl_agent">>, compliance |-> <<"portfolio">>,
    execution |-> <<"compliance">>, algo |-> <<"execution">>, tca |-> <<"algo">>]

AllAgents == DOMAIN Dependencies
FastLane == {"data", "quant", "risk"}
\* The agents whose results are published in parts, which may raise.
Published == {"data", "quant", "risk", "supervisor", "review", "rl_agent"}

ASSUME RouterAssumption ==
    /\ Registrations \subseteq SUBSET AllAgents
    /\ Topics \subseteq SUBSET {"market", "technical", "regime", "fundamental", "risk", "trade",
                                "review", "advice"}
    /\ MaxFailures \in Nat
    /\ None \notin AllAgents

VARIABLES
    registered,  \* _agents
    halted,      \* is_halted
    queue,       \* the queries at the lock, in order: the first one holds it
    stage,       \* where a query is
    plan,        \* execution_order, stored under the query's id
    at,          \* how much of it the loop of its lane has behind it
    running,     \* the agent its lane waits for
    results,     \* the agents whose result it holds
    errors,      \* the agents that raised
    final,       \* final:<query_id> in the shared memory
    status,      \* agent:<name>:status in the shared memory
    failures     \* how many agents have raised

routerVars == <<registered, halted, queue, stage, plan, at, running, results, errors, final, status,
                failures>>

Stages == {"new", "waiting", "fast", "slow", "done", "rejected", "raised"}

RouterInit ==
    /\ registered \in Registrations
    /\ halted = FALSE
    /\ queue = <<>>
    /\ stage = [q \in Queries |-> "new"]
    /\ plan = [q \in Queries |-> <<>>]
    /\ at = [q \in Queries |-> 0]
    /\ running = [q \in Queries |-> None]
    /\ results = [q \in Queries |-> {}]
    /\ errors = [q \in Queries |-> {}]
    /\ final = [q \in Queries |-> None]
    /\ status = [a \in AllAgents |-> "idle"]
    /\ failures = 0

-----------------------------------------------------------------------------
(* The plan of a query. *)

\* _detect_intent: a topic names its agents, no topic names the analysts, in the
\* order in which main.py registers them.
Targets(agents, topics) ==
    LET Named(t, s) == IF t \in topics THEN s ELSE <<>>
        Here(a) == IF a \in agents THEN <<a>> ELSE <<>>
    IN  IF topics # {}
        THEN Named("market", <<"data">>) \o Named("technical", <<"quant">>)
             \o Named("regime", <<"regime">>) \o Named("fundamental", <<"research">>)
             \o Named("risk", <<"risk">>)
             \o Named("trade", <<"execution", "rl_agent", "portfolio", "compliance">>)
             \o Named("review", <<"review">>) \o Named("advice", <<"supervisor">>)
        ELSE Here("data") \o Here("regime") \o Here("quant") \o Here("research") \o Here("risk")
             \o Here("multistyle") \o Here("supervisor") \o Here("rl_agent")

\* One round of visit, whose recursion is a stack here: the agent on top follows
\* what is in the order, or the first registered one it depends on that is not
\* there goes on top of it.
Visit(agents, s) ==
    LET a == Head(s.stack)
        deps == IF a \in agents THEN Dependencies[a] ELSE <<>>
        missing == {i \in DOMAIN deps : deps[i] \in agents \ ToSet(s.order)}
    IN  CASE s.stack = <<>> -> s
          [] s.stack # <<>> /\ a \in ToSet(s.order) -> [s EXCEPT !.stack = Tail(@)]
          [] s.stack # <<>> /\ a \notin ToSet(s.order) /\ missing # {} ->
                [s EXCEPT !.stack = <<deps[Min(missing)]>> \o @]
          [] OTHER -> [order |-> Append(s.order, a), stack |-> Tail(s.stack)]

\* _resolve_dependencies: what an agent depends on comes before it.  Sixteen agents
\* and eleven targets are on the stack for less than 64 rounds.
Rounds == 64
Resolved(agents, topics) ==
    LET visit[n \in Nat] == IF n = 0 THEN [order |-> <<>>, stack |-> Targets(agents, topics)]
                            ELSE Visit(agents, visit[n - 1])
    IN  visit[Rounds].order

\* route_query then moves some agents, one after the other, to the end or right
\* behind another one.
ToEnd(order, a) == IF a \in ToSet(order) THEN Append(RemoveFirst(order, a), a) ELSE order

Behind(order, a, b) ==
    LET others == RemoveFirst(order, a)
    IN  IF a \in ToSet(order) THEN InsertAt(others, SelectInSeq(others, LAMBDA c : c = b) + 1, a)
        ELSE order

EitherOf(order, a, b) == IF a \in ToSet(order) THEN a ELSE b

Placed(order) ==
    LET advised == ToEnd(order, "supervisor")
        learned == Behind(advised, "rl_agent", "supervisor")
        governed == Behind(learned, "governance", EitherOf(learned, "rl_agent", "supervisor"))
        chaired == Behind(governed, "cio", "supervisor")
        invested == Behind(chaired, "portfolio", EitherOf(chaired, "cio", "supervisor"))
        complied == Behind(invested, "compliance", EitherOf(invested, "portfolio", "supervisor"))
    IN  ToEnd(ToEnd(ToEnd(complied, "execution"), "algo"), "tca")

\* index('supervisor') raises when there is no supervisor to go behind.
Unplaceable(order) ==
    /\ "supervisor" \notin ToSet(order)
    /\ ToSet(order) \cap {"rl_agent", "governance", "cio", "portfolio", "compliance"} # {}

\* execution_order, or nothing where placing an agent raises.
Plan == [agents \in Registrations |-> [topics \in Topics |->
            LET order == Resolved(agents, topics)
            IN  IF Unplaceable(order) THEN None ELSE Placed(order)]]

-----------------------------------------------------------------------------
(* A query. *)

\* The flag is read before the lock: a query that waits at it runs after a halt.
Ask(q) ==
    /\ stage[q] = "new"
    /\ ~halted
    /\ stage' = [stage EXCEPT ![q] = "waiting"]
    /\ queue' = Append(queue, q)
    /\ UNCHANGED <<registered, halted, plan, at, running, results, errors, final,
                   status, failures>>

Reject(q) ==
    /\ stage[q] = "new"
    /\ halted
    /\ stage' = [stage EXCEPT ![q] = "rejected"]
    /\ UNCHANGED <<registered, halted, queue, plan, at, running, results, errors,
                   final, status, failures>>

Begin(q, topics) ==
    /\ stage[q] = "waiting"
    /\ Head(queue) = q
    /\ Plan[registered][topics] # None
    /\ plan' = [plan EXCEPT ![q] = Plan[registered][topics]]
    /\ stage' = [stage EXCEPT ![q] = "fast"]
    /\ UNCHANGED <<registered, halted, queue, at, running, results, errors, final, status, failures>>

\* The ValueError leaves the coordinator, and the lock behind it.
Raise(q, topics) ==
    /\ stage[q] = "waiting"
    /\ Head(queue) = q
    /\ Plan[registered][topics] = None
    /\ stage' = [stage EXCEPT ![q] = "raised"]
    /\ queue' = Tail(queue)
    /\ UNCHANGED <<registered, halted, plan, at, running, results, errors, final,
                   status, failures>>

\* Each lane goes through the whole order and runs what belongs to it; agents that
\* are not registered are passed over without a trace.
InLane(q, i) ==
    /\ plan[q][i] \in registered
    /\ plan[q][i] \in FastLane <=> stage[q] = "fast"

Ahead(q) == {i \in at[q] + 1 .. Len(plan[q]) : InLane(q, i)}

\* execute_agent, up to the agent's own execute.
Start(q) ==
    /\ stage[q] \in {"fast", "slow"}
    /\ running[q] = None
    /\ Ahead(q) # {}
    /\ at' = [at EXCEPT ![q] = Min(Ahead(q))]
    /\ running' = [running EXCEPT ![q] = plan[q][at'[q]]]
    /\ status' = [status EXCEPT ![running'[q]] = "active"]
    /\ UNCHANGED <<registered, halted, queue, stage, plan, results, errors, final, failures>>

Return(q) ==
    /\ running[q] # None
    /\ results' = [results EXCEPT ![q] = @ \cup {running[q]}]
    /\ status' = [status EXCEPT ![running[q]] = "idle"]
    /\ running' = [running EXCEPT ![q] = None]
    /\ UNCHANGED <<registered, halted, queue, stage, plan, at, errors, final, failures>>

\* An exception that the lane does not record.
FailUnrecorded(q) ==
    /\ running[q] # None
    /\ failures < MaxFailures
    /\ failures' = failures + 1
    /\ running' = [running EXCEPT ![q] = None]
    /\ status' = [status EXCEPT ![running[q]] = "error"]
    /\ UNCHANGED <<registered, halted, queue, stage, plan, at, results, errors, final>>

\* The agent raises, or what it returned cannot be published: then its result
\* is among the results and its failure among the errors.
Fail(q) ==
    /\ running[q] # None
    /\ failures < MaxFailures
    /\ failures' = failures + 1
    /\ \E kept \in {FALSE, running[q] \in Published} :
          results' = IF kept THEN [results EXCEPT ![q] = @ \cup {running[q]}] ELSE results
    /\ errors' = [errors EXCEPT ![q] = @ \cup {running[q]}]
    /\ running' = [running EXCEPT ![q] = None]
    /\ status' = [status EXCEPT ![running[q]] = "error"]
    /\ UNCHANGED <<registered, halted, queue, stage, plan, at, final>>

LaneEnded(q) == Ahead(q) = {} /\ running[q] = None

\* The fast lane has ended: the slow one becomes a task, the lock is released
\* and the caller has an answer.
FastAnswer(q) ==
    /\ stage[q] = "fast"
    /\ LaneEnded(q)
    /\ stage' = [stage EXCEPT ![q] = "slow"]
    /\ queue' = Tail(queue)
    /\ at' = [at EXCEPT ![q] = 0]
    /\ UNCHANGED <<registered, halted, plan, running, results, errors, final, status, failures>>

\* The slow lane has ended: _consolidate_results is stored once more.
Complete(q) ==
    /\ stage[q] = "slow"
    /\ LaneEnded(q)
    /\ stage' = [stage EXCEPT ![q] = "done"]
    /\ final' = [final EXCEPT ![q] = [results |-> results[q], errors |-> errors[q],
                                      success |-> errors[q] = {}]]
    /\ UNCHANGED <<registered, halted, queue, plan, at, running, results, errors,
                   status, failures>>

\* trigger_system_halt (see ExecutionStream).
Halt ==
    /\ ~halted
    /\ halted' = TRUE
    /\ UNCHANGED <<registered, queue, stage, plan, at, running, results, errors, final, status,
                   failures>>

-----------------------------------------------------------------------------
RouterTypes ==
    /\ registered \in Registrations
    /\ halted \in BOOLEAN
    /\ ToSet(queue) = {q \in Queries : stage[q] \in {"waiting", "fast"}}
    /\ stage \in [Queries -> Stages]
    /\ running \in [Queries -> AllAgents \cup {None}]
    /\ \A q \in Queries : results[q] \cup errors[q] \subseteq registered
    /\ status \in [AllAgents -> {"idle", "active", "error"}]

\* "Resolve dependencies to determine execution order" and the moves after it:
\* whenever an agent runs, every registered agent it depends on has ended for
\* this query, whatever the query names.  The fast lane's quant and risk, which
\* run before regime although they depend on it, are the exception.
AnalystsFirst ==
    \A q \in Queries :
        running[q] # None =>
            LET a == running[q]
                exempt == IF a \in FastLane THEN {"regime"} ELSE {}
            IN  (ToSet(Dependencies[a]) \cap registered) \ exempt \subseteq results[q] \cup errors[q]

\* One fast lane at a time, in the order the queries came.
OneFastLane == \A q \in Queries : stage[q] = "fast" => Head(queue) = q

\* The final result of a query tells of every registered agent of its plan, as
\* one that returned or one that failed, and is called a success only if all
\* of them returned (_consolidate_results).
FinalTells ==
    \A q \in Queries :
        LET f == final[q]
            ran == ToSet(plan[q]) \cap registered
        IN  f # None => /\ f.results \cup f.errors = ran
                        /\ f.success => f.results = ran

\* When every lane has ended, no agent is shown as active.
StatusSettles ==
    (\A q \in Queries : running[q] = None) => \A a \in AllAgents : status[a] # "active"

RouterInv == RouterTypes /\ AnalystsFirst /\ OneFastLane /\ FinalTells /\ StatusSettles
=============================================================================
