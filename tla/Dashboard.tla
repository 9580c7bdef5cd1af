------------------------------ MODULE Dashboard ------------------------------
(***************************************************************************)
(* The dashboard server (dashboard/dashboard_server.py) in front of the    *)
(* coordinator: requests and web-socket messages become queries, their     *)
(* answers become the shared latest_results and query_history, and loops   *)
(* send them to every connected client.  Everything runs on one event      *)
(* loop, so only an await lets others in; a loop awaits each of its sends, *)
(* while clients come and go.                                              *)
(***************************************************************************)
EXTENDS QueryRouter

CONSTANTS
    Clients,       \* the web sockets followed here, each of which is opened once
    Loops,         \* the tasks that send: broadcast_updates, keep_alive, redis_listener
    Updaters,      \* those of them that send latest_results: broadcast_updates
    HistoryLimit   \* the 50 of /api/query

ASSUME DashboardAssumption == HistoryLimit \in Nat \ {0} /\ Updaters \subseteq Loops

VARIABLES
    caller,       \* who asks a query: nobody yet, a client, /api/query, an external agent
    latest,       \* the query of latest_results
    answered,     \* it holds the answer to that query, not a text about an exception
    history,      \* query_history
    peer,         \* the socket of a client: away, open, or gone
    reading,      \* the clients whose endpoint reads its messages
    connections,  \* active_connections
    sending,      \* what a loop has still to send to of its copy of them
    lost          \* no variable of the code: the clients that a refused update took off

served == <<caller, latest, answered, history>>
sockets == <<peer, reading, connections, sending, lost>>
dashVars == <<routerVars, served, sockets>>

DashInit ==
    /\ RouterInit
    /\ caller = [q \in Queries |-> "nobody"]
    /\ latest = None
    /\ answered = FALSE
    /\ history = <<>>
    /\ peer = [c \in Clients |-> "away"]
    /\ reading = {}
    /\ connections = <<>>
    /\ sending = [l \in Loops |-> <<>>]
    /\ lost = {}

-----------------------------------------------------------------------------
(* Queries. *)

\* The history of /api/query is cut to its newest entries, that of a symbol
\* analysis is not.
Trimmed(h) == IF Len(h) > HistoryLimit THEN SubSeq(h, Len(h) - HistoryLimit + 1, Len(h)) ELSE h

\* What the caller of route_query does with the answer, in the same step.
Record(q) ==
    /\ history' = CASE caller[q] = "client" -> Append(history, q)
                    [] caller[q] = "api" -> Trimmed(Append(history, q))
                    [] OTHER -> history
    /\ latest' = IF caller[q] \in {"client", "api"} THEN q ELSE latest
    /\ answered' = (answered \/ caller[q] \in {"client", "api"})
    /\ UNCHANGED <<caller, sockets>>

\* An exception that leaves no trace.
RecordErrorNowhere(q) == UNCHANGED <<served, sockets>>

\* An exception: the analysis of a symbol shows an error instead, "so the UI
\* doesn't hang forever"; a request is answered with the status 500.
RecordError(q) ==
    /\ history' = IF caller[q] = "client" THEN Append(history, q) ELSE history
    /\ latest' = IF caller[q] = "client" THEN q ELSE latest
    /\ answered' = (answered /\ caller[q] # "client")
    /\ UNCHANGED <<caller, sockets>>

\* set_symbol of a client, or POST /api/query: a price is fetched first, which
\* awaits.  Any client may have sent it, also one not among Clients.
Request(q, how) ==
    /\ caller[q] = "nobody"
    /\ caller' = [caller EXCEPT ![q] = how]
    /\ UNCHANGED <<routerVars, latest, answered, history, sockets>>

Priced(q) == caller[q] \in {"client", "api"}

Enter(q) ==
    \/ Priced(q) /\ Ask(q) /\ UNCHANGED <<served, sockets>>
    \/ Priced(q) /\ Reject(q) /\ Record(q)

\* POST /api/external_agent_query asks for no price, and keeps nothing.
External(q) ==
    /\ caller[q] = "nobody"
    /\ Ask(q) \/ Reject(q)
    /\ caller' = [caller EXCEPT ![q] = "external"]
    /\ UNCHANGED <<latest, answered, history, sockets>>

\* A query at work: the coordinator's steps, and the caller's with the answer.
Work(q) ==
    \/ \E t \in Topics : Begin(q, t) /\ UNCHANGED <<served, sockets>>
    \/ \E t \in Topics : Raise(q, t) /\ RecordError(q)
    \/ Start(q) /\ UNCHANGED <<served, sockets>>
    \/ Return(q) /\ UNCHANGED <<served, sockets>>
    \/ Fail(q) /\ UNCHANGED <<served, sockets>>
    \/ FastAnswer(q) /\ (Record(q) \/ RecordError(q))  \* what agents return may not format
    \/ Complete(q) /\ UNCHANGED <<served, sockets>>

-----------------------------------------------------------------------------
(* ConnectionManager. *)

Connect(c) ==
    /\ peer[c] = "away"
    /\ peer' = [peer EXCEPT ![c] = "open"]
    /\ reading' = reading \cup {c}
    /\ connections' = Append(connections, c)
    /\ UNCHANGED <<routerVars, served, sending, lost>>

Leave(c) ==
    /\ peer[c] = "open"
    /\ peer' = [peer EXCEPT ![c] = "gone"]
    /\ UNCHANGED <<routerVars, served, reading, connections, sending, lost>>

\* A message that is no JSON ends the endpoint and closes the socket; only
\* WebSocketDisconnect takes the client off the list.
BadMessage(c) ==
    /\ c \in reading
    /\ peer[c] = "open"
    /\ peer' = [peer EXCEPT ![c] = "gone"]
    /\ reading' = reading \ {c}
    /\ UNCHANGED <<routerVars, served, connections, sending, lost>>

\* disconnect: the connection leaves the list, if it is still there.
Without(c) == RemoveFirst(connections, c)

\* The endpoint sees WebSocketDisconnect.
Notice(c) ==
    /\ c \in reading
    /\ peer[c] = "gone"
    /\ reading' = reading \ {c}
    /\ connections' = Without(c)
    /\ UNCHANGED <<routerVars, served, peer, sending, lost>>

\* A loop wakes up and copies the list.
Wake(l) ==
    /\ sending[l] = <<>>
    /\ connections # <<>>
    /\ sending' = [sending EXCEPT ![l] = connections]
    /\ UNCHANGED <<routerVars, served, peer, reading, connections, lost>>

\* It sends to one client and awaits; a client that is gone makes send raise.
Send(l) ==
    /\ sending[l] # <<>>
    /\ LET c == Head(sending[l])
       IN  connections' = IF peer[c] = "gone" THEN Without(c) ELSE connections
    /\ sending' = [sending EXCEPT ![l] = Tail(@)]
    /\ UNCHANGED <<routerVars, served, peer, reading, lost>>

\* An update whose latest_results hold something of an agent that json refuses: send_json
\* raises before it awaits anything, for one client after the other, and broadcast
\* takes each of them for one that has disconnected.  Whether json takes what agents
\* return is up to them.
RefusedUpdate(l) ==
    /\ sending[l] = <<>>
    /\ connections # <<>>
    /\ answered
    /\ results[latest] # {}
    /\ connections' = <<>>
    /\ lost' = lost \cup {c \in ToSet(connections) : peer[c] = "open"}
    /\ UNCHANGED <<routerVars, served, peer, reading, sending>>

HaltComes == Halt /\ UNCHANGED <<served, sockets>>

DashNext ==
    \/ \E q \in Queries, how \in {"client", "api"} : Request(q, how)
    \/ \E q \in Queries : Enter(q) \/ External(q) \/ Work(q)
    \/ \E c \in Clients : Connect(c) \/ Leave(c) \/ BadMessage(c) \/ Notice(c)
    \/ \E l \in Loops : Wake(l) \/ Send(l)
    \/ \E l \in Updaters : RefusedUpdate(l)
    \/ HaltComes

\* The event loop gets round to every task, and agents return or raise in the
\* end (the calls they make have timeouts).
DashFairness ==
    /\ \A q \in Queries : WF_dashVars(Enter(q)) /\ WF_dashVars(Work(q))
    /\ \A l \in Loops : WF_dashVars(Wake(l)) /\ WF_dashVars(Send(l))

DashSpec == DashInit /\ [][DashNext]_dashVars /\ DashFairness

-----------------------------------------------------------------------------
\* A client whose socket works is on the list once, however many loops take the dead
\* ones off it meanwhile ("iterate over a copy of the list to allow safe removal
\* during iteration"), unless an update that json refuses has taken it off: then it
\* is off for good, though its endpoint goes on reading.
NobodyDropped ==
    \A c \in Clients :
        peer[c] = "open" => Cardinality({i \in DOMAIN connections : connections[i] = c})
                                = IF c \in lost THEN 0 ELSE 1

\* What broadcast says of the clients it removes, "a client has disconnected": only
\* the ones that have gone are off the list.  An update that json refuses breaks it.
OpenIsListed == \A c \in Clients : peer[c] = "open" => c \in ToSet(connections)

\* latest_results and the end of the history are written together and stay
\* together, whoever asked and whatever was cut off.
NewestIsLatest == latest # None => history # <<>> /\ Last(history) = latest

DashboardInv == RouterInv /\ NobodyDropped /\ NewestIsLatest

\* Every query that was asked ends: its lanes run out, though others ask
\* meanwhile, agents fail or the system halts; the analysis of a symbol shows up
\* in the history, an exception included; and the loops forget a client that has
\* gone, also one whose endpoint ended without telling the list.
NobodyWaitsForever ==
    /\ \A q \in Queries :
          /\ (stage[q] \in {"waiting", "fast"}) ~> (stage[q] \in {"done", "raised"})
          /\ (caller[q] = "client" /\ stage[q] \in {"new", "waiting", "fast"}) ~>
                (q \in ToSet(history))
    /\ \A c \in Clients : (peer[c] = "gone") ~> (c \notin ToSet(connections))
=============================================================================
