----------------------------- MODULE MCDashboard -----------------------------
(***************************************************************************)
(* Two queries and two clients; with every agent of main.py registered,    *)
(* with four of them, with one, and with none, as when the server runs     *)
(* alone.  The shared memory, whose storage they use, moves in behaviours  *)
(* of its own.                                                             *)
(***************************************************************************)
EXTENDS Dashboard

CONSTANTS q1, q2

VARIABLES storage, dump, saving

Memory == INSTANCE SharedMemory WITH
    Keys <- {"status", "result"}, Plain <- {"idle", "active"}, Odd <- {"object"}

Registered == {{}, {"data"}, {"data", "quant", "supervisor", "portfolio"}, AllAgents}
Asked == {{}, {"trade"}, {"trade", "advice"}, {"regime", "risk"}, {"review", "fundamental"}}

\* What clients are sent depends on the answers to queries: with one agent, one
\* query and the clients move in one behaviour.  With more agents a behaviour moves
\* the queries or the clients, and has a second query only where the lanes are
\* short.  The entries of the memory share nothing with them but the process.
Untouched == caller = [q \in Queries |-> "nobody"] /\ peer = [c \in Clients |-> "away"] /\ ~halted
FewNext ==
    \/ /\ DashNext
       /\ UNCHANGED <<storage, dump, saving>>
       /\ Memory!Init
       /\ registered # {"data"} /\ (\E q \in Queries : caller'[q] # "nobody")
             => \A c \in Clients : peer'[c] = "away"
       /\ registered \in {{"data"}, AllAgents} => caller'[q2] = "nobody"
    \/ Untouched /\ Memory!Next /\ UNCHANGED dashVars
FewInit == DashInit /\ Memory!Init
FewSpec == FewInit /\ [][FewNext]_<<dashVars, storage, dump, saving>> /\ DashFairness

PlatformInv == DashboardInv /\ Memory!AllOrNothing
=============================================================================
