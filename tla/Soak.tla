--------------------------------- MODULE Soak ---------------------------------
(***************************************************************************)
(* The soak harness (tools/soak/soak_controller.py): hour after hour it    *)
(* injects at most one fault into the whole paper-trading platform, lets   *)
(* it recover, trades, reconciles and counts, and in the end it judges.    *)
(* The harness is one thread, so an hour is a step; within it a fault is a *)
(* composition of calls, each a function of the world before it.  What the *)
(* calls do in detail, concurrency included, is the subject of the modules *)
(* BrokerAdapter, Reconciler and MarketDataHealth.                         *)
(*                                                                         *)
(* DEFAULT_168H_FAULT_SCHEDULE is one order of the faults; here any fault  *)
(* may come at any hour and again.                                         *)
(***************************************************************************)
EXTENDS Integers, Sequences, FiniteSets, FiniteSetsExt

CONSTANTS
    DurationHours,      \* duration_hours
    RebalanceInterval,  \* rebalance_interval_hours
    None

ASSUME SoakAssumption ==
    /\ DurationHours \in Nat /\ RebalanceInterval \in Nat \ {0}
    /\ None \notin [sym : {"XRP"}, size : Int] \cup {"P2-8 PASS", "P2-8 FAIL"}

VARIABLES
    hour,     \* current_hour
    platform, \* the components the controller owns
    verdict   \* of the summary report, None until the end

vars == <<hour, platform, verdict>>

Counters == {"orders", "fills", "partial", "rejections", "unknown", "recovered", "repairs",
             "restarts", "failures"}

\* Sizes are in quarters of the order of PARTIAL_FILL_EVENT, negative for sales.
\* An order: its state in the store, its status at the exchange, how much the
\* exchange executed, and how much of it was stored and applied.
Order(sym, size, state, there, done, booked) ==
    [sym |-> sym, size |-> size, state |-> state, there |-> there, done |-> done,
     stored |-> booked, applied |-> booked]

NewWorld ==
    [orders |-> <<>>, unresolved |-> {}, adapterHalted |-> FALSE,
     custom |-> None, orphanOrders |-> 0, orphanExecs |-> 0, timeout |-> "none",
     feed |-> "LIVE", halted |-> FALSE, status |-> "HEALTHY",
     count |-> [c \in Counters |-> 0], asserted |-> TRUE]

Init ==
    /\ hour = 0
    /\ platform = NewWorld
    /\ verdict = None

Count(w, c, n) == [w EXCEPT !.count[c] = @ + n]
Expect(w, P) == [w EXCEPT !.asserted = @ /\ P]

Of(w, sym) == {i \in DOMAIN w.orders : w.orders[i].sym = sym}
HeldHere(w, sym) == SumFunctionOnSet([i \in Of(w, sym) |-> w.orders[i].applied], Of(w, sym))
HeldThere(w, sym) ==
    IF w.custom = None THEN SumFunctionOnSet([i \in Of(w, sym) |-> w.orders[i].done], Of(w, sym))
    ELSE IF w.custom.sym = sym THEN w.custom.size ELSE 0
Traded(w) == {w.orders[i].sym : i \in DOMAIN w.orders}
              \cup (IF w.custom = None THEN {} ELSE {w.custom.sym})

Working(o) == o.state \in {"CREATED", "SUBMITTED", "ACKNOWLEDGED", "PARTIALLY_FILLED", "UNKNOWN"}

-----------------------------------------------------------------------------
(* The calls of the platform, as the harness makes them. *)

\* What reconcile(FULL) finds in the world: an order of the exchange alone and a
\* missed execution are critical, an order at work here alone or in another state
\* an error.
Critical(w) ==
    \/ \E sym \in Traded(w) : HeldHere(w, sym) # HeldThere(w, sym)
    \/ \E i \in DOMAIN w.orders :
          w.orders[i].applied # w.orders[i].done \/ w.orders[i].stored # w.orders[i].done
    \/ w.orphanOrders > 0 \/ w.orphanExecs > 0

Erroneous(w) ==
    \E i \in DOMAIN w.orders :
       /\ Working(w.orders[i])
       /\ ~(w.orders[i].state = w.orders[i].there /\ w.orders[i].there = "PARTIALLY_FILLED")

\* Without the data of a failing query there is no verdict on them.
Verdict(w) ==
    CASE w.timeout = "positions" -> "DATA_UNAVAILABLE"
      [] w.timeout # "positions" /\ Critical(w) -> "CRITICAL_DRIFT"
      [] w.timeout # "positions" /\ ~Critical(w) /\ Erroneous(w) -> "DRIFT_DETECTED"
      [] OTHER -> "HEALTHY"

Reconcile(w) ==
    [w EXCEPT !.status = Verdict(w),
              !.halted = Verdict(w) \in {"DATA_UNAVAILABLE", "CRITICAL_DRIFT"}]

Newest(w) == Len(w.orders)

\* clear_faults of the exchange takes what was made up there with it.
ClearFaults(w) ==
    [w EXCEPT !.timeout = "none", !.custom = None, !.orphanOrders = 0, !.orphanExecs = 0]

\* dispatch_signal_order: the order is created whether or not the adapter may
\* send it; "lost" is an answer lost after the execution, "503" a request that
\* never arrived, "429" one refused until the attempts are used up.
Dispatch(w, sym, size, outcome) ==
    LET o == CASE w.adapterHalted -> Order(sym, size, "CREATED", "NONE", 0, 0)
               [] ~w.adapterHalted /\ outcome = "filled" ->
                    Order(sym, size, "FILLED", "FILLED", size, size)
               [] ~w.adapterHalted /\ outcome = "lost" ->
                    Order(sym, size, "UNKNOWN", "FILLED", size, 0)
               [] ~w.adapterHalted /\ outcome = "503" ->
                    Order(sym, size, "UNKNOWN", "NONE", 0, 0)
               [] OTHER -> Order(sym, size, "REJECTED", "NONE", 0, 0)
        counter == CASE o.state = "FILLED" -> {"fills"} [] o.state = "UNKNOWN" -> {"unknown"}
                     [] o.state = "REJECTED" -> {"rejections"} [] OTHER -> {}
    IN  [w EXCEPT !.orders = Append(@, o),
                  !.unresolved = IF o.state = "UNKNOWN" THEN @ \cup {Newest(w) + 1} ELSE @,
                  !.count = [c \in Counters |->
                                IF c \in {"orders"} \cup counter THEN @[c] + 1 ELSE @[c]]]

\* recover_unknown_order, when the exchange answers: an order it filled is booked,
\* one it does not know is rejected, one that is closed stays as it is.
Resolved(o) ==
    CASE Working(o) /\ o.there = "FILLED" ->
            [o EXCEPT !.state = "FILLED", !.stored = o.done, !.applied = o.done]
      [] Working(o) /\ o.there = "NONE" -> [o EXCEPT !.state = "REJECTED"]
      [] OTHER -> o

\* Without an answer the adapter trades no more until nothing is unresolved.
Recover(w, i) ==
    CASE ~Working(w.orders[i]) -> w
      [] Working(w.orders[i]) /\ w.timeout = "status" -> [w EXCEPT !.adapterHalted = TRUE]
      [] OTHER -> [w EXCEPT !.orders[i] = Resolved(@), !.unresolved = @ \ {i},
                            !.adapterHalted = @ /\ w.unresolved \ {i} # {}]

\* The portfolio of a new process is replayed from the store.
Replayed(o) == [o EXCEPT !.applied = o.stored]

\* perform_simulated_process_restart: new components, and an exchange that keeps
\* its orders but not its faults; startup_reconciliation replays, recovers UNKNOWN
\* orders and must end HEALTHY.
StartedUp(o) == IF o.state = "UNKNOWN" THEN Resolved(Replayed(o)) ELSE Replayed(o)

Restarted(w) ==
    LET up == Reconcile([w EXCEPT !.unresolved = {}, !.adapterHalted = FALSE, !.feed = "LIVE",
                                  !.timeout = "none",
                                  !.orders = [i \in DOMAIN w.orders |-> StartedUp(w.orders[i])]])
    IN  Expect(up, up.status = "HEALTHY")

-----------------------------------------------------------------------------
(* execute_scheduled_fault: one definition per kind of fault. *)

\* The stream drops or its candle is two hours old; the hour's candles follow.
FeedFault(w, how) ==
    LET hurt == [w EXCEPT !.feed = how]
    IN  [Expect(hurt, hurt.feed # "LIVE") EXCEPT !.feed = "LIVE"]

\* HTTP_503_SERVICE_UNAVAILABLE
NeverArrived(w) ==
    LET sent == Dispatch(w, "ETH", 2, "503")
        i == Newest(sent)
        done == Recover(ClearFaults(sent), i)
    IN  Count(Expect(done, sent.orders[i].state = "UNKNOWN" /\ done.orders[i].state = "REJECTED"),
              "recovered", 1)

\* LOST_RESPONSE_UNKNOWN_ORDER
AnswerLost(w) ==
    LET sent == Dispatch(w, "BNB", 1, "lost")
        i == Newest(sent)
        done == Recover(ClearFaults(sent), i)
    IN  Count(Expect(done, sent.orders[i].state = "UNKNOWN" /\ done.orders[i].state = "FILLED"),
              "recovered", 1)

\* STATUS_QUERY_TIMEOUT: the first recovery has no answer and halts the adapter.
StatusUnanswered(w) ==
    LET sent == Dispatch(w, "DOGE", 4, "lost")
        i == Newest(sent)
        tried == Recover([ClearFaults(sent) EXCEPT !.timeout = "status"], i)
        done == Recover([tried EXCEPT !.timeout = "none"], i)
    IN  Count(Expect(done, /\ sent.orders[i].state = "UNKNOWN" /\ tried.orders[i].state = "UNKNOWN"
                           /\ done.orders[i].state = "FILLED"),
              "recovered", 1)

\* CRASH_DURING_RECOVERY
CrashUnresolved(w) ==
    LET sent == Dispatch(w, "LINK", 2, "lost")
        i == Newest(sent)
        done == Restarted(Count(ClearFaults(sent), "restarts", 1))
    IN  Count(Expect(done, sent.orders[i].state = "UNKNOWN" /\ done.orders[i].state = "FILLED"),
              "recovered", 1)

\* HTTP_429_RATE_LIMIT_STORM
RateLimited(w) ==
    LET sent == Dispatch(w, "NEAR", 2, "429")
    IN  Recover(ClearFaults(sent), Newest(sent))

\* An order the harness writes into the store and the exchange by itself.
Planted(w, o) == Count([w EXCEPT !.orders = Append(@, o)], "orders", 1)

\* PARTIAL_FILL_EVENT: four executions, booked one by one.
FilledInParts(w) ==
    LET done == Planted(w, Order("SOL", 4, "FILLED", "FILLED", 4, 4))
    IN  Count(Count(done, "partial", 4), "fills", 1)

\* CANCEL_FILL_RACE: the exchange has filled what is acknowledged here.
CancelledTooLate(w) ==
    LET placed == Planted(w, Order("ADA", 2, "ACKNOWLEDGED", "FILLED", 2, 0))
        done == Recover(placed, Newest(placed))
    IN  Count(Expect(done, done.orders[Newest(done)].state = "FILLED"), "fills", 1)

\* PARTIAL_FILL_AND_RESTART: the other half stays open for good.
RestartHalfFilled(w) ==
    LET half == Planted(w, Order("DOT", 4, "PARTIALLY_FILLED", "PARTIALLY_FILLED", 2, 2))
        done == Restarted(Count(Count(half, "partial", 1), "restarts", 1))
    IN  Expect(done, /\ done.orders[Newest(done)].state = "PARTIALLY_FILLED"
                     /\ done.orders[Newest(done)].stored = 2)

\* DUPLICATE_EXECUTION_EVENTS: the portfolio knows the execution.
ExecutedTwice(w) ==
    LET sent == Dispatch(w, "LTC", 4, "filled")
        i == Newest(sent)
    IN  Expect(sent, sent.orders[i].state = "FILLED" /\ sent.orders[i].applied = 4)

\* RECONCILIATION_POSITION_DRIFT leaving the made-up position where it is.
PositionDriftsLeft(w) ==
    LET repaired == Count([w EXCEPT !.orders = Append(@, Order("XRP", 4, "FILLED", "FILLED", 4, 4)),
                                    !.custom = [sym |-> "XRP", size |-> HeldThere(w, "XRP") + 4]],
                          "repairs", 1)
    IN  Reconcile(repaired)

\* RECONCILIATION_POSITION_DRIFT: a position is made up at the exchange, which
\* then reports no other; its execution follows as an orphan and is repaired
\* (safe_repair_execution reconciles by itself, and may still find a drift);
\* then an order takes the place of both.
PositionDrifts(w) ==
    LET drifted == Reconcile([w EXCEPT !.custom = [sym |-> "XRP", size |-> HeldThere(w, "XRP") + 4]])
        orphaned == [drifted EXCEPT !.orphanExecs = @ + 1]
        Repair(v) == [v EXCEPT !.orders = Append(@, Order("XRP", 4, "FILLED", "FILLED", 4, 4))]
        repaired == Count(Reconcile(Repair(orphaned)), "repairs", 1)
        done == Reconcile([repaired EXCEPT !.custom = None, !.orphanExecs = 0])
    IN  Expect(done, /\ drifted.status = "CRITICAL_DRIFT" /\ drifted.halted
                     /\ done.status = "HEALTHY" /\ ~done.halted)

\* ORPHAN_BROKER_ORDER
OrderAppears(w) ==
    LET there == Reconcile([w EXCEPT !.orphanOrders = @ + 1])
    IN  Reconcile([Expect(there, there.status = "CRITICAL_DRIFT") EXCEPT !.orphanOrders = 0])

\* BROKER_API_UNAVAILABLE
QueriesFail(w) ==
    LET blind == Reconcile([w EXCEPT !.timeout = "positions"])
        done == Reconcile(ClearFaults(blind))
    IN  Expect(done, /\ blind.status = "DATA_UNAVAILABLE" /\ blind.halted
                     /\ done.status = "HEALTHY" /\ ~done.halted)

\* COMBINED_BROKER_DATA_FAILURE: the 503 is one of submissions, which the
\* reconciliation does not see.
BothFail(w) ==
    LET hurt == Reconcile([w EXCEPT !.feed = "DISCONNECTED"])
        done == Reconcile([ClearFaults(hurt) EXCEPT !.feed = "LIVE"])
    IN  Expect(done, hurt.feed # "LIVE" /\ done.status = "HEALTHY")

\* FINAL_SETTLE_RECONCILIATION
Settle(w) == LET done == Reconcile(w) IN Expect(done, done.status = "HEALTHY")

-----------------------------------------------------------------------------
(* The hour and the end. *)

\* evaluate_strategy_signals: behind the safety gate and the halt, and only when
\* a rebalance is due.
MayTrade(w) == w.feed = "LIVE" /\ ~w.halted /\ (hour' % RebalanceInterval = 0 \/ hour' = 1)

\* Which orders come of it is up to prices: a purchase, the sale of a position,
\* or nothing, each sent without a fault.
Rebalanced(w) ==
    {w} \cup
    (IF ~MayTrade(w) THEN {}
     ELSE {Dispatch(w, "BTC", 1, "filled")}
          \cup {Dispatch(w, sym, -HeldHere(w, sym), "filled") :
                    sym \in {s \in Traded(w) : HeldHere(w, s) > 0}})

\* run_step after the fault: trade, reconcile, count.
RestOfHour(w) ==
    \E traded \in Rebalanced(w) :
        LET checked == Reconcile(traded)
        IN  platform' = IF checked.status = "HEALTHY" THEN checked
                     ELSE Count(checked, "failures", 1)

\* An AssertionError of the harness ends it.
StepHour == verdict = None /\ platform.asserted /\ hour < DurationHours /\ hour' = hour + 1
            /\ UNCHANGED verdict

Quiet == StepHour /\ RestOfHour(platform)
FeedFails == StepHour /\ \E how \in {"DISCONNECTED", "STALE"} : RestOfHour(FeedFault(platform, how))
SubmissionFails ==
    /\ StepHour
    /\ \/ RestOfHour(NeverArrived(platform))
       \/ RestOfHour(AnswerLost(platform))
       \/ RestOfHour(StatusUnanswered(platform))
       \/ RestOfHour(RateLimited(platform))
OrderGoesAstray ==
    /\ StepHour
    /\ \/ RestOfHour(FilledInParts(platform))
       \/ RestOfHour(CancelledTooLate(platform))
       \/ RestOfHour(ExecutedTwice(platform))
ProcessRestarts ==
    /\ StepHour
    /\ \/ RestOfHour(Restarted(Count(platform, "restarts", 1)))
       \/ RestOfHour(CrashUnresolved(platform))
       \/ RestOfHour(RestartHalfFilled(platform))
AccountsDiffer ==
    /\ StepHour
    /\ \/ RestOfHour(PositionDrifts(platform))
       \/ RestOfHour(OrderAppears(platform))
       \/ RestOfHour(QueriesFail(platform))
       \/ RestOfHour(BothFail(platform))
       \/ RestOfHour(Settle(platform))

\* run_full_soak: the audit after the last hour.
Audit ==
    /\ verdict = None
    /\ platform.asserted
    /\ hour = DurationHours
    /\ LET w == Reconcile(platform)
       IN  /\ platform' = w
           /\ verdict' = IF \/ \E i \in DOMAIN w.orders : w.orders[i].state = "UNKNOWN"
                            \/ w.orphanOrders > 0 \/ w.orphanExecs > 0
                            \/ w.status # "HEALTHY"
                         THEN "P2-8 FAIL" ELSE "P2-8 PASS"
    /\ UNCHANGED hour

Next == Quiet \/ FeedFails \/ SubmissionFails \/ OrderGoesAstray \/ ProcessRestarts
        \/ AccountsDiffer \/ Audit

Spec == Init /\ [][Next]_vars

-----------------------------------------------------------------------------
\* test_full_168h_soak_execution, of every schedule and not of the one it runs:
\* whatever a fault leaves behind, no later fault, restart or hourly comparison
\* trips over it, and the audit passes.
EverySchedulePasses ==
    /\ platform.asserted
    /\ platform.count["failures"] = 0
    /\ verdict # "P2-8 FAIL"

\* The counters of the report tell what the store holds: every order the harness
\* sent was filled, rejected, uncertain or rests filled in part, those that were
\* uncertain have been recovered, and no other order but a repair is there.
ReportTellsTheStore ==
    LET c == platform.count
        InState(s) == Cardinality({i \in DOMAIN platform.orders : platform.orders[i].state = s})
    IN  /\ Len(platform.orders) = c["orders"] + c["repairs"]
        /\ c["orders"] = c["fills"] + c["rejections"] + c["unknown"] + InState("PARTIALLY_FILLED")
        /\ c["recovered"] = c["unknown"] - InState("UNKNOWN")

SoakInv == EverySchedulePasses /\ ReportTellsTheStore
=============================================================================
