------------------------------ MODULE RiskLimits ------------------------------
(***************************************************************************)
(* The guards of risk/: CircuitBreaker, DrawdownMonitor, ExposureManager   *)
(* and PositionSizer, each as what a sequence of calls leads to.  Limits   *)
(* are those of the constructors, but for the number of errors; slippage   *)
(* is in tenths of a percent of the arrival price, 0 where one of the      *)
(* prices is missing.  Reasons, times and logging are left out.            *)
(***************************************************************************)
EXTENDS Integers, FiniteSets, FiniteSetsExt, SequencesExt

MaxErrors == 2

Armed == [errors |-> 0, tripped |-> FALSE]

TooFar(slip) == slip > 15 \/ slip < -15

\* record_success, record_error, reset, and check_slippage of a fill
Called(breaker, call) ==
    CASE call.kind = "success" -> [breaker EXCEPT !.errors = 0]
      [] call.kind = "error" -> [errors |-> breaker.errors + 1,
                                 tripped |-> breaker.tripped \/ breaker.errors + 1 >= MaxErrors]
      [] call.kind = "reset" -> Armed
      [] call.kind = "fill" -> [breaker EXCEPT !.tripped = @ \/ TooFar(call.slip)]

Breaker(calls) == FoldLeft(Called, Armed, calls)

-----------------------------------------------------------------------------
\* update_equity, after reset_daily_baseline where a day begins
NoEquity == [peak |-> 0, dayStart |-> 0, safe |-> TRUE]

Updated(monitor, bar) ==
    LET e == bar.equity
        start == IF monitor.peak = 0 THEN e ELSE IF bar.newDay THEN e ELSE monitor.dayStart
        peak == Max({e, monitor.peak})
    IN  [peak |-> peak, dayStart |-> start,
         safe |-> 100 * (peak - e) < 20 * peak /\ 100 * (start - e) < 5 * start]

Monitor(bars) == FoldLeft(Updated, NoEquity, bars)

-----------------------------------------------------------------------------
\* check_exposure for an order and the equity of its moment, and the order placed
\* where it says yes; positions are notionals at their entry prices.
Allowed(held, order) ==
    LET gross == SumFunction(held)
    IN  /\ order.equity > 0
        /\ gross + order.notional <= order.equity
        /\ 100 * (held[order.symbol] + order.notional) <= 35 * order.equity

Ordered(held, order) ==
    IF Allowed(held, order) THEN [held EXCEPT ![order.symbol] = @ + order.notional] ELSE held

Positions(symbols, orders) == FoldLeft(Ordered, [s \in symbols |-> 0], orders)

\* calculate_atr_size as a notional: a stop two ATR away loses 1.5% of the equity.
AtrNotional(equity, price, atr, slot) ==
    IF equity <= 0 \/ price <= 0 \/ atr <= 0 THEN 0
    ELSE Min({(15 * equity * price) \div (2000 * atr), slot, 3 * equity})

-----------------------------------------------------------------------------
\* The breaker is tripped exactly when, since the last reset, errors followed each
\* other without a success between them or a fill slipped too far, whatever came
\* after.
TripsWhenItShould(calls) ==
    LET is(i, kind) == calls[i].kind = kind
        since == Max({0} \cup {i \in DOMAIN calls : is(i, "reset")})
        inARow(i) == \E k \in since + 1 .. i :
                         /\ \A l \in k .. i : ~is(l, "success")
                         /\ Cardinality({l \in k .. i : is(l, "error")}) = MaxErrors
    IN  Breaker(calls).tripped <=>
            \E i \in since + 1 .. Len(calls) : \/ inARow(i)
                                               \/ is(i, "fill") /\ TooFar(calls[i].slip)

\* The monitor judges the last equity against every one it has seen and against
\* the first of the day.
JudgesAllItSaw(bars) ==
    LET last == Len(bars)
        seen == {bars[i].equity : i \in 1 .. last}
        day == Max({1} \cup {i \in 1 .. last : bars[i].newDay})
        e == bars[last].equity
    IN  Monitor(bars).safe <=> /\ 5 * e > 4 * Max(seen)
                               /\ 100 * e > 95 * bars[day].equity

\* No sequence of allowed orders exceeds the largest account they were checked
\* against or a symbol's part of it, and no sized position risks more than 1.5% or
\* borrows more than three times the equity.
LimitsHold(orders) ==
    LET held == Positions({"x", "y", "z"}, orders)
        top == Max({0} \cup {orders[i].equity : i \in DOMAIN orders})
    IN  /\ SumFunction(held) <= top
        /\ \A s \in DOMAIN held : 20 * held[s] <= 7 * top
        /\ \A i \in DOMAIN orders, price \in {0, 1, 50}, atr \in {0, 1, 7} :
              LET e == orders[i].equity
                  n == AtrNotional(e, price, atr, 500)
              IN  /\ n <= Max({0, 3 * e}) /\ n <= 500
                  /\ 2000 * atr * n <= 15 * Max({0, e}) * price

=============================================================================
