------------------------------- MODULE RiskAudit -------------------------------
(***************************************************************************)
(* The audits of the 48-hour strategy: evaluation/portfolio_risk.py and    *)
(* evaluation/risk_metrics.py, with the scripts p12f, p13, p14 and p3_2 of *)
(* training/ that run them.  Panels, weights and bars are those of         *)
(* Experiments; 48 hours are 4 bars, which is also the length of a fold.   *)
(* A loss is a pair: what is lost of which peak.                           *)
(***************************************************************************)
EXTENDS Experiments

TwoDays == 4

Scheduled(panel, every) == Schedule(WeightsSeries(panel, 2, Universe(panel)), every)
Without(panel, out, every) ==
    Schedule(WeightsSeries(panel, 2, Universe(panel) \ {out}), every)

-----------------------------------------------------------------------------
\* p12f_robustness_audit.py: three frequencies, with and without one asset
FrequencyAudit(panel) ==
    [every \in 2 .. 4 |-> Simulate(panel, Scheduled(panel, every), 1)]

SolAudit(panel, sol) ==
    [every \in 2 .. 4 |->
        [full |-> Simulate(panel, Scheduled(panel, every), 1),
         without |-> Simulate(panel, Without(panel, sol, every), 1)]]

\* analyze_asset_contributions: selections at the rebalances of each fold, what an
\* asset earned, and the maximal runs of bars it was held
Runs(held, n) ==
    {r \in (1 .. n) \X (1 .. n) : /\ r[1] .. r[2] # {} /\ r[1] .. r[2] \subseteq held
                                  /\ r[1] - 1 \notin held /\ r[2] + 1 \notin held}

Contributions(panel, every) ==
    LET w == Scheduled(panel, every)
        n == Len(w)
    IN  [a \in Universe(panel) |->
            [selected |-> Cardinality({t \in 1 .. n : (t - 1) % every = 0 /\ w[t][a] > 0}),
             gross |-> MapThenSumSet(LAMBDA t : w[t - 1][a] * panel.move[t - 1][a], 2 .. n),
             runs |-> Runs({t \in 1 .. n : w[t][a] > 0}, n)]]

\* get_all_oos_returns: the folds one after the other, each from nothing
OosReturns(folds, every) ==
    FlattenSeq([f \in DOMAIN folds |-> Earned(Scheduled(folds[f], every), folds[f].move)])

-----------------------------------------------------------------------------
\* p14_portfolio_risk.py joins the folds into one series; between two folds the
\* prices gain what gap says, and the last weights of a fold are still held.
JoinedWeights(folds, every) == FlattenSeq([f \in DOMAIN folds |-> Scheduled(folds[f], every)])
JoinedMoves(folds, gap) ==
    FlattenSeq([f \in DOMAIN folds |->
                   IF f = Len(folds) THEN folds[f].move ELSE Append(folds[f].move, gap)])
JoinedReturns(folds, gap) == Earned(JoinedWeights(folds, TwoDays), JoinedMoves(folds, gap))

FoldAudit(folds) == [f \in DOMAIN folds |-> Simulate(folds[f], Scheduled(folds[f], TwoDays), 1)]

SelectionCounts(folds, every) ==
    [a \in Universe(folds[1]) |->
        MapThenSumSet(LAMBDA f : Cardinality({t \in DOMAIN folds[f].score :
                                                 /\ (t - 1) % every = 0
                                                 /\ Scheduled(folds[f], every)[t][a] > 0}),
                      DOMAIN folds)]

\* compute_asset_exposure_and_attribution: a bar earns by the weights of the bar
\* before, rebalances are every so many bars of whatever series it is given.
Attribution(w, move, every) ==
    LET n == Len(w)
        earned(a, t) == IF t = 1 THEN 0 ELSE w[t - 1][a] * move[t - 1][a]
        blocks == {t \in 1 .. n : (t - 1) % every = 0}
        block(a, t) == MapThenSumSet(LAMBDA u : earned(a, u), t .. Min({n, t + every - 1}))
    IN  [a \in DOMAIN w[1] |->
            [selected |-> Cardinality({t \in blocks : w[t][a] > 0}),
             gross |-> MapThenSumSet(LAMBDA t : earned(a, t), 1 .. n),
             friction |-> MapThenSumSet(LAMBDA t : Abs(w[t][a] - (IF t = 1 THEN 0 ELSE w[t - 1][a])),
                                        1 .. n),
             wins |-> Cardinality({t \in blocks : w[t][a] > 0 /\ block(a, t) > 0}),
             losses |-> Cardinality({t \in blocks : w[t][a] > 0 /\ block(a, t) < 0})]]

\* compute_hhi, in sixteenths
HHI(w) == MapThenSumSet(LAMBDA a : IF w[a] > 0 THEN w[a] * w[a] ELSE 0, DOMAIN w)

\* compute_portfolio_hhi_series: the smallest and the largest of the bars that
\* hold anything
HHIRange(w) ==
    LET active == {HHI(w[t]) : t \in DOMAIN w} \ {0}
    IN  IF active = {} THEN <<0, 0>> ELSE <<Min(active), Max(active)>>

\* compute_single_asset_removal_dependency: its weight is kept as cash
Removal(panel, out) ==
    LET w == Scheduled(panel, TwoDays)
    IN  Simulate(panel, [t \in DOMAIN w |-> [w[t] EXCEPT ![out] = 0]], 1)

-----------------------------------------------------------------------------
\* p13_volatility_benchmark.py: what rank_assets picked, sized by size_portfolio
Shares(vol, mode) ==
    IF mode = "iv_capped" THEN Clipped(vol) ELSE [a \in DOMAIN vol |-> 60 \div vol[a]]

Sized(w, vol, mode) ==
    IF mode = "equal" THEN w
    ELSE [t \in DOMAIN w |->
             LET active == {a \in DOMAIN w[t] : w[t][a] > 0}
                 share == Shares([a \in active |-> vol[a]], mode)
             IN  [a \in DOMAIN w[t] |->
                     IF a \in active THEN (Whole * share[a]) \div Total(share) ELSE 0]]

Modes == {"equal", "inverse_vol", "iv_capped"}

SizedAccount(panel, vol, mode, among, rate) ==
    Simulate(panel, Schedule(Sized(WeightsSeries(panel, 2, among), vol, mode), TwoDays), rate)

SizingComparison(panel, vol) ==
    [mode \in Modes |-> SizedAccount(panel, vol, mode, Universe(panel), 1)]

SolDependency(panel, vol, sol) ==
    [mode \in Modes |-> [full |-> SizedAccount(panel, vol, mode, Universe(panel), 1),
                         without |-> SizedAccount(panel, vol, mode, Universe(panel) \ {sol}, 1)]]

CostsByMode(panel, vol) ==
    [mode \in Modes, rate \in 0 .. 2 |-> SizedAccount(panel, vol, mode, Universe(panel), rate)]

\* compute_cap_diagnostics of two assets: the weights it reports, in percent of
\* the sum of the inverse volatilities, and whether it counts an activation
CapDiagnostics(vol) ==
    LET total == (60 \div vol[1]) + (60 \div vol[2])
        raw(a) == 100 * (60 \div vol[a])
        first == Min({75 * total, Max({25 * total, raw(1)})})
    IN  [activated |-> raw(1) > 75 * total \/ raw(2) > 75 * total,
         weight |-> <<first, 100 * total - first>>,
         total |-> 100 * total]

\* evaluate_risk_variant of p3_2: the weights of p3_1, sized, executed a bar late
LeaderWeights(panel) == Schedule(Ranked(panel, 2, 0, Whole \div 2), TwoDays)

RiskVariant(panel, w) ==
    LET before(t) == IF t = 1 THEN [a \in Universe(panel) |-> 0] ELSE w[t - 1]
    IN  [t \in DOMAIN panel.move |->
            [gross |-> Gross(before(t), panel.move[t]),
             traded |-> MapThenSumSet(LAMBDA a : Abs(w[t][a] - before(t)[a]), Universe(panel))]]

-----------------------------------------------------------------------------
\* compute_rank_persistence: who stays among the first two, over the bars that
\* have a score for four assets; a run of a leader survives a bar without them.
PersistBar(state, score) ==
    IF Cardinality(DOMAIN score) < 4 THEN state
    ELSE LET top == Longs(score, 2)
             counted == [a \in DOMAIN state.run |-> IF a \in top THEN state.run[a] + 1 ELSE 0]
             over == {a \in DOMAIN state.run : a \notin top /\ state.run[a] > 0}
         IN  [top |-> top, run |-> counted,
              transitions |-> state.transitions
                              + (IF state.top # {} /\ state.top # top THEN 1 ELSE 0),
              durations |-> state.durations \o [i \in 1 .. Cardinality(over) |->
                                                   state.run[SetToSortSeq(over, <)[i]]]]

Persistence(panel) ==
    LET end == FoldLeft(PersistBar,
                        [top |-> {}, run |-> [a \in Universe(panel) |-> 0], transitions |-> 0,
                         durations |-> <<>>],
                        panel.score)
        last == SetToSortSeq({a \in Universe(panel) : end.run[a] > 0}, <)
    IN  [transitions |-> end.transitions,
         durations |-> end.durations \o [i \in DOMAIN last |-> end.run[last[i]]]]

-----------------------------------------------------------------------------
Peak(curve, t) == Max({curve[i] : i \in 1 .. t})
Loss(curve, t) == <<Peak(curve, t) - curve[t], Peak(curve, t)>>
Deeper(x, y) == x[1] * y[2] > y[1] * x[2]
FirstPeak(curve, t) == Min({i \in 1 .. t : curve[i] = Peak(curve, t)})

\* calculate_max_drawdown: bars of the peak, the trough and the recovery, 0 if
\* there is none
MaxDrawdown(curve) ==
    LET trough == CHOOSE t \in DOMAIN curve :
                      \A u \in DOMAIN curve : IF u < t THEN Deeper(Loss(curve, t), Loss(curve, u))
                                              ELSE ~Deeper(Loss(curve, u), Loss(curve, t))
        peak == FirstPeak(curve, trough)
        recovered == {t \in trough + 1 .. Len(curve) : curve[t] >= curve[peak]}
    IN  [loss |-> Loss(curve, trough), peak |-> peak, trough |-> trough,
         recovery |-> IF recovered = {} THEN 0 ELSE Min(recovered)]

\* One bar of identify_drawdown_episodes: more than 0.5% below the peak it is in
\* a drawdown, which is kept when it ends, if it reached 5%.
EpisodeBar(state, curve, t) ==
    LET loss == Loss(curve, t)
    IN  IF 1000 * loss[1] > 5 * loss[2]
        THEN IF state.open
             THEN IF Deeper(loss, state.worst)
                  THEN [state EXCEPT !.worst = loss, !.trough = t] ELSE state
             ELSE [state EXCEPT !.open = TRUE, !.start = FirstPeak(curve, t),
                                !.trough = t, !.worst = loss]
        ELSE IF ~state.open THEN state
             ELSE [open |-> FALSE, start |-> 0, trough |-> 0, worst |-> <<0, 1>>,
                   found |-> IF 100 * state.worst[1] < 5 * state.worst[2] THEN state.found
                             ELSE Append(state.found,
                                         [start |-> state.start, trough |-> state.trough,
                                          end |-> t, loss |-> state.worst])]

\* A drawdown that is open at the end is unrecovered: its end is 0.
Episodes(curve) ==
    LET last == FoldLeft(LAMBDA state, t : EpisodeBar(state, curve, t),
                         [open |-> FALSE, start |-> 0, trough |-> 0, worst |-> <<0, 1>>,
                          found |-> <<>>],
                         [t \in DOMAIN curve |-> t])
    IN  IF ~last.open \/ 100 * last.worst[1] < 5 * last.worst[2] THEN last.found
        ELSE Append(last.found, [start |-> last.start, trough |-> last.trough, end |-> 0,
                                 loss |-> last.worst])

\* reconcile_fold_and_global_drawdowns of two folds: the curve chained from their
\* returns, the second fold beginning where the first one ended
Chained(first, second) ==
    [t \in 1 .. Len(first) + Len(second) |->
        IF t <= Len(first) THEN first[t] * second[1]
        ELSE Last(first) * second[t - Len(first)]]

FoldAndGlobal(first, second) ==
    [folds |-> <<MaxDrawdown(first).loss, MaxDrawdown(second).loss>>,
     global |-> MaxDrawdown(Chained(first, second)).loss]

-----------------------------------------------------------------------------
\* "48H Cross-Sectional Long-Only Top-2 Equal Weight": five scripts compute the
\* strategy under audit anew, and must mean the same account; and the sizing by
\* volatility, in both of its engines, is that strategy while all assets are alike.
OneStrategy(panel, sol, vol) ==
    LET base == Rebalancing(panel)[TwoDays]
        sizing == SizingComparison(panel, vol)
        removed == SolDependency(panel, vol, sol)
        even == [a \in Universe(panel) |-> 1]
    IN  /\ \A every \in 2 .. 4 : /\ FrequencyAudit(panel)[every] = Rebalancing(panel)[every]
                                 /\ SolAudit(panel, sol)[every].full = Rebalancing(panel)[every]
        /\ SolAudit(panel, sol)[Day].without = LeaveOneOut(panel)[sol]
        /\ FoldAudit(<<panel>>)[1] = base
        /\ sizing["equal"] = base
        /\ removed["equal"].without = SolAudit(panel, sol)[TwoDays].without
        /\ \A mode \in Modes : /\ removed[mode].full = sizing[mode]
                               /\ CostsByMode(panel, vol)[mode, 1] = sizing[mode]
                               /\ SizingComparison(panel, even)[mode] = base
        /\ (\A a, b \in Universe(panel) : vol[a] <= 3 * vol[b]) =>
              sizing["inverse_vol"] = sizing["iv_capped"]
        /\ RiskVariant(panel, LeaderWeights(panel)) = CadenceComparison(panel)[TwoDays]
        /\ RiskVariant(panel, Sized(LeaderWeights(panel), even, "iv_capped"))
              = CadenceComparison(panel)[TwoDays]

\* What the assets contributed adds up to what the portfolio earned and paid,
\* whichever of the two attributions is asked, and both count the selections the
\* audit itself counted, as every fold is a whole number of intervals long.
AttributionAddsUp(folds, gap) ==
    LET w == JoinedWeights(folds, TwoDays)
        move == JoinedMoves(folds, gap)
        total == Attribution(w, move, TwoDays)
        joined == JoinedReturns(folds, gap)
        byFold == [f \in DOMAIN folds |-> Contributions(folds[f], TwoDays)]
        assets == DOMAIN total
        sum(f(_)) == MapThenSumSet(f, assets)
        seam == Len(folds[1].score) + 1
    IN  /\ sum(LAMBDA a : total[a].gross) = MapThenSumSet(LAMBDA t : joined[t].gross, DOMAIN joined)
        /\ sum(LAMBDA a : total[a].friction) = MapThenSumSet(LAMBDA t : joined[t].traded, DOMAIN joined)
        /\ \A a \in assets :
              /\ total[a].selected = SelectionCounts(folds, TwoDays)[a]
              /\ total[a].selected = MapThenSumSet(LAMBDA f : byFold[f][a].selected, DOMAIN folds)
              /\ total[a].wins + total[a].losses <= total[a].selected
              /\ total[a].gross = MapThenSumSet(LAMBDA f : byFold[f][a].gross, DOMAIN folds)
                                  + w[seam - 1][a] * gap[a]
              /\ \A f \in DOMAIN folds :
                    MapThenSumSet(LAMBDA r : r[2] - r[1] + 1, byFold[f][a].runs)
                        = Cardinality({t \in DOMAIN folds[f].score :
                                          Scheduled(folds[f], TwoDays)[t][a] > 0})
        /\ \A t \in DOMAIN joined \ {seam} : joined[t] = OosReturns(folds, TwoDays)[t]

\* An asset the strategy never holds leaves no trace in any audit; and "the
\* strategy structurally holds exactly 2 assets at 50/50 (HHI ~0.50)".
ConcentrationIsTold(panel) ==
    LET w == Scheduled(panel, TwoDays)
    IN  /\ HHIRange(w) = <<8, 8>>
        /\ \A a \in Universe(panel) :
              (\A t \in DOMAIN w : w[t][a] = 0) =>
                  /\ Removal(panel, a) = Rebalancing(panel)[TwoDays]
                  /\ Contributions(panel, TwoDays)[a].runs = {}

\* The membership statistics account for every leader of every bar that has a
\* ranking, across bars that have none, and see a transition when one changes.
PersistenceAddsUp(panel) ==
    LET ranked == SelectSeq(panel.score, LAMBDA s : Cardinality(DOMAIN s) >= 4)
        top(i) == Longs(ranked[i], 2)
        found == Persistence(panel)
        entered == MapThenSumSet(LAMBDA i : Cardinality(top(i) \ (IF i = 1 THEN {} ELSE top(i - 1))),
                                 DOMAIN ranked)
    IN  /\ FoldLeft(LAMBDA x, y : x + y, 0, found.durations) = 2 * Len(ranked)
        /\ Len(found.durations) = entered
        /\ found.transitions = Cardinality({i \in 2 .. Len(ranked) : top(i) # top(i - 1)})

\* "Tracks exact high-water-mark peak, trough, and recovery": every bar that has
\* lost 5% lies in an episode, the deepest episode is the maximum drawdown that
\* risk_metrics.py finds by another algorithm, and drawdowns overlap only if they
\* fall from one peak.
DrawdownsAreFound(curve) ==
    LET found == Episodes(curve)
        worst == MaxDrawdown(curve)
    IN  /\ \A t \in DOMAIN curve :
              100 * Loss(curve, t)[1] >= 5 * Loss(curve, t)[2] =>
                  \E i \in DOMAIN found : /\ found[i].start < t
                                          /\ found[i].end = 0 \/ t < found[i].end
                                          /\ ~Deeper(Loss(curve, t), found[i].loss)
        /\ 100 * worst.loss[1] >= 5 * worst.loss[2] =>
              \E i \in DOMAIN found :
                  /\ found[i].start = worst.peak /\ found[i].trough = worst.trough
                  /\ worst.recovery > 0 => 0 < found[i].end /\ found[i].end <= worst.recovery
        /\ \A i, j \in DOMAIN found :
              i < j => /\ found[i].end # 0 /\ found[i].end < found[j].trough
                       /\ found[i].start = found[j].start \/ found[i].end <= found[j].start

\* The drawdown of the chained curve is no less than that of any fold: a loss
\* does not get lost where two folds meet.
GlobalIsWorst(first, second) ==
    LET r == FoldAndGlobal(first, second)
    IN  \A f \in {1, 2} : ~Deeper(r.folds[f], r.global)

\* The diagnostics of the cap report the weights the sizing gave, and count an
\* activation when these are not the uncapped ones.
CapIsReported(vol) ==
    LET told == CapDiagnostics(vol)
        given == Clipped(vol)
        plain == Shares(vol, "inverse_vol")
    IN  /\ \A a \in {1, 2} : told.weight[a] * Total(given) = given[a] * told.total
        /\ told.activated <=>
              \E a \in {1, 2} : given[a] * Total(plain) # plain[a] * Total(given)

=============================================================================
