------------------------------ MODULE Experiments ------------------------------
(***************************************************************************)
(* The cross-sectional experiments of training/: every script freezes the  *)
(* walk-forward predictions of a universe, turns them into weights,        *)
(* schedules and simulates them, and varies one argument.  A panel is what *)
(* a fold has frozen: score[t], the predictions of bar t (an asset without *)
(* one is not in its domain), and move[t], the halves of its price every   *)
(* asset gains from bar t to the next.  Weights are quarters of the whole, *)
(* costs eighths of what is traded, so that nothing is rounded; hours are  *)
(* scaled to bars, 18, 24, 36 and 48 of them to 1, 2, 3 and 4.             *)
(***************************************************************************)
EXTENDS PortfolioWeights, TemporalSplits

Whole == 4
Capital == 2 ^ 27
Day == 2

Universe(panel) == DOMAIN panel.move[1]
Abs(x) == IF x < 0 THEN 0 - x ELSE x

\* rank_assets at every bar; without short positions bottom is 0.
Ranked(panel, top, bottom, cap) ==
    [t \in DOMAIN panel.score |->
        Weights(Universe(panel), panel.score[t], top, bottom, cap, Whole)]

\* _compute_weights_series
WeightsSeries(panel, top, among) ==
    Ranked([panel EXCEPT !.score =
               [t \in DOMAIN panel.score |->
                   [a \in DOMAIN panel.score[t] \cap among |-> panel.score[t][a]]]],
           top, 0, Whole \div Max({1, top}))

\* Decisions taken a bar before their time
ScheduleEarly(w, every) ==
    [t \in DOMAIN w |-> w[Min({Len(w), t + 1 - ((t - 1) % every)})]]

\* apply_rebalance_frequency
Schedule(w, every) == [t \in DOMAIN w |-> w[t - ((t - 1) % every)]]

-----------------------------------------------------------------------------
\* What the weights of bar t earn until the next, in eighths
Gross(w, move) == MapThenSumSet(LAMBDA a : w[a] * move[a], DOMAIN w)

\* simulate_cross_sectional_portfolio: at every bar the portfolio is traded back
\* to its target, costs are paid from it, and it drifts with the prices; at the
\* end what is held is sold.
SimulatedBar(account, w, move, rate) ==
    LET wanted == [a \in DOMAIN w |-> (account.equity \div Whole) * w[a]]
        traded == MapThenSumSet(LAMBDA a : Abs(wanted[a] - account.held[a]), DOMAIN w)
        left == account.equity - (traded \div 8) * rate
        held == [a \in DOMAIN w |-> (((left \div Whole) * w[a]) \div 2) * (2 + move[a])]
    IN  [equity |-> left + (left \div 8) * Gross(w, move),
         held |-> held,
         rebalances |-> account.rebalances + (IF traded > 0 THEN 1 ELSE 0)]

Start(panel) ==
    [equity |-> Capital, held |-> [a \in Universe(panel) |-> 0], rebalances |-> 0]

\* The account after the first k bars
After(panel, w, rate, k) ==
    FoldLeft(LAMBDA account, t : SimulatedBar(account, w[t], panel.move[t], rate),
             Start(panel), [t \in 1 .. k |-> t])

Simulate(panel, w, rate) ==
    LET end == After(panel, w, rate, Len(panel.move))
        sold == MapThenSumSet(LAMBDA a : Abs(end.held[a]), DOMAIN end.held)
    IN  [equity |-> end.equity - (sold \div 8) * rate, rebalances |-> end.rebalances]

-----------------------------------------------------------------------------
\* robustness_validation.py, one argument varied in each
CostSensitivity(panel) ==
    [rate \in 0 .. 2 |-> Simulate(panel, Schedule(WeightsSeries(panel, 2, Universe(panel)), Day), rate)]

Concentration(panel) ==
    [top \in {1, 2, 4} |->
        Simulate(panel, Schedule(WeightsSeries(panel, top, Universe(panel)), Day), 1)]

\* With asset 0 nothing is left out.
LeaveOneOut(panel) ==
    [out \in Universe(panel) \cup {0} |->
        Simulate(panel, Schedule(WeightsSeries(panel, 2, Universe(panel) \ {out}), Day), 1)]

Rebalancing(panel) ==
    [every \in 1 .. 4 |->
        Simulate(panel, Schedule(WeightsSeries(panel, 2, Universe(panel)), every), 1)]

\* run_p12e_regime_sensitivity has a simulation of its own: what a bar earns
\* comes from the weights of the bar before, trades are paid without drift.
Earned(w, move) ==
    [t \in DOMAIN w |->
        LET before == IF t = 1 THEN [a \in DOMAIN w[1] |-> 0] ELSE w[t - 1]
        IN  [gross |-> IF t = 1 THEN 0 ELSE Gross(before, move[t - 1]),
             traded |-> MapThenSumSet(LAMBDA a : Abs(w[t][a] - before[a]), DOMAIN before)]]

RegimeReturns(panel) ==
    Earned(Schedule(WeightsSeries(panel, 2, Universe(panel)), Day), panel.move)

\* rebalance_frequency_benchmark.py and cross_sectional_benchmark.py
FrequencySweep(panel) ==
    [every \in {1, Day}, bottom \in {0, 2} |->
        Simulate(panel, Schedule(Ranked(panel, 2, bottom, Whole \div 2), every), 1)]

EqualWeights(panel) ==
    [t \in DOMAIN panel.score |->
        [a \in Universe(panel) |-> Whole \div Cardinality(Universe(panel))]]

CrossSection(panel) ==
    [longShort |-> Simulate(panel, Ranked(panel, 2, 2, Whole \div 2), 1),
     longOnly |-> Simulate(panel, Ranked(panel, 2, 0, Whole \div 2), 1),
     hold |-> Simulate(panel, EqualWeights(panel), 1)]

\* evaluate_portfolio_under_cost_model of p3_1_cost_benchmark.py: the weights of
\* a bar are held from the next one on, and trades are paid without drift.
CostModelReturns(panel, every) ==
    LET w == Schedule(Ranked(panel, 2, 0, Whole \div 2), every)
        before(t) == IF t = 1 THEN [a \in Universe(panel) |-> 0] ELSE w[t - 1]
    IN  [t \in DOMAIN panel.move |->
            [gross |-> Gross(before(t), panel.move[t]),
             traded |-> MapThenSumSet(LAMBDA a : Abs(w[t][a] - before(t)[a]), Universe(panel))]]

\* Its cadences
CadenceComparison(panel) == [every \in 1 .. 4 |-> CostModelReturns(panel, every)]

-----------------------------------------------------------------------------
\* What the numbers are computed from, as sets of bars of 0 .. n - 1: a feature
\* looks back over some bars, a label h bars ahead; the labels of the last bars
\* compare with nothing, and are 0.
Features(b, back) == Max({0, b - back}) .. b
Label(n, b, h) == IF b + h < n THEN {b, b + h} ELSE {}
Learnt(n, train, h, back) == UNION {Features(b, back) \cup Label(n, b, h) : b \in train}

\* The bar whose prediction decides the position of bar t of a test that begins
\* at bar first
Decided(t, first, every) == t - ((t - first) % every)

\* generate_walk_forward_predictions and its copies: positions of every test bar
\* with what they know, scheduled and executed some bars later
WalkForward(n, splits, pct, h, back, every, delay) ==
    UNION {{[at |-> t,
             knows |-> Learnt(n, s.train, h, back)
                       \cup Features(Decided(t - delay, Min(s.test), every), back)] :
               t \in {u \in s.test : u - delay >= Min(s.test)}} :
           s \in {f \in Purged(n, splits, pct) : f.test # {}}}

\* ModelBenchmarkSuite.run and UniverseBenchmarkRunner.evaluate_asset: one
\* chronological split, of which the validation part stays unused
SuiteTest(n, embargo) ==
    LET both == Chronological(n, 70, 15, embargo)
    IN  UNION {s.test : s \in {u \in both : \E r \in both : r # u /\ u.train = r.test}}

SuiteTrain(n) == Slice(n, 0, (n * 70) \div 100)

ModelPositions(n, embargo, h, back) ==
    {[at |-> t, knows |-> Learnt(n, SuiteTrain(n), h, back) \cup Features(t, back)] :
        t \in SuiteTest(n, embargo)}

\* WalkForwardEngine.run_wfo learns from the first 85% of a fold's training bars.
WFOPositions(n, splits, pct, h, back) ==
    UNION {LET learnt == {b \in s.train : 100 * Cardinality({c \in s.train : c <= b})
                                              <= 85 * Cardinality(s.train)}
           IN  {[at |-> t, knows |-> Learnt(n, learnt, h, back) \cup Features(t, back)] :
                   t \in s.test} :
           s \in Purged(n, splits, pct)}

\* UniverseBenchmarkRunner.evaluate_asset, which no asset with few bars enters
AssetPositions(n, least, embargo, h, back) ==
    IF n < least THEN {} ELSE ModelPositions(n, embargo, h, back)

\* AblationStudyEngine.run leaves out one domain of features, not one bar.
AblationPositions(n, embargo, h, backs) ==
    UNION {ModelPositions(n, embargo, h, Max({0} \cup (backs \ {out}))) : out \in backs \cup {0}}

\* The sequence models learn and predict from the seq bars before a bar.
SequencePositions(n, embargo, h, back, seq) ==
    LET learnt == UNION {UNION {Features(c, back) : c \in (b - seq) .. (b - 1)} \cup Label(n, b, h) :
                            b \in {c \in SuiteTrain(n) : c >= seq}}
        test == SuiteTest(n, embargo)
    IN  {[at |-> t, knows |-> learnt \cup UNION {Features(c, back) : c \in (t - seq) .. (t - 1)}] :
            t \in {u \in test : u - seq >= Min(test)}}

-----------------------------------------------------------------------------
\* simulate_strategy_returns: one asset, signals of -1, 0 and 1, an equity of Unit
\* at first and, for every unit of position that changes, a cost of the same
\* amount whatever the equity is.
Unit == 2 ^ 20

StrategyBar(account, t, price, signal, cost) ==
    LET moved == signal[t] - account.pos
        left == account.equity - Abs(moved) * cost
    IN  [equity |-> left + ((left \div price[t]) * (price[t + 1] - price[t])) * signal[t],
         pos |-> signal[t],
         since |-> IF moved # 0 THEN t ELSE account.since,
         trades |-> IF moved = 0 \/ account.pos = 0 THEN account.trades
                    ELSE Append(account.trades,
                                [side |-> account.pos, from |-> account.since, to |-> t])]

\* What is open at the end is recorded as closed at the last price, and costs nothing.
StrategyReturns(price, signal, cost) ==
    LET n == Len(price)
        end == FoldLeft(LAMBDA account, t : StrategyBar(account, t, price, signal, cost),
                        [equity |-> Unit, pos |-> 0, since |-> 1, trades |-> <<>>],
                        [t \in 1 .. n - 1 |-> t])
    IN  [equity |-> end.equity,
         trades |-> IF end.pos = 0 THEN end.trades
                    ELSE Append(end.trades, [side |-> end.pos, from |-> end.since, to |-> n]),
         open |-> end.pos # 0]

-----------------------------------------------------------------------------
\* "Frozen Baseline", 24H / Top 2 / 12 bps: the six sweeps meet in it, so what
\* they report of it must be one and the same account, though each builds it from
\* arguments and defaults of its own; the hourly rows of the two benchmarks too.
BaselineIsOne(panel) ==
    LET base == CostSensitivity(panel)[1]
    IN  /\ Concentration(panel)[2] = base
        /\ LeaveOneOut(panel)[0] = base
        /\ Rebalancing(panel)[Day] = base
        /\ FrequencySweep(panel)[Day, 0] = base
        /\ CrossSection(panel).longOnly = FrequencySweep(panel)[1, 0]
        /\ CrossSection(panel).longShort = FrequencySweep(panel)[1, 2]

\* The three simulations attribute the same market to the same weights: the one
\* of the regimes earns a bar later what simulate_cross_sectional_portfolio earns
\* at once, that of the cost models earns what the weights of the bar before did,
\* and both trade only what the schedule changes.
EnginesAgree(panel) ==
    LET w == Schedule(WeightsSeries(panel, 2, Universe(panel)), Day)
        regime == RegimeReturns(panel)
        cost == CostModelReturns(panel, Day)
    IN  /\ \A t \in DOMAIN panel.move :
              LET one == SimulatedBar(Start(panel), w[t], panel.move[t], 0)
              IN  8 * (one.equity - Capital) = regime[t + 1].gross * Capital
        /\ \A t \in DOMAIN panel.move : t > 1 => cost[t].gross = Gross(w[t - 1], panel.move[t])
        /\ \A t \in DOMAIN panel.move : cost[t].traded = regime[t].traded
        /\ \A t \in DOMAIN panel.move : regime[t].traded > 0 => t = 1 \/ (t - 1) % Day = 0

\* Dearer trading never ends richer, every concentration invests the whole, and an
\* asset that is never held can be left out of the universe without a trace.
SweepsAreOrdered(panel) ==
    LET w == Schedule(WeightsSeries(panel, 2, Universe(panel)), Day)
        cost == CostSensitivity(panel)
        out == LeaveOneOut(panel)
    IN  /\ cost[2].equity <= cost[1].equity /\ cost[1].equity <= cost[0].equity
        /\ \A top \in {1, 2, 4}, t \in DOMAIN w :
              Cardinality(DOMAIN panel.score[t]) >= top =>
                  Gross(WeightsSeries(panel, top, Universe(panel))[t],
                        [a \in Universe(panel) |-> 1]) = Whole
        /\ \A a \in Universe(panel) : (\A t \in DOMAIN w : w[t][a] = 0) => out[a] = out[0]

\* "zero-lookahead": the account after a bar is the same whatever is predicted
\* from then on, in every schedule.
FutureIsUnknown(panel) ==
    \A k \in DOMAIN panel.move, every \in 1 .. 4 :
        LET w == Schedule(WeightsSeries(panel, 2, Universe(panel)), every)
            other == [panel EXCEPT !.score =
                         [t \in DOMAIN panel.score |->
                             IF t <= k THEN panel.score[t] ELSE [a \in {1} |-> 0]]]
            v == Schedule(WeightsSeries(other, 2, Universe(panel)), every)
        IN  After(panel, w, 1, k) = After(panel, v, 1, k)

ExperimentsAreSound(panel) ==
    BaselineIsOne(panel) /\ EnginesAgree(panel) /\ SweepsAreOrdered(panel) /\ FutureIsUnknown(panel)

\* The list of trades and the equity, two outputs of one loop, tell one story:
\* every bar with a position lies in exactly one trade, of its side; of long
\* positions the equity gains what the entry and exit prices of the trades say;
\* and every trade but one still open has paid for both of its ends.
TradesTellTheEquity(price, signal) ==
    LET n == Len(price)
        free == StrategyReturns(price, signal, 0)
        flat == StrategyReturns([t \in 1 .. n |-> 1], signal, 2 ^ 10)
        product(values) == FoldLeft(LAMBDA x, y : x * y, 1, values)
        trades == free.trades
    IN  /\ \A t \in 1 .. n - 1 :
              LET around == {i \in DOMAIN trades : trades[i].from <= t /\ t < trades[i].to}
              IN  IF signal[t] = 0 THEN around = {}
                  ELSE \E i \in around : around = {i} /\ trades[i].side = signal[t]
        /\ (\A t \in 1 .. n - 1 : signal[t] >= 0) =>
              free.equity * product([i \in DOMAIN trades |-> price[trades[i].from]])
                  = Unit * product([i \in DOMAIN trades |-> price[trades[i].to]])
        /\ flat.equity = Unit - 2 ^ 10 * (2 * Len(flat.trades) - (IF flat.open THEN 1 ELSE 0))

\* "Train models strictly on train_idx", "Strictly point-in-time and
\* zero-lookahead": no position of any script knows a later bar than its own, from
\* labels, features, schedules or the windows of the sequence models, if the
\* embargo is as long as a label looks ahead.
NothingForeseen(n, embargoPct, h, back) ==
    LET late(positions) == {p \in positions : ~ p.knows \subseteq 0 .. p.at}
        embargo == Max({1, (n * embargoPct) \div 100})
    IN  h <= embargo + 1 =>
            /\ \A every \in 1 .. 4, delay \in 0 .. 1 :
                  late(WalkForward(n, 3, embargoPct, h, back, every, delay)) = {}
            /\ SuiteTest(n, embargo) # {} =>
                  /\ late(ModelPositions(n, embargo, h, back)) = {}
                  /\ late(SequencePositions(n, embargo, h, back, 2)) = {}
                  /\ late(AssetPositions(n, 10, embargo, h, back)) = {}
                  /\ late(AblationPositions(n, embargo, h, {back, back + 1})) = {}
            /\ late(WFOPositions(n, 3, embargoPct, h, back)) = {}
=============================================================================
