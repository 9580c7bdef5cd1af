------------------------------ MODULE MCResearch ------------------------------
(***************************************************************************)
(* The run of the research side.  Its behaviours are those of              *)
(* ModelLifecycle with three models of one family, which are alike and     *)
(* each trained from any other; those of the backtested accounts of        *)
(* MomentumBacktest and PortfolioBacktest; and, every one an initial state *)
(* that stays as it is, the inputs on which the pure algorithms are        *)
(* evaluated, chosen around the thresholds of the code.                    *)
(***************************************************************************)
EXTENDS ModelLifecycle, ModelAssessment, TemporalSplits, PortfolioWeights, TransactionCosts, TLC

A == INSTANCE RiskAudit
B == INSTANCE MomentumBacktest
P == INSTANCE PortfolioBacktest
W == INSTANCE ShadowStudy
C == INSTANCE CandleAudit
L == INSTANCE RiskLimits

CONSTANTS m1, m2, m3, fam

VARIABLE input

Family == [m \in Models |-> fam]
Lineage == [m \in Models |-> (Models \ {m}) \cup {None}]
Alike == Permutations({m1, m2, m3})

-----------------------------------------------------------------------------
Statistics == [psi : {9, 10, 11, 25, 26}, p : {9, 10, 999, 1000}, ks : {15, 16, 30, 31}]

Cases == [ece : {8, 9, 15, 16}, slopeOff : BOOLEAN, high : 0 .. 3, moderate : 0 .. 4,
          prediction : {"NONE", "LOW", "MODERATE", "HIGH"}, hits : {39, 40, 47, 48, 100}]

\* Evaluations one or two time units apart
Healths == {"HEALTHY", "DEGRADED", "DRIFTING", "SUSPENDED"}
Timed(states, gaps) ==
    [i \in DOMAIN states |->
        [health |-> states[i], at |-> SumFunctionOnSet(gaps, 1 .. i)]]
Histories == {Timed(h, g) : h \in [1 .. 5 -> Healths], g \in [1 .. 5 -> {1, 2}]}

Folds ==
    {Chronological(n, 70, 15, e) : n \in 10 .. 24, e \in 0 .. 3}
    \cup {Expanding(n, f, t, s, e) : n \in 8 .. 14, f \in 2 .. 4, t \in 1 .. 3, s \in 3 .. 4,
                                     e \in 0 .. 2}
    \cup {Rolling(n, f, t, s, e) : n \in 8 .. 14, f \in 2 .. 4, t \in 1 .. 3, s \in 3 .. 4,
                                   e \in 0 .. 2}
    \cup {Purged(n, k, e) : n \in 4 .. 40, k \in 1 .. 5, e \in {1, 5, 10}}

Assets == 1 .. 5
Scores == UNION {[S -> 0 .. 2] : S \in (SUBSET Assets) \ {{}}}

Vols == UNION {[1 .. n -> {1, 2, 5, 20}] : n \in 2 .. 4}

\* Equity moves over any bar, with a position or without: the costs of an exit, at
\* the least, fall on the bar after it.
Curves == UNION {[1 .. n -> [equity : {85, 90, 95, 100, 120}, active : BOOLEAN]] : n \in 1 .. 4}

Trades == [notional : {1, 10, 100, 5000}, vol : {50, 150, 160, 400}, volume : {0, 1, 16, 49, 50, 100},
           estimate : {0, 30}, type : {"MAKER", "TAKER"}, drift : {-20, 0, 30}]

Targets == UNION {[1 .. n -> {-50, 0, 50, 100}] : n \in 2 .. 3}

\* Two folds of four bars: the second one is the first one backwards.
Rankings == {[a \in 1 .. 4 |-> <<4, 3, 2, 1>>[a]], [a \in 1 .. 4 |-> <<1, 2, 2, 3>>[a]],
             [a \in {2, 3} |-> a]}
Panels == [score : [1 .. 4 -> Rankings],
           move : [1 .. 3 -> {<<1, -1, 0, 0>>, <<-1, 1, 1, -1>>, <<0, 0, -1, 1>>}]]
Backwards(p) == [score |-> Reverse(p.score), move |-> Reverse(p.move)]
Wild == [a \in 1 .. 4 |-> IF a = 2 THEN 3 ELSE 1]

Signals == [1 .. 4 -> {1, 2, 4}] \X [1 .. 3 -> -1 .. 1]

\* Losses of 0.5%, 5% and 20%, and next to nothing between
Equities == UNION {[1 .. n -> {160, 190, 199, 200}] : n \in 1 .. 5}

\* Prices around every exit, a missing candle, and one symbol that stands still;
\* the smaller account can open two positions, the larger one three.
Prices == {<<0, 50, 52>>, <<48, 50, 52>>, <<50, 65, 52>>, <<52, 0, 52>>, <<65, 44, 52>>}
MarketBars ==
    [price : Prices, bull : {TRUE}, tops : {<< >>, <<1>>, <<2, 3>>, <<3, 1>>},
     weak : {{}, {1}}, hot : {{}}]
    \cup [price : Prices, bull : {FALSE}, tops : {<< >>}, weak : {{}}, hot : {{}, {1, 2}}]
Capitals == {5000, 20000}
MaxBars == 4

\* Prices that triple an account, halve it, or pass every stop; the averages of a
\* calm and of a wild market.
PortfolioBars ==
    [price : {<<10, 10, 10>>, <<36, 10, 9>>, <<8, 12, 10>>, <<0, 10, 14>>, <<40, 5, 12>>},
     raw : {<<0, 0, 0>>, <<40, 0, 20>>, <<20, 20, 20>>, <<0, 60, 0>>},
     trail : {15}, scalar : {100}]
    \cup [price : {<<8, 12, 10>>, <<36, 10, 9>>}, raw : {<<40, 0, 20>>}, trail : {25}, scalar : {40}]

\* Two rebalances, the second with a missing symbol or an inference that raises
StudyScores == {<<60, 55, 40>>, <<40, 60, 55>>, <<50, 50, 49>>, <<45, W!Fails, 55>>}
Studies ==
    [champion : [1 .. 2 -> StudyScores], challenger : [1 .. 2 -> StudyScores],
     present : {<<1 .. 3, 1 .. 3>>, <<1 .. 3, {2, 3}>>, <<{1}, 1 .. 3>>, <<{}, {3}>>}, interval : {2},
     price : {<<<<2, 2, 2>>, <<1, 2, 4>>, <<2, 2, 2>>, <<4, 1, 2>>, <<2, 4, 1>>>>,
              <<<<1, 1, 1>>, <<4, 2, 1>>, <<1, 1, 1>>, <<2, 2, 2>>, <<1, 4, 4>>, <<4, 1, 2>>>>}]

Candle == [open : {1}, high : {2}, low : {1}, close : {2}, volume : {1}]
Oddities == [open : {C!NaN, 0, 1, 2}, high : {1, 2}, low : {C!NaN, -1, 1, 2}, close : {1, 2, 3},
             volume : {C!NaN, -1, 0, 1}]
Row(t, c) == [open |-> c.open, high |-> c.high, low |-> c.low, close |-> c.close,
              volume |-> c.volume, at |-> t]
Tables ==
    {[i \in DOMAIN t |-> Row(t[i], c)] : t \in UNION {[1 .. n -> 0 .. 7] : n \in 0 .. 4}, c \in Candle}
    \cup {<<Row(0, c), Row(2, d)>> : c \in Oddities, d \in Candle}

Call == [kind : {"success", "error", "reset"}, slip : {0}] \cup [kind : {"fill"}, slip : {15, -16}]
Calls == UNION {[1 .. n -> Call] : n \in 0 .. 4}
Days == UNION {[1 .. n -> [equity : {79, 80, 95, 96, 100}, newDay : BOOLEAN]] : n \in 1 .. 3}
Wishes ==
    UNION {[1 .. n -> [symbol : {"x", "y", "z"}, notional : {20, 35, 40}, equity : {0, 100}]] :
              n \in 0 .. 3}

Inputs ==
    {<<"drift", x>> : x \in Statistics} \cup {<<"health", e>> : e \in Cases}
    \cup {<<"policy", h>> : h \in Histories} \cup {<<"folds", s>> : s \in Folds}
    \cup {<<"windows", w>> : w \in (8 .. 14) \X (2 .. 4) \X (1 .. 3) \X (0 .. 2)}
    \cup {<<"ranks", s>> : s \in Scores} \cup {<<"vols", v>> : v \in Vols}
    \cup {<<"curve", c>> : c \in Curves}
    \cup {<<"panel", p>> : p \in Panels} \cup {<<"signals", s>> : s \in Signals}
    \cup {<<"bars", x>> : x \in (8 .. 24) \X {5, 10, 20} \X (1 .. 3) \X (0 .. 2)}
    \cup {<<"equity", c>> : c \in Equities}
    \cup {<<"account", B!Opened(c)>> : c \in Capitals} \cup {<<"period", B!Opened(20000)>>}
    \cup {<<"portfolio", P!Started(5000)>>}
    \cup {<<"table", t>> : t \in Tables} \cup {<<"calls", c>> : c \in Calls}
    \cup {<<"days", d>> : d \in Days} \cup {<<"wishes", w>> : w \in Wishes}
    \cup {<<"study", x>> : x \in Studies} \cup {<<"shadow", x>> : x \in (1 .. 12) \X (1 .. 4)}
    \cup {<<"trade", t>> : t \in Trades} \cup {<<"targets", w>> : w \in Targets}

NoInput == <<"lifecycle">>

Given(kind) == input[1] = kind

\* A backtested account sees another bar.
Trade ==
    /\ Given("account") /\ input[2].step < MaxBars
    /\ \E bar \in MarketBars : input' = <<"account", B!Bar(input[2], bar)>>
    /\ UNCHANGED vars
Validate ==
    /\ Given("period") /\ input[2].step < MaxBars
    /\ \E bar \in MarketBars : input' = <<"period", B!PeriodBar(input[2], bar)>>
    /\ UNCHANGED vars
Rebalance ==
    /\ Given("portfolio") /\ input[2].step < P!Bars
    /\ \E bar \in PortfolioBars :
          /\ P!Worth(input[2], bar.price) >= 100
          /\ input' = <<"portfolio", P!Hour(input[2], bar)>>
    /\ UNCHANGED vars

ResearchInit == Init /\ input \in Inputs \cup {NoInput}
ResearchNext == \/ input = NoInput /\ Next /\ UNCHANGED input
                \/ Trade \/ Validate \/ Rebalance
ResearchSpec == ResearchInit /\ [][ResearchNext]_<<vars, input>>

-----------------------------------------------------------------------------
\* evaluate_distribution_drift: worse numbers never make a drift less severe,
\* across the conditions its branches test one after the other.
SeverityIsMonotone ==
    Given("drift") =>
        LET x == input[2]
        IN  \A y \in Statistics :
               x.psi <= y.psi /\ x.p >= y.p /\ x.ks <= y.ks =>
                   Grave(Severity(x.psi, x.p, x.ks)) <= Grave(Severity(y.psi, y.p, y.ks))

\* assess_health: evidence that is worse in one respect, a feature that drifts
\* highly and no longer moderately included, never gives a better state, though
\* scores, alerts and single scores decide together; and with an alert the model
\* is not HEALTHY.
HealthIsMonotone ==
    Given("health") =>
        LET e == input[2]
        IN  /\ \A f \in Worse(e) : Ill(Health(e)) <= Ill(Health(f))
            /\ Alerts(e) > 0 => Health(e) # "HEALTHY"

Good == [artifact |-> TRUE, leakFree |-> TRUE, monotonic |-> TRUE, approved |-> TRUE,
         ece |-> 8, brierGap |-> 2, sharpeGap |-> -20, returnGap |-> -10, meanDrawdown |-> 170,
         worstDrawdown |-> 200, latency |-> 50, failing |-> FALSE, shadow |-> 20]
Spoilt == {[Good EXCEPT !.artifact = FALSE], [Good EXCEPT !.leakFree = FALSE],
           [Good EXCEPT !.monotonic = FALSE], [Good EXCEPT !.approved = FALSE],
           [Good EXCEPT !.ece = 9], [Good EXCEPT !.brierGap = 3], [Good EXCEPT !.sharpeGap = -21],
           [Good EXCEPT !.returnGap = -11], [Good EXCEPT !.meanDrawdown = 171],
           [Good EXCEPT !.worstDrawdown = 201], [Good EXCEPT !.latency = 51],
           [Good EXCEPT !.failing = TRUE]}

\* "Fail-Closed Promotion Decisions (Multi-dimensional evidence requirement)":
\* one gate that fails rejects the candidate, waiting for more shadow predictions
\* or not, and so do any two alerts of its health, whatever else is excellent.
GatesFailClosed ==
    Given("health") =>
        LET e == input[2]
        IN  /\ \A d \in Spoilt, n \in {19, 20} :
                  Decision([d EXCEPT !.shadow = n], Health(e)) = "REJECT"
            /\ Alerts(e) >= 2 => Decision(Good, Health(e)) = "REJECT"
            /\ Decision([Good EXCEPT !.shadow = 19], Health(e)) # "PROMOTE"

\* The judgement of a model from its drift to the decision about it: worse
\* evidence never makes it better, and a failure anywhere closes the gates.
EvidenceIsHeard == SeverityIsMonotone /\ HealthIsMonotone /\ GatesFailClosed

\* "Anti-Thrashing Cooldown Enforcement", here with a persistence of 2 and a
\* cooldown of 3: two retrainings are never closer than the cooldown, while a
\* model in a critical state is never denied one for longer than it, and one for
\* drift alone comes after persistent alerts.
RetrainingIsPaced ==
    Given("policy") =>
        LET h == input[2]
            allowed == Policy(h, 2, 3).allowed
        IN  /\ \A i \in 1 .. Len(allowed) - 1 : allowed[i + 1] - allowed[i] >= 3
            /\ \A i \in DOMAIN h :
                  h[i].health = "SUSPENDED" =>
                      \E j \in DOMAIN allowed : h[i].at - 3 < allowed[j] /\ allowed[j] <= h[i].at
            /\ \A i \in DOMAIN h :
                  h[i].health = "DRIFTING" /\ (\E j \in DOMAIN allowed : allowed[j] = h[i].at)
                  => i > 1 /\ h[i - 1].health # "HEALTHY"

\* What is said of a model follows the evidence, and what is done about it neither
\* thrashes nor waits longer than the cooldown.
AssessmentIsSound == EvidenceIsHeard /\ RetrainingIsPaced

-----------------------------------------------------------------------------
\* "Strict temporal splitting to eliminate lookahead bias": between every bar a
\* model is trained on and every bar it is tested on lies the whole embargo, and
\* no bar is tested by two folds, however the numbers of bars divide.
NoLookAhead ==
    Given("folds") =>
        /\ \A s \in input[2] : \A a \in s.train, b \in s.test : b - a > s.embargo
        /\ \A s, t \in input[2] : s # t => s.test \cap t.test = {}

\* Windows that step by the length of a test leave no bar between the first and
\* the last tested bar out, and test only whole windows.
TestedOnce ==
    Given("windows") =>
        LET w == input[2]
            folds == Expanding(w[1], w[2], w[3], w[3], w[4])
            tested == UNION {s.test : s \in folds}
        IN  /\ \A s \in folds : Cardinality(s.test) = w[3]
            /\ \A a, b \in tested : \A c \in a .. b : \E s \in folds : c \in s.test

\* Every kind of split keeps its tests apart from its training and from each
\* other, and leaves out no bar it could test.
SplitsAreSound == NoLookAhead /\ TestedOnce

-----------------------------------------------------------------------------
\* rank_assets: no asset is bought and sold, neither side is more than the whole,
\* and a better score never gets the smaller weight, ties, missing scores and
\* too few assets included.
WeightsFollowRanks ==
    Given("ranks") =>
        \A top, bottom \in 1 .. 3 :
            LET score == input[2]
                w == Weights(Assets, score, top, bottom, 30, 60)
                side(sign) == SumFunction([a \in Assets |-> Max({0, sign * w[a]})])
            IN  /\ \A a, b \in DOMAIN score : score[a] > score[b] => w[a] >= w[b]
                /\ \A a \in Assets \ DOMAIN score : w[a] = 0
                /\ side(1) <= 60 /\ side(-1) <= 60
                /\ side(1) > 0

\* "max individual weight cap enforced": no asset has more than 75% after the
\* weights are normalised again, and of two assets none has less than 25%.
CapSurvives ==
    Given("vols") =>
        LET share == Clipped(input[2])
        IN  \A a \in DOMAIN share :
               /\ 4 * share[a] <= 3 * Total(share)
               /\ Cardinality(DOMAIN share) = 2 => 4 * share[a] >= Total(share)

\* The drawdown of size_portfolio_weights is measured from the highest equity of
\* the bars that had a position, or the beginning: no bar of the past is forgotten
\* but those without one, which are never looked at.
PeakIsRemembered ==
    Given("curve") =>
        LET c == input[2]
            held == {c[i].equity : i \in {i \in DOMAIN c : c[i].active}}
        IN  Last(c).active =>
                ScaleAfter(c) = DrawdownScale(Max({One} \cup held), Last(c).equity)

\* What its comment calls it, a "Trailing max equity tracker": the drawdown is
\* measured from the highest equity of all bars.
PeakIsTrailing ==
    Given("curve") =>
        LET c == input[2]
        IN  Last(c).active =>
                ScaleAfter(c) = DrawdownScale(Max({One} \cup {c[i].equity : i \in DOMAIN c}),
                                              Last(c).equity)

\* From scores to weights to the scale of a portfolio, at every boundary.
WeightsAreSound == WeightsFollowRanks /\ CapSurvives /\ PeakIsRemembered

-----------------------------------------------------------------------------
Rising == <<SpreadFee, SpreadSlippageFee, Base(FALSE), Conservative(FALSE), Stressed(FALSE)>>
Delayed == <<Optimistic(TRUE), Base(TRUE), Conservative(TRUE), Stressed(TRUE)>>

\* Trades that are worse in one respect
Harder(t) ==
    {[t EXCEPT !.notional = n] : n \in {n \in {1, 10, 100, 5000} : n > t.notional}}
    \cup {[t EXCEPT !.vol = v] : v \in {v \in {50, 150, 160, 400} : v > t.vol}}
    \cup {[t EXCEPT !.volume = v] : v \in {v \in {1, 16, 49, 50, 100} : v < t.volume}}
    \cup {[t EXCEPT !.drift = 30]}

\* TransactionCostEngine: a larger trade, a wilder or a thinner market and a worse
\* fill never make a trade cheaper in any scenario, through every floor, cap and
\* multiplier; and the scenarios keep the order their names promise.
TradesAreOrdered ==
    Given("trade") =>
        LET t == input[2]
        IN  /\ \A i \in DOMAIN Rising \ {1} : TotalBps(Rising[i - 1], t) <= TotalBps(Rising[i], t)
            /\ \A i \in DOMAIN Delayed \ {1} : TotalBps(Delayed[i - 1], t) <= TotalBps(Delayed[i], t)
            /\ \A u \in Harder(t), c \in {Optimistic(TRUE), Base(FALSE), Stressed(TRUE)} :
                  TotalBps(c, t) <= TotalBps(c, u)

\* evaluate_liquidity: more volume never lowers the score, across the tiers, nor
\* does it leave the range the documentation gives the tier in a calm market.
LiquidityIsOrdered ==
    Given("trade") =>
        LET t == input[2]
            low(tier) == CASE tier = "HIGH" -> 800 [] tier = "MEDIUM" -> 500
                           [] tier = "LOW" -> 200 [] OTHER -> 0
        IN  \A v \in 0 .. 120 :
               /\ v <= t.volume => LiquidityScore(v, t.vol) <= LiquidityScore(t.volume, t.vol)
               /\ LiquidityScore(v, 300) >= low(Tier(v))

\* compute_portfolio_rebalance_costs: what a path of targets costs follows from
\* the way it goes: a target kept for a bar costs nothing, one in between never
\* more than the whole move, one beyond never less.
CostsFollowThePath ==
    Given("targets") =>
        \A x \in {-50, 0, 50, 100} :
            LET w == input[2]
                market == [notional |-> 0, vol |-> 200, volume |-> 16, estimate |-> 0,
                           type |-> "TAKER", drift |-> 0]
                cost(path) == RebalanceCost(Base(FALSE), path, 100, market)
                straight == cost(<<w[1], w[2], 0>>)
                detour == cost(<<w[1], x, w[2], 0>>)
                between == x \in Min({w[1], w[2]}) .. Max({w[1], w[2]})
            IN  /\ IF between THEN detour <= straight ELSE detour >= straight
                /\ x = w[1] => detour = straight
                /\ cost(<<w[1], w[2], x>>) = straight

\* What a trade, a market and a portfolio cost.
CostsAreSound == TradesAreOrdered /\ LiquidityIsOrdered /\ CostsFollowThePath

-----------------------------------------------------------------------------
\* The experiments and audits of training/, the loops of backtesting/ and the
\* validator of the data: simulations and statistics agree where they claim to speak
\* of one strategy, nothing knows the future, what is bought, sold, attributed or
\* counted adds up to the account, and a table called valid is one.
BacktestsAreSound ==
    LET x == input[2]
    IN  /\ Given("panel") => /\ A!ExperimentsAreSound(x)
                             /\ A!OneStrategy(x, 3, Wild)
                             /\ A!AttributionAddsUp(<<x, Backwards(x)>>, x.move[2])
                             /\ A!ConcentrationIsTold(x)
                             /\ A!PersistenceAddsUp(x)
        /\ Given("signals") => A!TradesTellTheEquity(x[1], x[2])
        /\ Given("bars") => A!NothingForeseen(x[1], x[2], x[3], x[4])
        /\ Given("equity") => A!DrawdownsAreFound(x) /\ A!GlobalIsWorst(x, Reverse(x))
        /\ Given("vols") /\ Len(x) = 2 => A!CapIsReported(x)
        /\ Given("account") => /\ B!AccountAddsUp(x)
                               /\ \A bar \in MarketBars : B!BearsAgree(x, bar)
        /\ Given("period") => B!PeriodIsStricter(x)
        /\ Given("table") => C!ValidIsClean(x)

\* The guards of risk/, after any history of calls: the breaker trips when it should
\* and not before the next reset, the monitor judges by everything it has seen, and
\* no sequence of orders gets past the limits of exposure and size.
GuardsHold ==
    LET x == input[2]
    IN  /\ Given("calls") => L!TripsWhenItShould(x)
        /\ Given("days") => L!JudgesAllItSaw(x)
        /\ Given("wishes") => L!LimitsHold(x)

\* The shadow study: neither model's account knows of the other, nor does any period
\* begin before the decision it follows, overlap the next or leave a bar out.
StudiesAreIsolated ==
    /\ Given("study") => W!ShadowIsIsolated(input[2])
    /\ Given("shadow") => W!PeriodsTile(input[2][1], input[2][2])

\* The loop of run_portfolio_multi_agent.py: orders make no money, nothing is sold
\* that is not held, and a decision leaves the account above its floor and every
\* position of a size worth an order above its trailing stop.
PortfolioIsSafe == Given("portfolio") => P!AccountIsSafe(input[2])

\* The loops that go on from call to call: guards, studies and the agents' account.
SimulatorsAreSafe == GuardsHold /\ StudiesAreIsolated /\ PortfolioIsSafe
=============================================================================
