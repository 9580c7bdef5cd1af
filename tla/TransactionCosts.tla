--------------------------- MODULE TransactionCosts ---------------------------
(***************************************************************************)
(* The execution-cost engine (evaluation/transaction_costs.py): what a     *)
(* trade costs in fees, spread, slippage, market impact and delay, the     *)
(* liquidity tier of its asset, and the costs of a portfolio that is       *)
(* rebalanced bar by bar.                                                  *)
(*                                                                         *)
(* Units: costs in tenths of a basis point, volatility in basis points,    *)
(* scales and betas in hundredths, volume in millions and notional in      *)
(* thousands of dollars.  The two-bar estimate of the spread (logarithms   *)
(* of highs and lows) is an input, 0 when there is none.                   *)
(***************************************************************************)
EXTENDS Integers, FiniteSetsExt, SequencesExt

\* A trade: notional, vol(atility), volume, estimate of the spread, order type,
\* and how far the price moved against it before it was filled (negative when
\* it moved in its favour).
Clip(x, low, high) == Max({low, Min({x, high})})

\* CostModelConfig with what the profiles set of it, the rest being its defaults.
CostModelConfig(maker, taker, slippage, scale, gamma, delay) ==
    [maker |-> maker, taker |-> taker, minSpread |-> 10, maxSpread |-> 500,
     spreadScale |-> scale, slippage |-> slippage, volBeta |-> 50, liqBeta |-> 50,
     maxSlippage |-> 400, gamma |-> gamma, maxImpact |-> 600, delay |-> delay]
BenchmarkVol == 150
BenchmarkVolume == 50

Optimistic(delay) == CostModelConfig(20, 40, 10, 20, 5, delay)
Base(delay) == CostModelConfig(40, 60, 20, 35, 10, delay)
Conservative(delay) == CostModelConfig(50, 80, 40, 50, 20, delay)
Stressed(delay) == CostModelConfig(60, 100, 80, 80, 35, delay)
SpreadFee == CostModelConfig(40, 60, 0, 35, 0, FALSE)
SpreadSlippageFee == CostModelConfig(40, 60, 20, 35, 0, FALSE)

-----------------------------------------------------------------------------
FeeBps(c, trade) == IF trade.type = "MAKER" THEN c.maker ELSE c.taker

\* The integer square root.
Root(x) == CHOOSE r \in 0 .. 1000 : r * r <= x /\ x < (r + 1) * (r + 1)

\* estimate_spread_bps: the estimate of two bars, or else a proxy of volatility
\* over the root of the volume.
SpreadBps(c, trade) ==
    LET proxy == (c.spreadScale * trade.vol) \div (10 * Root(Max({1, trade.volume})))
    IN  Clip(IF trade.estimate > 0 THEN trade.estimate ELSE proxy, c.minSpread, c.maxSpread)

\* One crossing of the book pays half of it.
HalfSpread(c, trade) == SpreadBps(c, trade) \div 2

\* The volume taken as illiquid from the benchmark up.
SlippageUpsideDown(c, trade) ==
    LET vol == 100 + (c.volBeta * Max({0, trade.vol - BenchmarkVol})) \div BenchmarkVol
        liq == 100 + (c.liqBeta * Max({0, trade.volume - BenchmarkVolume})) \div BenchmarkVolume
    IN  Clip((c.slippage * vol * liq) \div 10000, 0, c.maxSlippage)

\* calculate_slippage: more for a volatility above and a volume below the usual.
Slippage(c, trade) ==
    LET vol == 100 + (c.volBeta * Max({0, trade.vol - BenchmarkVol})) \div BenchmarkVol
        liq == 100 + (c.liqBeta * Max({0, BenchmarkVolume - trade.volume})) \div BenchmarkVolume
    IN  IF c.slippage <= 0 THEN 0 ELSE Clip((c.slippage * vol * liq) \div 10000, 0, c.maxSlippage)

\* calculate_market_impact: the root of the share of the volume, here in
\* thousandths, no share being more than the whole.
Impact(c, trade) ==
    IF c.gamma <= 0 \/ trade.volume <= 0 THEN 0
    ELSE LET share == Root(Min({1000000, (1000 * trade.notional) \div trade.volume}))
         IN  Clip((c.gamma * trade.vol * share) \div 10000, 0, c.maxImpact)

\* A price that moves in favour of the trade is no gain.
Delay(c, trade) == IF c.delay THEN Max({0, trade.drift}) ELSE 0

\* estimate_trade_cost, for every profile but FIXED_12BPS, which is six basis
\* points whatever the market.
Costs(c, trade) ==
    [fee |-> FeeBps(c, trade), spread |-> HalfSpread(c, trade), slippage |-> Slippage(c, trade),
     impact |-> Impact(c, trade), delay |-> Delay(c, trade)]
TotalBps(c, trade) ==
    LET cost == Costs(c, trade)
    IN  cost.fee + cost.spread + cost.slippage + cost.impact + cost.delay

Dollars(c, trade) == trade.notional * TotalBps(c, trade)

-----------------------------------------------------------------------------
\* evaluate_liquidity: tier and score in tenths.
Tier(volume) ==
    CASE volume >= 100 -> "HIGH"
      [] volume \in 20 .. 99 -> "MEDIUM"
      [] volume \in 5 .. 19 -> "LOW"
      [] OTHER -> "EXTREME"

LiquidityScore(volume, vol) ==
    LET score == CASE Tier(volume) = "HIGH" -> Min({1000, 800 + (volume - 100) \div 2})
                   [] Tier(volume) = "MEDIUM" -> 500 + ((volume - 20) * 300) \div 80
                   [] Tier(volume) = "LOW" -> 200 + (volume - 5) * 20
                   [] OTHER -> Max({0, volume * 40})
    IN  IF vol > 300 THEN Max({0, score - 100}) ELSE score

-----------------------------------------------------------------------------
\* compute_portfolio_rebalance_costs for one symbol: weights in percent of the
\* capital (in thousands), from none, at every bar but the last, with one
\* market for all of them.  A bar starts from the target of the one before.
RebalanceTrades(weights, capital, trade) ==
    LET before(t) == IF t = 1 THEN 0 ELSE weights[t - 1]
        change(t) == weights[t] - before(t)
        size(t) == (capital * (IF change(t) < 0 THEN -change(t) ELSE change(t))) \div 100
    IN  [t \in 1 .. Len(weights) - 1 |-> [trade EXCEPT !.notional = size(t)]]

RebalanceCost(c, weights, capital, trade) ==
    LET trades == RebalanceTrades(weights, capital, trade)
    IN  SumFunctionOnSet([t \in DOMAIN trades |-> Dollars(c, trades[t])],
                         {t \in DOMAIN trades : trades[t].notional > 0})
=============================================================================
