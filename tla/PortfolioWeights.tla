--------------------------- MODULE PortfolioWeights ---------------------------
(***************************************************************************)
(* From predictions to target weights: the ranking of                      *)
(* evaluation/cross_sectional.py, the inverse-volatility sizing of         *)
(* evaluation/volatility_sizing.py and the drawdown scaling of             *)
(* evaluation/dynamic_risk.py.  Assets are numbers, in the order of their  *)
(* names; a weight is a number of units of a whole that an operator names. *)
(***************************************************************************)
EXTENDS Integers, Sequences, FiniteSets, FiniteSetsExt, SequencesExt

\* Asset a is ranked before b: by score, then by name.
Before(score, a, b) == score[a] > score[b] \/ (score[a] = score[b] /\ a > b)
Rank(score, a) == Cardinality({b \in DOMAIN score : Before(score, b, a)})

\* The sets rank_assets picks from the assets that have a score
Longs(score, top) == {a \in DOMAIN score : Rank(score, a) < top}

\* The lowest are sold whatever was bought.
ShortsAlways(score, top, bottom) ==
    {a \in DOMAIN score : Rank(score, a) >= Cardinality(DOMAIN score) - bottom}

\* Nothing is sold unless there are enough assets for both sides.
Shorts(score, top, bottom) ==
    {a \in DOMAIN score : /\ Cardinality(DOMAIN score) >= top + bottom
                          /\ Rank(score, a) >= Cardinality(DOMAIN score) - bottom}

\* rank_assets, in units of whole; an asset without a score has weight 0.
Weights(assets, score, top, bottom, cap, whole) ==
    LET longs == Longs(score, top)
        shorts == Shorts(score, top, bottom)
    IN  [a \in assets |->
            IF a \in shorts THEN 0 - Min({whole \div bottom, cap})
            ELSE IF a \in longs THEN Min({whole \div Cardinality(longs), cap})
            ELSE 0]

-----------------------------------------------------------------------------
\* Inverse volatility weights between 25% and 75%, normalised again: shares of
\* the sum over the assets.  A volatility divides 60.
Clipped(vol) ==
    LET inverse == [a \in DOMAIN vol |-> 60 \div vol[a]]
        total == SumFunction(inverse)
    IN  [a \in DOMAIN vol |-> Min({75 * total, Max({25 * total, 100 * inverse[a]})})]

Total(share) == SumFunction(share)

\* Drawdown from peak, in the states of DrawdownState: percent of exposure
DrawdownScale(peak, equity) ==
    LET lost == (peak - equity) * 100
    IN  IF lost >= 15 * peak THEN 25
        ELSE IF lost >= 10 * peak THEN 50
        ELSE IF lost >= 5 * peak THEN 80
        ELSE 100

\* The 1.0 from which running_peak begins
One == 100

\* One bar of size_portfolio_weights sees the equity before it.  A bar without a
\* position is skipped, its equity with it.
PeakAfter(peak, bar) == IF bar.active THEN Max({peak, bar.equity}) ELSE peak

\* The scale of the last bar of a curve
ScaleAfter(curve) ==
    DrawdownScale(FoldLeft(LAMBDA peak, bar : PeakAfter(peak, bar), One, curve), Last(curve).equity)
=============================================================================
