----------------------------- MODULE ShadowStudy -----------------------------
(***************************************************************************)
(* ExtendedShadowEngine.run_longitudinal_study: champion and challenger    *)
(* side by side, each with its own account, over the same bars.  A study   *)
(* is for each model its score (percent) of every symbol at every          *)
(* rebalance, Fails where the inference raises, the symbols that have a    *)
(* row then, and the prices of all bars.  Weights and turnover are in      *)
(* percent, returns and costs in basis points; latencies, correlations and *)
(* Sharpe ratios are left out.                                             *)
(***************************************************************************)
EXTENDS Integers, FiniteSets, FiniteSetsExt, SequencesExt

Symbols == 1 .. 3
Fails == -1
CostBps == 20

Rebalances(bars, interval) == [k \in 1 .. (bars - 1) \div interval |-> 1 + (k - 1) * interval]

\* The bar at which the weights decided at bar i are bought, and the bar at which
\* the next ones are.
Period(bars, interval, i) == [from |-> i + 1, to |-> Min({bars, i + interval + 1})]

Probability(score) == IF score = Fails THEN 50 ELSE score

\* Ties are broken by the order of the symbols.
Top2(scores, present) ==
    LET p(s) == Probability(scores[s])
    IN  {s \in present :
            Cardinality({r \in present : p(r) > p(s) \/ (p(r) = p(s) /\ r < s)}) < 2}

Held(top) == [s \in Symbols |-> IF s \in top THEN 50 ELSE 0]
Turnover(old, new) ==
    SumFunction([s \in Symbols |-> Max({new[s] - old[s], old[s] - new[s]})])

NoAccount == [weights |-> Held({}), turnover |-> << >>, net |-> << >>]
NoResult == [champion |-> NoAccount, challenger |-> NoAccount, overlap |-> << >>,
             agree |-> << >>, alike |-> << >>, errors |-> 0]

Rebalanced(account, top, start, end) ==
    LET turn == Turnover(account.weights, Held(top))
        gross == SumFunction([s \in Symbols |->
                                 (100 * Held(top)[s] * (end[s] - start[s])) \div start[s]])
    IN  [weights |-> Held(top), turnover |-> Append(account.turnover, turn),
         net |-> Append(account.net, gross - (turn * CostBps) \div 100)]

\* What is seen of the rebalances: scores, the symbols present, the prices at which
\* is bought and sold
Rounds(study) ==
    LET bars == Len(study.price)
        at == Rebalances(bars, study.interval)
    IN  [k \in DOMAIN at |->
            LET period == Period(bars, study.interval, at[k])
            IN  [champion |-> study.champion[k], challenger |-> study.challenger[k],
                 present |-> study.present[k],
                 start |-> study.price[period.from], end |-> study.price[period.to]]]

\* One rebalance of both models
Observed(result, round) ==
    LET champion == Top2(round.champion, round.present)
        challenger == Top2(round.challenger, round.present)
        bullish(scores, s) == Probability(scores[s]) >= 50
        raised(scores) == Cardinality({s \in round.present : scores[s] = Fails})
    IN  [champion |-> Rebalanced(result.champion, champion, round.start, round.end),
         challenger |-> Rebalanced(result.challenger, challenger, round.start, round.end),
         overlap |-> Append(result.overlap, <<Cardinality(champion \cap challenger),
                                              Cardinality(champion \cup challenger)>>),
         agree |-> Append(result.agree, champion = challenger),
         alike |-> Append(result.alike,
                          {s \in round.present : bullish(round.champion, s)
                                                 <=> bullish(round.challenger, s)}),
         errors |-> result.errors + raised(round.champion) + raised(round.challenger)]

Studied(study) == FoldLeft(Observed, NoResult, Rounds(study))

-----------------------------------------------------------------------------
Exchanged(study) == [study EXCEPT !.champion = study.challenger, !.challenger = study.champion]

\* "Non-Interfering Comparison": what a study says of one model does not depend on
\* which the other one is, nor on its failures, nor on their parts; a model agrees
\* with itself; two that select alike earn alike whatever their scores, and what
\* counts as agreement is an overlap of 1.
ShadowIsIsolated(study) ==
    LET r == Studied(study)
        self == Studied([study EXCEPT !.challenger = study.champion])
        mirror == Studied(Exchanged(study))
    IN  /\ self.champion = r.champion /\ self.challenger = r.champion
        /\ mirror.champion = r.challenger /\ mirror.challenger = r.champion
        /\ mirror.errors = r.errors /\ mirror.overlap = r.overlap /\ mirror.alike = r.alike
        /\ \A k \in DOMAIN self.agree : self.agree[k] /\ self.alike[k] = study.present[k]
        /\ \A k \in DOMAIN r.agree : r.agree[k] <=> r.overlap[k][1] = r.overlap[k][2]
        /\ (\A k \in DOMAIN r.agree : r.agree[k]) => r.champion = r.challenger
        /\ \A k \in DOMAIN r.champion.turnover : r.champion.turnover[k] <= 200

\* The periods of a study follow each other without a gap, each begins after the
\* bar it was decided on, and less than one interval is left over at the end.
PeriodsTile(bars, interval) ==
    LET at == Rebalances(bars, interval)
        period(k) == Period(bars, interval, at[k])
    IN  /\ \A k \in DOMAIN at : at[k] < period(k).from /\ period(k).from <= period(k).to
        /\ \A k \in DOMAIN at \ {1} : period(k).from = period(k - 1).to
        /\ at # << >> => bars - period(Len(at)).to < interval

=============================================================================
