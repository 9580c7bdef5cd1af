----------------------------- MODULE CandleAudit -----------------------------
(***************************************************************************)
(* OHLCVValidator.validate: what makes a table of candles unfit for        *)
(* research.  A table is a sequence of rows with the time `at' in halves   *)
(* of a candle's length; NaN is a field without a value, every comparison  *)
(* with which is false.  Columns, time zones and the sample of gaps in the *)
(* report are left out.                                                    *)
(***************************************************************************)
EXTENDS Integers, FiniteSets, FiniteSetsExt, SequencesExt

Delta == 2
NaN == -9
Fields == {"open", "high", "low", "close", "volume"}
Prices == Fields \ {"volume"}

Times(table) == {table[i].at : i \in DOMAIN table}
Duplicates(table) == Len(table) - Cardinality(Times(table))
Chronological(table) == \A i \in DOMAIN table \ {1} : table[i - 1].at <= table[i].at

\* round() of Python: halves go to the even neighbour
Rounded(halves) ==
    IF halves % 2 = 0 THEN halves \div 2
    ELSE IF (halves \div 2) % 2 = 0 THEN halves \div 2 ELSE halves \div 2 + 1

\* The gaps after sorting and dropping duplicates
Gaps(table) ==
    {g \in Times(table) \X Times(table) :
        g[2] - g[1] > Delta /\ ~\E t \in Times(table) : g[1] < t /\ t < g[2]}
Missing(table) ==
    MapThenSumSet(LAMBDA g : Max({0, Rounded(g[2] - g[1]) - 1}), Gaps(table))

Less(x, y) == x # NaN /\ y # NaN /\ x < y
Disordered(row) ==
    \/ Less(row.high, row.low)
    \/ \E f \in {"open", "close"} : Less(row.high, row[f]) \/ Less(row[f], row.low)

Errors(table, allowGaps, tolerance) ==
    LET some(Bad(_)) == \E i \in DOMAIN table : Bad(table[i])
        gap == Missing(table) > 0 /\ ~(allowGaps /\ Missing(table) <= tolerance)
        found == [empty |-> table = << >>, duplicate |-> Duplicates(table) > 0,
                  order |-> ~Chronological(table), gap |-> gap,
                  nonPositive |-> some(LAMBDA r : \E f \in Prices : r[f] # NaN /\ r[f] <= 0),
                  hierarchy |-> some(Disordered),
                  null |-> some(LAMBDA r : \E f \in Fields : r[f] = NaN),
                  volume |-> some(LAMBDA r : Less(r.volume, 0))]
    IN  IF found.empty THEN {"empty"} ELSE {e \in DOMAIN found : found[e]}

Idle(table) ==
    100 * Cardinality({i \in DOMAIN table : table[i].volume = 0}) > 20 * Len(table)
Warnings(table, allowGaps, tolerance) ==
    {w \in {"gap", "idle"} :
        IF w = "idle" THEN table # << >> /\ Idle(table)
        ELSE Missing(table) > 0 /\ "gap" \notin Errors(table, allowGaps, tolerance)}

-----------------------------------------------------------------------------
\* What passes is what research assumes: candles that bracket their prices, in
\* order, and, as long as they lie on the grid of their length, every one of them;
\* the number said to be missing is the number that is, whatever the order of the
\* rows, and tolerating gaps forgives gaps and nothing else.
ValidIsClean(table) ==
    LET strict == Errors(table, FALSE, 0)
        lenient(n) == Errors(table, TRUE, n)
        aligned == \A s, t \in Times(table) : (s - t) % Delta = 0
        absent == {t \in Min(Times(table)) .. Max(Times(table)) :
                      (t - Min(Times(table))) % Delta = 0 /\ t \notin Times(table)}
    IN  /\ strict = {} => \A i \in DOMAIN table :
                             LET r == table[i]
                             IN  /\ 0 < r.low /\ r.low <= Min({r.open, r.close})
                                 /\ Max({r.open, r.close}) <= r.high /\ r.volume >= 0
        /\ aligned /\ table # << >> =>
              /\ Missing(table) = Cardinality(absent)
              /\ strict \cap {"duplicate", "order", "gap"} = {} <=>
                    \A i \in DOMAIN table : table[i].at = table[1].at + (i - 1) * Delta
        /\ \A n \in 0 .. 3 : /\ lenient(n) \cup {"gap"} = strict \cup {"gap"}
                             /\ "gap" \in strict => ("gap" \in lenient(n) <=> Missing(table) > n)
                             /\ "gap" \in strict => \/ "gap" \in lenient(n)
                                                    \/ "gap" \in Warnings(table, TRUE, n)

=============================================================================
