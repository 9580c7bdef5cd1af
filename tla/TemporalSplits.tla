---------------------------- MODULE TemporalSplits ----------------------------
(***************************************************************************)
(* The temporal splits of data/splitting.py.  Bars are numbered from 0 and *)
(* a split names the bars its model is trained on and those it is tested   *)
(* on, with its embargo; shares are percentages.                           *)
(***************************************************************************)
EXTENDS Integers, FiniteSetsExt

\* df.iloc[lo:hi] of n bars
Slice(n, lo, hi) == {b \in 0 .. (n - 1) : lo <= b /\ b < hi}

Split(n, lo, t, testStart, testEnd, embargo) ==
    [train |-> Slice(n, lo, t), test |-> Slice(n, testStart, testEnd), embargo |-> embargo]

\* chronological_split, train against validation and validation against test
Chronological(n, trainPct, valPct, embargo) ==
    LET trainEnd == (n * trainPct) \div 100
        valStart == trainEnd + embargo
        valEnd == valStart + (n * valPct) \div 100
    IN  {Split(n, 0, trainEnd, valStart, valEnd, embargo),
         Split(n, valStart, valEnd, valEnd + embargo, n, embargo)}

\* The ends of training the windows step through
Ends(n, first, test, step, embargo) ==
    {t \in first .. n : (t - first) % step = 0 /\ t + embargo + test <= n}

\* expanding_window_split
Expanding(n, first, test, step, embargo) ==
    {Split(n, 0, t, t + embargo, t + embargo + test, embargo) : t \in Ends(n, first, test, step, embargo)}

\* rolling_window_split
Rolling(n, train, test, step, embargo) ==
    {Split(n, t - train, t, t + embargo, t + embargo + test, embargo) :
        t \in Ends(n, train, test, step, embargo)}

\* The embargo is taken from the end of the test instead of its beginning.
PurgedLate(n, splits, embargoPct) ==
    LET embargo == Max({1, (n * embargoPct) \div 100})
        fold == n \div (splits + 1)
    IN  {Split(n, 0, i * fold, i * fold, Min({n, (i + 1) * fold}) - embargo, embargo) :
            i \in {j \in 1 .. splits : j * fold + embargo < Min({n, (j + 1) * fold})}}

\* purged_walk_forward_split
Purged(n, splits, embargoPct) ==
    LET embargo == Max({1, (n * embargoPct) \div 100})
        fold == n \div (splits + 1)
    IN  {Split(n, 0, i * fold, i * fold + embargo, Min({n, (i + 1) * fold}), embargo) :
            i \in {j \in 1 .. splits : j * fold + embargo < Min({n, (j + 1) * fold})}}
=============================================================================
