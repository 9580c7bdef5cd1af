--------------------------- MODULE MomentumBacktest ---------------------------
(***************************************************************************)
(* The loop of run_momentum_backtest.py, bar by bar, and those of          *)
(* run_bear_market_backtest.py, its bearish half written once more, and of *)
(* run_walk_forward_validation.py, the whole written a third time.         *)
(* Symbols are numbered in the order of the files; BTC, which is never     *)
(* bought or sold, is the regime it decides.  Money is in cents and        *)
(* amounts are whole, so that a budget is rounded down to what it buys; a  *)
(* price of 0 is a missing candle (NaN).  Fees, slippage, milestones and   *)
(* remarks are left out; a day is 2 bars and MaxHold 2 of them.            *)
(*                                                                         *)
(* An account is what the loop keeps: cash, positions, the sum of the      *)
(* logged profits, and of the current bar its number, prices, regime and   *)
(* the last of portfolio_values.  Once lost, its cash is NaN.              *)
(***************************************************************************)
EXTENDS Integers, FiniteSets, FiniteSetsExt, Functions, SequencesExt

Symbols == 1 .. 3
MaxSlots == 2
BarsPerDay == 2
MaxHold == 2

Opened(capital) ==
    [cash |-> capital, pos |-> << >>, logged |-> 0, initial |-> capital, step |-> 0,
     price |-> [s \in Symbols |-> 50], bull |-> FALSE, worth |-> capital, lost |-> FALSE]

\* A position at price p, at its entry price if there is none: of a short one the
\* collateral and what the price has fallen.
Mark(pos, p) ==
    LET q == IF p = 0 THEN pos.entry ELSE p
    IN  pos.size * (IF pos.short THEN 2 * pos.entry - q ELSE q)

Value(account, price) ==
    account.cash + MapThenSumSet(LAMBDA s : Mark(account.pos[s], price[s]), DOMAIN account.pos)

-----------------------------------------------------------------------------
\* A. Manage open positions
Watched(pos, p) ==
    IF p = 0 THEN pos
    ELSE IF pos.short THEN [pos EXCEPT !.low = Min({@, p})]
    ELSE [pos EXCEPT !.high = Max({@, p})]

ShortEnds(pos, p, step) ==
    \/ 100 * (pos.entry - p) >= 15 * pos.entry
    \/ 100 * (p - pos.low) >= 16 * pos.low
    \/ step - pos.since > MaxHold /\ 100 * (pos.entry - p) > 4 * pos.entry

LongEnds(pos, p, bull) ==
    \/ ~bull /\ 100 * (pos.high - p) >= 3 * pos.high
    \/ 100 * (pos.high - p) >= 5 * pos.high
    \/ 100 * (p - pos.entry) >= 25 * pos.entry

Exits(account, bull) ==
    {s \in DOMAIN account.pos :
        LET pos == account.pos[s]
            p == account.price[s]
        IN  /\ p # 0
            /\ IF pos.short THEN bull \/ ShortEnds(pos, p, account.step)
               ELSE LongEnds(pos, p, bull)}

Closed(account, out) ==
    LET paid == MapThenSumSet(LAMBDA s : Mark(account.pos[s], account.price[s]), out)
        cost == MapThenSumSet(LAMBDA s : account.pos[s].size * account.pos[s].entry, out)
    IN  [account EXCEPT !.cash = @ + paid, !.logged = @ + paid - cost,
                        !.pos = Restrict(@, DOMAIN @ \ out)]

-----------------------------------------------------------------------------
\* B. Regime-adaptive entries
Open(account, s, budget, short) ==
    LET p == account.price[s]
        size == budget \div p
        pos == [size |-> size, entry |-> p, high |-> p, low |-> p, short |-> short,
                since |-> account.step]
    IN  [account EXCEPT !.cash = @ - size * p,
                        !.pos = [x \in DOMAIN @ \cup {s} |-> IF x = s THEN pos ELSE @[x]]]

\* Positions that fell off the ranks are sold at the price of the bar, which may
\* be missing.
Rotated(account, tops, weak) ==
    LET out == {s \in DOMAIN account.pos :
                   ~account.pos[s].short /\ tops # << >> /\ s \notin Range(tops) /\ s \in weak}
    IN  [Closed(account, out) EXCEPT !.lost = @ \/ \E s \in out : account.price[s] = 0]

\* The number of free slots is looked at once, before the first candidate.
LongEntries(account, tops) ==
    IF Cardinality(DOMAIN account.pos) >= MaxSlots THEN account
    ELSE FoldLeft(LAMBDA a, s :
                      LET budget == Min({a.cash, (48 * a.worth) \div 100})
                      IN  IF s \in DOMAIN a.pos \/ budget < 500 \/ a.price[s] = 0 \/ a.lost
                          THEN a ELSE Open(a, s, budget, FALSE),
                  account, tops)

\* before has the prices of the bar before; the cash is looked at once, and a
\* short may take what budget allows for the cash that is left.
ShortEntries(account, before, hot, least, budget) ==
    IF Cardinality(DOMAIN account.pos) >= MaxSlots \/ account.cash < least \/ account.lost
    THEN account
    ELSE FoldLeft(LAMBDA a, s :
                      IF /\ Cardinality(DOMAIN a.pos) < MaxSlots
                         /\ s \notin DOMAIN a.pos /\ a.price[s] # 0
                         /\ s \in hot /\ a.price[s] < before[s]
                      THEN Open(a, s, Min({a.cash, budget[a.cash]}), TRUE) ELSE a,
                  account, [s \in Symbols |-> s])

\* invested is what the positions were worth at the beginning of the bar.
FadeRallies(account, before, hot, invested) ==
    ShortEntries(account, before, hot, 1500,
                 [cash \in Int |-> IF cash < 5000 THEN 2500 ELSE (48 * (cash + invested)) \div 100])

\* One bar: bar.tops are the runners selected, bar.weak the symbols with a score
\* below 0.10, bar.hot those whose RSI was at least 68 the bar before.
Seen(account, bar) ==
    [account EXCEPT !.step = @ + 1, !.price = bar.price, !.bull = bar.bull,
                    !.worth = Value(account, bar.price),
                    !.pos = [s \in DOMAIN @ |-> Watched(@[s], bar.price[s])]]

Bar(account, bar) ==
    LET seen == Seen(account, bar)
        closed == Closed(seen, Exits(seen, bar.bull))
    IN  IF ~bar.bull
        THEN FadeRallies(closed, account.price, bar.hot, seen.worth - seen.cash)
        ELSE IF seen.step % BarsPerDay = 0 \/ Cardinality(DOMAIN closed.pos) < MaxSlots
             THEN LongEntries(Rotated(closed, bar.tops, bar.weak), bar.tops)
             ELSE closed

\* The end of run_momentum_backtest.py
Finish(account) == Closed(account, DOMAIN account.pos)

\* run_bear_market_backtest.py
BearBar(account, bar) ==
    LET seen == Seen(account, bar)
        ended == {s \in DOMAIN seen.pos :
                     bar.price[s] # 0 /\ ShortEnds(seen.pos[s], bar.price[s], seen.step)}
    IN  FadeRallies(Closed(seen, ended), account.price, bar.hot, seen.worth - seen.cash)

\* run_walk_forward_validation.py: candidates are cut to the free slots
PeriodLongs(account, tops) ==
    LET free == SelectSeq(tops, LAMBDA s : s \notin DOMAIN account.pos)
        slots == MaxSlots - Cardinality(DOMAIN account.pos)
    IN  FoldLeft(LAMBDA a, s : IF a.cash < 1000 \/ a.price[s] = 0 THEN a
                               ELSE Open(a, s, Min({a.cash, (48 * a.worth) \div 100}), FALSE),
                 account, SubSeq(free, 1, Min({slots, Len(free)})))

PeriodBar(account, bar) ==
    LET seen == Seen(account, bar)
        closed == Closed(seen, Exits(seen, bar.bull))
    IN  IF bar.bull THEN PeriodLongs(closed, bar.tops)
        ELSE ShortEntries(closed, account.price, bar.hot, 2000,
                          [cash \in Int |-> (48 * closed.worth) \div 100])

\* The end of run_walk_forward_validation.py: final_eq takes the last prices as they
\* are, and one that is missing makes it NaN.
PeriodFinish(account) ==
    [account EXCEPT !.cash = Value(account, account.price),
                    !.lost = @ \/ \E s \in DOMAIN account.pos : account.price[s] = 0]

-----------------------------------------------------------------------------
\* Trading moves no money of its own: what a bar's trades leave is worth what
\* portfolio_values says the account was worth before them, and the log explains
\* the cash; no exit that was due is missed, and no short outlives a priced bar of
\* a bull market.
BarsAddUp(account) ==
    LET invested == MapThenSumSet(LAMBDA s : account.pos[s].size * account.pos[s].entry,
                                  DOMAIN account.pos)
    IN  /\ ~account.lost =>
              /\ Value(account, account.price) = account.worth
              /\ account.cash + invested = account.initial + account.logged
        /\ Exits(account, account.bull) = {}

\* Closing everything realises exactly the worth last recorded.  The slots are
\* looked at before the first candidate only, so that they are exceeded by up to
\* the candidates of one bar.
AccountAddsUp(account) ==
    /\ BarsAddUp(account)
    /\ ~account.lost => Finish(account).cash = account.worth
    /\ Cardinality(DOMAIN account.pos) <= 2 * MaxSlots - 1

\* The script about the bear market trades as the other one does when it is in one.
BearsAgree(account, bar) ==
    (\A s \in DOMAIN account.pos : account.pos[s].short) /\ ~bar.bull =>
        BearBar(account, bar) = Bar(account, bar)

\* The third loop keeps the slots, which the first does not, and loses no cash to
\* a missing candle as long as it runs.  Its final equity is the worth last
\* recorded, unless the last candle of a symbol it holds is missing.
PeriodIsStricter(account) ==
    /\ BarsAddUp(account)
    /\ Cardinality(DOMAIN account.pos) <= MaxSlots /\ ~account.lost
    /\ LET final == PeriodFinish(account) IN ~final.lost => final.cash = account.worth

=============================================================================
