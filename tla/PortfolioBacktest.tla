-------------------------- MODULE PortfolioBacktest --------------------------
(***************************************************************************)
(* The loop of run_portfolio_multi_agent.py over a few assets: milestones  *)
(* that ratchet a floor upwards, decisions every Day bars and at the last  *)
(* one, the two assets with the highest targets, trailing stops and a band *)
(* that orders must leave.  The agents are the raw target of each asset,   *)
(* in percent and 0 below 6, and the averages of the range are trail and   *)
(* scalar.  Money is in cents and amounts are whole; a price of 0 is a     *)
(* missing candle, which the script reads as a price.  Fees and slippage   *)
(* are left out, and so are short positions: AccountIsSafe shows that an   *)
(* account worth a dollar never has one, and a poorer one is not followed. *)
(***************************************************************************)
EXTENDS Integers, FiniteSets, FiniteSetsExt, SequencesExt

Assets == 1 .. 3
Day == 2
Bars == 4       \* len(common_idx)
Slots == 2

Started(capital) ==
    [cash |-> capital, held |-> [a \in Assets |-> 0], entry |-> [a \in Assets |-> 0],
     high |-> [a \in Assets |-> 0], cycle |-> 1, base |-> capital,
     floor |-> (85 * capital) \div 100, worth |-> capital, step |-> 0,
     price |-> [a \in Assets |-> 0], trail |-> 15]

Worth(account, price) ==
    account.cash + SumFunction([a \in Assets |-> account.held[a] * price[a]])

NewCycle(account, n) ==
    [account EXCEPT !.cycle = n, !.base = account.worth, !.floor = (80 * account.worth) \div 100]

Valued(account, bar) ==
    LET seen == [account EXCEPT !.worth = Worth(account, bar.price), !.price = bar.price,
                                !.step = @ + 1]
    IN  IF seen.worth >= 3 * seen.base /\ seen.worth > seen.base
        THEN NewCycle(seen, seen.cycle + 1) ELSE seen

-----------------------------------------------------------------------------
Watching(account) ==
    [account EXCEPT !.high = [a \in Assets |->
        IF account.price[a] = 0 THEN @[a]
        ELSE IF account.held[a] > 0 THEN Max({@[a], account.price[a]}) ELSE 0]]

\* Ties are broken by the order of the assets.
Top(account, raw) ==
    LET active == {a \in Assets : account.price[a] > 0 /\ raw[a] > 0}
    IN  {a \in active :
            Cardinality({b \in active : raw[b] > raw[a] \/ (raw[b] = raw[a] /\ b < a)}) < Slots}

Exposure(account, scalar) ==
    IF account.worth < account.floor THEN 95
    ELSE IF 100 * account.worth < 105 * account.floor THEN 40
    ELSE (95 * Min({3, account.cycle}) * scalar) \div 100

\* Mutant: the cycle begins again and the floor stays where it was.
FloorShieldKeeping(account) ==
    IF account.worth < account.floor THEN [account EXCEPT !.cycle = 1] ELSE account

FloorShield(account) ==
    IF account.worth < account.floor THEN NewCycle(account, 1) ELSE account

Stopped(account, a) ==
    /\ account.held[a] > 0
    /\ 100 * account.price[a] < (100 - account.trail) * account.high[a]

\* The value an asset should have.  A choice is the asset, the top ones, their raw
\* targets and the exposure of the portfolio.
Goal(account, choice) ==
    LET a == choice.asset
    IN  IF Stopped(account, a) THEN 0
        ELSE IF a \in choice.top
        THEN (account.worth * choice.raw[a] * choice.exposure)
                \div (100 * SumFunctionOnSet(choice.raw, choice.top))
        ELSE account.held[a] * account.price[a]

MinTrade(account) == Max({500, account.worth \div 5})

\* A position that loses is reduced by its stop or in an emergency only.
MaySell(account, a) ==
    \/ account.price[a] > account.entry[a]
    \/ Stopped(account, a)
    \/ (100 * account.worth < 105 * account.floor /\ account.cash < 0)

Order(account, a, goal) ==
    LET p == account.price[a]
        old == account.held[a]
        diff == goal - old * p
        size == IF diff > 0 THEN diff \div p ELSE -((-diff) \div p)
        new == old + size
        entry == IF new = 0 THEN 0 ELSE IF old = 0 THEN p
                 ELSE IF size > 0 THEN (old * account.entry[a] + size * p) \div new
                 ELSE account.entry[a]
    IN  IF Max({diff, -diff}) > MinTrade(account) /\ (old > 0 /\ diff < 0 => MaySell(account, a))
        THEN [account EXCEPT !.cash = @ - size * p, !.held[a] = new, !.entry[a] = entry,
                             !.high[a] = IF new = 0 THEN 0 ELSE @]
        ELSE account

Settled(account, choice) ==
    IF account.price[choice.asset] = 0 THEN account
    ELSE Order(account, choice.asset, Goal(account, choice))

Decided(account, bar) ==
    LET watched == Watching([account EXCEPT !.trail = bar.trail])
        choice(a) == [asset |-> a, top |-> Top(watched, bar.raw), raw |-> bar.raw,
                      exposure |-> Exposure(watched, bar.scalar)]
    IN  FoldLeft(Settled, FloorShield(watched), [a \in Assets |-> choice(a)])

Decides(step) == step % Day = 0 \/ step = Bars - 1

Hour(account, bar) ==
    LET seen == Valued(account, bar)
    IN  IF Decides(account.step) THEN Decided(seen, bar) ELSE seen

-----------------------------------------------------------------------------
\* Orders make and lose no money, at any leverage; nothing is sold that is not
\* held; once decisions are taken the account is above its floor again, every
\* position of a size worth an order is above its trailing stop, and no peak
\* survives the position it belongs to.
AccountIsSafe(account) ==
    /\ Worth(account, account.price) = account.worth
    /\ \A a \in Assets : account.held[a] >= 0 /\ (account.held[a] = 0 <=> account.entry[a] = 0)
    /\ account.floor <= account.base
    /\ account.step > 0 /\ Decides(account.step - 1) =>
          /\ account.worth >= account.floor
          /\ \A a \in Assets : account.price[a] > 0 =>
                /\ account.held[a] * account.price[a] > MinTrade(account) => ~Stopped(account, a)
                /\ account.held[a] = 0 => account.high[a] = 0

=============================================================================
