------------------------------ MODULE GateProofs ------------------------------
(***************************************************************************)
(* Proofs about what passes judgement on the platform: the gate that       *)
(* market data opens for orders, the registry that lets models serve, and  *)
(* the research that decides which model and which portfolio is worth it.  *)
(* They share no state: each part is about the specification of its own    *)
(* module.                                                                 *)
(*                                                                         *)
(* Market data, for any universe, bar length, delay, cache, number of      *)
(* attempts and clock.  Only the tracker compares the times of candles,    *)
(* while the engine and the gate judge by what the engine keeps: FeedInv   *)
(* says that the two agree (EngineFollowsTracker) and that a stream which  *)
(* counts as connected has been active (HeardOnce), without which silence  *)
(* could not be told from a start.                                         *)
(*                                                                         *)
(* The registry, for any models, families and lineages.  The status of a   *)
(* model is changed by four operations, the champion record by two of them *)
(* and the trail by all, each with its own code; RegistryInv says that     *)
(* they agree.  OneChampion and RevivedByRollback need that a rollback     *)
(* stays within its family, which only the callers of register_model see   *)
(* to (SameFamily); OneChampion also needs that nobody crowns a model by   *)
(* transition_state.                                                       *)
(*                                                                         *)
(* Research, for any evidence, number of bars, trade, scores, curve and    *)
(* history: the algorithms have no state of their own, so the theorems are *)
(* about their operators, and the invariants of the run follow once its    *)
(* inputs are known to be of their kind and to stay as they are.  What a   *)
(* loop computes is proved by what it keeps over the steps of a fold.      *)
(***************************************************************************)
EXTENDS MarketDataHealth, MCResearch, FiniteSetTheorems, TLAPS

\* A connection is only ever marked active together with its time.
HeardOnce == active => activity > 0

FeedInv == GateTypes /\ EngineFollowsTracker /\ HeardOnce

-----------------------------------------------------------------------------
(* Arithmetic of bars. *)

\* A later bar closes later.
LEMMA CloseIsMonotone ==
    ASSUME NEW a \in Nat, NEW b \in Nat, a <= b
    PROVE  (a + 1) * BarLength <= (b + 1) * BarLength
  <1>1. BarLength \in Nat \ {0}
    BY MarketDataAssumption
  <1>2. PICK d \in Nat : b = a + d
    <2>1. b - a \in Nat /\ b = a + (b - a)
      OBVIOUS
    <2> QED BY <2>1
  <1>3. (b + 1) * BarLength = (a + 1) * BarLength + d * BarLength
    BY <1>1, <1>2
  <1>4. d * BarLength >= 0 /\ (a + 1) * BarLength \in Int /\ d * BarLength \in Int
    BY <1>1, <1>2
  <1> QED
    BY <1>3, <1>4

\* A moment before the close of the bar after bar b belongs to that bar or to
\* an earlier one.
LEMMA BarOfMoment ==
    ASSUME NEW n \in Nat, NEW b \in Nat, n < (b + 2) * BarLength
    PROVE  n \div BarLength <= b + 1
  <1>1. BarLength \in Nat \ {0}
    BY MarketDataAssumption
  <1> DEFINE q == n \div BarLength
  <1>2. q \in Nat /\ q * BarLength <= n
    BY <1>1
  <1> HIDE DEF q
  <1> SUFFICES ASSUME q >= b + 2 PROVE FALSE
    BY <1>2 DEF q
  <1>3. PICK d \in Nat : q = b + 2 + d
    <2>1. q - (b + 2) \in Nat /\ q = b + 2 + (q - (b + 2))
      BY <1>2
    <2> QED BY <2>1
  <1>4. q * BarLength = (b + 2) * BarLength + d * BarLength
    BY <1>1, <1>3
  <1>5. d * BarLength >= 0 /\ (b + 2) * BarLength \in Int /\ d * BarLength \in Int
    BY <1>1, <1>3
  <1> QED
    BY <1>2, <1>4, <1>5

-----------------------------------------------------------------------------
(* The invariant. *)

\* The newest candle of a symbol is a bar.
LEMMA LatestIsNumber ==
    ASSUME GateTypes, NEW s \in Universe
    PROVE  latest[s] \in Nat
  <1>1. latest \in [Universe -> Bars \cup {0}]
    BY DEF GateTypes
  <1>2. CASE latest[s] \in Bars
    BY <1>2 DEF Bars
  <1>3. CASE latest[s] = 0
    BY <1>3
  <1> QED
    BY <1>1, <1>2, <1>3

\* A full cache forgets before it remembers.
LEMMA RememberedOK ==
    ASSUME GateTypes, NEW s \in Universe, NEW c \in Candles, c.bar > 0
    PROVE  Remembered(s, c) \in Seq(Universe \X Bars) /\ Len(Remembered(s, c)) <= CacheSize
  <1>1. c.bar \in Bars
    BY DEF Candles
  <1>2. CacheSize \in Nat \ {0}
    BY MarketDataAssumption
  <1> DEFINE longer == Append(seen, <<s, c.bar>>)
  <1>3. longer \in Seq(Universe \X Bars) /\ Len(longer) = Len(seen) + 1 /\ longer # <<>>
    <2>1. <<s, c.bar>> \in Universe \X Bars
      BY <1>1
    <2>2. seen \in Seq(Universe \X Bars)
      BY DEF GateTypes
    <2> QED
      BY <2>1, <2>2
  <1>4. Tail(longer) \in Seq(Universe \X Bars) /\ Len(Tail(longer)) = Len(longer) - 1
    BY <1>3
  <1> HIDE DEF longer
  <1>5. Len(seen) \in Nat /\ Len(seen) <= CacheSize
    BY DEF GateTypes
  <1>6. Remembered(s, c) = IF Len(longer) > CacheSize THEN Tail(longer) ELSE longer
    BY DEF Remembered, longer
  <1>7. CASE Len(longer) > CacheSize
    BY <1>2, <1>3, <1>4, <1>5, <1>6, <1>7
  <1>8. CASE ~(Len(longer) > CacheSize)
    <2>1. Len(longer) <= CacheSize
      BY <1>2, <1>3, <1>5, <1>8
    <2> QED
      BY <1>3, <1>6, <1>8, <2>1
  <1> QED
    BY <1>7, <1>8

\* Taking a candle, from the stream or from a response.
LEMMA TakingKeeps ==
    ASSUME FeedInv, NEW s \in Universe, NEW c \in Candles, ValidCandle(c), Track(s, c), Engage(s, c),
           now' = now
    PROVE  /\ newest' \in [Universe -> Bars \cup {0}]
           /\ latest' \in [Universe -> Bars \cup {0}]
           /\ seen' \in Seq(Universe \X Bars) /\ Len(seen') <= CacheSize
           /\ active' \in BOOLEAN /\ activity' \in 0 .. now
           /\ EngineFollowsTracker' /\ HeardOnce'
           /\ \A t \in Universe : latest'[t] >= latest[t]
           /\ active => active'
           /\ activity' \in {activity, now}
  <1>t. GateTypes /\ EngineFollowsTracker /\ HeardOnce
    BY DEF FeedInv
  <1>1. c.bar \in Bars /\ c.bar > 0 /\ now > 0 /\ now \in Nat
    BY <1>t, MarketDataAssumption DEF ValidCandle, Candles, GateTypes
  <1>2. \A t \in Universe : latest[t] \in Nat
    BY <1>t, LatestIsNumber
  <1>3. seen' \in Seq(Universe \X Bars) /\ Len(seen') <= CacheSize
    BY <1>t, <1>1, RememberedOK DEF Track, GateTypes
  <1>4. CASE Accepts(s, c)
    <2>1. /\ newest' = [newest EXCEPT ![s] = c.bar] /\ latest' = [latest EXCEPT ![s] = c.bar]
          /\ active' = TRUE /\ activity' = now
      BY <1>t, <1>4 DEF Track, Engage
    <2>2. c.bar >= latest[s]
      BY <1>t, <1>4 DEF Accepts, EngineFollowsTracker
    <2>3. latest' = newest'
      BY <1>t, <2>1 DEF EngineFollowsTracker
    <2>4. \A t \in Universe : latest'[t] >= latest[t]
      <3>1. DOMAIN latest = Universe
        BY <1>t DEF GateTypes
      <3> QED
        BY <1>2, <2>1, <2>2, <3>1
    <2> QED
      BY <1>t, <1>1, <1>3, <2>1, <2>3, <2>4 DEF GateTypes, EngineFollowsTracker, HeardOnce
  <1>5. CASE ~Accepts(s, c)
    <2>1. newest' = newest /\ latest' = latest /\ active' = active /\ activity' = activity
      BY <1>t, <1>5 DEF Track, Engage, engine
    <2>2. active' \in BOOLEAN /\ HeardOnce' /\ (active => active') /\ EngineFollowsTracker'
      BY <1>t, <2>1 DEF GateTypes, EngineFollowsTracker, HeardOnce
    <2>3. activity' \in 0 .. now /\ activity' \in {activity, now}
      BY <1>t, <2>1 DEF GateTypes
    <2>4. \A t \in Universe : latest'[t] >= latest[t]
      BY <1>2, <2>1
    <2>5. newest' \in [Universe -> Bars \cup {0}] /\ latest' \in [Universe -> Bars \cup {0}]
      BY <1>t, <2>1 DEF GateTypes
    <2> QED
      BY <1>3, <2>2, <2>3, <2>4, <2>5
  <1> QED
    BY <1>4, <1>5

\* The common bar of a universe that is healthy is a bar.
LEMMA HealthyCutoff ==
    ASSUME FeedInv, UniverseStatus = "HEALTHY"
    PROVE  /\ \A s \in Universe : SymbolStatus(s) = "HEALTHY"
           /\ \A s, t \in Universe : latest[s] = latest[t]
           /\ \A s \in Universe : latest[s] \in Bars
  <1>1. \A s \in Universe : SymbolStatus(s) \in SymbolStatuses
    BY DEF SymbolStatus, SymbolStatuses
  <1>2. \A s \in Universe : SymbolStatus(s) = "HEALTHY"
    BY <1>1 DEF UniverseStatus, SomeIs, SymbolStatuses
  <1>3. \A s, t \in Universe : latest[s] = latest[t]
    BY <1>2 DEF UniverseStatus
  <1>4. \A s \in Universe : latest[s] # 0
    BY <1>2 DEF SymbolStatus
  <1>5. latest \in [Universe -> Bars \cup {0}]
    BY DEF FeedInv, GateTypes
  <1> QED
    BY <1>2, <1>3, <1>4, <1>5

\* What is known of a healthy symbol.
LEMMA HealthyMeans ==
    ASSUME NEW s \in Universe, SymbolStatus(s) = "HEALTHY"
    PROVE  active /\ ~Silent /\ latest[s] # 0 /\ ~(Age(s) > MaxDelay)
  BY DEF SymbolStatus

LEMMA FeedInit == GateInit => FeedInv
  <1> SUFFICES ASSUME GateInit PROVE FeedInv
    OBVIOUS
  <1>1. BarLength \in Nat \ {0} /\ MaxAttempts \in Nat /\ MaxClock \in Nat /\ CacheSize \in Nat
        /\ BarLength <= MaxClock
    BY MarketDataAssumption
  <1>2. now \in BarLength .. MaxClock /\ activity \in 0 .. now /\ attempt \in 0 .. MaxAttempts
    BY <1>1 DEF GateInit
  <1>3. seen \in Seq(Universe \X Bars) /\ Len(seen) <= CacheSize
    BY <1>1 DEF GateInit
  <1>4. rest \in [symbol : Universe \cup {NoSymbol}, todo : Seq(Candles)] /\ rest.symbol = NoSymbol
    BY DEF GateInit
  <1>5. /\ newest \in [Universe -> Bars \cup {0}] /\ latest \in [Universe -> Bars \cup {0}]
        /\ active \in BOOLEAN /\ halted \in BOOLEAN
        /\ decision \in [why : UniverseStatuses \cup {"NONE"}, cutoff : Bars \cup {0}]
    BY DEF GateInit
  <1>6. EngineFollowsTracker /\ HeardOnce
    BY DEF GateInit, EngineFollowsTracker, HeardOnce
  <1> QED
    BY <1>2, <1>3, <1>4, <1>5, <1>6 DEF FeedInv, GateTypes

\* Every step keeps the invariant, and a step that takes time forward or not
\* never takes a symbol back.
LEMMA FeedStep ==
    FeedInv /\ [GateNext]_gateVars => FeedInv' /\ \A t \in Universe : latest'[t] >= latest[t]
  <1> SUFFICES ASSUME FeedInv, [GateNext]_gateVars
               PROVE  FeedInv' /\ \A t \in Universe : latest'[t] >= latest[t]
    OBVIOUS
  <1>t. GateTypes /\ EngineFollowsTracker /\ HeardOnce
    BY DEF FeedInv
  <1>n. now \in Nat /\ now > 0 /\ activity \in Nat
    BY <1>t, MarketDataAssumption DEF GateTypes
  <1>0. ASSUME UNCHANGED <<newest, latest>> PROVE \A t \in Universe : latest'[t] >= latest[t]
    BY <1>0, <1>t, LatestIsNumber
  <1>1. CASE Tick
    <2>1. now' \in BarLength .. MaxClock /\ activity' \in 0 .. now'
      BY <1>1, <1>t, MarketDataAssumption DEF Tick, GateTypes, engine
    <2>2. UNCHANGED <<active, newest, seen, latest, activity, rest, attempt, halted, decision>>
      BY <1>1 DEF Tick, tracker, engine, calls
    <2> QED
      BY <1>0, <1>t, <2>1, <2>2 DEF FeedInv, GateTypes, EngineFollowsTracker, HeardOnce
  <1>2. CASE Decide
    <2> DEFINE why == IF halted THEN "PORTFOLIO_HALTED" ELSE UniverseStatus
    <2>1. why \in UniverseStatuses
      BY DEF UniverseStatus, UniverseStatuses
    <2>2. why = "HEALTHY" => UniverseStatus = "HEALTHY"
      OBVIOUS
    <2>3. ASSUME why = "HEALTHY"
          PROVE  (CHOOSE b \in Bars : \E s \in Universe : latest[s] = b) \in Bars
      <3>1. PICK s \in Universe : TRUE
        BY MarketDataAssumption
      <3>2. latest[s] \in Bars
        BY <2>2, <2>3, HealthyCutoff
      <3> QED
        BY <3>2
    <2> HIDE DEF why
    <2>4. decision' = [why |-> why,
                       cutoff |-> IF why = "HEALTHY"
                                  THEN CHOOSE b \in Bars : \E s \in Universe : latest[s] = b
                                  ELSE 0]
      BY <1>2 DEF Decide, why
    <2>5. decision' \in [why : UniverseStatuses \cup {"NONE"}, cutoff : Bars \cup {0}]
      BY <2>1, <2>3, <2>4
    <2>6. UNCHANGED <<now, active, activity, newest, seen, latest, rest, attempt, halted>>
      BY <1>2 DEF Decide, tracker, engine, calls
    <2> QED
      BY <1>0, <1>t, <2>5, <2>6 DEF FeedInv, GateTypes, EngineFollowsTracker, HeardOnce
  <1>3. CASE PortfolioHalts
    BY <1>0, <1>t, <1>3 DEF PortfolioHalts, FeedInv, GateTypes, EngineFollowsTracker, HeardOnce,
       tracker, engine, calls
  <1>4. ASSUME NEW s \in Universe, FetchRest(s)
        PROVE  FeedInv' /\ \A t \in Universe : latest'[t] >= latest[t]
    <2>1. PICK n \in 1 .. MaxFetch :
              \E todo \in [1 .. n -> Candles] : rest' = [symbol |-> s, todo |-> todo]
      BY <1>4 DEF FetchRest
    <2>2. PICK todo \in [1 .. n -> Candles] : rest' = [symbol |-> s, todo |-> todo]
      BY <2>1
    <2>3. /\ rest' \in [symbol : Universe \cup {NoSymbol}, todo : Seq(Candles)]
          /\ rest'.todo # <<>>
      <3>1. todo \in Seq(Candles) /\ todo # <<>>
        BY <2>1, MarketDataAssumption
      <3> QED
        BY <2>2, <3>1
    <2>4. UNCHANGED <<now, active, activity, newest, seen, latest, attempt, halted, decision>>
      BY <1>4 DEF FetchRest, tracker, engine
    <2> QED
      BY <1>0, <1>t, <2>3, <2>4 DEF FeedInv, GateTypes, EngineFollowsTracker, HeardOnce
  <1>5. ASSUME NEW s \in Universe, TakeRest(s)
        PROVE  FeedInv' /\ \A t \in Universe : latest'[t] >= latest[t]
    <2> DEFINE c == Head(rest.todo)
    <2>1. /\ rest \in [symbol : Universe \cup {NoSymbol}, todo : Seq(Candles)]
          /\ rest.symbol = s /\ s # NoSymbol /\ rest.todo # <<>>
      BY <1>5, <1>t DEF GateTypes, TakeRest
    <2>2. c \in Candles /\ Tail(rest.todo) \in Seq(Candles)
      BY <2>1
    <2>3. Len(rest.todo) # 1 => Tail(rest.todo) # <<>>
      <3> DEFINE todo == rest.todo
      <3>1. todo \in Seq(Candles) /\ todo # <<>>
        BY <2>1
      <3> HIDE DEF todo
      <3>2. Len(todo) \in Nat /\ Len(todo) > 0
        BY <3>1
      <3>3. Len(Tail(todo)) = Len(todo) - 1
        BY <3>1
      <3>4. Len(todo) # 1 => Len(Tail(todo)) # 0
        BY <3>2, <3>3
      <3>5. Len(<<>>) = 0
        OBVIOUS
      <3>6. Len(todo) # 1 => Tail(todo) # <<>>
        BY <3>4, <3>5
      <3> QED
        BY <3>6 DEF todo
    <2>4. UNCHANGED <<now, attempt, halted, decision>>
      BY <1>5 DEF TakeRest
    <2>5. \/ RestDone
          \/ Len(rest.todo) # 1 /\ rest' = [rest EXCEPT !.todo = Tail(rest.todo)]
      BY <1>5 DEF TakeRest
    <2>6. /\ rest' \in [symbol : Universe \cup {NoSymbol}, todo : Seq(Candles)]
          /\ rest'.symbol # NoSymbol => rest'.todo # <<>>
      <3>1. CASE RestDone
        BY <3>1 DEF RestDone
      <3>2. CASE Len(rest.todo) # 1 /\ rest' = [rest EXCEPT !.todo = Tail(rest.todo)]
        BY <2>1, <2>2, <2>3, <3>2
      <3> QED BY <2>5, <3>1, <3>2
    <2>7. CASE ValidCandle(c)
      <3>1. Track(s, c) /\ Engage(s, c)
        BY <1>5, <2>7 DEF TakeRest
      <3> HIDE DEF c
      <3> QED
        BY <1>t, <2>2, <2>4, <2>6, <2>7, <3>1, TakingKeeps DEF FeedInv, GateTypes
    <2>8. CASE ~ValidCandle(c)
      <3>1. UNCHANGED <<newest, seen, latest, active, activity>>
        BY <1>5, <2>8 DEF TakeRest, tracker, engine
      <3> QED
        BY <1>0, <1>t, <2>4, <2>6, <3>1 DEF FeedInv, GateTypes, EngineFollowsTracker, HeardOnce
    <2> QED
      BY <2>7, <2>8
  <1>6. ASSUME NEW s \in Universe, NEW c \in Candles, Message(s, c)
        PROVE  FeedInv' /\ \A t \in Universe : latest'[t] >= latest[t]
    <2>1. ValidCandle(c) /\ Track(s, c) /\ Engage(s, c) /\ UNCHANGED <<now, rest, attempt, halted, decision>>
      BY <1>6 DEF Message, calls
    <2> QED
      BY <1>t, <2>1, TakingKeeps DEF FeedInv, GateTypes
  <1>7. CASE Heartbeat \/ AttemptSucceeds
    <2>1. /\ active' = TRUE /\ activity' = now /\ attempt' \in {attempt, 0}
          /\ UNCHANGED <<now, newest, seen, latest, rest, halted, decision>>
      BY <1>7 DEF Heartbeat, AttemptSucceeds, tracker, calls
    <2>2. attempt' \in 0 .. MaxAttempts /\ activity' \in 0 .. now'
      BY <1>t, <1>n, <2>1, MarketDataAssumption DEF GateTypes
    <2> QED
      BY <1>0, <1>t, <1>n, <2>1, <2>2 DEF FeedInv, GateTypes, EngineFollowsTracker, HeardOnce
  <1>8. CASE Disconnect \/ BeginReconnect
    <2>1. /\ active' = FALSE /\ attempt' \in {attempt, 1}
          /\ UNCHANGED <<now, activity, newest, seen, latest, rest, halted, decision>>
      BY <1>8 DEF Disconnect, BeginReconnect, tracker, calls
    <2>2. attempt' \in 0 .. MaxAttempts
      BY <1>t, <2>1, MarketDataAssumption DEF GateTypes
    <2> QED
      BY <1>0, <1>t, <2>1, <2>2 DEF FeedInv, GateTypes, EngineFollowsTracker, HeardOnce
  <1>9. CASE AttemptFails
    <2>1. UNCHANGED <<now, active, activity, newest, seen, latest, rest, halted, decision>>
      BY <1>9 DEF AttemptFails, tracker, engine
    <2>2. attempt' \in 0 .. MaxAttempts
      BY <1>t, <1>9, MarketDataAssumption DEF GateTypes, AttemptFails
    <2> QED
      BY <1>0, <1>t, <2>1, <2>2 DEF FeedInv, GateTypes, EngineFollowsTracker, HeardOnce
  <1>10. CASE UNCHANGED gateVars
    BY <1>0, <1>t, <1>10 DEF gateVars, tracker, engine, calls, FeedInv, GateTypes, EngineFollowsTracker, HeardOnce
  <1> QED
    BY <1>1, <1>2, <1>3, <1>4, <1>5, <1>6, <1>7, <1>8, <1>9, <1>10 DEF GateNext, Feed

-----------------------------------------------------------------------------
(* The theorems. *)

\* The invariant holds at every moment of a behaviour.
THEOREM FeedKeepsInv == GateSpec => []FeedInv
  <1>1. FeedInv /\ [GateNext]_gateVars => FeedInv'
    BY FeedStep
  <1> QED
    BY <1>1, FeedInit, PTL DEF GateSpec

\* The types: clock, bars, cache and attempts stay within their bounds.
THEOREM FeedTypeOK == GateSpec => []GateTypes
  <1>1. FeedInv => GateTypes
    BY DEF FeedInv
  <1> QED
    BY <1>1, FeedKeepsInv, PTL

\* Tracker and engine hold the same candle of every symbol.
THEOREM FeedEngineFollowsTracker == GateSpec => []EngineFollowsTracker
  <1>1. FeedInv => EngineFollowsTracker
    BY DEF FeedInv
  <1> QED
    BY <1>1, FeedKeepsInv, PTL

\* No symbol goes back to an earlier bar, whatever arrives and in what order.
THEOREM FeedNeverBackwards == GateSpec => NeverBackwards
  <1>1. FeedInv /\ [GateNext]_gateVars => [\A s \in Universe : latest'[s] >= latest[s]]_gateVars
    BY FeedStep
  <1> QED
    BY <1>1, FeedKeepsInv, PTL DEF GateSpec, NeverBackwards

\* What a step that lets no time pass does to what freshness is judged by.
LEMMA ActivityIsKept ==
    ASSUME FeedInv, [GateNext]_gateVars, now' = now
    PROVE  activity' \in {activity, now}
  <1>t. GateTypes
    BY DEF FeedInv
  <1>1. CASE UNCHANGED gateVars \/ Tick \/ Decide \/ PortfolioHalts \/ Disconnect \/ BeginReconnect
             \/ AttemptFails
    BY <1>1 DEF gateVars, Tick, Decide, PortfolioHalts, Disconnect, BeginReconnect, AttemptFails,
       tracker, engine
  <1>2. CASE Heartbeat \/ AttemptSucceeds
    BY <1>2 DEF Heartbeat, AttemptSucceeds
  <1>3. ASSUME NEW s \in Universe, FetchRest(s)
        PROVE  activity' = activity
    BY <1>3 DEF FetchRest, engine
  <1>4. ASSUME NEW s \in Universe, NEW c \in Candles, Message(s, c)
        PROVE  activity' \in {activity, now}
    BY <1>4, TakingKeeps DEF Message
  <1>5. ASSUME NEW s \in Universe, TakeRest(s)
        PROVE  activity' \in {activity, now}
    BY <1>5 DEF TakeRest, Engage, engine
  <1> QED
    BY <1>1, <1>2, <1>3, <1>4, <1>5 DEF GateNext, Feed

\* Nothing that is received makes a healthy symbol unhealthy.
THEOREM FeedOnlyTimeAndSilenceHurt == GateSpec => OnlyTimeAndSilenceHurt
  <1>1. FeedInv /\ [GateNext]_gateVars =>
          [now' = now /\ (active => active') =>
             \A s \in Universe : SymbolStatus(s) = "HEALTHY" => SymbolStatus(s)' = "HEALTHY"]_gateVars
    <2> SUFFICES ASSUME FeedInv, [GateNext]_gateVars, now' = now, active => active',
                        NEW s \in Universe, SymbolStatus(s) = "HEALTHY"
                 PROVE  SymbolStatus(s)' = "HEALTHY"
      OBVIOUS
    <2>t. GateTypes /\ GateTypes' /\ latest'[s] >= latest[s]
      BY FeedStep DEF FeedInv
    <2>1. active /\ ~Silent /\ latest[s] # 0 /\ ~(Age(s) > MaxDelay)
      BY HealthyMeans
    <2>2. latest[s] \in Nat /\ latest'[s] \in Nat
      <3>1. latest[s] \in Nat
        BY <2>t, LatestIsNumber
      <3>2. latest' \in [Universe -> Bars \cup {0}]
        BY <2>t DEF GateTypes
      <3>3. CASE latest'[s] \in Bars
        BY <3>1, <3>3 DEF Bars
      <3>4. CASE latest'[s] = 0
        BY <3>1, <3>4
      <3> QED
        BY <3>2, <3>3, <3>4
    <2>3. active' /\ latest'[s] # 0
      BY <2>1, <2>2, <2>t
    <2>4. ~Silent'
      <3>1. activity' \in {activity, now}
        BY ActivityIsKept
      <3>2. now \in Int /\ HeartbeatTimeout \in Nat
        BY <2>t, MarketDataAssumption DEF GateTypes
      <3> QED
        BY <2>1, <3>1, <3>2 DEF Silent
    <2>5. ~(Age(s)' > MaxDelay)
      <3> DEFINE due == (latest[s] + 1) * BarLength
                 later == (latest'[s] + 1) * BarLength
      <3>1. due <= later /\ due \in Int /\ later \in Int
        BY <2>2, <2>t, CloseIsMonotone, MarketDataAssumption
      <3>2. now \in Int /\ MaxDelay \in Nat
        BY <2>t, MarketDataAssumption DEF GateTypes
      <3>3. ~((IF now >= due THEN now - due ELSE 0) > MaxDelay)
        BY <2>1 DEF Age
      <3>4. Age(s)' = IF now >= later THEN now - later ELSE 0
        BY DEF Age
      <3> HIDE DEF due, later
      <3> QED
        BY <3>1, <3>2, <3>3, <3>4
    <2>6. SymbolStatus(s)' = "HEALTHY"
      BY <2>3, <2>4, <2>5 DEF SymbolStatus
    <2> QED
      BY <2>6
  <1> QED
    BY <1>1, FeedKeepsInv, PTL DEF GateSpec, OnlyTimeAndSilenceHurt

\* What the gate has to see to let a rebalance through.
LEMMA DecideIsSound ==
    ASSUME FeedInv, Decide, decision'.why = "HEALTHY"
    PROVE  /\ \A s \in Universe : newest[s] = decision'.cutoff
           /\ decision'.cutoff + 1 >= now \div BarLength
           /\ now - activity <= HeartbeatTimeout
           /\ ~halted
  <1>t. GateTypes /\ EngineFollowsTracker /\ HeardOnce
    BY DEF FeedInv
  <1> DEFINE why == IF halted THEN "PORTFOLIO_HALTED" ELSE UniverseStatus
             common == CHOOSE b \in Bars : \E s \in Universe : latest[s] = b
  <1>1. decision' = [why |-> why, cutoff |-> IF why = "HEALTHY" THEN common ELSE 0]
    BY DEF Decide, why
  <1>2. why = "HEALTHY" /\ decision'.cutoff = common
    BY <1>1
  <1>3. ~halted /\ UniverseStatus = "HEALTHY"
    BY <1>2, <1>t DEF GateTypes
  <1> HIDE DEF why
  <1>4. PICK u \in Universe : TRUE
    BY MarketDataAssumption
  <1>5. latest[u] \in Bars /\ \A s \in Universe : latest[s] = latest[u]
    BY <1>3, <1>4, HealthyCutoff
  <1>6. common = latest[u]
    BY <1>5
  <1> HIDE DEF common
  <1>7. \A s \in Universe : newest[s] = decision'.cutoff
    BY <1>2, <1>5, <1>6, <1>t DEF EngineFollowsTracker
  <1>8. active /\ ~Silent /\ latest[u] # 0 /\ ~(Age(u) > MaxDelay)
    BY <1>3, <1>4, HealthyCutoff, HealthyMeans
  <1>n. now \in Nat /\ activity \in Nat /\ latest[u] \in Nat
    BY <1>t, <1>4, LatestIsNumber, MarketDataAssumption DEF GateTypes
  <1>9. now - activity <= HeartbeatTimeout
    BY <1>8, <1>n, <1>t, MarketDataAssumption DEF Silent, HeardOnce
  <1>10. latest[u] + 1 >= now \div BarLength
    <2>1. BarLength \in Nat \ {0} /\ MaxDelay \in Nat /\ MaxDelay < BarLength
      BY MarketDataAssumption
    <2> DEFINE due == (latest[u] + 1) * BarLength
    <2>2. due \in Nat /\ (latest[u] + 2) * BarLength = due + BarLength
      BY <1>n, <2>1
    <2>3. ~((IF now >= due THEN now - due ELSE 0) > MaxDelay)
      BY <1>8 DEF Age
    <2> HIDE DEF due
    <2>4. now < (latest[u] + 2) * BarLength
      BY <2>1, <2>2, <2>3, <1>n
    <2> QED
      <3>1. now \div BarLength <= latest[u] + 1
        BY <2>4, <1>n, BarOfMoment
      <3>2. now \div BarLength \in Int
        BY <2>1, <1>n
      <3> QED
        BY <3>1, <3>2, <1>n
  <1> QED
    BY <1>2, <1>3, <1>6, <1>7, <1>9, <1>10

\* An executed rebalance saw every symbol at one bar that is current.
THEOREM FeedDecidedOnCurrentBar == GateSpec => DecidedOnCurrentBar
  <1>1. FeedInv /\ [GateNext]_gateVars =>
          [decision' # decision /\ decision'.why = "HEALTHY" =>
             /\ \A s \in Universe : newest[s] = decision'.cutoff
             /\ decision'.cutoff + 1 >= now \div BarLength
             /\ now - activity <= HeartbeatTimeout
             /\ ~halted]_gateVars
    <2> SUFFICES ASSUME FeedInv, GateNext, decision' # decision, decision'.why = "HEALTHY"
                 PROVE  /\ \A s \in Universe : newest[s] = decision'.cutoff
                        /\ decision'.cutoff + 1 >= now \div BarLength
                        /\ now - activity <= HeartbeatTimeout
                        /\ ~halted
      BY DEF gateVars
    <2>1. Decide
      BY DEF GateNext, Tick, PortfolioHalts, Feed, TakeRest, FetchRest, Message, Heartbeat, Disconnect,
         BeginReconnect, AttemptFails, AttemptSucceeds
    <2> QED
      BY <2>1, DecideIsSound
  <1> QED
    BY <1>1, FeedKeepsInv, PTL DEF GateSpec, DecidedOnCurrentBar

-----------------------------------------------------------------------------
(* The registry. *)

\* parent_model_ids name models of the same family.
SameFamily == \A m \in Models, p \in Models : p \in Parents[m] => FamilyOf[p] = FamilyOf[m]

\* Whoever is on record as champion has served.
RecordServed == \A f \in Families : champion[f].model \in served \cup {None}

IInv == RegistryInv /\ RecordServed

\* What the table of transitions allows.
LEMMA ValidStates ==
    ASSUME NEW s \in States
    PROVE  /\ Valid[s] \subseteq States
           /\ s \in {"DEMOTED", "SUSPENDED", "REJECTED", "ARCHIVED"} => "CHAMPION" \notin Valid[s]
           /\ s \in {"CHAMPION", "DEGRADED", "DRIFTING", "DEMOTED", "SUSPENDED", "REJECTED", "ARCHIVED"}
              => Valid[s] \subseteq {"CHAMPION", "DEGRADED", "DRIFTING", "DEMOTED", "SUSPENDED",
                                     "REJECTED", "ARCHIVED"}
  BY DEF Valid, States

LEMMA RegistryInit == Init => IInv
  BY LifecycleAssumption DEF Init, IInv, RegistryInv, TypeOK, TrailTellsStatus, RollbackTargetServed,
     AfterService, RecordServed, NoChampion

LEMMA RegistryStep == IInv /\ [Next]_vars => IInv'
  <1> SUFFICES ASSUME IInv, [Next]_vars PROVE IInv'
    OBVIOUS
  <1> USE LifecycleAssumption
  <1>t. TypeOK /\ TrailTellsStatus /\ RollbackTargetServed /\ AfterService /\ RecordServed
    BY DEF IInv, RegistryInv
  <1>1. ASSUME NEW m \in Models, Register(m) PROVE IInv'
    <2>1. TypeOK'
      BY <1>t, <1>1 DEF TypeOK, Register, States
    <2>2. TrailTellsStatus'
      BY <1>t, <1>1 DEF TrailTellsStatus, Register
    <2>3. AfterService'
      BY <1>t, <1>1 DEF AfterService, Register, TypeOK
    <2>4. RollbackTargetServed' /\ RecordServed'
      BY <1>t, <1>1 DEF RollbackTargetServed, RecordServed, Register
    <2> QED
      BY <2>1, <2>2, <2>3, <2>4 DEF IInv, RegistryInv
  <1>2. ASSUME NEW m \in Models, Transition(m) PROVE IInv'
    <2>1. PICK s \in Valid[status[m]] :
              /\ status' = [status EXCEPT ![m] = s]
              /\ told' = [told EXCEPT ![m] = s]
              /\ served' = IF s = "CHAMPION" THEN served \cup {m} ELSE served
              /\ UNCHANGED <<parent, champion>>
      BY <1>2 DEF Transition
    <2>2. status[m] \in States
      BY <1>t, <1>2 DEF TypeOK, Transition
    <2>3. s \in States
      BY <2>1, <2>2, ValidStates
    <2>4. TypeOK'
      BY <1>t, <2>1, <2>3 DEF TypeOK
    <2>5. TrailTellsStatus'
      BY <1>t, <2>1 DEF TrailTellsStatus
    <2>6. AfterService'
      <3> SUFFICES ASSUME NEW x \in served'
                   PROVE  status'[x] \in {"CHAMPION", "DEGRADED", "DRIFTING", "DEMOTED", "SUSPENDED",
                                          "REJECTED", "ARCHIVED"}
        BY DEF AfterService
      <3>1. CASE x = m
        <4>1. CASE m \in served
          BY <1>t, <2>1, <2>2, <3>1, <4>1, ValidStates DEF AfterService, TypeOK
        <4>2. CASE m \notin served
          BY <1>t, <2>1, <3>1, <4>2 DEF TypeOK
        <4> QED BY <4>1, <4>2
      <3>2. CASE x # m
        BY <1>t, <2>1, <3>2 DEF AfterService, TypeOK
      <3> QED BY <3>1, <3>2
    <2>7. RollbackTargetServed' /\ RecordServed'
      BY <1>t, <2>1 DEF RollbackTargetServed, RecordServed
    <2> QED
      BY <2>4, <2>5, <2>6, <2>7 DEF IInv, RegistryInv
  <1>3. ASSUME NEW m \in Models, Promote(m) PROVE IInv'
    <2> DEFINE f == FamilyOf[m]
               seated(g) == [x \in Models |-> IF x = m THEN "CHAMPION"
                                              ELSE IF x \in Superseded(f) THEN "ARCHIVED" ELSE g[x]]
    <2>1. /\ status' = seated(status) /\ told' = seated(told)
          /\ champion' = [champion EXCEPT ![f] = [model |-> m, back |-> @.model, promoted |-> TRUE]]
          /\ served' = served \cup {m} /\ parent' = parent
      BY <1>3 DEF Promote
    <2>2. f \in Families /\ champion[f].model \in Models \cup {None}
      BY <1>t DEF TypeOK, Records, NoChampion
    <2>3. champion' \in [Families -> Records \cup {NoChampion}]
      BY <1>t, <2>1, <2>2 DEF TypeOK, Records
    <2>4. TypeOK'
      BY <1>t, <2>1, <2>3 DEF TypeOK, States
    <2>5. TrailTellsStatus'
      BY <1>t, <2>1 DEF TrailTellsStatus
    <2>6. AfterService'
      BY <1>t, <2>1 DEF AfterService, TypeOK
    <2>7. RollbackTargetServed' /\ RecordServed'
      BY <1>t, <2>1, <2>2 DEF RollbackTargetServed, RecordServed, TypeOK
    <2> QED
      BY <2>4, <2>5, <2>6, <2>7 DEF IInv, RegistryInv
  <1>4. ASSUME NEW f \in Families, Rollback(f) PROVE IInv'
    <2> DEFINE c == champion[f].model
               target == champion[f].back
               swapped(g) == [x \in Models |-> IF x = target THEN "CHAMPION"
                                               ELSE IF x = c THEN "DEMOTED" ELSE g[x]]
    <2>1. /\ target # None
          /\ status' = swapped(status) /\ told' = swapped(told)
          /\ champion' = [champion EXCEPT ![f] = [model |-> target, back |-> parent[target],
                                                  promoted |-> FALSE]]
          /\ served' = served \cup {target} /\ parent' = parent
      BY <1>4 DEF Rollback
    <2>2. target \in Models
      BY <1>t, <2>1 DEF TypeOK, Records, NoChampion
    <2>3. champion' \in [Families -> Records \cup {NoChampion}]
      BY <1>t, <2>1, <2>2 DEF TypeOK, Records
    <2>4. TypeOK'
      BY <1>t, <2>1, <2>2, <2>3 DEF TypeOK, States
    <2>5. TrailTellsStatus'
      BY <1>t, <2>1 DEF TrailTellsStatus
    <2>6. AfterService'
      BY <1>t, <2>1, <2>2 DEF AfterService, TypeOK
    <2>7. RollbackTargetServed' /\ RecordServed'
      BY <1>t, <2>1, <2>2 DEF RollbackTargetServed, RecordServed, TypeOK
    <2> QED
      BY <2>4, <2>5, <2>6, <2>7 DEF IInv, RegistryInv
  <1>5. CASE UNCHANGED vars
    BY <1>t, <1>5 DEF IInv, RegistryInv, TypeOK, TrailTellsStatus, RollbackTargetServed, AfterService,
       RecordServed, vars
  <1> QED
    BY <1>1, <1>2, <1>3, <1>4, <1>5 DEF Next

\* Whatever is promoted, degraded and rolled back in whatever order: the trail
\* tells every status, a promoted champion's predecessor has served, and nobody
\* who has served is validated again.
THEOREM RegistryKeepsInv == Spec => []RegistryInv
  <1>1. IInv => RegistryInv
    BY DEF IInv
  <1> QED
    BY RegistryInit, RegistryStep, <1>1, PTL DEF Spec

-----------------------------------------------------------------------------
\* Training, championship and rollback stay within a family.
InFamily(m, f) == m = None \/ FamilyOf[m] = f

LineInv ==
    /\ TypeOK
    /\ \A m \in Models : InFamily(parent[m], FamilyOf[m])
    /\ \A f \in Families : InFamily(champion[f].model, f) /\ InFamily(champion[f].back, f)

LEMMA LineInit == Init => LineInv
  BY RegistryInit DEF IInv, RegistryInv, Init, LineInv, InFamily, NoChampion

LEMMA LineStep == SameFamily /\ IInv /\ LineInv /\ [Next]_vars => LineInv'
  <1> SUFFICES ASSUME SameFamily, IInv, LineInv, [Next]_vars PROVE LineInv'
    OBVIOUS
  <1> USE LifecycleAssumption
  <1>t. TypeOK /\ TypeOK'
    BY RegistryStep DEF IInv, RegistryInv
  <1>1. ASSUME NEW m \in Models, Register(m) PROVE LineInv'
    <2>1. PICK p \in Parents[m] : parent' = [parent EXCEPT ![m] = p]
      BY <1>1 DEF Register
    <2>2. InFamily(p, FamilyOf[m])
      BY <2>1 DEF SameFamily, InFamily
    <2>3. champion' = champion
      BY <1>1 DEF Register
    <2> QED
      BY <1>t, <2>1, <2>2, <2>3 DEF LineInv, InFamily, TypeOK
  <1>2. ASSUME NEW m \in Models, Transition(m) PROVE LineInv'
    BY <1>t, <1>2 DEF LineInv, InFamily, Transition
  <1>3. ASSUME NEW m \in Models, Promote(m) PROVE LineInv'
    BY <1>t, <1>3 DEF LineInv, InFamily, Promote, TypeOK
  <1>4. ASSUME NEW f \in Families, Rollback(f) PROVE LineInv'
    <2>1. champion[f].back \in Models
      BY <1>t, <1>4 DEF TypeOK, Records, NoChampion, Rollback
    <2> QED
      BY <1>t, <1>4, <2>1 DEF LineInv, InFamily, Rollback, TypeOK
  <1>5. CASE UNCHANGED vars
    BY <1>t, <1>5 DEF LineInv, InFamily, vars
  <1> QED
    BY <1>1, <1>2, <1>3, <1>4, <1>5 DEF Next

LEMMA OneChampionStep ==
    ~DirectCrowning /\ IInv /\ LineInv /\ OneChampion /\ [Next]_vars => OneChampion'
  <1> SUFFICES ASSUME ~DirectCrowning, IInv, LineInv, OneChampion, [Next]_vars,
                      NEW x \in Models, status'[x] = "CHAMPION"
               PROVE  champion'[FamilyOf[x]].model = x
    BY DEF OneChampion
  <1> USE LifecycleAssumption
  <1>t. TypeOK
    BY DEF IInv, RegistryInv
  <1>1. ASSUME NEW m \in Models, Register(m) PROVE champion'[FamilyOf[x]].model = x
    BY <1>t, <1>1 DEF Register, OneChampion, TypeOK
  <1>2. ASSUME NEW m \in Models, Transition(m) PROVE champion'[FamilyOf[x]].model = x
    BY <1>t, <1>2 DEF Transition, OneChampion, TypeOK
  <1>3. ASSUME NEW m \in Models, Promote(m) PROVE champion'[FamilyOf[x]].model = x
    <2>1. CASE x = m
      BY <1>t, <1>3, <2>1 DEF Promote, TypeOK
    <2>2. CASE x # m
      <3>1. x \notin Superseded(FamilyOf[m]) /\ status[x] = "CHAMPION"
        BY <1>t, <1>3, <2>2 DEF Promote
      <3>2. champion[FamilyOf[x]].model = x
        BY <3>1 DEF OneChampion
      <3>3. FamilyOf[x] # FamilyOf[m]
        BY <3>1, <3>2 DEF Superseded
      <3> QED
        BY <1>t, <1>3, <3>2, <3>3 DEF Promote, TypeOK
    <2> QED BY <2>1, <2>2
  <1>4. ASSUME NEW f \in Families, Rollback(f) PROVE champion'[FamilyOf[x]].model = x
    <2> DEFINE target == champion[f].back
    <2>1. CASE x = target
      <3>1. FamilyOf[x] = f
        BY <1>4, <2>1 DEF LineInv, InFamily, Rollback
      <3> QED
        BY <1>t, <1>4, <2>1, <3>1 DEF Rollback, TypeOK
    <2>2. CASE x # target
      <3>1. x # champion[f].model /\ status[x] = "CHAMPION"
        BY <1>t, <1>4, <2>2 DEF Rollback
      <3>2. champion[FamilyOf[x]].model = x
        BY <3>1 DEF OneChampion
      <3> QED
        BY <1>t, <1>4, <3>1, <3>2 DEF Rollback, TypeOK
    <2> QED BY <2>1, <2>2
  <1>5. CASE UNCHANGED vars
    BY <1>5 DEF vars, OneChampion
  <1> QED
    BY <1>1, <1>2, <1>3, <1>4, <1>5 DEF Next

\* What RevivedByRollback says of a step.
Revived ==
    \A m \in Models :
        /\ status[m] \in {"ARCHIVED", "REJECTED", "SUSPENDED", "DEMOTED"}
        /\ status'[m] = "CHAMPION"
        => champion[FamilyOf[m]].back = m /\ champion'[FamilyOf[m]].model = m

LEMMA RevivalStep == IInv /\ LineInv /\ [Next]_vars => [Revived]_vars
  <1> SUFFICES ASSUME IInv, LineInv, [Next]_vars, NEW x \in Models,
                      status[x] \in {"ARCHIVED", "REJECTED", "SUSPENDED", "DEMOTED"},
                      status'[x] = "CHAMPION"
               PROVE  champion[FamilyOf[x]].back = x /\ champion'[FamilyOf[x]].model = x
    BY DEF Revived
  <1> USE LifecycleAssumption
  <1>t. TypeOK
    BY DEF IInv, RegistryInv
  <1>1. ASSUME NEW m \in Models, Register(m) PROVE FALSE
    BY <1>t, <1>1 DEF Register, TypeOK
  <1>2. ASSUME NEW m \in Models, Transition(m) PROVE FALSE
    <2>1. PICK s \in Valid[status[m]] : status' = [status EXCEPT ![m] = s]
      BY <1>2 DEF Transition
    <2>2. x = m /\ s = "CHAMPION"
      BY <1>t, <2>1 DEF TypeOK
    <2>3. status[x] \in States
      BY DEF States
    <2> QED
      BY <2>1, <2>2, <2>3, ValidStates
  <1>3. ASSUME NEW m \in Models, Promote(m) PROVE FALSE
    BY <1>t, <1>3 DEF Promote, Promotable, TypeOK
  <1>4. ASSUME NEW f \in Families, Rollback(f)
        PROVE  champion[FamilyOf[x]].back = x /\ champion'[FamilyOf[x]].model = x
    <2>1. x = champion[f].back
      BY <1>t, <1>4 DEF Rollback
    <2>2. FamilyOf[x] = f
      BY <2>1 DEF LineInv, InFamily
    <2> QED
      BY <1>t, <1>4, <2>1, <2>2 DEF Rollback, TypeOK
  <1>5. CASE UNCHANGED vars
    BY <1>5 DEF vars
  <1> QED
    BY <1>1, <1>2, <1>3, <1>4, <1>5 DEF Next

\* "Enforces exactly one active Champion per model family", through promotions
\* beside a degraded champion and repeated rollbacks.
THEOREM RegistryOneChampion ==
    ASSUME SameFamily, ~DirectCrowning
    PROVE  Spec => []OneChampion
  <1>1. Init => IInv /\ LineInv /\ OneChampion
    BY RegistryInit, LineInit DEF Init, OneChampion
  <1>2. IInv /\ LineInv /\ OneChampion /\ [Next]_vars => (IInv /\ LineInv /\ OneChampion)'
    BY RegistryStep, LineStep, OneChampionStep
  <1> QED
    BY <1>1, <1>2, PTL DEF Spec

\* A model that was retired serves again only by a rollback of its family's
\* champion that goes back to it.
THEOREM RegistryRevivedByRollback ==
    ASSUME SameFamily
    PROVE  Spec => RevivedByRollback
  <1>1. Init => IInv /\ LineInv
    BY RegistryInit, LineInit
  <1>2. IInv /\ LineInv /\ [Next]_vars => (IInv /\ LineInv)'
    BY RegistryStep, LineStep
  <1> QED
    BY <1>1, <1>2, RevivalStep, PTL DEF Spec, RevivedByRollback, Revived

-----------------------------------------------------------------------------
(* The judgement of a model *)

\* Severities are numbered by what they are worth.
LEMMA GraveIs ==
    Grave("NONE") = 1 /\ Grave("LOW") = 2 /\ Grave("MODERATE") = 3 /\ Grave("HIGH") = 4
BY DEF Grave, Severities

\* Worse numbers never make a drift less severe.
THEOREM SeverityGrows ==
    ASSUME NEW psi \in Int, NEW p \in Int, NEW ks \in Int,
           NEW psi2 \in Int, NEW p2 \in Int, NEW ks2 \in Int, psi <= psi2, p >= p2, ks <= ks2
    PROVE  Grave(Severity(psi, p, ks)) <= Grave(Severity(psi2, p2, ks2))
<1>1. CASE psi2 > 25 \/ (p2 < 10 /\ ks2 > 30)
  <2>1. Severity(psi2, p2, ks2) = "HIGH"
    BY <1>1 DEF Severity
  <2>2. Severity(psi, p, ks) \in {"NONE", "LOW", "MODERATE", "HIGH"}
    BY DEF Severity
  <2> QED
    BY <2>1, <2>2, GraveIs
<1>2. CASE ~(psi2 > 25 \/ (p2 < 10 /\ ks2 > 30)) /\ (psi2 > 10 \/ (p2 < 1000 /\ ks2 > 15))
  <2>1. Severity(psi2, p2, ks2) = "MODERATE"
    BY <1>2 DEF Severity
  <2>2. Severity(psi, p, ks) \in {"NONE", "LOW", "MODERATE"}
    BY <1>2 DEF Severity
  <2> QED
    BY <2>1, <2>2, GraveIs
<1>3. CASE ~(psi2 > 10 \/ (p2 < 1000 /\ ks2 > 15)) /\ ~(psi2 > 25 \/ (p2 < 10 /\ ks2 > 30))
           /\ p2 < 1000
  <2>1. Severity(psi2, p2, ks2) = "LOW"
    BY <1>3 DEF Severity
  <2>2. Severity(psi, p, ks) \in {"NONE", "LOW"}
    BY <1>3 DEF Severity
  <2> QED
    BY <2>1, <2>2, GraveIs
<1>4. CASE ~(psi2 > 10 \/ (p2 < 1000 /\ ks2 > 15)) /\ ~(psi2 > 25 \/ (p2 < 10 /\ ks2 > 30))
           /\ ~(p2 < 1000)
  <2>1. Severity(psi2, p2, ks2) = "NONE" /\ Severity(psi, p, ks) = "NONE"
    BY <1>4 DEF Severity
  <2> QED
    BY <2>1, GraveIs
<1> QED
  BY <1>1, <1>2, <1>3, <1>4

\* So are the states of health.
LEMMA IllIs ==
    Ill("HEALTHY") = 1 /\ Ill("DEGRADED") = 2 /\ Ill("DRIFTING") = 3 /\ Ill("UNRELIABLE") = 4
    /\ Ill("SUSPENDED") = 5
BY DEF Ill, HealthStates

\* What raises an alert.
Alerting(e) == {x \in {"calibration", "features", "prediction", "hits"} :
                   CASE x = "calibration" -> e.ece > 15
                     [] x = "features"    -> e.high >= 3
                     [] x = "prediction"  -> e.prediction = "HIGH"
                     [] x = "hits"        -> e.hits < 40}

\* Alerts are counted.
LEMMA AlertsType ==
    ASSUME NEW e
    PROVE  IsFiniteSet(Alerting(e)) /\ Alerts(e) = Cardinality(Alerting(e)) /\ Alerts(e) \in Nat
<1>1. IsFiniteSet({"calibration", "features", "prediction", "hits"})
  <2>1. IsFiniteSet({} \cup {"calibration"})
    BY FS_EmptySet, FS_AddElement
  <2>2. IsFiniteSet(({} \cup {"calibration"}) \cup {"features"})
    BY <2>1, FS_AddElement
  <2>3. IsFiniteSet((({} \cup {"calibration"}) \cup {"features"}) \cup {"prediction"})
    BY <2>2, FS_AddElement
  <2>4. IsFiniteSet(((({} \cup {"calibration"}) \cup {"features"}) \cup {"prediction"}) \cup {"hits"})
    BY <2>3, FS_AddElement
  <2>5. {"calibration", "features", "prediction", "hits"}
          = ((({} \cup {"calibration"}) \cup {"features"}) \cup {"prediction"}) \cup {"hits"}
    OBVIOUS
  <2> QED
    BY <2>4, <2>5
<1>2. IsFiniteSet(Alerting(e))
  BY <1>1, FS_Subset DEF Alerting
<1>3. Alerts(e) = Cardinality(Alerting(e))
  BY DEF Alerts, Alerting
<1> QED
  BY <1>2, <1>3, FS_CardinalityType

\* The scores of an evidence.
LEMMA ScoresType ==
    ASSUME NEW e \in Evidence
    PROVE  /\ Calibration(e) \in 5 .. 25 /\ Features(e) \in {7, 15, 21, 25}
           /\ Prediction(e) \in {7, 15, 25} /\ Performance(e) \in {7, 17, 25}
           /\ Score(e) = Calibration(e) + Features(e) + Prediction(e) + Performance(e)
           /\ Health(e) \in {"HEALTHY", "DEGRADED", "DRIFTING", "UNRELIABLE", "SUSPENDED"}
<1>1. Calibration(e) \in 5 .. 25
  BY DEF Calibration, Evidence
<1>2. Features(e) \in {7, 15, 21, 25}
  BY DEF Features, Evidence
<1>3. Prediction(e) \in {7, 15, 25} /\ Performance(e) \in {7, 17, 25}
  BY DEF Prediction, Performance, Evidence
<1>4. Health(e) \in {"HEALTHY", "DEGRADED", "DRIFTING", "UNRELIABLE", "SUSPENDED"}
  BY DEF Health
<1> QED
  BY <1>1, <1>2, <1>3, <1>4 DEF Score

\* What lowers no score and takes back no alert gives no better state.
LEMMA HealthFollows ==
    ASSUME NEW e \in Evidence, NEW f \in Evidence,
           Calibration(f) <= Calibration(e), Features(f) <= Features(e),
           Prediction(f) <= Prediction(e), Performance(f) <= Performance(e),
           Alerting(e) \subseteq Alerting(f)
    PROVE  Ill(Health(e)) <= Ill(Health(f))
<1>1. Score(f) <= Score(e) /\ Score(f) \in Int /\ Score(e) \in Int
  BY ScoresType
<1>2. Alerts(e) <= Alerts(f) /\ Alerts(e) \in Nat /\ Alerts(f) \in Nat
  BY AlertsType, FS_Subset
<1>3. Prediction(e) \in Int /\ Prediction(f) \in Int /\ Features(e) \in Int /\ Features(f) \in Int
  BY ScoresType
<1>4. CASE Alerts(f) >= 3 \/ Score(f) < 40
  <2>1. Health(f) = "SUSPENDED"
    BY <1>4 DEF Health
  <2> QED
    BY <2>1, IllIs, ScoresType
<1>5. CASE ~(Alerts(f) >= 3 \/ Score(f) < 40) /\ (Alerts(f) >= 2 \/ Score(f) < 60)
  <2>1. Health(f) = "UNRELIABLE" /\ Health(e) # "SUSPENDED"
    BY <1>1, <1>2, <1>5 DEF Health
  <2> QED
    BY <2>1, IllIs, ScoresType
<1>6. CASE /\ ~(Alerts(f) >= 3 \/ Score(f) < 40) /\ ~(Alerts(f) >= 2 \/ Score(f) < 60)
           /\ (Prediction(f) <= 15 \/ Features(f) <= 15 \/ Score(f) < 75)
  <2>1. Health(f) = "DRIFTING" /\ Health(e) \notin {"SUSPENDED", "UNRELIABLE"}
    BY <1>1, <1>2, <1>6 DEF Health
  <2> QED
    BY <2>1, IllIs, ScoresType
<1>7. CASE /\ ~(Alerts(f) >= 3 \/ Score(f) < 40) /\ ~(Alerts(f) >= 2 \/ Score(f) < 60)
           /\ ~(Prediction(f) <= 15 \/ Features(f) <= 15 \/ Score(f) < 75)
  <2>1. Health(e) = (IF Score(e) < 90 THEN "DEGRADED" ELSE "HEALTHY")
    BY <1>1, <1>2, <1>3, <1>7 DEF Health
  <2>2. Health(f) = (IF Score(f) < 90 THEN "DEGRADED" ELSE "HEALTHY")
    BY <1>7 DEF Health
  <2> QED
    BY <1>1, <2>1, <2>2, IllIs
<1> QED
  BY <1>4, <1>5, <1>6, <1>7

\* What raises an alert.
LEMMA AlertingIs ==
    ASSUME NEW e
    PROVE  \A x : x \in Alerting(e) <=> \/ (x = "calibration" /\ e.ece > 15)
                                         \/ (x = "features" /\ e.high >= 3)
                                         \/ (x = "prediction" /\ e.prediction = "HIGH")
                                         \/ (x = "hits" /\ e.hits < 40)
<1>1. "calibration" \in Alerting(e) <=> e.ece > 15
  BY DEF Alerting
<1>2. "features" \in Alerting(e) <=> e.high >= 3
  BY DEF Alerting
<1>3. "prediction" \in Alerting(e) <=> e.prediction = "HIGH"
  BY DEF Alerting
<1>4. "hits" \in Alerting(e) <=> e.hits < 40
  BY DEF Alerting
<1>5. Alerting(e) \subseteq {"calibration", "features", "prediction", "hits"}
  BY DEF Alerting
<1> QED
  BY <1>1, <1>2, <1>3, <1>4, <1>5

\* Evidence that is worse in one respect lowers no score and takes back no alert.
LEMMA WorseScores ==
    ASSUME NEW e \in Evidence, NEW f \in Worse(e)
    PROVE  /\ f \in Evidence
           /\ Calibration(f) <= Calibration(e) /\ Features(f) <= Features(e)
           /\ Prediction(f) <= Prediction(e) /\ Performance(f) <= Performance(e)
           /\ Alerting(e) \subseteq Alerting(f)
<1>0. /\ e.ece \in Nat /\ e.slopeOff \in BOOLEAN /\ e.high \in Nat /\ e.moderate \in Nat
      /\ e.prediction \in {"NONE", "LOW", "MODERATE", "HIGH"} /\ e.hits \in 0 .. 100
  BY DEF Evidence
<1>1. CASE f = [e EXCEPT !.ece = e.ece + 1]
  <2>1. /\ f \in Evidence /\ f.ece = e.ece + 1 /\ f.slopeOff = e.slopeOff /\ f.high = e.high
        /\ f.moderate = e.moderate /\ f.prediction = e.prediction /\ f.hits = e.hits
    BY <1>0, <1>1 DEF Evidence
  <2>2. Calibration(f) <= Calibration(e)
    BY <1>0, <2>1 DEF Calibration
  <2>3. Features(f) <= Features(e)
    BY <1>0, <2>1 DEF Features
  <2>4. Prediction(f) <= Prediction(e) /\ Performance(f) <= Performance(e)
    BY <1>0, <2>1 DEF Prediction, Performance
  <2>5. Alerting(e) \subseteq Alerting(f)
    BY <1>0, <2>1, AlertingIs
  <2> QED
    BY <2>1, <2>2, <2>3, <2>4, <2>5
<1>2. CASE f = [e EXCEPT !.slopeOff = TRUE]
  <2>1. /\ f \in Evidence /\ f.ece = e.ece /\ f.slopeOff = TRUE /\ f.high = e.high
        /\ f.moderate = e.moderate /\ f.prediction = e.prediction /\ f.hits = e.hits
    BY <1>0, <1>2 DEF Evidence
  <2>2. Calibration(f) <= Calibration(e)
    BY <1>0, <2>1 DEF Calibration
  <2>3. Features(f) <= Features(e)
    BY <1>0, <2>1 DEF Features
  <2>4. Prediction(f) <= Prediction(e) /\ Performance(f) <= Performance(e)
    BY <1>0, <2>1 DEF Prediction, Performance
  <2>5. Alerting(e) \subseteq Alerting(f)
    BY <1>0, <2>1, AlertingIs
  <2> QED
    BY <2>1, <2>2, <2>3, <2>4, <2>5
<1>3. CASE f = [e EXCEPT !.high = e.high + 1]
  <2>1. /\ f \in Evidence /\ f.ece = e.ece /\ f.slopeOff = e.slopeOff /\ f.high = e.high + 1
        /\ f.moderate = e.moderate /\ f.prediction = e.prediction /\ f.hits = e.hits
    BY <1>0, <1>3 DEF Evidence
  <2>2. Calibration(f) <= Calibration(e)
    BY <1>0, <2>1 DEF Calibration
  <2>3. Features(f) <= Features(e)
    BY <1>0, <2>1 DEF Features
  <2>4. Prediction(f) <= Prediction(e) /\ Performance(f) <= Performance(e)
    BY <1>0, <2>1 DEF Prediction, Performance
  <2>5. Alerting(e) \subseteq Alerting(f)
    BY <1>0, <2>1, AlertingIs
  <2> QED
    BY <2>1, <2>2, <2>3, <2>4, <2>5
<1>4. CASE f = [e EXCEPT !.moderate = e.moderate + 1]
  <2>1. /\ f \in Evidence /\ f.ece = e.ece /\ f.slopeOff = e.slopeOff /\ f.high = e.high
        /\ f.moderate = e.moderate + 1 /\ f.prediction = e.prediction /\ f.hits = e.hits
    BY <1>0, <1>4 DEF Evidence
  <2>2. Calibration(f) <= Calibration(e)
    BY <1>0, <2>1 DEF Calibration
  <2>3. Features(f) <= Features(e)
    BY <1>0, <2>1 DEF Features
  <2>4. Prediction(f) <= Prediction(e) /\ Performance(f) <= Performance(e)
    BY <1>0, <2>1 DEF Prediction, Performance
  <2>5. Alerting(e) \subseteq Alerting(f)
    BY <1>0, <2>1, AlertingIs
  <2> QED
    BY <2>1, <2>2, <2>3, <2>4, <2>5
<1>5. CASE f = [e EXCEPT !.prediction =
                    Severities[IF e.prediction = "HIGH" THEN 4 ELSE Grave(e.prediction) + 1]]
  <2> DEFINE next == Severities[IF e.prediction = "HIGH" THEN 4 ELSE Grave(e.prediction) + 1]
  <2>1. /\ next \in {"NONE", "LOW", "MODERATE", "HIGH"}
        /\ e.prediction \in {"MODERATE", "HIGH"} => next = "HIGH"
    BY <1>0, GraveIs DEF Severities
  <2> HIDE DEF next
  <2>2. /\ f \in Evidence /\ f.ece = e.ece /\ f.slopeOff = e.slopeOff /\ f.high = e.high
        /\ f.moderate = e.moderate /\ f.prediction = next /\ f.hits = e.hits
    BY <1>0, <1>5, <2>1 DEF Evidence, next
  <2>3. Prediction(f) <= Prediction(e) /\ Performance(f) <= Performance(e)
    BY <1>0, <2>1, <2>2 DEF Prediction, Performance
  <2>4. Calibration(f) <= Calibration(e) /\ Features(f) <= Features(e)
    BY <1>0, <2>2 DEF Calibration, Features
  <2>5. Alerting(e) \subseteq Alerting(f)
    BY <1>0, <2>1, <2>2, AlertingIs
  <2> QED
    BY <2>2, <2>3, <2>4, <2>5
<1>6. CASE /\ f = [[e EXCEPT !.high = e.high + 1] EXCEPT !.moderate = e.moderate - 1]
           /\ e.moderate > 0
  <2>0. e.moderate - 1 \in Nat
    BY <1>0, <1>6
  <2> DEFINE g == [e EXCEPT !.high = e.high + 1]
  <2>1. /\ g \in Evidence /\ g.ece = e.ece /\ g.slopeOff = e.slopeOff /\ g.high = e.high + 1
        /\ g.moderate = e.moderate /\ g.prediction = e.prediction /\ g.hits = e.hits
    BY <1>0 DEF Evidence
  <2> HIDE DEF g
  <2>2. f = [g EXCEPT !.moderate = e.moderate - 1]
    BY <1>6 DEF g
  <2>3. /\ f \in Evidence /\ f.ece = e.ece /\ f.slopeOff = e.slopeOff /\ f.high = e.high + 1
        /\ f.moderate = e.moderate - 1 /\ f.prediction = e.prediction /\ f.hits = e.hits
    BY <2>0, <2>1, <2>2 DEF Evidence
  <2>4. Calibration(f) <= Calibration(e)
    BY <1>0, <2>3 DEF Calibration
  <2>5. Features(f) <= Features(e)
    BY <1>0, <2>3 DEF Features
  <2>6. Prediction(f) <= Prediction(e) /\ Performance(f) <= Performance(e)
    BY <1>0, <2>3 DEF Prediction, Performance
  <2>7. Alerting(e) \subseteq Alerting(f)
    BY <1>0, <2>3, AlertingIs
  <2> QED
    BY <2>3, <2>4, <2>5, <2>6, <2>7
<1>7. CASE f = [e EXCEPT !.hits = e.hits - 1] /\ e.hits > 0
  <2>1. /\ f \in Evidence /\ f.ece = e.ece /\ f.slopeOff = e.slopeOff /\ f.high = e.high
        /\ f.moderate = e.moderate /\ f.prediction = e.prediction /\ f.hits = e.hits - 1
    BY <1>0, <1>7 DEF Evidence
  <2>2. Calibration(f) <= Calibration(e)
    BY <1>0, <2>1 DEF Calibration
  <2>3. Features(f) <= Features(e)
    BY <1>0, <2>1 DEF Features
  <2>4. Prediction(f) <= Prediction(e) /\ Performance(f) <= Performance(e)
    BY <1>0, <2>1 DEF Prediction, Performance
  <2>5. Alerting(e) \subseteq Alerting(f)
    BY <1>0, <2>1, AlertingIs
  <2> QED
    BY <2>1, <2>2, <2>3, <2>4, <2>5
<1> QED
  BY <1>1, <1>2, <1>3, <1>4, <1>5, <1>6, <1>7 DEF Worse

\* assess_health: evidence that is worse in one respect never gives a better state.
THEOREM HealthWorsens ==
    ASSUME NEW e \in Evidence, NEW f \in Worse(e)
    PROVE  Ill(Health(e)) <= Ill(Health(f))
BY WorseScores, HealthFollows

\* Every alert costs its score at least fifteen points, so that a model with one
\* is not HEALTHY, and with two it is UNRELIABLE or SUSPENDED.
LEMMA AlertsTell ==
    ASSUME NEW e \in Evidence
    PROVE  /\ Alerts(e) > 0 => Health(e) # "HEALTHY"
           /\ Alerts(e) >= 2 => Health(e) \in {"UNRELIABLE", "SUSPENDED"}
<1>1. ASSUME Alerts(e) > 0 PROVE Health(e) # "HEALTHY"
  <2>1. Alerting(e) # {}
    BY <1>1, AlertsType, FS_EmptySet
  <2>2. e.ece > 15 \/ e.high >= 3 \/ e.prediction = "HIGH" \/ e.hits < 40
    BY <2>1, AlertingIs
  <2>3. Calibration(e) <= 10 \/ Features(e) <= 10 \/ Prediction(e) <= 10 \/ Performance(e) <= 10
    <3>1. CASE e.ece > 15
      BY <3>1 DEF Calibration, Evidence
    <3>2. CASE e.high >= 3
      BY <3>2 DEF Features
    <3>3. CASE e.prediction = "HIGH"
      BY <3>3 DEF Prediction
    <3>4. CASE e.hits < 40
      BY <3>4 DEF Performance
    <3> QED
      BY <2>2, <3>1, <3>2, <3>3, <3>4
  <2>4. Score(e) < 90
    BY <2>3, ScoresType
  <2> QED
    BY <2>4 DEF Health
<1>2. ASSUME Alerts(e) >= 2 PROVE Health(e) \in {"UNRELIABLE", "SUSPENDED"}
  BY <1>2 DEF Health
<1> QED
  BY <1>1, <1>2

\* A gate that fails is in the list.
LEMMA GateFails ==
    ASSUME NEW d, NEW health
    PROVE  /\ ~d.artifact => FailedGates(d, health) # {}
           /\ ~d.leakFree => FailedGates(d, health) # {}
           /\ (d.ece > 8 \/ d.brierGap > 2) => FailedGates(d, health) # {}
           /\ ~d.monotonic => FailedGates(d, health) # {}
           /\ health \notin {"HEALTHY", "DEGRADED", "DRIFTING"} => FailedGates(d, health) # {}
           /\ (d.sharpeGap < -20 \/ d.returnGap < -10) => FailedGates(d, health) # {}
           /\ (d.meanDrawdown > 170 \/ d.worstDrawdown > 200) => FailedGates(d, health) # {}
           /\ (d.latency > 50 \/ d.failing) => FailedGates(d, health) # {}
           /\ ~d.approved => FailedGates(d, health) # {}
<1>1. ~d.artifact => 1 \in FailedGates(d, health)
  BY DEF FailedGates
<1>2. ~d.leakFree => 2 \in FailedGates(d, health)
  BY DEF FailedGates
<1>3. (d.ece > 8 \/ d.brierGap > 2) => 3 \in FailedGates(d, health)
  BY DEF FailedGates
<1>4. ~d.monotonic => 4 \in FailedGates(d, health)
  BY DEF FailedGates
<1>5. health \notin {"HEALTHY", "DEGRADED", "DRIFTING"} => 5 \in FailedGates(d, health)
  BY DEF FailedGates
<1>6. (d.sharpeGap < -20 \/ d.returnGap < -10) => 6 \in FailedGates(d, health)
  BY DEF FailedGates
<1>7. (d.meanDrawdown > 170 \/ d.worstDrawdown > 200) => 7 \in FailedGates(d, health)
  BY DEF FailedGates
<1>8. (d.latency > 50 \/ d.failing) => 8 \in FailedGates(d, health)
  BY DEF FailedGates
<1>9. ~d.approved => 10 \in FailedGates(d, health)
  BY DEF FailedGates
<1> QED
  BY <1>1, <1>2, <1>3, <1>4, <1>5, <1>6, <1>7, <1>8, <1>9

\* evaluate_all_gates: a gate that fails rejects the candidate, whatever else is
\* excellent and however many shadow predictions are missing; a candidate that
\* waits for them is not promoted; and a model with two alerts is rejected.
THEOREM GatesClose ==
    ASSUME NEW d, NEW e \in Evidence
    PROVE  /\ FailedGates(d, Health(e)) # {} => Decision(d, Health(e)) = "REJECT"
           /\ Alerts(e) >= 2 => Decision(d, Health(e)) = "REJECT"
           /\ Pending(d) => Decision(d, Health(e)) # "PROMOTE"
<1>1. Alerts(e) >= 2 => FailedGates(d, Health(e)) # {}
  BY AlertsTell, GateFails
<1> QED
  BY <1>1 DEF Decision

-----------------------------------------------------------------------------
(* The inputs of the run *)

\* What the run gives the algorithms is not touched by the steps of the accounts.
InputType == /\ Given("drift") => input[2] \in Statistics
             /\ Given("health") => input[2] \in Cases

\* Only accounts see steps: an input of any other kind stays as it is.
LEMMA InputsStay ==
    ASSUME NEW kind \in {"drift", "health", "policy", "folds", "windows", "ranks", "vols", "curve",
                         "trade", "targets", "calls", "days", "wishes", "study", "shadow"},
           [ResearchNext]_<<vars, input>>
    PROVE  Given(kind)' => Given(kind) /\ input' = input
BY DEF ResearchNext, Trade, Validate, Rebalance, Given

\* The cases of the run are evidence of the theorem.
LEMMA CasesAreEvidence == Cases \subseteq Evidence
BY DEF Cases, Evidence

\* What the judgement is asked about.
LEMMA InputTyped == ResearchSpec => []InputType
<1>1. ASSUME ResearchInit PROVE InputType
  BY <1>1 DEF ResearchInit, Inputs, NoInput, InputType, Given
<1>2. ASSUME InputType, [ResearchNext]_<<vars, input>> PROVE InputType'
  <2>1. Given("drift")' => Given("drift") /\ input' = input
    BY <1>2, InputsStay
  <2>2. Given("health")' => Given("health") /\ input' = input
    BY <1>2, InputsStay
  <2> QED
    BY <1>2, <2>1, <2>2 DEF InputType
<1> QED
  BY <1>1, <1>2, PTL DEF ResearchSpec

\* A candidate with one thing wrong fails a gate, waiting or not.
LEMMA SpoiltFails ==
    ASSUME NEW d \in Spoilt, NEW n \in {19, 20}, NEW health
    PROVE  FailedGates([d EXCEPT !.shadow = n], health) # {}
<1> DEFINE x == [d EXCEPT !.shadow = n]
<1>1. \/ ~x.artifact \/ ~x.leakFree \/ ~x.monotonic \/ ~x.approved \/ x.ece > 8 \/ x.brierGap > 2
      \/ x.sharpeGap < -20 \/ x.returnGap < -10 \/ x.meanDrawdown > 170 \/ x.worstDrawdown > 200
      \/ x.latency > 50 \/ x.failing
  BY DEF Spoilt, Good
<1> HIDE DEF x
<1> QED
  <2>1. FailedGates(x, health) # {}
    BY <1>1, GateFails
  <2> QED
    BY <2>1 DEF x

\* EvidenceIsHeard: whatever the run gives, worse evidence never makes a model
\* better, and a failure anywhere closes the gates.
THEOREM EvidenceStaysHeard == ResearchSpec => []EvidenceIsHeard
<1>1. InputType => SeverityIsMonotone
  <2> SUFFICES ASSUME InputType, Given("drift"), NEW y \in Statistics,
                      input[2].psi <= y.psi, input[2].p >= y.p, input[2].ks <= y.ks
               PROVE  Grave(Severity(input[2].psi, input[2].p, input[2].ks))
                         <= Grave(Severity(y.psi, y.p, y.ks))
    BY DEF SeverityIsMonotone
  <2>1. input[2] \in Statistics
    BY DEF InputType
  <2>2. /\ input[2].psi \in Int /\ input[2].p \in Int /\ input[2].ks \in Int
        /\ y.psi \in Int /\ y.p \in Int /\ y.ks \in Int
    BY <2>1 DEF Statistics
  <2> QED
    BY <2>2, SeverityGrows
<1>2. InputType => HealthIsMonotone
  <2> SUFFICES ASSUME InputType, Given("health")
               PROVE  /\ \A f \in Worse(input[2]) : Ill(Health(input[2])) <= Ill(Health(f))
                      /\ Alerts(input[2]) > 0 => Health(input[2]) # "HEALTHY"
    BY DEF HealthIsMonotone
  <2>1. input[2] \in Evidence
    BY CasesAreEvidence DEF InputType
  <2> QED
    BY <2>1, HealthWorsens, AlertsTell
<1>3. InputType => GatesFailClosed
  <2> SUFFICES ASSUME InputType, Given("health")
               PROVE  /\ \A d \in Spoilt, n \in {19, 20} :
                            Decision([d EXCEPT !.shadow = n], Health(input[2])) = "REJECT"
                      /\ Alerts(input[2]) >= 2 => Decision(Good, Health(input[2])) = "REJECT"
                      /\ Decision([Good EXCEPT !.shadow = 19], Health(input[2])) # "PROMOTE"
    BY DEF GatesFailClosed
  <2>1. input[2] \in Evidence
    BY CasesAreEvidence DEF InputType
  <2>2. Pending([Good EXCEPT !.shadow = 19])
    BY DEF Pending, Good
  <2>3. ASSUME NEW d \in Spoilt, NEW n \in {19, 20}
        PROVE  Decision([d EXCEPT !.shadow = n], Health(input[2])) = "REJECT"
    BY <2>1, SpoiltFails, GatesClose
  <2> QED
    BY <2>1, <2>2, <2>3, GatesClose
<1>4. InputType => EvidenceIsHeard
  BY <1>1, <1>2, <1>3 DEF EvidenceIsHeard
<1> QED
  BY <1>4, InputTyped, PTL

-----------------------------------------------------------------------------
(* Arithmetic *)

\* What the arithmetic of whole numbers gives.
LEMMA Division ==
    ASSUME NEW x \in Nat, NEW s \in Nat \ {0}
    PROVE  /\ x \div s \in Nat /\ s * (x \div s) \in Nat /\ s * (x \div s) <= x
           /\ x < s * (x \div s) + s /\ x % s = x - s * (x \div s)
OBVIOUS

\* Products grow with a factor.
LEMMA ProductGrows ==
    ASSUME NEW s \in Nat, NEW a \in Nat, NEW b \in Nat, a <= b
    PROVE  s * a <= s * b /\ s * a \in Nat /\ s * b \in Nat
<1>1. PICK d \in Nat : b = a + d
  <2>1. b - a \in Nat /\ b = a + (b - a)
    OBVIOUS
  <2> QED
    BY <2>1
<1>2. s * b = s * a + s * d /\ s * a \in Nat /\ s * d \in Nat
  BY <1>1
<1> QED
  BY <1>2

\* A multiple leaves no remainder.
LEMMA Multiple ==
    ASSUME NEW s \in Nat \ {0}, NEW q \in Nat
    PROVE  s * q \in Nat /\ (s * q) % s = 0
<1>1. s * q \in Nat
  OBVIOUS
<1> DEFINE d == (s * q) \div s
<1>2. d \in Nat /\ s * d \in Nat /\ s * d <= s * q /\ s * q < s * d + s /\ (s * q) % s = s * q - s * d
  BY <1>1, Division
<1> HIDE DEF d
<1>3. ~(d > q)
  <2> SUFFICES ASSUME d > q PROVE FALSE
    OBVIOUS
  <2>1. s * (q + 1) <= s * d
    BY <1>2, ProductGrows
  <2>2. s * (q + 1) = s * q + s
    OBVIOUS
  <2> QED
    BY <1>1, <1>2, <2>1, <2>2
<1>4. ~(d < q)
  <2> SUFFICES ASSUME d < q PROVE FALSE
    OBVIOUS
  <2>1. s * (d + 1) <= s * q
    BY <1>2, ProductGrows
  <2>2. s * (d + 1) = s * d + s
    BY <1>2
  <2> QED
    BY <1>1, <1>2, <2>1, <2>2
<1>5. d = q
  BY <1>2, <1>3, <1>4
<1> QED
  BY <1>1, <1>2, <1>5

\* The greater of two numbers.
LEMMA MaxOfTwo ==
    ASSUME NEW a \in Int, NEW b \in Int
    PROVE  Max({a, b}) \in {a, b} /\ Max({a, b}) >= a /\ Max({a, b}) >= b /\ Max({a, b}) \in Int
<1>1. \E x \in {a, b} : \A y \in {a, b} : x >= y
  OBVIOUS
<1> QED
  BY <1>1 DEF Max

\* The smaller of two numbers.
LEMMA MinOfTwo ==
    ASSUME NEW a \in Int, NEW b \in Int
    PROVE  Min({a, b}) \in {a, b} /\ Min({a, b}) <= a /\ Min({a, b}) <= b /\ Min({a, b}) \in Int
<1>1. \E x \in {a, b} : \A y \in {a, b} : x <= y
  OBVIOUS
<1> QED
  BY <1>1 DEF Min

-----------------------------------------------------------------------------
(* Temporal splits *)

\* Between every bar a model is trained on and every bar it is tested on lies the
\* whole embargo, and no bar is tested by two folds.
Apart(folds) == /\ \A s \in folds : \A a \in s.train, b \in s.test : b - a > s.embargo
                /\ \A s, t \in folds : s # t => s.test \cap t.test = {}

\* What lies in two windows.
LEMMA SliceApart ==
    ASSUME NEW n \in Int, NEW lo \in Int, NEW hi \in Int, NEW lo2 \in Int, NEW hi2 \in Int,
           NEW e \in Int, hi + e <= lo2
    PROVE  /\ \A a \in Slice(n, lo, hi), b \in Slice(n, lo2, hi2) : b - a > e
           /\ e >= 0 => /\ Slice(n, lo, hi) \cap Slice(n, lo2, hi2) = {}
                        /\ Slice(n, lo2, hi2) \cap Slice(n, lo, hi) = {}
BY DEF Slice

Embargoed(s) == \A a \in s.train, b \in s.test : b - a > s.embargo

\* A test that begins the embargo after the training keeps it.
LEMMA SplitApart ==
    ASSUME NEW n \in Int, NEW lo \in Int, NEW t \in Int, NEW e \in Int, NEW hi \in Int
    PROVE  Embargoed(Split(n, lo, t, t + e, hi, e))
BY SliceApart DEF Split, Embargoed

\* chronological_split: both tests keep the embargo to what they are trained on and
\* share no bar, whatever the shares and however few bars.
THEOREM ChronologicalIsApart ==
    ASSUME NEW n \in Nat, NEW tr \in Nat, NEW va \in Nat, NEW e \in Nat
    PROVE  Apart(Chronological(n, tr, va, e))
<1> DEFINE trainEnd == (n * tr) \div 100
           valStart == trainEnd + e
           valEnd == valStart + (n * va) \div 100
<1>1. trainEnd \in Nat /\ valStart \in Nat /\ valEnd \in Nat
  BY Division
<1> DEFINE first == Split(n, 0, trainEnd, valStart, valEnd, e)
           second == Split(n, valStart, valEnd, valEnd + e, n, e)
<1>2. Chronological(n, tr, va, e) = {first, second}
  BY DEF Chronological
<1>0. valStart = trainEnd + e
  OBVIOUS
<1> HIDE DEF trainEnd, valStart, valEnd
<1>3. Embargoed(first)
  <2>1. first = Split(n, 0, trainEnd, trainEnd + e, valEnd, e)
    BY <1>0
  <2> HIDE DEF first
  <2>2. Embargoed(Split(n, 0, trainEnd, trainEnd + e, valEnd, e))
    BY <1>1, SplitApart
  <2> QED
    BY <2>1, <2>2
<1>4. Embargoed(second)
  BY <1>1, SplitApart
<1>5. first.test \cap second.test = {} /\ second.test \cap first.test = {}
  BY <1>1, SliceApart DEF Split
<1> HIDE DEF first, second
<1> QED
  BY <1>2, <1>3, <1>4, <1>5 DEF Apart, Embargoed

\* Windows of training that end at least a test apart test different bars.
LEMMA EndsApart ==
    ASSUME NEW n \in Nat, NEW first \in Nat, NEW test \in Nat, NEW step \in Nat \ {0},
           NEW e \in Nat, NEW t \in Ends(n, first, test, step, e),
           NEW u \in Ends(n, first, test, step, e), t < u
    PROVE  u - t >= step
<1>1. /\ t \in Nat /\ u \in Nat /\ t - first \in Nat /\ u - first \in Nat
      /\ (t - first) % step = 0 /\ (u - first) % step = 0
  BY DEF Ends
<1> DEFINE p == (t - first) \div step
           q == (u - first) \div step
<1>2. /\ p \in Nat /\ q \in Nat /\ step * p \in Nat /\ step * q \in Nat
      /\ t - first = step * p /\ u - first = step * q
  <2>1. ASSUME NEW x \in Nat, x % step = 0
        PROVE  x \div step \in Nat /\ step * (x \div step) \in Nat /\ x = step * (x \div step)
    <3>1. x \div step \in Nat /\ step * (x \div step) \in Nat /\ x % step = x - step * (x \div step)
      BY Division
    <3> QED
      BY <2>1, <3>1
  <2> QED
    BY <1>1, <2>1
<1> HIDE DEF p, q
<1>3. q > p
  <2> SUFFICES ASSUME q <= p PROVE FALSE
    BY <1>2
  <2>1. step * q <= step * p
    BY <1>2, ProductGrows
  <2> QED
    BY <1>1, <1>2, <2>1
<1>4. step * (p + 1) <= step * q /\ step * (p + 1) = step * p + step
  BY <1>2, <1>3, ProductGrows
<1> QED
  BY <1>1, <1>2, <1>4

\* The folds of a window that steps, each trained on what is between lo[t] and t.
Windows(n, first, test, step, e, lo) ==
    {Split(n, lo[t], t, t + e, t + e + test, e) : t \in Ends(n, first, test, step, e)}

\* They are apart when the step is at least the length of a test, whatever of the
\* past they train on.
LEMMA WindowsApart ==
    ASSUME NEW n \in Nat, NEW first \in Nat, NEW test \in Nat, NEW step \in Nat \ {0}, step >= test,
           NEW e \in Nat, NEW lo \in [Int -> Int]
    PROVE  Apart(Windows(n, first, test, step, e, lo))
<1> DEFINE fold(t) == Split(n, lo[t], t, t + e, t + e + test, e)
<1>1. ASSUME NEW t \in Ends(n, first, test, step, e), NEW a \in fold(t).train, NEW b \in fold(t).test
      PROVE  b - a > fold(t).embargo
  <2>1. t \in Int /\ t + e + test \in Int /\ lo[t] \in Int
    BY DEF Ends
  <2> DEFINE l == lo[t]
             end == t + e + test
  <2>2. l \in Int /\ end \in Int /\ fold(t) = Split(n, l, t, t + e, end, e)
    BY <2>1
  <2> HIDE DEF fold, l, end
  <2>3. Embargoed(Split(n, l, t, t + e, end, e))
    BY <2>1, <2>2, SplitApart
  <2>4. Embargoed(fold(t))
    BY <2>2, <2>3
  <2> QED
    BY <1>1, <2>4 DEF Embargoed
<1>2. ASSUME NEW t \in Ends(n, first, test, step, e), NEW u \in Ends(n, first, test, step, e),
             fold(t) # fold(u)
      PROVE  fold(t).test \cap fold(u).test = {}
  <2>1. t \in Int /\ u \in Int
    BY DEF Ends
  <2>2. fold(t).test = Slice(n, t + e, t + e + test) /\ fold(u).test = Slice(n, u + e, u + e + test)
    BY DEF Split
  <2>3. t # u
    BY <1>2
  <2>4. u - t >= test \/ t - u >= test
    <3>1. CASE t < u
      <4>1. u - t >= step
        BY <3>1, EndsApart
      <4> QED
        BY <2>1, <4>1
    <3>2. CASE u < t
      <4>1. t - u >= step
        BY <3>2, EndsApart
      <4> QED
        BY <2>1, <4>1
    <3> QED
      BY <2>1, <2>3, <3>1, <3>2
  <2> HIDE DEF fold
  <2> QED
    BY <2>1, <2>2, <2>4 DEF Slice
<1> HIDE DEF fold
<1>3. Apart({fold(t) : t \in Ends(n, first, test, step, e)})
  BY <1>1, <1>2 DEF Apart
<1> QED
  BY <1>3 DEF fold, Windows

\* expanding_window_split and rolling_window_split: so do all windows that step by a
\* test or more.
THEOREM WindowsAreApart ==
    ASSUME NEW n \in Nat, NEW first \in Nat, NEW test \in Nat, NEW step \in Nat \ {0}, step >= test,
           NEW e \in Nat
    PROVE  Apart(Expanding(n, first, test, step, e)) /\ Apart(Rolling(n, first, test, step, e))
<1>1. Apart(Expanding(n, first, test, step, e))
  <2> DEFINE lo == [t \in Int |-> 0]
  <2>1. lo \in [Int -> Int]
    OBVIOUS
  <2>2. Expanding(n, first, test, step, e) = Windows(n, first, test, step, e, lo)
    <3>1. \A t \in Ends(n, first, test, step, e) : lo[t] = 0
      BY DEF Ends
    <3> HIDE DEF lo
    <3> QED
      BY <3>1 DEF Expanding, Windows
  <2> HIDE DEF lo
  <2> QED
    BY <2>1, <2>2, WindowsApart
<1>2. Apart(Rolling(n, first, test, step, e))
  <2> DEFINE lo == [t \in Int |-> t - first]
  <2>1. lo \in [Int -> Int]
    OBVIOUS
  <2>2. Rolling(n, first, test, step, e) = Windows(n, first, test, step, e, lo)
    <3>1. \A t \in Ends(n, first, test, step, e) : lo[t] = t - first
      BY DEF Ends
    <3> HIDE DEF lo
    <3> QED
      BY <3>1 DEF Rolling, Windows
  <2> HIDE DEF lo
  <2> QED
    BY <2>1, <2>2, WindowsApart
<1> QED
  BY <1>1, <1>2

\* purged_walk_forward_split: so do all its splits, however the numbers of bars
\* divide.
THEOREM PurgedIsApart ==
    ASSUME NEW n \in Nat, NEW splits \in Nat, NEW pct \in Nat
    PROVE  Apart(Purged(n, splits, pct))
<1> DEFINE e == Max({1, (n * pct) \div 100})
           size == n \div (splits + 1)
           end(i) == Min({n, (i + 1) * size})
           fold(i) == Split(n, 0, i * size, i * size + e, end(i), e)
           I == {j \in 1 .. splits : j * size + e < end(j)}
<1>1. e \in Nat /\ size \in Nat
  <2>1. (n * pct) \div 100 \in Nat
    BY Division
  <2>2. Max({1, (n * pct) \div 100}) \in {1, (n * pct) \div 100}
    BY <2>1, MaxOfTwo
  <2> QED
    BY <2>1, <2>2, Division
<1>2. Purged(n, splits, pct) = {fold(i) : i \in I}
  BY DEF Purged
<1> HIDE DEF e, size
<1>3. ASSUME NEW i \in I PROVE i \in Nat /\ i * size \in Nat /\ end(i) \in Int /\ end(i) <= (i + 1) * size
  <2>1. i \in Nat
    OBVIOUS
  <2> DEFINE next == (i + 1) * size
  <2>2. i * size \in Nat /\ next \in Int
    BY <1>1, <2>1
  <2>3. end(i) = Min({n, next})
    OBVIOUS
  <2> HIDE DEF next, end, I, fold
  <2>4. end(i) \in Int /\ end(i) <= next
    BY <2>2, <2>3, MinOfTwo
  <2> QED
    BY <2>1, <2>2, <2>4 DEF next
<1>4. ASSUME NEW i \in I, NEW a \in fold(i).train, NEW b \in fold(i).test
      PROVE  b - a > fold(i).embargo
  <2> DEFINE is == i * size
             to == end(i)
  <2>1. is \in Int /\ to \in Int /\ e \in Int
    BY <1>1, <1>3
  <2>2. fold(i) = Split(n, 0, is, is + e, to, e)
    OBVIOUS
  <2> HIDE DEF end, I, fold, is, to
  <2>3. Embargoed(Split(n, 0, is, is + e, to, e))
    BY <2>1, SplitApart
  <2> QED
    BY <1>4, <2>2, <2>3 DEF Embargoed
<1>5. ASSUME NEW i \in I, NEW j \in I, i < j
      PROVE  fold(i).test \cap fold(j).test = {} /\ fold(j).test \cap fold(i).test = {}
  <2>1. /\ i * size \in Int /\ j * size \in Int /\ end(i) \in Int /\ end(j) \in Int /\ e \in Nat
        /\ i \in Nat /\ j \in Nat /\ size \in Nat
    BY <1>1, <1>3
  <2>2. (i + 1) * size <= j * size
    <3>1. size * (i + 1) <= size * j
      BY <1>5, <2>1, ProductGrows
    <3> QED
      BY <2>1, <3>1
  <2>3. end(i) <= j * size
    <3>1. end(i) <= (i + 1) * size /\ (i + 1) * size \in Int
      BY <1>3, <2>1
    <3> HIDE DEF end, I, fold
    <3> QED
      BY <2>1, <2>2, <3>1
  <2>4. /\ fold(i).test = Slice(n, i * size + e, end(i))
        /\ fold(j).test = Slice(n, j * size + e, end(j))
    BY DEF Split
  <2> HIDE DEF fold, end, I
  <2> DEFINE is == i * size
             js == j * size
  <2>5. is \in Int /\ js \in Int /\ end(i) <= js
    BY <2>1, <2>3
  <2> HIDE DEF is, js
  <2>6. /\ fold(i).test = Slice(n, is + e, end(i)) /\ fold(j).test = Slice(n, js + e, end(j))
    BY <2>4 DEF is, js
  <2> QED
    BY <2>1, <2>5, <2>6 DEF Slice
<1>6. ASSUME NEW i \in I, NEW j \in I, fold(i) # fold(j)
      PROVE  fold(i).test \cap fold(j).test = {}
  <2>1. i \in Nat /\ j \in Nat
    BY <1>3
  <2>2. i < j \/ j < i
    BY <1>6, <2>1
  <2> HIDE DEF fold, I
  <2> QED
    BY <1>5, <2>2
<1> HIDE DEF fold, I
<1> QED
  BY <1>2, <1>4, <1>6 DEF Apart

\* Windows that step by the length of a test test only whole windows and leave no
\* bar between the first and the last tested bar out.
THEOREM WindowsTestAll ==
    ASSUME NEW n \in Nat, NEW first \in Nat, NEW test \in Nat \ {0}, NEW e \in Nat
    PROVE  LET folds == Expanding(n, first, test, test, e)
               tested == UNION {s.test : s \in folds}
           IN  /\ \A s \in folds : Cardinality(s.test) = test
               /\ \A a, b \in tested : \A c \in a .. b : \E s \in folds : c \in s.test
<1> DEFINE folds == Expanding(n, first, test, test, e)
           tested == UNION {s.test : s \in folds}
           fold(t) == Split(n, 0, t, t + e, t + e + test, e)
           T == Ends(n, first, test, test, e)
<1>1. folds = {fold(t) : t \in T}
  BY DEF Expanding
<1>2. ASSUME NEW t \in T
      PROVE  /\ t \in Nat /\ t >= first /\ t + e + test <= n /\ (t - first) % test = 0
             /\ fold(t).test = (t + e) .. (t + e + test - 1)
  <2>1. t \in Nat /\ t >= first /\ t + e + test <= n /\ (t - first) % test = 0
    BY DEF Ends
  <2>2. fold(t).test = Slice(n, t + e, t + e + test)
    BY DEF Split
  <2> HIDE DEF fold, T, folds, tested
  <2>3. Slice(n, t + e, t + e + test) = (t + e) .. (t + e + test - 1)
    BY <2>1 DEF Slice
  <2> QED
    BY <2>1, <2>2, <2>3
<1>3. ASSUME NEW t \in Nat, t >= first, t + e + test <= n, (t - first) % test = 0 PROVE t \in T
  BY <1>3 DEF Ends
<1> HIDE DEF fold, T
<1>4. ASSUME NEW s \in folds PROVE Cardinality(s.test) = test
  <2>1. PICK t \in T : s = fold(t)
    BY <1>1
  <2>2. s.test = (t + e) .. (t + e + test - 1) /\ t \in Nat
    BY <1>2, <2>1
  <2>3. Cardinality((t + e) .. (t + e + test - 1)) = (t + e + test - 1) - (t + e) + 1
    BY <2>2, FS_Interval
  <2> QED
    BY <2>2, <2>3
<1>5. ASSUME NEW a \in tested, NEW b \in tested, NEW c \in a .. b
      PROVE  \E s \in folds : c \in s.test
  <2>1. PICK t \in T : a \in fold(t).test
    BY <1>1
  <2>2. PICK u \in T : b \in fold(u).test
    BY <1>1
  <2>3. /\ t \in Nat /\ u \in Nat /\ t >= first /\ u >= first /\ c \in Int
        /\ t + e <= c /\ c < u + e + test /\ u + e + test <= n /\ (u - first) % test = 0
    BY <1>2, <2>1, <2>2
  <2> DEFINE q == (c - e - first) \div test
             r == (u - first) \div test
             v == first + test * q
  <2>4. c - e - first \in Nat /\ u - first \in Nat
    BY <2>3
  <2>5. q \in Nat /\ test * q \in Nat /\ test * q <= c - e - first /\ c - e - first < test * q + test
    BY <2>4, Division
  <2>6. r \in Nat /\ test * r \in Nat /\ (u - first) % test = u - first - test * r
    BY <2>4, Division
  <2> HIDE DEF q, r
  <2>7. u - first = test * r
    BY <2>3, <2>6
  <2>8. q <= r
    <3> SUFFICES ASSUME q > r PROVE FALSE
      BY <2>5, <2>6
    <3>1. test * (r + 1) <= test * q /\ test * (r + 1) = test * r + test
      BY <2>5, <2>6, ProductGrows
    <3> QED
      BY <2>3, <2>5, <2>6, <2>7, <3>1
  <2>9. test * q <= test * r
    BY <2>5, <2>6, <2>8, ProductGrows
  <2>10. (test * q) % test = 0
    BY <2>5, Multiple
  <2>11. v \in Nat /\ v >= first /\ v + e + test <= n /\ v - first = test * q
    BY <2>3, <2>5, <2>6, <2>7, <2>9
  <2>12. v + e <= c /\ c < v + e + test
    BY <2>3, <2>5
  <2> HIDE DEF v
  <2>13. v \in T
    BY <1>3, <2>10, <2>11
  <2>14. c \in fold(v).test
    BY <1>2, <2>3, <2>11, <2>12, <2>13
  <2> QED
    BY <1>1, <2>13, <2>14
<1> HIDE DEF folds, tested
<1>6. /\ \A s \in folds : Cardinality(s.test) = test
      /\ \A a, b \in tested : \A c \in a .. b : \E s \in folds : c \in s.test
  BY <1>4, <1>5
<1> QED
  BY <1>6 DEF folds, tested

\* The folds of the run, whatever split made them.
LEMMA FoldsAreApart == \A x \in Folds : Apart(x)
<1> SUFFICES ASSUME NEW x \in Folds PROVE Apart(x)
  OBVIOUS
<1>1. CASE x \in {Chronological(n, 70, 15, e) : n \in 10 .. 24, e \in 0 .. 3}
  BY <1>1, ChronologicalIsApart
<1>2. CASE x \in {Expanding(n, f, t, s, e) : n \in 8 .. 14, f \in 2 .. 4, t \in 1 .. 3, s \in 3 .. 4,
                                             e \in 0 .. 2}
  BY <1>2, WindowsAreApart
<1>3. CASE x \in {Rolling(n, f, t, s, e) : n \in 8 .. 14, f \in 2 .. 4, t \in 1 .. 3, s \in 3 .. 4,
                                           e \in 0 .. 2}
  BY <1>3, WindowsAreApart
<1>4. CASE x \in {Purged(n, k, e) : n \in 4 .. 40, k \in 1 .. 5, e \in {1, 5, 10}}
  <2>1. PICK n \in 4 .. 40, k \in 1 .. 5, e \in {1, 5, 10} : x = Purged(n, k, e)
    BY <1>4
  <2>2. n \in Nat /\ k \in Nat /\ e \in Nat
    OBVIOUS
  <2> QED
    BY <2>1, <2>2, PurgedIsApart
<1> QED
  BY <1>1, <1>2, <1>3, <1>4 DEF Folds

SplitInput == /\ Given("folds") => input[2] \in Folds
              /\ Given("windows") => input[2] \in (8 .. 14) \X (2 .. 4) \X (1 .. 3) \X (0 .. 2)

\* Every kind of split of the run keeps its tests apart from its training and from
\* each other, and leaves out no bar it could test.
THEOREM TestsAreApart == ResearchSpec => []SplitsAreSound
<1>1. ASSUME ResearchInit PROVE SplitInput
  <2>1. CASE input \in Inputs
    BY <2>1 DEF Inputs, SplitInput, Given
  <2>2. CASE input = NoInput
    BY <2>2 DEF NoInput, SplitInput, Given
  <2> QED
    BY <1>1, <2>1, <2>2 DEF ResearchInit
<1>2. ASSUME SplitInput, [ResearchNext]_<<vars, input>> PROVE SplitInput'
  <2>1. Given("folds")' => Given("folds") /\ input' = input
    BY <1>2, InputsStay
  <2>2. Given("windows")' => Given("windows") /\ input' = input
    BY <1>2, InputsStay
  <2> QED
    BY <1>2, <2>1, <2>2 DEF SplitInput
<1>3. SplitInput => NoLookAhead
  BY FoldsAreApart DEF SplitInput, NoLookAhead, Apart
<1>4. SplitInput => TestedOnce
  <2> SUFFICES ASSUME SplitInput, Given("windows") PROVE TestedOnce
    BY DEF TestedOnce
  <2> DEFINE w == input[2]
  <2>1. w[1] \in Nat /\ w[2] \in Nat /\ w[3] \in Nat \ {0} /\ w[4] \in Nat
    BY DEF SplitInput
  <2> QED
    BY <2>1, WindowsTestAll DEF TestedOnce
<1> QED
  BY <1>1, <1>2, <1>3, <1>4, PTL DEF ResearchSpec, SplitsAreSound

-----------------------------------------------------------------------------
(* Trading costs *)

Plus(x, y) == x + y
AnyOf(S) == CHOOSE x \in S : TRUE
Sums == INSTANCE FoldLemmas WITH Op <- Plus, Initial <- 0, Choose <- AnyOf

\* Products grow with both factors.
LEMMA ProductsGrow ==
    ASSUME NEW a \in Nat, NEW b \in Nat, NEW c \in Nat, NEW d \in Nat, a <= b, c <= d
    PROVE  a * c \in Nat /\ b * d \in Nat /\ a * c <= b * d
<1>1. a * c <= a * d /\ a * c \in Nat /\ a * d \in Nat
  BY ProductGrows
<1>2. d * a <= d * b /\ d * a = a * d /\ d * b = b * d /\ b * d \in Nat
  <2>1. d * a <= d * b
    BY ProductGrows
  <2> QED
    BY <2>1
<1> QED
  BY <1>1, <1>2

\* Quotients grow with the dividend and fall with the divisor.
LEMMA DivisionGrows ==
    ASSUME NEW a \in Nat, NEW b \in Nat, NEW j \in Nat \ {0}, NEW k \in Nat \ {0}, a <= b, j <= k
    PROVE  a \div k \in Nat /\ b \div j \in Nat /\ a \div k <= b \div j
<1> DEFINE q == a \div k
           r == b \div j
<1>1. q \in Nat /\ k * q \in Nat /\ k * q <= a
  BY Division
<1>2. r \in Nat /\ j * r \in Nat /\ b < j * r + j
  BY Division
<1> HIDE DEF q, r
<1>3. j * q \in Nat /\ j * q <= k * q
  BY <1>1, ProductsGrow
<1>4. ~(q > r)
  <2> SUFFICES ASSUME q > r PROVE FALSE
    OBVIOUS
  <2>1. j * (r + 1) <= j * q /\ j * (r + 1) = j * r + j
    BY <1>1, <1>2, ProductGrows
  <2> QED
    BY <1>1, <1>2, <1>3, <2>1
<1>5. q <= r
  BY <1>1, <1>2, <1>4
<1> QED
  BY <1>1, <1>2, <1>5 DEF q, r

\* Clipping keeps an order, through the floor and the cap.
LEMMA ClipGrows ==
    ASSUME NEW x \in Int, NEW y \in Int, NEW lo \in Int, NEW lo2 \in Int, NEW hi \in Int, NEW hi2 \in Int,
           x <= y, lo <= lo2, hi <= hi2
    PROVE  /\ Clip(x, lo, hi) \in Int /\ Clip(y, lo2, hi2) \in Int
           /\ lo <= Clip(x, lo, hi) /\ Clip(x, lo, hi) <= Clip(y, lo2, hi2)
<1> DEFINE k == Min({x, hi})
           k2 == Min({y, hi2})
<1>1. k \in {x, hi} /\ k <= x /\ k <= hi /\ k \in Int
  BY MinOfTwo
<1>2. k2 \in {y, hi2} /\ k2 <= y /\ k2 <= hi2 /\ k2 \in Int
  BY MinOfTwo
<1> HIDE DEF k, k2
<1>3. k <= k2
  BY <1>1, <1>2
<1>4. Max({lo, k}) \in {lo, k} /\ Max({lo, k}) >= lo /\ Max({lo, k}) >= k /\ Max({lo, k}) \in Int
  BY <1>1, MaxOfTwo
<1>5. /\ Max({lo2, k2}) \in {lo2, k2} /\ Max({lo2, k2}) >= lo2 /\ Max({lo2, k2}) >= k2
      /\ Max({lo2, k2}) \in Int
  BY <1>2, MaxOfTwo
<1>6. Clip(x, lo, hi) = Max({lo, k}) /\ Clip(y, lo2, hi2) = Max({lo2, k2})
  BY DEF Clip, k, k2
<1> QED
  BY <1>1, <1>2, <1>3, <1>4, <1>5, <1>6

\* An integer square root below a bound exists.
LEMMA RootExists ==
    ASSUME NEW n \in Nat, NEW x \in Nat, x < (n + 1) * (n + 1)
    PROVE  \E r \in 0 .. n : r * r <= x /\ x < (r + 1) * (r + 1)
<1> DEFINE R == {r \in 0 .. n : r * r <= x}
           m == Max(R)
<1>1. IsFiniteSet(R) /\ R # {} /\ R \subseteq Int
  <2>1. 0 \in R
    OBVIOUS
  <2>2. IsFiniteSet(0 .. n) /\ R \subseteq 0 .. n
    BY FS_Interval
  <2>3. R \subseteq Int
    OBVIOUS
  <2> HIDE DEF R
  <2>4. IsFiniteSet(R)
    BY <2>2, FS_Subset
  <2> QED
    BY <2>1, <2>3, <2>4
<1>2. m \in R /\ \A r \in R : m >= r
  <2>1. Max(R) = Sums!Max(R)
    BY DEF Max, Sums!Max
  <2> HIDE DEF R
  <2>2. Sums!Max(R) \in R /\ \A r \in R : Sums!Max(R) >= r
    BY <1>1, Sums!MaxIsGreatest DEF Sums!IsFiniteSet, IsFiniteSet
  <2> QED
    BY <2>1, <2>2
<1> HIDE DEF m
<1>3. m \in 0 .. n /\ m * m <= x
  BY <1>2
<1>4. x < (m + 1) * (m + 1)
  <2> SUFFICES ASSUME ~(x < (m + 1) * (m + 1)) PROVE FALSE
    OBVIOUS
  <2>1. (m + 1) * (m + 1) \in Nat /\ (m + 1) * (m + 1) <= x
    BY <1>3
  <2>2. CASE m = n
    BY <2>1, <2>2
  <2>3. CASE m < n
    <3>1. m + 1 \in R
      BY <1>3, <2>1, <2>3
    <3> QED
      BY <1>2, <1>3, <3>1
  <2> QED
    BY <1>3, <2>2, <2>3
<1> QED
  BY <1>3, <1>4

\* What Root is asked about.
Rooted == {x \in Nat : x <= 1002000}

\* The root of a number, among those the costs take one of.
LEMMA RootIs ==
    ASSUME NEW x \in Rooted
    PROVE  /\ Root(x) \in Nat
           /\ Root(x) * Root(x) <= x /\ x < (Root(x) + 1) * (Root(x) + 1)
<1> DEFINE n == 1000
<1>1. x \in Nat /\ n \in Nat /\ x < (n + 1) * (n + 1)
  BY SMT DEF Rooted
<1> HIDE DEF n
<1>2. \E r \in 0 .. n : r * r <= x /\ x < (r + 1) * (r + 1)
  BY <1>1, RootExists
<1> DEFINE IsRoot(r) == r * r <= x /\ x < (r + 1) * (r + 1)
<1>3. Root(x) = CHOOSE r \in 0 .. n : IsRoot(r)
  BY DEF Root, n
<1>4. \E r \in 0 .. n : IsRoot(r)
  BY <1>2
<1> HIDE DEF IsRoot
<1>5. Root(x) \in 0 .. n /\ IsRoot(Root(x))
  BY <1>3, <1>4
<1> QED
  BY <1>1, <1>5 DEF IsRoot

\* Roots grow.
LEMMA RootGrows ==
    ASSUME NEW x \in Rooted, NEW y \in Rooted, x <= y
    PROVE  Root(x) <= Root(y) /\ Root(x) \in Nat /\ Root(y) \in Nat /\ (x > 0 => Root(x) > 0)
<1> DEFINE r == Root(x)
           s == Root(y)
<1>0. x \in Nat /\ y \in Nat
  BY DEF Rooted
<1>1. r \in Nat /\ r * r <= x /\ x < (r + 1) * (r + 1)
  BY RootIs
<1>2. s \in Nat /\ y < (s + 1) * (s + 1)
  BY RootIs
<1> HIDE DEF r, s
<1>3. ~(r > s)
  <2> SUFFICES ASSUME r > s PROVE FALSE
    OBVIOUS
  <2>1. (s + 1) * (s + 1) <= r * r
    BY <1>1, <1>2, ProductsGrow
  <2> QED
    BY <1>0, <1>1, <1>2, <2>1
<1>4. x > 0 => r > 0
  <2> SUFFICES ASSUME r = 0 PROVE ~(x > 0)
    BY <1>1
  <2> QED
    BY <1>0, <1>1
<1>5. r <= s
  BY <1>1, <1>2, <1>3
<1> QED
  BY <1>1, <1>2, <1>4, <1>5 DEF r, s

\* A loss that is cut off at nothing.
LEMMA ExcessGrows ==
    ASSUME NEW x \in Int, NEW y \in Int, x <= y
    PROVE  /\ Max({0, x}) \in Nat /\ Max({0, y}) \in Nat /\ Max({0, x}) <= Max({0, y})
           /\ y <= Max({0, y})
<1>1. Max({0, x}) \in {0, x} /\ Max({0, x}) >= 0
  BY MaxOfTwo
<1>2. Max({0, y}) \in {0, y} /\ Max({0, y}) >= 0 /\ Max({0, y}) >= y
  BY MaxOfTwo
<1> QED
  BY <1>1, <1>2

\* Clip from nothing.
LEMMA CapGrows ==
    ASSUME NEW x \in Nat, NEW y \in Nat, NEW hi \in Nat, NEW hi2 \in Nat, x <= y, hi <= hi2
    PROVE  Clip(x, 0, hi) \in Nat /\ Clip(y, 0, hi2) \in Nat /\ Clip(x, 0, hi) <= Clip(y, 0, hi2)
<1>1. Clip(x, 0, hi) \in Int /\ Clip(y, 0, hi2) \in Int /\ 0 <= Clip(x, 0, hi) /\ Clip(x, 0, hi) <= Clip(y, 0, hi2)
  BY ClipGrows
<1> QED
  BY <1>1

\* A configuration and a trade of any size.
Configs == [maker : Nat, taker : Nat, minSpread : Nat, maxSpread : Nat, spreadScale : Nat,
            slippage : Nat, volBeta : Nat, liqBeta : Nat, maxSlippage : Nat,
            gamma : Nat, maxImpact : Nat, delay : BOOLEAN]
AnyTrade == {t \in [notional : Nat, vol : Nat, volume : Nat, estimate : Nat,
                     type : {"MAKER", "TAKER"}, drift : Int] : t.volume <= 1000000}

\* Every rate and every cap of c is at most that of d, and a trade u as large and
\* as badly filled as t in a market as wild and as thin.
NoDearer(c, d) ==
    /\ c.maker <= d.maker /\ c.taker <= d.taker /\ c.minSpread <= d.minSpread
    /\ c.maxSpread <= d.maxSpread /\ c.spreadScale <= d.spreadScale /\ c.slippage <= d.slippage
    /\ c.volBeta <= d.volBeta /\ c.liqBeta <= d.liqBeta /\ c.maxSlippage <= d.maxSlippage
    /\ c.gamma <= d.gamma /\ c.maxImpact <= d.maxImpact /\ (c.delay => d.delay)
NoEasier(t, u) ==
    /\ t.type = u.type /\ t.estimate = u.estimate /\ t.notional <= u.notional /\ t.vol <= u.vol
    /\ u.volume <= t.volume /\ (t.volume > 0 => u.volume > 0) /\ t.drift <= u.drift

\* A floor of one.
LEMMA OneOrMore ==
    ASSUME NEW x \in Int
    PROVE  Max({1, x}) \in {1, x} /\ Max({1, x}) >= 1 /\ Max({1, x}) >= x
BY MaxOfTwo

\* The half spread of a worse trade is no smaller.
LEMMA SpreadGrows ==
    ASSUME NEW c \in Configs, NEW d \in Configs, NoDearer(c, d),
           NEW t \in AnyTrade, NEW u \in AnyTrade, NoEasier(t, u)
    PROVE  HalfSpread(c, t) \in Nat /\ HalfSpread(d, u) \in Nat /\ HalfSpread(c, t) <= HalfSpread(d, u)
<1> DEFINE v == Max({1, t.volume})
           w == Max({1, u.volume})
           a == c.spreadScale * t.vol
           b == d.spreadScale * u.vol
           p == a \div (10 * Root(v))
           q == b \div (10 * Root(w))
           x == IF t.estimate > 0 THEN t.estimate ELSE p
           y == IF u.estimate > 0 THEN u.estimate ELSE q
<1>1. v \in Nat \ {0} /\ w \in Nat \ {0} /\ w <= v /\ v <= 1000000
  <2> DEFINE tv == t.volume
             uv == u.volume
  <2>0. tv \in Nat /\ uv \in Nat /\ uv <= tv /\ tv <= 1000000
    BY SMT DEF AnyTrade, NoEasier
  <2>1. v = Max({1, tv}) /\ w = Max({1, uv})
    OBVIOUS
  <2> HIDE DEF v, w, tv, uv
  <2>2. tv \in Int /\ uv \in Int
    BY <2>0, SMT
  <2>3. v \in {1, tv} /\ v >= 1 /\ v >= tv /\ w \in {1, uv} /\ w >= 1 /\ w >= uv
    BY <2>1, <2>2, OneOrMore
  <2> QED
    BY <2>0, <2>3, SMT
<1> HIDE DEF v, w
<1>2. Root(w) <= Root(v) /\ Root(w) \in Nat \ {0} /\ Root(v) \in Nat \ {0}
  <2>1. v \in Rooted /\ w \in Rooted
    BY <1>1, SMT DEF Rooted
  <2>2. Root(w) <= Root(v) /\ Root(w) \in Nat /\ Root(v) \in Nat /\ Root(v) > 0 /\ Root(w) > 0
    BY <1>1, <2>1, RootGrows
  <2> QED
    BY <2>2
<1>3. a \in Nat /\ b \in Nat /\ a <= b
  BY ProductsGrow DEF Configs, AnyTrade, NoDearer, NoEasier
<1> HIDE DEF a, b
<1>4. p \in Nat /\ q \in Nat /\ p <= q
  <2> DEFINE k == 10 * Root(v)
             j == 10 * Root(w)
  <2>1. k \in Nat \ {0} /\ j \in Nat \ {0} /\ j <= k
    BY <1>2
  <2> HIDE DEF k, j
  <2>2. a \div k \in Nat /\ b \div j \in Nat /\ a \div k <= b \div j
    BY <1>3, <2>1, DivisionGrows
  <2> QED
    BY <2>2 DEF k, j
<1> HIDE DEF p, q
<1>5. x \in Nat /\ y \in Nat /\ x <= y
  BY <1>4 DEF AnyTrade, NoEasier
<1>6. SpreadBps(c, t) = Clip(x, c.minSpread, c.maxSpread)
      /\ SpreadBps(d, u) = Clip(y, d.minSpread, d.maxSpread)
  BY DEF SpreadBps, v, w, a, b, p, q
<1> HIDE DEF x, y
<1>7. SpreadBps(c, t) \in Nat /\ SpreadBps(d, u) \in Nat /\ SpreadBps(c, t) <= SpreadBps(d, u)
  <2> DEFINE lo == c.minSpread
             hi == c.maxSpread
             lo2 == d.minSpread
             hi2 == d.maxSpread
  <2>1. lo \in Nat /\ hi \in Nat /\ lo2 \in Nat /\ hi2 \in Nat /\ lo <= lo2 /\ hi <= hi2
    BY DEF Configs, NoDearer
  <2>2. SpreadBps(c, t) = Clip(x, lo, hi) /\ SpreadBps(d, u) = Clip(y, lo2, hi2)
    BY <1>6
  <2> HIDE DEF lo, hi, lo2, hi2
  <2>3. Clip(x, lo, hi) \in Int /\ Clip(y, lo2, hi2) \in Int /\ lo <= Clip(x, lo, hi)
        /\ Clip(x, lo, hi) <= Clip(y, lo2, hi2)
    BY <1>5, <2>1, ClipGrows
  <2> QED
    BY <2>1, <2>2, <2>3
<1> QED
  BY <1>7, DivisionGrows DEF HalfSpread

\* Nor is its slippage.
LEMMA SlippageGrows ==
    ASSUME NEW c \in Configs, NEW d \in Configs, NoDearer(c, d),
           NEW t \in AnyTrade, NEW u \in AnyTrade, NoEasier(t, u)
    PROVE  Slippage(c, t) \in Nat /\ Slippage(d, u) \in Nat /\ Slippage(c, t) <= Slippage(d, u)
<1> DEFINE e == Max({0, t.vol - BenchmarkVol})
           f == Max({0, u.vol - BenchmarkVol})
           g == Max({0, BenchmarkVolume - t.volume})
           h == Max({0, BenchmarkVolume - u.volume})
<1>1. e \in Nat /\ f \in Nat /\ e <= f
  <2> DEFINE tx == t.vol - BenchmarkVol
             ux == u.vol - BenchmarkVol
  <2>1. tx \in Int /\ ux \in Int /\ tx <= ux
    BY DEF AnyTrade, NoEasier, BenchmarkVol
  <2>2. e = Max({0, tx}) /\ f = Max({0, ux})
    OBVIOUS
  <2> HIDE DEF tx, ux, e, f
  <2> QED
    BY <2>1, <2>2, ExcessGrows
<1>2. g \in Nat /\ h \in Nat /\ g <= h
  <2> DEFINE tx == BenchmarkVolume - t.volume
             ux == BenchmarkVolume - u.volume
  <2>1. tx \in Int /\ ux \in Int /\ tx <= ux
    BY DEF AnyTrade, NoEasier, BenchmarkVolume
  <2>2. g = Max({0, tx}) /\ h = Max({0, ux})
    OBVIOUS
  <2> HIDE DEF tx, ux, g, h
  <2> QED
    BY <2>1, <2>2, ExcessGrows
<1> HIDE DEF e, f, g, h
<1> DEFINE a == 100 + (c.volBeta * e) \div BenchmarkVol
           b == 100 + (d.volBeta * f) \div BenchmarkVol
           k == 100 + (c.liqBeta * g) \div BenchmarkVolume
           l == 100 + (d.liqBeta * h) \div BenchmarkVolume
           x == (c.slippage * a * k) \div 10000
           y == (d.slippage * b * l) \div 10000
<1>3. a \in Nat /\ b \in Nat /\ a <= b
  <2> DEFINE p == c.volBeta * e
             q == d.volBeta * f
  <2>1. p \in Nat /\ q \in Nat /\ p <= q
    BY <1>1, ProductsGrow DEF Configs, NoDearer
  <2> HIDE DEF p, q
  <2> DEFINE n == BenchmarkVol
  <2>2. n \in Nat \ {0}
    BY DEF BenchmarkVol
  <2> HIDE DEF n
  <2>3. p \div n \in Nat /\ q \div n \in Nat /\ p \div n <= q \div n
    BY <2>1, <2>2, DivisionGrows
  <2> QED
    BY <2>3 DEF p, q, n
<1>4. k \in Nat /\ l \in Nat /\ k <= l
  <2> DEFINE p == c.liqBeta * g
             q == d.liqBeta * h
  <2>1. p \in Nat /\ q \in Nat /\ p <= q
    BY <1>2, ProductsGrow DEF Configs, NoDearer
  <2> HIDE DEF p, q
  <2> DEFINE n == BenchmarkVolume
  <2>2. n \in Nat \ {0}
    BY DEF BenchmarkVolume
  <2> HIDE DEF n
  <2>3. p \div n \in Nat /\ q \div n \in Nat /\ p \div n <= q \div n
    BY <2>1, <2>2, DivisionGrows
  <2> QED
    BY <2>3 DEF p, q, n
<1> HIDE DEF a, b, k, l
<1>5. x \in Nat /\ y \in Nat /\ x <= y
  <2>1. c.slippage * a \in Nat /\ d.slippage * b \in Nat /\ c.slippage * a <= d.slippage * b
    BY <1>3, ProductsGrow DEF Configs, NoDearer
  <2>2. /\ (c.slippage * a) * k \in Nat /\ (d.slippage * b) * l \in Nat
        /\ (c.slippage * a) * k <= (d.slippage * b) * l
    BY <1>4, <2>1, ProductsGrow
  <2> QED
    BY <2>2, DivisionGrows
<1> HIDE DEF x, y
<1>6. /\ Clip(x, 0, c.maxSlippage) \in Nat /\ Clip(y, 0, d.maxSlippage) \in Nat
      /\ Clip(x, 0, c.maxSlippage) <= Clip(y, 0, d.maxSlippage)
  <2> DEFINE hi == c.maxSlippage
             hi2 == d.maxSlippage
  <2>1. hi \in Nat /\ hi2 \in Nat /\ hi <= hi2
    BY DEF Configs, NoDearer
  <2> HIDE DEF hi, hi2
  <2>2. Clip(x, 0, hi) \in Nat /\ Clip(y, 0, hi2) \in Nat /\ Clip(x, 0, hi) <= Clip(y, 0, hi2)
    BY <1>5, <2>1, CapGrows
  <2> QED
    BY <2>2 DEF hi, hi2
<1>7. Slippage(c, t) = (IF c.slippage <= 0 THEN 0 ELSE Clip(x, 0, c.maxSlippage))
  BY DEF Slippage, e, g, a, k, x
<1>8. Slippage(d, u) = (IF d.slippage <= 0 THEN 0 ELSE Clip(y, 0, d.maxSlippage))
  BY DEF Slippage, f, h, b, l, y
<1>9. c.slippage \in Nat /\ d.slippage \in Nat /\ c.slippage <= d.slippage
  BY DEF Configs, NoDearer
<1> QED
  BY <1>6, <1>7, <1>8, <1>9

\* The share of the volume a trade is, in thousandths, and the impact it has when
\* there is one.
Share(notional, volume) == Root(Min({1000000, (1000 * notional) \div volume}))
Impacted(gamma, vol, share, cap) == Clip((gamma * vol * share) \div 10000, 0, cap)

\* The impact without its bindings.
LEMMA ImpactIs ==
    ASSUME NEW c, NEW t
    PROVE  Impact(c, t) = IF c.gamma <= 0 \/ t.volume <= 0 THEN 0
                          ELSE Impacted(c.gamma, t.vol, Share(t.notional, t.volume), c.maxImpact)
BY DEF Impact, Impacted, Share

\* A larger trade in a thinner market has more of its volume.
LEMMA ShareGrows ==
    ASSUME NEW a \in Nat, NEW b \in Nat, a <= b, NEW v \in Nat \ {0}, NEW w \in Nat \ {0}, w <= v
    PROVE  Share(a, v) \in Nat /\ Share(b, w) \in Nat /\ Share(a, v) <= Share(b, w)
<1> DEFINE p == 1000 * a
           q == 1000 * b
           m == p \div v
           n == q \div w
           top == 1000000
           i == Min({top, m})
           j == Min({top, n})
<1>0. top \in Nat /\ \A k \in Nat : k <= top => k \in Rooted
  BY SMT DEF Rooted
<1>1. Share(a, v) = Root(i) /\ Share(b, w) = Root(j)
  BY DEF Share
<1> HIDE DEF top
<1>2. p \in Nat /\ q \in Nat /\ p <= q
  OBVIOUS
<1> HIDE DEF p, q
<1>3. m \in Nat /\ n \in Nat /\ m <= n
  BY <1>2, DivisionGrows
<1> HIDE DEF m, n
<1>4. i \in {top, m} /\ i <= top /\ i <= m
  BY <1>0, <1>3, MinOfTwo
<1>5. j \in {top, n} /\ j <= top /\ j <= n
  BY <1>0, <1>3, MinOfTwo
<1> HIDE DEF i, j
<1>6. i \in Nat /\ j \in Nat /\ i <= j
  BY <1>0, <1>3, <1>4, <1>5
<1>7. i \in Rooted /\ j \in Rooted
  BY <1>0, <1>4, <1>5, <1>6
<1> QED
  BY <1>1, <1>6, <1>7, RootGrows

\* The impact grows with the share, the volatility, gamma and the cap.
LEMMA ImpactedGrows ==
    ASSUME NEW g \in Nat, NEW g2 \in Nat, g <= g2, NEW v \in Nat, NEW v2 \in Nat, v <= v2,
           NEW s \in Nat, NEW s2 \in Nat, s <= s2, NEW cap \in Nat, NEW cap2 \in Nat, cap <= cap2
    PROVE  /\ Impacted(g, v, s, cap) \in Nat /\ Impacted(g2, v2, s2, cap2) \in Nat
           /\ Impacted(g, v, s, cap) <= Impacted(g2, v2, s2, cap2)
<1> DEFINE a == g * v
           b == g2 * v2
           p == a * s
           q == b * s2
           n == 10000
           x == p \div n
           y == q \div n
<1>1. a \in Nat /\ b \in Nat /\ a <= b
  BY ProductsGrow
<1>0. Impacted(g, v, s, cap) = Clip(x, 0, cap) /\ Impacted(g2, v2, s2, cap2) = Clip(y, 0, cap2)
  BY DEF Impacted
<1>2. n \in Nat \ {0}
  OBVIOUS
<1> HIDE DEF a, b, n
<1>3. p \in Nat /\ q \in Nat /\ p <= q
  BY <1>1, ProductsGrow
<1> HIDE DEF p, q
<1>4. x \in Nat /\ y \in Nat /\ x <= y
  BY <1>2, <1>3, DivisionGrows
<1> HIDE DEF x, y
<1> QED
  BY <1>0, <1>4, CapGrows

\* So a worse trade has no smaller impact.
LEMMA ImpactGrows ==
    ASSUME NEW c \in Configs, NEW d \in Configs, NoDearer(c, d),
           NEW t \in AnyTrade, NEW u \in AnyTrade, NoEasier(t, u)
    PROVE  Impact(c, t) \in Nat /\ Impact(d, u) \in Nat /\ Impact(c, t) <= Impact(d, u)
<1> DEFINE g == c.gamma
           g2 == d.gamma
           cap == c.maxImpact
           cap2 == d.maxImpact
           v == t.vol
           v2 == u.vol
           a == t.notional
           b == u.notional
           n == t.volume
           m == u.volume
           x == Impacted(g, v, Share(a, n), cap)
           y == Impacted(g2, v2, Share(b, m), cap2)
<1>1. /\ g \in Nat /\ g2 \in Nat /\ g <= g2 /\ cap \in Nat /\ cap2 \in Nat /\ cap <= cap2
  BY DEF Configs, NoDearer
<1>2. /\ v \in Nat /\ v2 \in Nat /\ v <= v2 /\ a \in Nat /\ b \in Nat /\ a <= b
      /\ n \in Nat /\ m \in Nat /\ m <= n /\ (n > 0 => m > 0)
  BY SMT DEF AnyTrade, NoEasier
<1>3. /\ Impact(c, t) = (IF g <= 0 \/ n <= 0 THEN 0 ELSE x)
      /\ Impact(d, u) = (IF g2 <= 0 \/ m <= 0 THEN 0 ELSE y)
  BY ImpactIs
<1> HIDE DEF g, g2, cap, cap2, v, v2, a, b, n, m
<1>4. CASE n > 0
  <2>1. Share(a, n) \in Nat /\ Share(b, m) \in Nat /\ Share(a, n) <= Share(b, m)
    BY <1>2, <1>4, ShareGrows
  <2>2. x \in Nat /\ y \in Nat /\ x <= y
    BY <1>1, <1>2, <2>1, ImpactedGrows
  <2> HIDE DEF x, y
  <2> QED
    BY <1>1, <1>2, <1>3, <1>4, <2>2
<1>5. CASE n = 0
  <2>1. m = 0
    BY <1>2, <1>5
  <2> HIDE DEF x, y
  <2> QED
    BY <1>3, <1>5, <2>1
<1> QED
  BY <1>2, <1>4, <1>5

\* estimate_trade_cost: dearer rates, a larger trade, a wilder or a thinner market
\* and a worse fill never make a trade cheaper, through every floor, cap and root.
THEOREM CostsGrow ==
    ASSUME NEW c \in Configs, NEW d \in Configs, NoDearer(c, d),
           NEW t \in AnyTrade, NEW u \in AnyTrade, NoEasier(t, u)
    PROVE  TotalBps(c, t) \in Nat /\ TotalBps(d, u) \in Nat /\ TotalBps(c, t) <= TotalBps(d, u)
<1>1. FeeBps(c, t) \in Nat /\ FeeBps(d, u) \in Nat /\ FeeBps(c, t) <= FeeBps(d, u)
  BY DEF FeeBps, Configs, NoDearer, AnyTrade, NoEasier
<1>2. Delay(c, t) \in Nat /\ Delay(d, u) \in Nat /\ Delay(c, t) <= Delay(d, u)
  <2>1. t.drift \in Int /\ u.drift \in Int /\ t.drift <= u.drift
    BY DEF AnyTrade, NoEasier
  <2> DEFINE x == t.drift
             y == u.drift
  <2>2. x \in Int /\ y \in Int /\ x <= y
    BY <2>1
  <2> HIDE DEF x, y
  <2>3. Max({0, x}) \in Nat /\ Max({0, y}) \in Nat /\ Max({0, x}) <= Max({0, y})
    BY <2>2, ExcessGrows
  <2>4. c.delay \in BOOLEAN /\ d.delay \in BOOLEAN /\ (c.delay => d.delay)
    BY DEF Configs, NoDearer
  <2> QED
    BY <2>3, <2>4 DEF Delay, x, y
<1>3. /\ HalfSpread(c, t) \in Nat /\ HalfSpread(d, u) \in Nat /\ HalfSpread(c, t) <= HalfSpread(d, u)
      /\ Slippage(c, t) \in Nat /\ Slippage(d, u) \in Nat /\ Slippage(c, t) <= Slippage(d, u)
      /\ Impact(c, t) \in Nat /\ Impact(d, u) \in Nat /\ Impact(c, t) <= Impact(d, u)
  BY SpreadGrows, SlippageGrows, ImpactGrows
<1>4. /\ TotalBps(c, t) = FeeBps(c, t) + HalfSpread(c, t) + Slippage(c, t) + Impact(c, t) + Delay(c, t)
      /\ TotalBps(d, u) = FeeBps(d, u) + HalfSpread(d, u) + Slippage(d, u) + Impact(d, u) + Delay(d, u)
  BY DEF TotalBps, Costs
<1> QED
  BY <1>1, <1>2, <1>3, <1>4

\* The scenarios are configurations, each dearer than the one before.
LEMMA ScenariosAreConfigs ==
    ASSUME NEW delay \in BOOLEAN
    PROVE  /\ Optimistic(delay) \in Configs /\ Base(delay) \in Configs
           /\ Conservative(delay) \in Configs /\ Stressed(delay) \in Configs
           /\ NoDearer(Optimistic(delay), Base(delay)) /\ NoDearer(Base(delay), Conservative(delay))
           /\ NoDearer(Conservative(delay), Stressed(delay))
           /\ SpreadFee \in Configs /\ SpreadSlippageFee \in Configs
           /\ NoDearer(SpreadFee, SpreadSlippageFee) /\ NoDearer(SpreadSlippageFee, Base(FALSE))
BY DEF Optimistic, Base, Conservative, Stressed, SpreadFee, SpreadSlippageFee, CostModelConfig,
       Configs, NoDearer

\* The scenarios of the run without a delay, each no cheaper than the last.
LEMMA RisingIs ==
    /\ DOMAIN Rising = 1 .. 5 /\ \A i \in 1 .. 5 : Rising[i] \in Configs
    /\ \A i \in 2 .. 5 : NoDearer(Rising[i - 1], Rising[i])
<1>1. /\ Rising[1] = SpreadFee /\ Rising[2] = SpreadSlippageFee /\ Rising[3] = Base(FALSE)
      /\ Rising[4] = Conservative(FALSE) /\ Rising[5] = Stressed(FALSE) /\ DOMAIN Rising = 1 .. 5
  BY DEF Rising
<1>2. /\ Base(FALSE) \in Configs /\ Conservative(FALSE) \in Configs /\ Stressed(FALSE) \in Configs
      /\ NoDearer(Base(FALSE), Conservative(FALSE)) /\ NoDearer(Conservative(FALSE), Stressed(FALSE))
      /\ SpreadFee \in Configs /\ SpreadSlippageFee \in Configs
      /\ NoDearer(SpreadFee, SpreadSlippageFee) /\ NoDearer(SpreadSlippageFee, Base(FALSE))
  BY ScenariosAreConfigs
<1>3. ASSUME NEW i \in 1 .. 5 PROVE Rising[i] \in Configs
  <2>1. i \in {1, 2, 3, 4, 5}
    OBVIOUS
  <2> QED
    BY <1>1, <1>2, <2>1
<1>4. ASSUME NEW i \in 2 .. 5 PROVE NoDearer(Rising[i - 1], Rising[i])
  <2>1. (i = 2 /\ i - 1 = 1) \/ (i = 3 /\ i - 1 = 2) \/ (i = 4 /\ i - 1 = 3) \/ (i = 5 /\ i - 1 = 4)
    OBVIOUS
  <2> QED
    BY <1>1, <1>2, <2>1
<1> QED
  BY <1>1, <1>3, <1>4

\* And those with a delay.
LEMMA DelayedIs ==
    /\ DOMAIN Delayed = 1 .. 4 /\ \A i \in 1 .. 4 : Delayed[i] \in Configs
    /\ \A i \in 2 .. 4 : NoDearer(Delayed[i - 1], Delayed[i])
<1>1. /\ Delayed[1] = Optimistic(TRUE) /\ Delayed[2] = Base(TRUE)
      /\ Delayed[3] = Conservative(TRUE) /\ Delayed[4] = Stressed(TRUE) /\ DOMAIN Delayed = 1 .. 4
  BY DEF Delayed
<1>2. /\ Optimistic(TRUE) \in Configs /\ Base(TRUE) \in Configs
      /\ Conservative(TRUE) \in Configs /\ Stressed(TRUE) \in Configs
      /\ NoDearer(Optimistic(TRUE), Base(TRUE)) /\ NoDearer(Base(TRUE), Conservative(TRUE))
      /\ NoDearer(Conservative(TRUE), Stressed(TRUE))
  BY ScenariosAreConfigs
<1>3. ASSUME NEW i \in 1 .. 4 PROVE Delayed[i] \in Configs
  <2>1. i \in {1, 2, 3, 4}
    OBVIOUS
  <2> QED
    BY <1>1, <1>2, <2>1
<1>4. ASSUME NEW i \in 2 .. 4 PROVE NoDearer(Delayed[i - 1], Delayed[i])
  <2>1. (i = 2 /\ i - 1 = 1) \/ (i = 3 /\ i - 1 = 2) \/ (i = 4 /\ i - 1 = 3)
    OBVIOUS
  <2> QED
    BY <1>1, <1>2, <2>1
<1> QED
  BY <1>1, <1>3, <1>4

\* Trades that are harder in one respect are harder.
LEMMA HarderIs ==
    ASSUME NEW t \in Trades, NEW u \in Harder(t)
    PROVE  t \in AnyTrade /\ u \in AnyTrade /\ NoEasier(t, u)
<1>1. /\ t.notional \in {1, 10, 100, 5000} /\ t.vol \in {50, 150, 160, 400}
      /\ t.volume \in {0, 1, 16, 49, 50, 100} /\ t.estimate \in {0, 30}
      /\ t.type \in {"MAKER", "TAKER"} /\ t.drift \in {-20, 0, 30} /\ t \in AnyTrade
  BY DEF Trades, AnyTrade
<1>2. ASSUME NEW n \in {1, 10, 100, 5000}, n > t.notional, u = [t EXCEPT !.notional = n]
      PROVE  u \in AnyTrade /\ NoEasier(t, u)
  BY <1>1, <1>2 DEF AnyTrade, NoEasier
<1>3. ASSUME NEW v \in {50, 150, 160, 400}, v > t.vol, u = [t EXCEPT !.vol = v]
      PROVE  u \in AnyTrade /\ NoEasier(t, u)
  BY <1>1, <1>3 DEF AnyTrade, NoEasier
<1>4. ASSUME NEW v \in {1, 16, 49, 50, 100}, v < t.volume, u = [t EXCEPT !.volume = v]
      PROVE  u \in AnyTrade /\ NoEasier(t, u)
  BY <1>1, <1>4 DEF AnyTrade, NoEasier
<1>5. ASSUME u = [t EXCEPT !.drift = 30]
      PROVE  u \in AnyTrade /\ NoEasier(t, u)
  BY <1>1, <1>5 DEF AnyTrade, NoEasier
<1> QED
  BY <1>1, <1>2, <1>3, <1>4, <1>5 DEF Harder

\* A trade is no easier than itself.
LEMMA SameTrade == ASSUME NEW t \in AnyTrade PROVE NoEasier(t, t)
BY DEF AnyTrade, NoEasier

\* A configuration is no dearer than itself.
LEMMA SameConfig == ASSUME NEW c \in Configs PROVE NoDearer(c, c)
BY DEF Configs, NoDearer

\* The scenarios keep the order of their names, and each of them that of trades.
LEMMA TradesOrdered ==
    ASSUME NEW t \in Trades
    PROVE  /\ \A i \in DOMAIN Rising \ {1} : TotalBps(Rising[i - 1], t) <= TotalBps(Rising[i], t)
           /\ \A i \in DOMAIN Delayed \ {1} : TotalBps(Delayed[i - 1], t) <= TotalBps(Delayed[i], t)
           /\ \A u \in Harder(t), c \in {Optimistic(TRUE), Base(FALSE), Stressed(TRUE)} :
                 TotalBps(c, t) <= TotalBps(c, u)
<1>1. t \in AnyTrade /\ NoEasier(t, t)
  <2>1. t \in AnyTrade
    BY DEF Trades, AnyTrade
  <2> QED
    BY <2>1, SameTrade
<1>2. ASSUME NEW i \in DOMAIN Rising \ {1} PROVE TotalBps(Rising[i - 1], t) <= TotalBps(Rising[i], t)
  <2>1. i \in 2 .. 5 /\ i - 1 \in 1 .. 5 /\ i \in 1 .. 5
    BY RisingIs
  <2>2. Rising[i - 1] \in Configs /\ Rising[i] \in Configs /\ NoDearer(Rising[i - 1], Rising[i])
    BY <2>1, RisingIs
  <2> QED
    BY <1>1, <2>2, CostsGrow
<1>3. ASSUME NEW i \in DOMAIN Delayed \ {1} PROVE TotalBps(Delayed[i - 1], t) <= TotalBps(Delayed[i], t)
  <2>1. i \in 2 .. 4 /\ i - 1 \in 1 .. 4 /\ i \in 1 .. 4
    BY DelayedIs
  <2>2. Delayed[i - 1] \in Configs /\ Delayed[i] \in Configs /\ NoDearer(Delayed[i - 1], Delayed[i])
    BY <2>1, DelayedIs
  <2> QED
    BY <1>1, <2>2, CostsGrow
<1>4. ASSUME NEW u \in Harder(t), NEW c \in {Optimistic(TRUE), Base(FALSE), Stressed(TRUE)}
      PROVE  TotalBps(c, t) <= TotalBps(c, u)
  <2>1. c \in Configs
    BY ScenariosAreConfigs
  <2>2. NoDearer(c, c)
    BY <2>1, SameConfig
  <2> QED
    BY <2>1, <2>2, HarderIs, CostsGrow
<1> QED
  BY <1>2, <1>3, <1>4

-----------------------------------------------------------------------------
(* evaluate_liquidity *)

\* The score of a market that is not volatile.
CalmScore(v) ==
    CASE Tier(v) = "HIGH" -> Min({1000, 800 + (v - 100) \div 2})
      [] Tier(v) = "MEDIUM" -> 500 + ((v - 20) * 300) \div 80
      [] Tier(v) = "LOW" -> 200 + (v - 5) * 20
      [] OTHER -> Max({0, v * 40})

\* A wild market costs the score 100 points.
LEMMA LiquidityIs ==
    ASSUME NEW v, NEW vol
    PROVE  LiquidityScore(v, vol) = IF vol > 300 THEN Max({0, CalmScore(v) - 100}) ELSE CalmScore(v)
BY DEF LiquidityScore, CalmScore

Top == 1000
High(v) == 800 + (v - 100) \div 2

\* What each tier gives.
LEMMA HighScore ==
    ASSUME NEW v \in Nat, v >= 100
    PROVE  /\ Tier(v) = "HIGH" /\ CalmScore(v) = Min({Top, High(v)})
           /\ CalmScore(v) \in Nat /\ 800 <= CalmScore(v)
<1>1. Tier(v) = "HIGH"
  BY DEF Tier
<1>2. CalmScore(v) = Min({Top, High(v)})
  BY <1>1 DEF CalmScore, Top, High
<1>3. v - 100 \in Nat
  OBVIOUS
<1>4. (v - 100) \div 2 \in Nat
  BY <1>3
<1>5. High(v) \in Int /\ Top \in Int /\ High(v) >= 800 /\ Top >= 800
  BY <1>4, SMT DEF High, Top
<1>6. Min({Top, High(v)}) \in {Top, High(v)}
  BY <1>5, MinOfTwo
<1>7. CalmScore(v) \in Nat /\ 800 <= CalmScore(v)
  BY <1>2, <1>5, <1>6
<1> QED
  BY <1>1, <1>2, <1>7

\* The tiers by volume and their scores.
LEMMA MediumScore ==
    ASSUME NEW v \in Nat, v >= 20, v < 100
    PROVE  /\ Tier(v) = "MEDIUM" /\ CalmScore(v) = 500 + ((v - 20) * 300) \div 80
           /\ CalmScore(v) \in Nat /\ 500 <= CalmScore(v) /\ CalmScore(v) <= 797
<1>1. Tier(v) = "MEDIUM"
  BY DEF Tier
<1>2. CalmScore(v) = 500 + ((v - 20) * 300) \div 80
  BY <1>1 DEF CalmScore
<1>3. ((v - 20) * 300) \div 80 \in 0 .. 297
  OBVIOUS
<1> QED
  BY <1>1, <1>2, <1>3

\* The low tier.
LEMMA LowScore ==
    ASSUME NEW v \in Nat, v >= 5, v < 20
    PROVE  /\ Tier(v) = "LOW" /\ CalmScore(v) = 200 + (v - 5) * 20
           /\ CalmScore(v) \in Nat /\ 200 <= CalmScore(v) /\ CalmScore(v) <= 480
<1>1. Tier(v) = "LOW"
  BY DEF Tier
<1> QED
  BY <1>1 DEF CalmScore

\* The lowest tier.
LEMMA ExtremeScore ==
    ASSUME NEW v \in Nat, v < 5
    PROVE  /\ Tier(v) = "EXTREME" /\ CalmScore(v) = v * 40
           /\ CalmScore(v) \in Nat /\ CalmScore(v) <= 160
<1>1. Tier(v) = "EXTREME"
  BY DEF Tier
<1> DEFINE x == v * 40
<1>2. CalmScore(v) = Max({0, x})
  BY <1>1 DEF CalmScore
<1>3. x \in Nat /\ x <= 160
  OBVIOUS
<1> HIDE DEF x
<1>4. Max({0, x}) \in {0, x} /\ Max({0, x}) >= x
  BY <1>3, MaxOfTwo
<1>5. CalmScore(v) = x
  BY <1>2, <1>3, <1>4
<1> QED
  BY <1>1, <1>3, <1>5 DEF x

\* More volume never lowers the score, within a tier and across them.
LEMMA CalmScoreGrows ==
    ASSUME NEW v \in Nat, NEW w \in Nat, v <= w
    PROVE  CalmScore(v) \in Nat /\ CalmScore(w) \in Nat /\ CalmScore(v) <= CalmScore(w)
<1> DEFINE x == CalmScore(v)
           y == CalmScore(w)
<1>1. CASE v >= 100
  <2> DEFINE p == High(v)
             q == High(w)
  <2>1. x = Min({Top, p}) /\ x \in Nat
    BY <1>1, HighScore
  <2>2. w >= 100
    BY <1>1
  <2>3. y = Min({Top, q}) /\ y \in Nat
    BY <2>2, HighScore
  <2>4. p \in Int /\ q \in Int /\ p <= q
    BY <1>1, <2>2 DEF High
  <2>5. Top \in Int
    BY DEF Top
  <2> HIDE DEF x, y, p, q
  <2>6. Min({Top, p}) <= Top /\ Min({Top, p}) <= p
    BY <2>4, <2>5, MinOfTwo
  <2>7. Min({Top, q}) \in {Top, q}
    BY <2>4, <2>5, MinOfTwo
  <2>8. x <= y
    BY <2>1, <2>3, <2>4, <2>5, <2>6, <2>7
  <2> QED
    BY <2>1, <2>3, <2>8 DEF x, y
<1>2. CASE v < 100
  <2>1. \/ v < 5 /\ x = v * 40 /\ x \in Nat /\ x <= 160
        \/ v >= 5 /\ v < 20 /\ x = 200 + (v - 5) * 20 /\ x \in Nat /\ x <= 480
        \/ v >= 20 /\ v < 100 /\ x = 500 + ((v - 20) * 300) \div 80 /\ x \in Nat /\ x <= 797
    <3>1. v < 5 \/ (v >= 5 /\ v < 20) \/ (v >= 20 /\ v < 100)
      BY <1>2
    <3> QED
      BY <3>1, ExtremeScore, LowScore, MediumScore
  <2>2. \/ w < 5 /\ y = w * 40 /\ y \in Nat
        \/ w >= 5 /\ w < 20 /\ y = 200 + (w - 5) * 20 /\ y \in Nat /\ 200 <= y
        \/ w >= 20 /\ w < 100 /\ y = 500 + ((w - 20) * 300) \div 80 /\ y \in Nat /\ 500 <= y
        \/ w >= 100 /\ y \in Nat /\ 800 <= y
    <3>1. w < 5 \/ (w >= 5 /\ w < 20) \/ (w >= 20 /\ w < 100) \/ w >= 100
      OBVIOUS
    <3>2. CASE w < 100
      BY <3>1, <3>2, ExtremeScore, LowScore, MediumScore
    <3>3. CASE w >= 100
      BY <3>3, HighScore
    <3> QED
      BY <3>2, <3>3
  <2> HIDE DEF x, y
  <2>3. x \in Nat /\ y \in Nat /\ x <= y
    BY <2>1, <2>2
  <2> QED
    BY <2>3 DEF x, y
<1> QED
  BY <1>1, <1>2

\* In a calm market the score never leaves the range its tier is given.
LEMMA LiquidityWithin ==
    ASSUME NEW v \in Nat
    PROVE  /\ LiquidityScore(v, 300) \in Nat
           /\ Tier(v) \in {"HIGH", "MEDIUM", "LOW", "EXTREME"}
           /\ Tier(v) = "HIGH" => LiquidityScore(v, 300) >= 800
           /\ Tier(v) = "MEDIUM" => LiquidityScore(v, 300) >= 500
           /\ Tier(v) = "LOW" => LiquidityScore(v, 300) >= 200
<1>1. LiquidityScore(v, 300) = CalmScore(v)
  BY DEF LiquidityScore, CalmScore
<1>2. v < 5 \/ (v >= 5 /\ v < 20) \/ (v >= 20 /\ v < 100) \/ v >= 100
  OBVIOUS
<1>3. CASE v < 5
  BY <1>1, <1>3, ExtremeScore
<1>4. CASE v >= 5 /\ v < 20
  BY <1>1, <1>4, LowScore
<1>5. CASE v >= 20 /\ v < 100
  BY <1>1, <1>5, MediumScore
<1>6. CASE v >= 100
  BY <1>1, <1>6, HighScore
<1> QED
  BY <1>2, <1>3, <1>4, <1>5, <1>6

\* More volume never lowers the score of an asset, across the tiers.
THEOREM LiquidityGrows ==
    ASSUME NEW v \in Nat, NEW w \in Nat, v <= w, NEW vol \in Nat
    PROVE  LiquidityScore(v, vol) <= LiquidityScore(w, vol)
<1> DEFINE p == CalmScore(v)
           q == CalmScore(w)
<1>1. p \in Nat /\ q \in Nat /\ p <= q
  BY CalmScoreGrows
<1>2. /\ LiquidityScore(v, vol) = IF vol > 300 THEN Max({0, p - 100}) ELSE p
      /\ LiquidityScore(w, vol) = IF vol > 300 THEN Max({0, q - 100}) ELSE q
  BY LiquidityIs
<1> HIDE DEF p, q
<1> DEFINE a == p - 100
           b == q - 100
<1>3. a \in Int /\ b \in Int /\ a <= b
  BY <1>1
<1>4. /\ LiquidityScore(v, vol) = IF vol > 300 THEN Max({0, a}) ELSE p
      /\ LiquidityScore(w, vol) = IF vol > 300 THEN Max({0, b}) ELSE q
  BY <1>2
<1> HIDE DEF a, b
<1>5. Max({0, a}) <= Max({0, b})
  BY <1>3, ExcessGrows
<1> QED
  BY <1>1, <1>4, <1>5

-----------------------------------------------------------------------------
(* compute_portfolio_rebalance_costs *)

Distance(x) == IF x < 0 THEN -x ELSE x
SizeOf(capital, x) == (capital * Distance(x)) \div 100
MoveCost(c, capital, market, x) ==
    SizeOf(capital, x) * TotalBps(c, [market EXCEPT !.notional = SizeOf(capital, x)])

\* A longer move is a larger trade.
LEMMA SizesGrow ==
    ASSUME NEW capital \in Nat, NEW x \in Int, NEW y \in Int, Distance(x) <= Distance(y)
    PROVE  /\ SizeOf(capital, x) \in Nat /\ SizeOf(capital, y) \in Nat
           /\ SizeOf(capital, x) <= SizeOf(capital, y)
<1> DEFINE a == Distance(x)
           b == Distance(y)
<1>1. a \in Nat /\ b \in Nat /\ a <= b
  BY DEF Distance
<1> HIDE DEF a, b
<1>2. capital * a \in Nat /\ capital * b \in Nat /\ capital * a <= capital * b
  BY <1>1, ProductGrows
<1> DEFINE p == capital * a
           q == capital * b
<1>3. p \in Nat /\ q \in Nat /\ p <= q
  BY <1>2
<1> HIDE DEF p, q
<1>4. p \div 100 \in Nat /\ q \div 100 \in Nat /\ p \div 100 <= q \div 100
  BY <1>3, DivisionGrows
<1> QED
  BY <1>4 DEF p, q, a, b, SizeOf

\* The floors of the parts make no more than the floor of the whole.
LEMMA SizesSplit ==
    ASSUME NEW capital \in Nat, NEW x \in Int, NEW y \in Int, NEW z \in Int,
           Distance(x) + Distance(y) = Distance(z)
    PROVE  SizeOf(capital, x) + SizeOf(capital, y) <= SizeOf(capital, z)
<1> DEFINE a == Distance(x)
           b == Distance(y)
<1>1. a \in Nat /\ b \in Nat /\ Distance(z) = a + b
  BY DEF Distance
<1> HIDE DEF a, b
<1> DEFINE p == capital * a
           q == capital * b
<1>2. p \in Nat /\ q \in Nat /\ capital * (a + b) = p + q
  <2>1. capital * a \in Nat /\ capital * b \in Nat
    BY <1>1, ProductGrows
  <2> QED
    BY <1>1, <2>1
<1> HIDE DEF p, q
<1>3. p \div 100 + q \div 100 <= (p + q) \div 100
  BY <1>2
<1> QED
  BY <1>1, <1>2, <1>3 DEF p, q, a, b, SizeOf

\* The market of a trade of any size.
LEMMA MarketOf ==
    ASSUME NEW market \in AnyTrade, NEW m \in Nat, NEW n \in Nat, m <= n
    PROVE  /\ [market EXCEPT !.notional = m] \in AnyTrade /\ [market EXCEPT !.notional = n] \in AnyTrade
           /\ NoEasier([market EXCEPT !.notional = m], [market EXCEPT !.notional = n])
BY DEF AnyTrade, NoEasier

\* And no cheaper one.
LEMMA MovesGrow ==
    ASSUME NEW c \in Configs, NEW market \in AnyTrade, NEW capital \in Nat,
           NEW x \in Int, NEW y \in Int, Distance(x) <= Distance(y)
    PROVE  /\ MoveCost(c, capital, market, x) \in Nat /\ MoveCost(c, capital, market, y) \in Nat
           /\ MoveCost(c, capital, market, x) <= MoveCost(c, capital, market, y)
<1> DEFINE m == SizeOf(capital, x)
           n == SizeOf(capital, y)
           r == TotalBps(c, [market EXCEPT !.notional = m])
           s == TotalBps(c, [market EXCEPT !.notional = n])
<1>1. m \in Nat /\ n \in Nat /\ m <= n
  BY SizesGrow
<1>2. r \in Nat /\ s \in Nat /\ r <= s
  <2> HIDE DEF m, n
  <2>1. /\ [market EXCEPT !.notional = m] \in AnyTrade /\ [market EXCEPT !.notional = n] \in AnyTrade
        /\ NoEasier([market EXCEPT !.notional = m], [market EXCEPT !.notional = n])
    BY <1>1, MarketOf
  <2>2. NoDearer(c, c)
    BY SameConfig
  <2> QED
    BY <2>1, <2>2, CostsGrow
<1>3. MoveCost(c, capital, market, x) = m * r /\ MoveCost(c, capital, market, y) = n * s
  BY DEF MoveCost
<1> HIDE DEF m, n, r, s
<1>4. m * r \in Nat /\ n * s \in Nat /\ m * r <= n * s
  BY <1>1, <1>2, ProductsGrow
<1> QED
  BY <1>3, <1>4

\* A move has a cost.
LEMMA MovesAreNat ==
    ASSUME NEW c \in Configs, NEW market \in AnyTrade, NEW capital \in Nat, NEW x \in Int
    PROVE  MoveCost(c, capital, market, x) \in Nat
<1>1. Distance(x) <= Distance(x)
  BY DEF Distance
<1> QED
  BY <1>1, MovesGrow

\* A trade of nothing has a rate, too.
LEMMA NothingTraded ==
    ASSUME NEW c \in Configs, NEW market \in AnyTrade
    PROVE  TotalBps(c, [market EXCEPT !.notional = 0]) \in Nat
<1>1. [market EXCEPT !.notional = 0] \in AnyTrade
      /\ NoEasier([market EXCEPT !.notional = 0], [market EXCEPT !.notional = 0])
  BY MarketOf
<1>2. NoDearer(c, c)
  BY SameConfig
<1> QED
  BY <1>1, <1>2, CostsGrow

\* But costs nothing.
LEMMA NoMoveIsFree ==
    ASSUME NEW c \in Configs, NEW market \in AnyTrade, NEW capital \in Nat
    PROVE  MoveCost(c, capital, market, 0) = 0
<1> DEFINE r == TotalBps(c, [market EXCEPT !.notional = 0])
<1>1. r \in Nat
  BY NothingTraded
<1>2. SizeOf(capital, 0) = 0
  <2>1. Distance(0) = 0 /\ capital * 0 = 0 /\ 0 \div 100 = 0
    BY DEF Distance
  <2> QED
    BY <2>1 DEF SizeOf
<1>3. MoveCost(c, capital, market, 0) = 0 * r
  BY <1>2 DEF MoveCost
<1> HIDE DEF r
<1> QED
  BY <1>1, <1>3

\* Two moves that make up a third cost no more than it.
LEMMA MovesSplit ==
    ASSUME NEW c \in Configs, NEW market \in AnyTrade, NEW capital \in Nat,
           NEW x \in Int, NEW y \in Int, NEW z \in Int, Distance(x) + Distance(y) = Distance(z)
    PROVE  MoveCost(c, capital, market, x) + MoveCost(c, capital, market, y) <= MoveCost(c, capital, market, z)
<1> DEFINE l == SizeOf(capital, x)
           m == SizeOf(capital, y)
           n == SizeOf(capital, z)
           q == TotalBps(c, [market EXCEPT !.notional = l])
           r == TotalBps(c, [market EXCEPT !.notional = m])
           s == TotalBps(c, [market EXCEPT !.notional = n])
<1>1. Distance(x) <= Distance(z) /\ Distance(y) <= Distance(z)
  BY DEF Distance
<1>2. l \in Nat /\ m \in Nat /\ n \in Nat /\ l <= n /\ m <= n
  BY <1>1, SizesGrow
<1>3. l + m <= n
  BY SizesSplit
<1>4. q \in Nat /\ r \in Nat /\ s \in Nat /\ q <= s /\ r <= s
  <2> HIDE DEF l, m, n
  <2>1. /\ [market EXCEPT !.notional = l] \in AnyTrade /\ [market EXCEPT !.notional = n] \in AnyTrade
        /\ NoEasier([market EXCEPT !.notional = l], [market EXCEPT !.notional = n])
    BY <1>2, MarketOf
  <2>2. /\ [market EXCEPT !.notional = m] \in AnyTrade
        /\ NoEasier([market EXCEPT !.notional = m], [market EXCEPT !.notional = n])
    BY <1>2, MarketOf
  <2>3. NoDearer(c, c)
    BY SameConfig
  <2> QED
    BY <2>1, <2>2, <2>3, CostsGrow
<1>5. /\ MoveCost(c, capital, market, x) = l * q /\ MoveCost(c, capital, market, y) = m * r
      /\ MoveCost(c, capital, market, z) = n * s
  BY DEF MoveCost
<1> HIDE DEF l, m, n, q, r, s
<1>6. l * q \in Nat /\ l * s \in Nat /\ l * q <= l * s
  BY <1>2, <1>4, ProductsGrow
<1>7. m * r \in Nat /\ m * s \in Nat /\ m * r <= m * s
  BY <1>2, <1>4, ProductsGrow
<1> DEFINE k == l + m
<1>8. k \in Nat /\ k <= n /\ k * s = l * s + m * s
  BY <1>2, <1>3, <1>4
<1> HIDE DEF k
<1>9. k * s \in Nat /\ n * s \in Nat /\ k * s <= n * s
  BY <1>2, <1>4, <1>8, ProductsGrow
<1> QED
  BY <1>5, <1>6, <1>7, <1>8, <1>9

\* A sum over two or three bars, of which those that cost nothing may be left out.
LEMMA SumOfFewBars ==
    ASSUME NEW n \in {2, 3}, NEW f, \A t \in 1 .. n : f[t] \in Nat,
           NEW S \in SUBSET (1 .. n), \A t \in (1 .. n) \ S : f[t] = 0
    PROVE  Sums!Fold(f, S) = f[1] + f[2] + (IF n = 3 THEN f[3] ELSE 0)
<1>1. ASSUME NEW T \in SUBSET (1 .. n)
      PROVE  Sums!IsSum /\ Sums!IsFiniteSet(T) /\ Sums!Chooses(T) /\ Sums!Values(f, T, Int)
  <2>1. n \in Int /\ IsFiniteSet(1 .. n)
    BY FS_Interval
  <2>2. IsFiniteSet(T)
    BY <2>1, FS_Subset
  <2> QED
    BY <2>2 DEF Sums!IsSum, Sums!IsFiniteSet, IsFiniteSet, Sums!Chooses, Sums!Values, Plus, AnyOf
<1> DEFINE R == (1 .. n) \ S
<1>2. Sums!Fold(f, 1 .. n) = Sums!Fold(f, S) + Sums!Fold(f, R) /\ Sums!Fold(f, S) \in Int
  <2>1. S \cup R = 1 .. n /\ S \cap R = {} /\ R \in SUBSET (1 .. n)
    OBVIOUS
  <2>2. Sums!Chooses(S \cup R) /\ Sums!Values(f, S \cup R, Int)
    BY <1>1, <2>1
  <2>3. Sums!IsFiniteSet(S) /\ Sums!IsFiniteSet(R) /\ Sums!IsSum
    BY <1>1, <2>1
  <2> HIDE DEF R
  <2> QED
    BY <2>1, <2>2, <2>3, Sums!SumUnion
<1>3. Sums!Fold(f, R) = 0
  <2>1. R \in SUBSET (1 .. n)
    OBVIOUS
  <2>2. Sums!Values(f, R, {0})
    BY DEF Sums!Values
  <2> HIDE DEF R
  <2> QED
    BY <1>1, <2>1, <2>2, Sums!SumOfZeros
<1> HIDE DEF R
<1>4. ASSUME NEW T \in SUBSET (1 .. n), NEW e \in T
      PROVE  Sums!Fold(f, T \ {e}) \in Int /\ Sums!Fold(f, T) = f[e] + Sums!Fold(f, T \ {e})
  BY <1>1, Sums!SumSplit
<1>5. Sums!Fold(f, {}) = 0
  BY Sums!FoldEmpty
<1>6. Sums!Fold(f, {1, 2}) = f[1] + f[2]
  <2>1. {1, 2} \in SUBSET (1 .. n) /\ {2} \in SUBSET (1 .. n) /\ {1, 2} \ {1} = {2} /\ {2} \ {2} = {}
    OBVIOUS
  <2>2. Sums!Fold(f, {2}) = f[2] + Sums!Fold(f, {})
    BY <1>4, <2>1
  <2>3. Sums!Fold(f, {1, 2}) = f[1] + Sums!Fold(f, {2})
    BY <1>4, <2>1
  <2> QED
    BY <1>5, <2>2, <2>3
<1>7. CASE n = 2
  <2>1. 1 .. n = {1, 2}
    BY <1>7
  <2> QED
    BY <1>2, <1>3, <1>6, <1>7, <2>1
<1>8. CASE n = 3
  <2>1. 1 .. n = {1, 2, 3} /\ 3 \in 1 .. n /\ (1 .. n) \ {3} = {1, 2}
    BY <1>8
  <2>2. Sums!Fold(f, 1 .. n) = f[3] + Sums!Fold(f, {1, 2})
    BY <1>4, <2>1
  <2> QED
    BY <1>2, <1>3, <1>6, <1>8, <2>2
<1> QED
  BY <1>7, <1>8

\* A path of targets costs its moves, the first of them from no position.
LEMMA PathCosts ==
    ASSUME NEW c \in Configs, NEW market \in AnyTrade, NEW capital \in Nat,
           NEW n \in {2, 3}, NEW w, Len(w) = n + 1, \A t \in 1 .. n : w[t] \in Int
    PROVE  RebalanceCost(c, w, capital, market)
             = MoveCost(c, capital, market, w[1]) + MoveCost(c, capital, market, w[2] - w[1])
               + (IF n = 3 THEN MoveCost(c, capital, market, w[3] - w[2]) ELSE 0)
<1> DEFINE Change(t) == w[t] - (IF t = 1 THEN 0 ELSE w[t - 1])
           trades == RebalanceTrades(w, capital, market)
           f == [t \in DOMAIN trades |-> Dollars(c, trades[t])]
           S == {t \in DOMAIN trades : trades[t].notional > 0}
<1>1. trades = [t \in 1 .. n |-> [market EXCEPT !.notional = SizeOf(capital, Change(t))]]
  <2>1. Len(w) - 1 = n
    OBVIOUS
  <2> QED
    BY <2>1 DEF RebalanceTrades, SizeOf, Distance
<1>2. ASSUME NEW t \in 1 .. n
      PROVE  /\ Change(t) \in Int /\ trades[t] = [market EXCEPT !.notional = SizeOf(capital, Change(t))]
             /\ trades[t].notional = SizeOf(capital, Change(t))
             /\ SizeOf(capital, Change(t)) \in Nat
  <2>1. Change(t) \in Int
    <3>1. t = 1 \/ t - 1 \in 1 .. n
      OBVIOUS
    <3> QED
      BY <3>1
  <2>2. trades[t] = [market EXCEPT !.notional = SizeOf(capital, Change(t))]
    BY <1>1
  <2>3. [market EXCEPT !.notional = SizeOf(capital, Change(t))].notional = SizeOf(capital, Change(t))
    BY DEF AnyTrade
  <2> HIDE DEF Change, trades
  <2>4. SizeOf(capital, Change(t)) \in Nat
    <3>1. Distance(Change(t)) <= Distance(Change(t))
      BY <2>1 DEF Distance
    <3> QED
      BY <2>1, <3>1, SizesGrow
  <2> QED
    BY <2>1, <2>2, <2>3, <2>4
<1>3. DOMAIN trades = 1 .. n
  BY <1>1
<1>4. ASSUME NEW t \in 1 .. n
      PROVE  f[t] = MoveCost(c, capital, market, Change(t)) /\ f[t] \in Nat
  <2>1. f[t] = Dollars(c, trades[t])
    BY <1>3
  <2> HIDE DEF f, trades, Change
  <2>2. Dollars(c, trades[t]) = SizeOf(capital, Change(t)) * TotalBps(c, trades[t])
    BY <1>2 DEF Dollars
  <2>3. Dollars(c, trades[t]) = MoveCost(c, capital, market, Change(t))
    BY <1>2, <2>2 DEF MoveCost
  <2>4. MoveCost(c, capital, market, Change(t)) \in Nat
    <3>1. Change(t) \in Int
      BY <1>2
    <3> QED
      BY <3>1, MovesAreNat
  <2> QED
    BY <2>1, <2>3, <2>4
<1>5. S \in SUBSET (1 .. n)
  BY <1>3
<1>6. ASSUME NEW t \in (1 .. n) \ S PROVE f[t] = 0
  <2>1. t \in 1 .. n /\ ~(trades[t].notional > 0)
    BY <1>3
  <2> HIDE DEF S, f, trades, Change
  <2>2. SizeOf(capital, Change(t)) = 0
    <3>1. trades[t].notional = SizeOf(capital, Change(t)) /\ SizeOf(capital, Change(t)) \in Nat
      BY <1>2, <2>1
    <3> QED
      BY <2>1, <3>1
  <2> DEFINE r == TotalBps(c, [market EXCEPT !.notional = 0])
  <2>3. r \in Nat
    BY NothingTraded
  <2>4. MoveCost(c, capital, market, Change(t)) = 0 * r
    BY <2>2 DEF MoveCost
  <2> HIDE DEF r
  <2>5. 0 * r = 0
    BY <2>3
  <2> QED
    BY <1>4, <2>1, <2>4, <2>5
<1>7. RebalanceCost(c, w, capital, market) = SumFunctionOnSet(f, S)
  BY DEF RebalanceCost
<1> HIDE DEF f, S, trades
<1>8. SumFunctionOnSet(f, S) = Sums!Fold(f, S)
  BY DEF SumFunctionOnSet, FoldFunctionOnSet, MapThenFoldSet, Sums!Fold, Sums!MapThenFoldSet, Plus, AnyOf
<1>9. Sums!Fold(f, S) = f[1] + f[2] + (IF n = 3 THEN f[3] ELSE 0)
  BY <1>4, <1>5, <1>6, SumOfFewBars
<1>10. /\ 1 \in 1 .. n /\ 2 \in 1 .. n /\ (n = 3 => 3 \in 1 .. n)
       /\ Change(1) = w[1] /\ Change(2) = w[2] - w[1] /\ (n = 3 => Change(3) = w[3] - w[2])
  OBVIOUS
<1> HIDE DEF Change
<1> QED
  BY <1>4, <1>7, <1>8, <1>9, <1>10

\* A target in between costs no more than the whole move, one beyond no less, a
\* target kept nothing, and the last one is not traded.
THEOREM PathsAreFair ==
    ASSUME NEW c \in Configs, NEW market \in AnyTrade, NEW capital \in Nat,
           NEW u \in Int, NEW v \in Int, NEW x \in Int, NEW last \in Int
    PROVE  LET straight == RebalanceCost(c, <<u, v, 0>>, capital, market)
               detour == RebalanceCost(c, <<u, x, v, 0>>, capital, market)
           IN  /\ Distance(x - u) + Distance(v - x) = Distance(v - u) => detour <= straight
               /\ Distance(x - u) + Distance(v - x) # Distance(v - u) => detour >= straight
               /\ x = u => detour = straight
               /\ RebalanceCost(c, <<u, v, last>>, capital, market) = straight
<1> DEFINE M(y) == MoveCost(c, capital, market, y)
           straight == RebalanceCost(c, <<u, v, 0>>, capital, market)
           detour == RebalanceCost(c, <<u, x, v, 0>>, capital, market)
           other == RebalanceCost(c, <<u, v, last>>, capital, market)
<1>1. M(u) \in Nat /\ M(v - u) \in Nat /\ M(x - u) \in Nat /\ M(v - x) \in Nat
  <2>1. ASSUME NEW y \in Int PROVE M(y) \in Nat
    BY MovesAreNat
  <2> HIDE DEF M
  <2>2. v - u \in Int /\ x - u \in Int /\ v - x \in Int
    OBVIOUS
  <2> QED
    BY <2>1, <2>2
<1>2. straight = M(u) + M(v - u)
  <2> DEFINE w == <<u, v, 0>>
  <2>1. Len(w) = 3 /\ w[1] = u /\ w[2] = v /\ \A t \in 1 .. 2 : w[t] \in Int
    OBVIOUS
  <2> HIDE DEF w
  <2>2. RebalanceCost(c, w, capital, market) = M(w[1]) + M(w[2] - w[1]) + 0
    BY <2>1, PathCosts
  <2>3. M(u) \in Nat /\ M(v - u) \in Nat
    BY <1>1
  <2> QED
    BY <2>1, <2>2, <2>3 DEF w
<1>3. other = M(u) + M(v - u)
  <2> DEFINE w == <<u, v, last>>
  <2>1. Len(w) = 3 /\ w[1] = u /\ w[2] = v /\ \A t \in 1 .. 2 : w[t] \in Int
    OBVIOUS
  <2> HIDE DEF w
  <2>2. RebalanceCost(c, w, capital, market) = M(w[1]) + M(w[2] - w[1]) + 0
    BY <2>1, PathCosts
  <2>3. M(u) \in Nat /\ M(v - u) \in Nat
    BY <1>1
  <2> QED
    BY <2>1, <2>2, <2>3 DEF w
<1>4. detour = M(u) + M(x - u) + M(v - x)
  <2> DEFINE w == <<u, x, v, 0>>
  <2>1. Len(w) = 4 /\ w[1] = u /\ w[2] = x /\ w[3] = v /\ \A t \in 1 .. 3 : w[t] \in Int
    OBVIOUS
  <2> HIDE DEF w
  <2>2. RebalanceCost(c, w, capital, market) = M(w[1]) + M(w[2] - w[1]) + M(w[3] - w[2])
    BY <2>1, PathCosts
  <2> QED
    BY <2>1, <2>2 DEF w
<1> DEFINE p == x - u
           q == v - x
           r == v - u
<1>5. p \in Int /\ q \in Int /\ r \in Int
  OBVIOUS
<1>6. Distance(p) + Distance(q) # Distance(r) => Distance(r) <= Distance(p) \/ Distance(r) <= Distance(q)
  BY DEF Distance
<1>7. M(r) = M(v - u) /\ M(p) = M(x - u) /\ M(q) = M(v - x)
  OBVIOUS
<1>8. x = u => M(p) = 0 /\ q = r
  <2> SUFFICES ASSUME x = u PROVE M(p) = 0 /\ q = r
    OBVIOUS
  <2>1. p = 0 /\ q = r
    OBVIOUS
  <2>2. M(0) = 0
    BY NoMoveIsFree
  <2> QED
    BY <2>1, <2>2
<1>9. Distance(p) + Distance(q) = Distance(r) => M(p) + M(q) <= M(r)
  <2> HIDE DEF p, q, r
  <2> QED
    BY <1>5, MovesSplit
<1>10. /\ Distance(r) <= Distance(p) => M(r) <= M(p)
       /\ Distance(r) <= Distance(q) => M(r) <= M(q)
  <2> HIDE DEF p, q, r
  <2> QED
    BY <1>5, MovesGrow
<1> HIDE DEF M, straight, detour, other
<1>11. /\ Distance(x - u) + Distance(v - x) = Distance(v - u) => detour <= straight
       /\ Distance(x - u) + Distance(v - x) # Distance(v - u) => detour >= straight
       /\ x = u => detour = straight
       /\ other = straight
  BY <1>1, <1>2, <1>3, <1>4, <1>6, <1>7, <1>8, <1>9, <1>10
<1> QED
  BY <1>11 DEF straight, detour, other

-----------------------------------------------------------------------------
(* What a trade, a market and a portfolio cost *)
CostInput == /\ Given("trade") => input[2] \in Trades
             /\ Given("targets") => input[2] \in Targets

\* What the costs are asked about.
LEMMA CostInputTyped == ResearchSpec => []CostInput
<1>1. ASSUME ResearchInit PROVE CostInput
  <2>1. CASE input \in Inputs
    BY <2>1 DEF Inputs, CostInput, Given
  <2>2. CASE input = NoInput
    BY <2>2 DEF NoInput, CostInput, Given
  <2> QED
    BY <1>1, <2>1, <2>2 DEF ResearchInit
<1>2. ASSUME CostInput, [ResearchNext]_<<vars, input>> PROVE CostInput'
  <2>1. Given("trade")' => Given("trade") /\ input' = input
    BY <1>2, InputsStay
  <2>2. Given("targets")' => Given("targets") /\ input' = input
    BY <1>2, InputsStay
  <2> QED
    BY <1>2, <2>1, <2>2 DEF CostInput
<1> QED
  BY <1>1, <1>2, PTL DEF ResearchSpec

\* The tiers, for the inputs of the run.
LEMMA LiquidityOrdered ==
    ASSUME CostInput
    PROVE  LiquidityIsOrdered
<1> SUFFICES ASSUME Given("trade"), NEW v \in 0 .. 120
             PROVE  LET t == input[2]
                        low(tier) == CASE tier = "HIGH" -> 800 [] tier = "MEDIUM" -> 500
                                       [] tier = "LOW" -> 200 [] OTHER -> 0
                    IN  /\ v <= t.volume => LiquidityScore(v, t.vol) <= LiquidityScore(t.volume, t.vol)
                        /\ LiquidityScore(v, 300) >= low(Tier(v))
  BY DEF LiquidityIsOrdered
<1> DEFINE t == input[2]
           m == t.volume
           vol == t.vol
<1>1. m \in Nat /\ vol \in Nat /\ v \in Nat
  BY DEF CostInput, Trades
<1>2. v <= m => LiquidityScore(v, vol) <= LiquidityScore(m, vol)
  <2> HIDE DEF m, vol
  <2> QED
    BY <1>1, LiquidityGrows
<1>3. LiquidityScore(v, 300) >= (CASE Tier(v) = "HIGH" -> 800 [] Tier(v) = "MEDIUM" -> 500
                                   [] Tier(v) = "LOW" -> 200 [] OTHER -> 0)
  BY <1>1, LiquidityWithin
<1> QED
  BY <1>2, <1>3

\* A target lies between two others when the ways to it make up the whole way.
LEMMA BetweenIs ==
    ASSUME NEW u \in Int, NEW v \in Int, NEW x \in Int
    PROVE  x \in Min({u, v}) .. Max({u, v}) <=> Distance(x - u) + Distance(v - x) = Distance(v - u)
<1> DEFINE a == Min({u, v})
           b == Max({u, v})
<1>1. a \in {u, v} /\ a <= u /\ a <= v /\ b \in {u, v} /\ b >= u /\ b >= v
  BY MinOfTwo, MaxOfTwo
<1> HIDE DEF a, b
<1>2. x \in a .. b <=> Distance(x - u) + Distance(v - x) = Distance(v - u)
  BY <1>1 DEF Distance
<1> QED
  BY <1>2 DEF a, b

\* The paths of targets, for the inputs of the run.
LEMMA PathsOrdered ==
    ASSUME CostInput
    PROVE  CostsFollowThePath
<1> DEFINE market == [notional |-> 0, vol |-> 200, volume |-> 16, estimate |-> 0,
                      type |-> "TAKER", drift |-> 0]
           cost(path) == RebalanceCost(Base(FALSE), path, 100, market)
<1>1. market \in AnyTrade
  BY SMT DEF AnyTrade
<1>2. Base(FALSE) \in Configs
  BY ScenariosAreConfigs
<1> DEFINE c == Base(FALSE)
<1> SUFFICES ASSUME Given("targets"), NEW x \in {-50, 0, 50, 100}
             PROVE  LET w == input[2]
                        straight == cost(<<w[1], w[2], 0>>)
                        detour == cost(<<w[1], x, w[2], 0>>)
                        between == x \in Min({w[1], w[2]}) .. Max({w[1], w[2]})
                    IN  /\ IF between THEN detour <= straight ELSE detour >= straight
                        /\ x = w[1] => detour = straight
                        /\ cost(<<w[1], w[2], x>>) = straight
  BY DEF CostsFollowThePath
<1> DEFINE w == input[2]
           u == w[1]
           v == w[2]
<1>3. u \in Int /\ v \in Int /\ x \in Int
  BY DEF CostInput, Targets
<1> HIDE DEF u, v, w, market, c
<1> DEFINE straight == RebalanceCost(c, <<u, v, 0>>, 100, market)
           detour == RebalanceCost(c, <<u, x, v, 0>>, 100, market)
<1>4. /\ Distance(x - u) + Distance(v - x) = Distance(v - u) => detour <= straight
      /\ Distance(x - u) + Distance(v - x) # Distance(v - u) => detour >= straight
      /\ x = u => detour = straight
      /\ RebalanceCost(c, <<u, v, x>>, 100, market) = straight
  <2>1. market \in AnyTrade /\ c \in Configs
    BY <1>1, <1>2 DEF c
  <2> QED
    BY <1>3, <2>1, PathsAreFair
<1>5. x \in Min({u, v}) .. Max({u, v}) <=> Distance(x - u) + Distance(v - x) = Distance(v - u)
  BY <1>3, BetweenIs
<1>6. /\ IF x \in Min({u, v}) .. Max({u, v}) THEN detour <= straight ELSE detour >= straight
      /\ x = u => detour = straight
      /\ RebalanceCost(c, <<u, v, x>>, 100, market) = straight
  BY <1>4, <1>5
<1> QED
  BY <1>6 DEF u, v, w, c, market

\* Whatever trade, market and path of targets the costs are asked about: no harder
\* trade and no dearer scenario is cheaper, no thicker market is less liquid, and a
\* path costs as it goes.
THEOREM CostsFollow == ResearchSpec => []CostsAreSound
<1>1. CostInput => TradesAreOrdered
  BY TradesOrdered DEF CostInput, TradesAreOrdered
<1>2. CostInput => CostsAreSound
  BY <1>1, LiquidityOrdered, PathsOrdered DEF CostsAreSound
<1> QED
  BY <1>2, CostInputTyped, PTL

-----------------------------------------------------------------------------
(* Clipped shares *)

\* The sum of a function is a fold the lemmas speak of.
LEMMA SumOfNaturals ==
    ASSUME NEW S, IsFiniteSet(S), NEW f \in [S -> Nat]
    PROVE  /\ SumFunction(f) = Sums!Fold(f, S)
           /\ Sums!IsSum /\ Sums!IsFiniteSet(S) /\ Sums!Chooses(S) /\ Sums!Values(f, S, Nat)
           /\ Sums!Values(f, S, Int)
<1>1. DOMAIN f = S
  OBVIOUS
<1>2. SumFunction(f) = SumFunctionOnSet(f, S)
  BY <1>1 DEF SumFunction
<1>3. SumFunctionOnSet(f, S) = Sums!Fold(f, S)
  BY DEF SumFunctionOnSet, FoldFunctionOnSet, MapThenFoldSet, Sums!Fold, Sums!MapThenFoldSet, Plus, AnyOf
<1>4. /\ Sums!IsSum /\ Sums!IsFiniteSet(S) /\ Sums!Chooses(S) /\ Sums!Values(f, S, Nat)
      /\ Sums!Values(f, S, Int)
  BY DEF Sums!IsSum, Sums!IsFiniteSet, IsFiniteSet, Sums!Chooses, Sums!Values, Plus, AnyOf
<1> QED
  BY <1>2, <1>3, <1>4

\* What two of its elements make of a sum.
LEMMA TwoOfSum ==
    ASSUME NEW S, IsFiniteSet(S), NEW f \in [S -> Nat], NEW a \in S, NEW b \in S, a # b
    PROVE  /\ SumFunction(f) \in Nat /\ SumFunction(f) >= f[a] + f[b]
           /\ S = {a, b} => SumFunction(f) = f[a] + f[b]
<1>1. /\ SumFunction(f) = Sums!Fold(f, S)
      /\ Sums!IsSum /\ Sums!IsFiniteSet(S) /\ Sums!Chooses(S) /\ Sums!Values(f, S, Nat)
      /\ Sums!Values(f, S, Int)
  BY SumOfNaturals
<1>2. Sums!Fold(f, S) = f[a] + Sums!Fold(f, S \ {a}) /\ Sums!Fold(f, S \ {a}) \in Int
  BY <1>1, Sums!SumSplit
<1> DEFINE R == S \ {a}
<1>3. IsFiniteSet(R) /\ b \in R
  BY FS_Subset
<1>4. Sums!IsFiniteSet(R) /\ Sums!Chooses(R) /\ Sums!Values(f, R, Nat) /\ Sums!Values(f, R, Int)
  BY <1>1, <1>3 DEF Sums!IsFiniteSet, IsFiniteSet, Sums!Chooses, Sums!Values
<1>5. R \ {b} \in SUBSET S
  OBVIOUS
<1> HIDE DEF R
<1>6. Sums!Fold(f, R) = f[b] + Sums!Fold(f, R \ {b})
  BY <1>1, <1>3, <1>4, Sums!SumSplit
<1>7. Sums!Fold(f, R \ {b}) \in Nat
  <2>1. IsFiniteSet(R \ {b})
    BY <1>5, FS_Subset
  <2>2. Sums!IsFiniteSet(R \ {b}) /\ Sums!Chooses(R \ {b}) /\ Sums!Values(f, R \ {b}, Nat)
    BY <2>1, <1>5 DEF Sums!IsFiniteSet, IsFiniteSet, Sums!Chooses, Sums!Values, AnyOf
  <2> QED
    BY <1>1, <2>2, Sums!SumType
<1>8. f[a] \in Nat /\ f[b] \in Nat
  OBVIOUS
<1>9. S = {a, b} => Sums!Fold(f, R \ {b}) = 0
  <2> SUFFICES ASSUME S = {a, b} PROVE Sums!Fold(f, R \ {b}) = 0
    OBVIOUS
  <2>1. R \ {b} = {}
    BY DEF R
  <2> QED
    BY <2>1, Sums!FoldEmpty
<1>10. Sums!Fold(f, S) = f[a] + Sums!Fold(f, R)
  BY <1>2 DEF R
<1> QED
  BY <1>1, <1>6, <1>7, <1>8, <1>9, <1>10

\* Clipped shares are between a quarter and three quarters of one number.
LEMMA SharesAre ==
    ASSUME NEW S, IsFiniteSet(S), NEW vol \in [S -> Nat \ {0}]
    PROVE  \E t \in Nat : /\ Clipped(vol) \in [S -> Nat]
                          /\ \A a \in S : 25 * t <= Clipped(vol)[a] /\ Clipped(vol)[a] <= 75 * t
<1> DEFINE inverse == [a \in S |-> 60 \div vol[a]]
           t == SumFunction(inverse)
<1>1. DOMAIN vol = S
  OBVIOUS
<1>2. \A a \in S : inverse[a] \in Nat
  OBVIOUS
<1>3. inverse \in [S -> Nat]
  BY <1>2
<1>4. t \in Nat
  <2> HIDE DEF inverse
  <2>1. /\ t = Sums!Fold(inverse, S)
        /\ Sums!IsSum /\ Sums!IsFiniteSet(S) /\ Sums!Chooses(S) /\ Sums!Values(inverse, S, Nat)
    BY <1>3, SumOfNaturals
  <2> QED
    BY <2>1, Sums!SumType
<1>5. Clipped(vol) = [a \in S |-> Min({75 * t, Max({25 * t, 100 * inverse[a]})})]
  BY <1>1 DEF Clipped
<1> HIDE DEF inverse, t
<1>6. ASSUME NEW a \in S
      PROVE  Clipped(vol)[a] \in Nat /\ 25 * t <= Clipped(vol)[a] /\ Clipped(vol)[a] <= 75 * t
  <2> DEFINE x == 100 * inverse[a]
             lo == 25 * t
             hi == 75 * t
             y == Max({lo, x})
  <2>1. x \in Int /\ lo \in Nat /\ hi \in Nat /\ lo <= hi /\ lo \in Int /\ hi \in Int
    BY <1>2, <1>4
  <2>2. Clipped(vol)[a] = Min({hi, y})
    BY <1>5
  <2> HIDE DEF x, lo, hi
  <2>3. y \in Int /\ y >= lo
    BY <2>1, MaxOfTwo
  <2> HIDE DEF y
  <2>4. Min({hi, y}) \in {hi, y} /\ Min({hi, y}) <= hi
    BY <2>1, <2>3, MinOfTwo
  <2>5. Clipped(vol)[a] \in Nat /\ lo <= Clipped(vol)[a] /\ Clipped(vol)[a] <= hi
    BY <2>1, <2>2, <2>3, <2>4
  <2> QED
    BY <2>5 DEF lo, hi
<1>7. Clipped(vol) \in [S -> Nat]
  BY <1>5, <1>6
<1> QED
  BY <1>4, <1>6, <1>7

\* The cap outlives the second normalisation: of two assets or more none has more
\* than three quarters of the whole, and of just two none less than a quarter.
THEOREM CapsSurvive ==
    ASSUME NEW S, IsFiniteSet(S), NEW vol \in [S -> Nat \ {0}], NEW a \in S, S # {a}
    PROVE  LET share == Clipped(vol)
           IN  /\ 4 * share[a] <= 3 * Total(share)
               /\ Cardinality(DOMAIN share) = 2 => 4 * share[a] >= Total(share)
<1> DEFINE f == Clipped(vol)
<1>1. PICK b \in S : b # a
  OBVIOUS
<1>2. PICK t \in Nat : /\ f \in [S -> Nat]
                       /\ \A x \in S : 25 * t <= f[x] /\ f[x] <= 75 * t
  BY SharesAre
<1> HIDE DEF f
<1>3. /\ SumFunction(f) \in Nat /\ SumFunction(f) >= f[a] + f[b]
      /\ S = {a, b} => SumFunction(f) = f[a] + f[b]
  BY <1>1, <1>2, TwoOfSum
<1>4. Cardinality(DOMAIN f) = 2 => S = {a, b}
  <2> SUFFICES ASSUME Cardinality(S) = 2 PROVE S = {a, b}
    BY <1>2
  <2>1. Cardinality(S \ {a}) = 1 /\ IsFiniteSet(S \ {a})
    BY FS_RemoveElement
  <2>2. PICK x : S \ {a} = {x}
    BY <2>1, FS_Singleton
  <2> QED
    BY <1>1, <2>2
<1>5. /\ f[a] \in Nat /\ f[b] \in Nat /\ 25 * t <= f[a] /\ f[a] <= 75 * t
      /\ 25 * t <= f[b] /\ f[b] <= 75 * t
  BY <1>1, <1>2
<1>6. Total(f) = SumFunction(f)
  BY DEF Total
<1>7. 4 * f[a] <= 3 * Total(f) /\ (Cardinality(DOMAIN f) = 2 => 4 * f[a] >= Total(f))
  BY <1>3, <1>4, <1>5, <1>6
<1> QED
  BY <1>7 DEF f

-----------------------------------------------------------------------------
(* The peak of a curve *)

RaisedBy(bar, peak) == PeakAfter(peak, bar)
Largest(S) == Max(S)
Peaks == INSTANCE FoldLemmas WITH Op <- RaisedBy, Initial <- One, Choose <- Largest

\* A curve, whatever it does over the bars without a position.
IsCurve(c, n) ==
    /\ DOMAIN c = 1 .. n
    /\ \A i \in 1 .. n : c[i].equity \in Nat \ {0} /\ c[i].active \in BOOLEAN

\* The bars of its first k that had a position
Held(c, k) == {i \in 1 .. k : c[i].active}

\* The peak after k bars, and what it knows of them.
PeakOf(c, k) == Peaks!Fold(c, 1 .. k)
PeakKnows(c, k) ==
    /\ PeakOf(c, k) = One \/ \E i \in Held(c, k) : c[i].equity = PeakOf(c, k)
    /\ PeakOf(c, k) >= One
    /\ \A i \in Held(c, k) : c[i].equity <= PeakOf(c, k)

\* The peak after one more bar.
LEMMA PeakNext ==
    ASSUME NEW c, NEW k \in Nat
    PROVE  PeakOf(c, 0) = One /\ PeakOf(c, k + 1) = PeakAfter(PeakOf(c, k), c[k + 1])
<1>1. \A n \in Nat : Peaks!Chooses(1 .. n) /\ (n > 0 => Largest(1 .. n) = n)
  BY Peaks!MaxOfInterval DEF Largest, Peaks!Chooses, Max, Peaks!Max
<1>2. Peaks!Fold(c, 1 .. k + 1) = RaisedBy(c[k + 1], Peaks!Fold(c, 1 .. k))
  BY <1>1, Peaks!FoldNext
<1>3. Peaks!Fold(c, {}) = One /\ 1 .. 0 = {}
  BY Peaks!FoldEmpty
<1> QED
  BY <1>2, <1>3 DEF PeakOf, RaisedBy

\* It still knows all of them that had a position.
LEMMA PeakKnowsNext ==
    ASSUME NEW n \in Nat, NEW c, IsCurve(c, n), NEW k \in 0 .. n, k < n,
           PeakOf(c, k) \in Nat, PeakKnows(c, k)
    PROVE  PeakOf(c, k + 1) \in Nat /\ PeakKnows(c, k + 1)
<1> DEFINE p == PeakOf(c, k)
           q == PeakOf(c, k + 1)
           e == c[k + 1].equity
<1>1. k + 1 \in 1 .. n /\ e \in Nat /\ c[k + 1].active \in BOOLEAN
  BY DEF IsCurve
<1>2. q = IF c[k + 1].active THEN Max({p, e}) ELSE p
  BY PeakNext DEF PeakAfter
<1>3. p \in Int /\ e \in Int /\ One \in Int
  BY <1>1 DEF One
<1>4. /\ p = One \/ \E i \in Held(c, k) : c[i].equity = p
      /\ p >= One
      /\ \A i \in Held(c, k) : c[i].equity <= p /\ c[i].equity \in Int
  BY DEF PeakKnows, Held, IsCurve
<1>5. /\ c[k + 1].active => k + 1 \in Held(c, k + 1)
      /\ Held(c, k + 1) = Held(c, k) \cup (IF c[k + 1].active THEN {k + 1} ELSE {})
  <2>1. 1 .. k + 1 = (1 .. k) \cup {k + 1}
    OBVIOUS
  <2> QED
    BY <2>1 DEF Held
<1> HIDE DEF p, q
<1>6. CASE c[k + 1].active
  <2>1. q \in {p, e} /\ q >= p /\ q >= e
    BY <1>2, <1>3, <1>6, MaxOfTwo
  <2>2. q \in Nat /\ q >= One
    BY <1>1, <1>3, <1>4, <2>1 DEF p
  <2>3. \A i \in Held(c, k + 1) : c[i].equity <= q
    BY <1>3, <1>4, <1>5, <1>6, <2>1, <2>2
  <2>4. q = One \/ \E i \in Held(c, k + 1) : c[i].equity = q
    BY <1>4, <1>5, <1>6, <2>1
  <2> QED
    BY <2>2, <2>3, <2>4 DEF PeakKnows, q
<1>7. CASE ~c[k + 1].active
  <2>1. q = p /\ Held(c, k + 1) = Held(c, k)
    BY <1>2, <1>5, <1>7
  <2> QED
    BY <1>4, <2>1 DEF PeakKnows, q, p
<1> QED
  BY <1>1, <1>6, <1>7

\* The drawdown of a bar is measured from the highest value the curve had at a bar
\* with a position, or at the beginning, for any number of bars and whatever the
\* curve does over those without one.
THEOREM PeakIsTheHighest ==
    ASSUME NEW n \in Nat, NEW c, IsCurve(c, n)
    PROVE  PeakOf(c, n) = Max({One} \cup {c[i].equity : i \in Held(c, n)})
<1> DEFINE K == {k \in 0 .. n : PeakOf(c, k) \in Nat /\ PeakKnows(c, k)}
<1>1. 0 \in K
  <2>1. PeakOf(c, 0) = One /\ Held(c, 0) = {}
    BY PeakNext DEF Held
  <2> QED
    BY <2>1 DEF PeakKnows, One
<1>2. \A k \in 0 .. n : k \in K /\ k < n => k + 1 \in K
  BY PeakKnowsNext
<1> HIDE DEF K
<1>3. n \in K
  BY <1>1, <1>2, Peaks!Reaches
<1> USE DEF K
<1> DEFINE p == PeakOf(c, n)
           E == {One} \cup {c[i].equity : i \in Held(c, n)}
<1>4. p \in Nat /\ PeakKnows(c, n)
  BY <1>3
<1> HIDE DEF K, p
<1>5. ASSUME NEW i \in Held(c, n) PROVE c[i].equity <= p /\ c[i].equity \in Nat
  BY <1>4 DEF PeakKnows, IsCurve, Held, p
<1>6. p \in E /\ p >= One /\ One \in Int
  BY <1>4 DEF PeakKnows, p, One
<1>7. \A x \in E : x \in Int /\ p >= x
  BY <1>4, <1>5, <1>6
<1> HIDE DEF E
<1>8. Max(E) = p
  <2>1. \A x \in E : (\A y \in E : x >= y) => x = p
    BY <1>6, <1>7
  <2> QED
    BY <1>6, <1>7, <2>1 DEF Max
<1> QED
  BY <1>8 DEF E, p

\* The loop over a curve ends with the scale of its last peak.
LEMMA ScaleIs ==
    ASSUME NEW n \in Nat \ {0}, NEW c, IsCurve(c, n)
    PROVE  ScaleAfter(c) = DrawdownScale(PeakOf(c, n), Last(c).equity)
<1>1. FoldLeft(LAMBDA peak, bar : PeakAfter(peak, bar), One, c) = Peaks!Fold(c, DOMAIN c)
  BY DEF FoldLeft, MapThenFoldSet, Peaks!Fold, Peaks!MapThenFoldSet, RaisedBy, Largest
<1> QED
  BY <1>1 DEF ScaleAfter, PeakOf, IsCurve

-----------------------------------------------------------------------------
(* Ranks and the weights of both sides *)

IsScore(score, S) == S \subseteq Int /\ IsFiniteSet(S) /\ score \in [S -> Int]

Ahead(score, a) == {b \in DOMAIN score : Before(score, b, a)}

\* The rank of an asset is the number of those ahead of it.
LEMMA RankIs ==
    ASSUME NEW S, NEW score, IsScore(score, S), NEW a \in S
    PROVE  /\ IsFiniteSet(Ahead(score, a)) /\ Rank(score, a) = Cardinality(Ahead(score, a))
           /\ Rank(score, a) \in Nat /\ Cardinality(S) \in Nat
           /\ Rank(score, a) < Cardinality(S)
<1>1. IsFiniteSet(S) /\ DOMAIN score = S /\ \A x \in S : score[x] \in Int
  BY DEF IsScore
<1>2. Ahead(score, a) \in SUBSET (S \ {a})
  <2>1. ~Before(score, a, a)
    BY <1>1 DEF Before, IsScore
  <2> QED
    BY <1>1, <2>1 DEF Ahead
<1>3. IsFiniteSet(S \ {a}) /\ Cardinality(S \ {a}) = Cardinality(S) - 1
  BY <1>1, FS_RemoveElement
<1>4. IsFiniteSet(Ahead(score, a)) /\ Cardinality(Ahead(score, a)) <= Cardinality(S \ {a})
  BY <1>2, <1>3, FS_Subset
<1>5. Cardinality(Ahead(score, a)) \in Nat /\ Cardinality(S) \in Nat
  BY <1>1, <1>4, FS_CardinalityType
<1>6. Rank(score, a) = Cardinality(Ahead(score, a))
  BY DEF Rank, Ahead
<1> QED
  BY <1>3, <1>4, <1>5, <1>6

\* A better asset has a smaller rank.
LEMMA RankFollows ==
    ASSUME NEW S, NEW score, IsScore(score, S), NEW a \in S, NEW b \in S, Before(score, a, b)
    PROVE  Rank(score, a) < Rank(score, b)
<1>1. DOMAIN score = S /\ (\A x \in S : score[x] \in Int) /\ S \subseteq Int
  BY DEF IsScore
<1> DEFINE H == Ahead(score, a)
           R == Ahead(score, b)
<1>2. a \in R /\ a \notin H /\ H \subseteq R
  <2>1. a \in R
    BY <1>1 DEF Ahead
  <2>2. a \notin H
    BY <1>1 DEF Ahead, Before
  <2>3. ASSUME NEW x \in H PROVE x \in R
    <3>1. x \in S /\ Before(score, x, a)
      BY <1>1 DEF Ahead
    <3>2. score[x] \in Int /\ score[a] \in Int /\ score[b] \in Int /\ x \in Int /\ a \in Int /\ b \in Int
      BY <1>1, <3>1
    <3>3. Before(score, x, b)
      BY <3>1, <3>2 DEF Before
    <3> QED
      BY <1>1, <3>1, <3>3 DEF Ahead
  <2> QED
    BY <2>1, <2>2, <2>3
<1>3. /\ IsFiniteSet(H) /\ IsFiniteSet(R)
      /\ Rank(score, a) = Cardinality(H) /\ Rank(score, b) = Cardinality(R)
      /\ Rank(score, a) \in Nat /\ Rank(score, b) \in Nat
  BY RankIs
<1> HIDE DEF H, R
<1>4. H \in SUBSET (R \ {a})
  BY <1>2
<1>5. IsFiniteSet(R \ {a}) /\ Cardinality(R \ {a}) = Cardinality(R) - 1
  BY <1>2, <1>3, FS_RemoveElement
<1>6. Cardinality(H) <= Cardinality(R \ {a})
  BY <1>4, <1>5, FS_Subset
<1> QED
  BY <1>3, <1>5, <1>6

\* No two assets have the same rank.
LEMMA RanksDiffer ==
    ASSUME NEW S, NEW score, IsScore(score, S), NEW a \in S, NEW b \in S, a # b
    PROVE  Rank(score, a) # Rank(score, b)
<1>1. Before(score, a, b) \/ Before(score, b, a)
  <2>1. score[a] \in Int /\ score[b] \in Int /\ a \in Int /\ b \in Int
    BY DEF IsScore
  <2> QED
    BY <2>1 DEF Before
<1>2. Rank(score, a) \in Nat /\ Rank(score, b) \in Nat
  BY RankIs
<1>3. Rank(score, a) < Rank(score, b) \/ Rank(score, b) < Rank(score, a)
  BY <1>1, RankFollows
<1> QED
  BY <1>2, <1>3

\* No more assets have a rank in an interval than it is long.
LEMMA RanksFit ==
    ASSUME NEW S, NEW score, IsScore(score, S), NEW T \in SUBSET S, NEW lo \in Int, NEW hi \in Int,
           lo <= hi + 1, \A a \in T : lo <= Rank(score, a) /\ Rank(score, a) <= hi
    PROVE  IsFiniteSet(T) /\ Cardinality(T) \in Nat /\ Cardinality(T) <= hi - lo + 1
<1> DEFINE f == [a \in T |-> Rank(score, a)]
<1>1. \A a \in T : Rank(score, a) \in Int
  BY RankIs
<1>2. f \in Injection(T, lo .. hi)
  <2>1. f \in [T -> lo .. hi]
    BY <1>1
  <2>2. \A a, b \in T : f[a] = f[b] => a = b
    BY RanksDiffer
  <2> QED
    BY <2>1, <2>2 DEF Injection, IsInjective
<1>3. IsFiniteSet(lo .. hi) /\ Cardinality(lo .. hi) = IF lo > hi THEN 0 ELSE hi - lo + 1
  BY FS_Interval
<1> HIDE DEF f
<1>4. IsFiniteSet(T) /\ Cardinality(T) <= Cardinality(lo .. hi)
  BY <1>2, <1>3, FS_Injection
<1>5. Cardinality(T) \in Nat
  BY <1>4, FS_CardinalityType
<1> QED
  BY <1>3, <1>4, <1>5

\* Some asset is the best.
LEMMA SomeAssetLeads ==
    ASSUME NEW S, NEW score, IsScore(score, S), S # {}
    PROVE  \E a \in S : Rank(score, a) = 0
<1> DEFINE f == [a \in S |-> 0 - Rank(score, a)]
           R == {0 - Rank(score, a) : a \in S}
<1>1. \A a \in S : Rank(score, a) \in Nat /\ Rank(score, a) < Cardinality(S) /\ Cardinality(S) \in Nat
  BY RankIs
<1>2. R \subseteq Int /\ R # {}
  BY <1>1
<1>3. IsFiniteSet(R)
  <2>1. f \in Surjection(S, R)
    BY DEF Surjection
  <2>2. IsFiniteSet(S)
    BY DEF IsScore
  <2> HIDE DEF f, R
  <2> QED
    BY <2>1, <2>2, FS_Surjection
<1>4. PICK r \in R : \A y \in R : r >= y
  <2> HIDE DEF R
  <2>1. Sums!Max(R) \in R /\ \A y \in R : Sums!Max(R) >= y
    BY <1>2, <1>3, Sums!MaxIsGreatest DEF Sums!IsFiniteSet, IsFiniteSet
  <2> QED
    BY <2>1
<1>5. PICK a \in S : r = 0 - Rank(score, a)
  OBVIOUS
<1>6. \A b \in S : Rank(score, a) <= Rank(score, b)
  <2>1. \A b \in S : r >= 0 - Rank(score, b)
    BY <1>4
  <2> QED
    BY <1>1, <1>5, <2>1
<1>7. Ahead(score, a) = {}
  <2> SUFFICES ASSUME NEW b \in Ahead(score, a) PROVE FALSE
    OBVIOUS
  <2>1. b \in S /\ Before(score, b, a)
    BY DEF Ahead, IsScore
  <2>2. Rank(score, b) < Rank(score, a)
    BY <2>1, RankFollows
  <2> QED
    BY <1>1, <1>6, <2>1, <2>2
<1>8. Rank(score, a) = 0
  BY <1>7, RankIs, FS_EmptySet
<1> QED
  BY <1>8

-----------------------------------------------------------------------------
\* One side of the weights: what it adds up to.
LEMMA SideIs ==
    ASSUME NEW A0, IsFiniteSet(A0), NEW f \in [A0 -> Nat], NEW T \in SUBSET A0, NEW m \in Nat,
           \A a \in T : f[a] <= m, \A a \in A0 \ T : f[a] = 0
    PROVE  /\ SumFunction(f) \in Nat /\ SumFunction(f) <= m * Cardinality(T)
           /\ \A a \in A0 : f[a] <= SumFunction(f)
<1> DEFINE R == A0 \ T
<1>1. /\ SumFunction(f) = Sums!Fold(f, A0)
      /\ Sums!IsSum /\ Sums!IsFiniteSet(A0) /\ Sums!Chooses(A0) /\ Sums!Values(f, A0, Nat)
      /\ Sums!Values(f, A0, Int)
  BY SumOfNaturals
<1>2. IsFiniteSet(T) /\ IsFiniteSet(R)
  BY FS_Subset
<1>3. /\ Sums!IsFiniteSet(T) /\ Sums!Chooses(T) /\ Sums!Values(f, T, Nat)
      /\ Sums!IsFiniteSet(R) /\ Sums!Chooses(R) /\ Sums!Values(f, R, {0})
  BY <1>1, <1>2 DEF Sums!IsFiniteSet, IsFiniteSet, Sums!Chooses, Sums!Values
<1>4. T \cup R = A0 /\ T \cap R = {}
  OBVIOUS
<1> HIDE DEF R
<1>5. /\ Sums!Fold(f, T) \in Int /\ Sums!Fold(f, R) \in Int
      /\ Sums!Fold(f, T \cup R) = Sums!Fold(f, T) + Sums!Fold(f, R)
  <2>1. Sums!Chooses(T \cup R) /\ Sums!Values(f, T \cup R, Int)
    BY <1>1, <1>4
  <2> QED
    BY <1>1, <1>3, <1>4, <2>1, Sums!SumUnion
<1>6. Sums!Fold(f, R) = 0
  BY <1>1, <1>3, Sums!SumOfZeros
<1>7. Sums!Fold(f, T) \in Nat /\ Sums!Fold(f, T) <= m * Sums!Cardinality(T)
  BY <1>1, <1>3, Sums!SumBounded
<1>8. Sums!Cardinality(T) = Cardinality(T)
  BY DEF Sums!Cardinality, Cardinality
<1>9. ASSUME NEW a \in A0 PROVE f[a] <= Sums!Fold(f, A0)
  <2>1. Sums!Fold(f, A0) = f[a] + Sums!Fold(f, A0 \ {a})
    BY <1>1, Sums!SumSplit
  <2>2. IsFiniteSet(A0 \ {a})
    BY FS_Subset
  <2>3. Sums!IsFiniteSet(A0 \ {a}) /\ Sums!Chooses(A0 \ {a}) /\ Sums!Values(f, A0 \ {a}, Nat)
    BY <1>1, <2>2 DEF Sums!IsFiniteSet, IsFiniteSet, Sums!Chooses, Sums!Values
  <2>4. Sums!Fold(f, A0 \ {a}) \in Nat
    BY <1>1, <2>3, Sums!SumType
  <2>5. f[a] \in Nat
    OBVIOUS
  <2> QED
    BY <2>1, <2>4, <2>5
<1>10. Sums!Fold(f, A0) = Sums!Fold(f, T)
  <2>1. Sums!Fold(f, T \cup R) = Sums!Fold(f, A0)
    BY <1>4
  <2> QED
    BY <1>5, <1>6, <2>1
<1>11. SumFunction(f) \in Nat /\ SumFunction(f) <= m * Cardinality(T)
  BY <1>1, <1>7, <1>8, <1>10
<1> QED
  BY <1>1, <1>9, <1>11

\* Who is bought and who is sold.
LEMMA SidesAre ==
    ASSUME NEW S, NEW score, IsScore(score, S), NEW top \in Nat \ {0}, NEW bottom \in Nat \ {0}
    PROVE  LET longs == Longs(score, top)
               shorts == Shorts(score, top, bottom)
           IN  /\ longs \subseteq S /\ shorts \subseteq S
               /\ IsFiniteSet(longs) /\ Cardinality(longs) \in Nat /\ Cardinality(longs) <= top
               /\ IsFiniteSet(shorts) /\ Cardinality(shorts) \in Nat /\ Cardinality(shorts) <= bottom
               /\ longs \cap shorts = {}
               /\ S # {} => longs # {} /\ Cardinality(longs) > 0
               /\ \A a, b \in S : Before(score, a, b) => /\ b \in longs => a \in longs
                                                         /\ a \in shorts => b \in shorts
<1> DEFINE longs == Longs(score, top)
           shorts == Shorts(score, top, bottom)
           n == Cardinality(S)
<1>1. DOMAIN score = S /\ IsFiniteSet(S)
  BY DEF IsScore
<1>2. n \in Nat
  BY <1>1, FS_CardinalityType
<1>3. \A a \in S : Rank(score, a) \in Nat /\ Rank(score, a) < n
  BY RankIs
<1>4. /\ longs \subseteq S /\ \A a \in S : a \in longs <=> Rank(score, a) < top
      /\ shorts \subseteq S
      /\ \A a \in S : a \in shorts <=> n >= top + bottom /\ Rank(score, a) >= n - bottom
  BY <1>1 DEF Longs, Shorts
<1> HIDE DEF longs, shorts, n
<1>5. IsFiniteSet(longs) /\ Cardinality(longs) \in Nat /\ Cardinality(longs) <= top
  <2>1. top - 1 \in Int /\ 0 <= (top - 1) + 1 /\ (top - 1) - 0 + 1 = top
    OBVIOUS
  <2>2. \A a \in longs : 0 <= Rank(score, a) /\ Rank(score, a) <= top - 1
    BY <1>3, <1>4
  <2> DEFINE hi == top - 1
  <2> HIDE DEF hi
  <2>3. IsFiniteSet(longs) /\ Cardinality(longs) \in Nat /\ Cardinality(longs) <= hi - 0 + 1
    BY <1>4, <2>1, <2>2, RanksFit DEF hi
  <2> QED
    BY <2>1, <2>3 DEF hi
<1>6. IsFiniteSet(shorts) /\ Cardinality(shorts) \in Nat /\ Cardinality(shorts) <= bottom
  <2> DEFINE lo == n - bottom
             hi == n - 1
  <2>1. lo \in Int /\ hi \in Int /\ lo <= hi + 1 /\ hi - lo + 1 = bottom
    BY <1>2
  <2>2. \A a \in shorts : lo <= Rank(score, a) /\ Rank(score, a) <= hi
    BY <1>2, <1>3, <1>4
  <2> HIDE DEF lo, hi
  <2>3. IsFiniteSet(shorts) /\ Cardinality(shorts) \in Nat /\ Cardinality(shorts) <= hi - lo + 1
    BY <1>4, <2>1, <2>2, RanksFit
  <2> QED
    BY <2>1, <2>3
<1>7. longs \cap shorts = {}
  <2> SUFFICES ASSUME NEW a \in longs, a \in shorts PROVE FALSE
    OBVIOUS
  <2>1. Rank(score, a) < top /\ n >= top + bottom /\ Rank(score, a) >= n - bottom /\ Rank(score, a) \in Nat
    BY <1>3, <1>4
  <2> QED
    BY <1>2, <2>1
<1>8. S # {} => longs # {} /\ Cardinality(longs) > 0
  <2> SUFFICES ASSUME S # {} PROVE longs # {} /\ Cardinality(longs) > 0
    OBVIOUS
  <2>1. PICK a \in S : Rank(score, a) = 0
    BY SomeAssetLeads
  <2>2. a \in longs
    BY <1>4, <2>1
  <2>3. Cardinality(longs) # 0
    BY <1>5, <2>2, FS_EmptySet
  <2> QED
    BY <1>5, <2>2, <2>3
<1>9. ASSUME NEW a \in S, NEW b \in S, Before(score, a, b)
      PROVE  (b \in longs => a \in longs) /\ (a \in shorts => b \in shorts)
  <2>1. Rank(score, a) < Rank(score, b)
    BY <1>9, RankFollows
  <2> QED
    BY <1>2, <1>3, <1>4, <2>1
<1> QED
  BY <1>4, <1>5, <1>6, <1>7, <1>8, <1>9 DEF longs, shorts

\* A share of the whole, capped.
LEMMA ShareOf ==
    ASSUME NEW whole \in Nat, NEW cap \in Nat \ {0}, NEW k \in Nat \ {0}
    PROVE  /\ Min({whole \div k, cap}) \in Nat /\ Min({whole \div k, cap}) * k <= whole
           /\ k <= whole => Min({whole \div k, cap}) > 0
<1> DEFINE q == whole \div k
<1>1. q \in Nat /\ k * q \in Nat /\ k * q <= whole /\ whole < k * q + k
  BY Division
<1> HIDE DEF q
<1> DEFINE m == Min({q, cap})
<1>2. m \in {q, cap} /\ m <= q
  BY <1>1, MinOfTwo
<1> HIDE DEF m
<1>3. m \in Nat
  BY <1>1, <1>2
<1>4. k * m <= k * q /\ k * m \in Nat
  BY <1>1, <1>2, <1>3, ProductGrows
<1>5. k * m = m * k
  BY <1>3
<1>6. k <= whole => q # 0
  BY <1>1
<1>7. k <= whole => m > 0
  BY <1>1, <1>2, <1>3, <1>6
<1> QED
  BY <1>1, <1>3, <1>4, <1>5, <1>7 DEF m, q

\* What a sum of one side counts.
LEMMA PositivePart ==
    ASSUME NEW x \in Int
    PROVE  Max({0, x}) = IF x > 0 THEN x ELSE 0
<1>1. Max({0, x}) \in {0, x} /\ Max({0, x}) >= 0 /\ Max({0, x}) >= x
  BY MaxOfTwo
<1> QED
  BY <1>1

\* What an asset is given, by its side.
Buy(score, top, cap, whole) == Min({whole \div Cardinality(Longs(score, top)), cap})
Sell(bottom, cap, whole) == Min({whole \div bottom, cap})
BySide(w, assets, score, top, bottom, cap, whole) ==
    /\ w \in [assets -> Int]
    /\ \A a \in Shorts(score, top, bottom) : w[a] = 0 - Sell(bottom, cap, whole)
    /\ \A a \in Longs(score, top) : w[a] = Buy(score, top, cap, whole)
    /\ \A a \in assets :
          a \notin Longs(score, top) /\ a \notin Shorts(score, top, bottom) => w[a] = 0

\* The weights by the side of an asset.
LEMMA WeightIs ==
    ASSUME NEW S, NEW score, IsScore(score, S), NEW assets, S \subseteq assets,
           NEW top \in Nat \ {0}, NEW bottom \in Nat \ {0}, NEW cap \in Nat \ {0}, NEW whole \in Nat
    PROVE  BySide(Weights(assets, score, top, bottom, cap, whole), assets, score, top, bottom, cap, whole)
<1> DEFINE longs == Longs(score, top)
           shorts == Shorts(score, top, bottom)
           w == Weights(assets, score, top, bottom, cap, whole)
           buy == Buy(score, top, cap, whole)
           sell == Sell(bottom, cap, whole)
<1>1. w = [a \in assets |-> IF a \in shorts THEN 0 - sell ELSE IF a \in longs THEN buy ELSE 0]
  BY DEF Weights, Buy, Sell
<1>2. /\ longs \subseteq S /\ shorts \subseteq S /\ longs \cap shorts = {}
      /\ Cardinality(longs) \in Nat /\ (S # {} => Cardinality(longs) > 0)
  BY SidesAre
<1>3. sell \in Nat
  BY ShareOf DEF Sell
<1>4. ASSUME NEW a \in longs PROVE buy \in Nat
  <2>1. Cardinality(longs) \in Nat \ {0}
    BY <1>2
  <2> DEFINE k == Cardinality(longs)
  <2>2. buy = Min({whole \div k, cap})
    BY DEF Buy
  <2> HIDE DEF k, longs, buy
  <2> QED
    BY <2>1, <2>2, ShareOf DEF k
<1> HIDE DEF longs, shorts, w, buy, sell
<1>5. \A a \in assets : w[a] = IF a \in shorts THEN 0 - sell ELSE IF a \in longs THEN buy ELSE 0
  BY <1>1
<1>6. w \in [assets -> Int]
  <2>1. \A a \in assets : w[a] \in Int
    BY <1>3, <1>4, <1>5
  <2> QED
    BY <1>1, <2>1
<1>7. /\ \A a \in shorts : w[a] = 0 - sell
      /\ \A a \in longs : w[a] = buy
      /\ \A a \in assets : a \notin longs /\ a \notin shorts => w[a] = 0
  BY <1>2, <1>4, <1>5
<1> QED
  BY <1>6, <1>7 DEF longs, shorts, w, buy, sell, BySide

Follows(score, S, assets, w, whole) ==
    LET side(sign) == SumFunction([a \in assets |-> Max({0, sign * w[a]})])
    IN  /\ \A a, b \in S : score[a] > score[b] => w[a] >= w[b]
        /\ \A a \in assets \ S : w[a] = 0
        /\ side(1) <= whole /\ side(-1) <= whole
        /\ side(1) > 0

\* rank_assets: no better score has the smaller weight, an asset without a score
\* none, neither side is more than the whole and one of the assets is bought.
THEOREM WeightsFollow ==
    ASSUME NEW S, NEW score, IsScore(score, S), S # {}, NEW assets, IsFiniteSet(assets),
           S \subseteq assets, NEW top \in Nat \ {0}, NEW bottom \in Nat \ {0},
           NEW cap \in Nat \ {0}, NEW whole \in Nat, top <= whole
    PROVE  Follows(score, S, assets, Weights(assets, score, top, bottom, cap, whole), whole)
<1> DEFINE longs == Longs(score, top)
           shorts == Shorts(score, top, bottom)
           w == Weights(assets, score, top, bottom, cap, whole)
           k == Cardinality(longs)
           buy == Buy(score, top, cap, whole)
           sell == Sell(bottom, cap, whole)
           bought == [a \in assets |-> Max({0, 1 * w[a]})]
           sold == [a \in assets |-> Max({0, (-1) * w[a]})]
<1>1. /\ longs \subseteq S /\ shorts \subseteq S /\ longs \cap shorts = {} /\ longs # {}
      /\ IsFiniteSet(longs) /\ k \in Nat /\ k <= top /\ k > 0
      /\ IsFiniteSet(shorts) /\ Cardinality(shorts) \in Nat /\ Cardinality(shorts) <= bottom
  BY SidesAre
<1>2. \A a, b \in S : Before(score, a, b) => /\ b \in longs => a \in longs
                                             /\ a \in shorts => b \in shorts
  BY SidesAre
<1>3. /\ w \in [assets -> Int]
      /\ \A a \in shorts : w[a] = 0 - sell
      /\ \A a \in longs : w[a] = buy
      /\ \A a \in assets : a \notin longs /\ a \notin shorts => w[a] = 0
  <2> HIDE DEF longs, shorts, w, k, buy, sell, bought, sold
  <2>1. BySide(Weights(assets, score, top, bottom, cap, whole), assets, score, top, bottom, cap, whole)
    BY WeightIs
  <2> QED
    BY <2>1 DEF w, longs, shorts, buy, sell, BySide
<1>4. sell \in Nat /\ sell * bottom <= whole
  BY ShareOf DEF Sell
<1>5. buy \in Nat /\ buy * k <= whole /\ buy > 0
  <2>1. k \in Nat \ {0} /\ k <= whole
    BY <1>1
  <2>2. buy = Min({whole \div k, cap})
    BY DEF Buy
  <2> HIDE DEF k, buy
  <2> QED
    BY <2>1, <2>2, ShareOf
<1> HIDE DEF longs, shorts, w, k, buy, sell
<1>6. ASSUME NEW a \in S, NEW b \in S, score[a] > score[b] PROVE w[a] >= w[b]
  <2>1. Before(score, a, b)
    BY <1>6 DEF Before
  <2>2. (b \in longs => a \in longs) /\ (a \in shorts => b \in shorts)
    BY <1>2, <2>1
  <2>3. a \in assets /\ b \in assets
    OBVIOUS
  <2>4. ASSUME NEW x \in assets
        PROVE  \/ x \in shorts /\ w[x] = 0 - sell
               \/ x \in longs /\ x \notin shorts /\ w[x] = buy
               \/ x \notin longs /\ x \notin shorts /\ w[x] = 0
    BY <1>1, <1>3
  <2> QED
    BY <1>4, <1>5, <2>2, <2>3, <2>4
<1>7. \A a \in assets \ S : w[a] = 0
  BY <1>1, <1>3
<1>8. \A a \in assets : w[a] \in Int /\ 1 * w[a] = w[a] /\ (-1) * w[a] = 0 - w[a]
  BY <1>3
<1>9. ASSUME NEW x \in Int PROVE Max({0, x}) = IF x > 0 THEN x ELSE 0
  BY PositivePart
<1>10. /\ bought \in [assets -> Nat]
       /\ \A a \in longs : bought[a] = buy
       /\ \A a \in assets \ longs : bought[a] = 0
  <2>1. \A a \in assets : bought[a] = IF w[a] > 0 THEN w[a] ELSE 0
    BY <1>8, <1>9
  <2> QED
    BY <1>1, <1>3, <1>4, <1>5, <1>8, <2>1
<1>11. /\ sold \in [assets -> Nat]
       /\ \A a \in shorts : sold[a] = sell
       /\ \A a \in assets \ shorts : sold[a] = 0
  <2>1. \A a \in assets : sold[a] = IF w[a] < 0 THEN 0 - w[a] ELSE 0
    <3> SUFFICES ASSUME NEW a \in assets PROVE sold[a] = IF w[a] < 0 THEN 0 - w[a] ELSE 0
      OBVIOUS
    <3> DEFINE x == (-1) * w[a]
    <3>1. x \in Int /\ x = 0 - w[a] /\ w[a] \in Int
      BY <1>8
    <3>2. sold[a] = Max({0, x})
      OBVIOUS
    <3> HIDE DEF x, sold
    <3>3. sold[a] = IF x > 0 THEN x ELSE 0
      BY <1>9, <3>1, <3>2
    <3> QED
      BY <3>1, <3>3
  <2> QED
    BY <1>1, <1>3, <1>4, <1>5, <1>8, <2>1
<1> HIDE DEF bought, sold
<1>12. SumFunction(bought) \in Nat /\ SumFunction(bought) <= buy * k /\ \A a \in assets : bought[a] <= SumFunction(bought)
  <2>1. longs \in SUBSET assets /\ \A a \in longs : bought[a] <= buy
    BY <1>1, <1>5, <1>10
  <2> QED
    BY <1>5, <1>10, <2>1, SideIs DEF k
<1>13. SumFunction(sold) \in Nat /\ SumFunction(sold) <= sell * Cardinality(shorts)
  <2>1. shorts \in SUBSET assets /\ \A a \in shorts : sold[a] <= sell
    BY <1>1, <1>4, <1>11
  <2> QED
    BY <1>4, <1>11, <2>1, SideIs
<1>14. SumFunction(bought) <= whole
  <2>1. buy * k \in Nat
    BY <1>1, <1>5
  <2> QED
    BY <1>5, <1>12, <2>1
<1>15. SumFunction(sold) <= whole
  <2> DEFINE j == Cardinality(shorts)
  <2>1. j \in Nat /\ j <= bottom
    BY <1>1
  <2> HIDE DEF j
  <2>2. sell * j <= sell * bottom /\ sell * j \in Nat /\ sell * bottom \in Nat
    BY <1>4, <2>1, ProductGrows
  <2> QED
    BY <1>4, <1>13, <2>2 DEF j
<1>16. SumFunction(bought) > 0
  <2>1. PICK a \in longs : TRUE
    BY <1>1
  <2>2. a \in assets /\ bought[a] = buy
    BY <1>1, <1>10, <2>1
  <2> QED
    BY <1>5, <1>12, <2>2
<1> QED
  BY <1>6, <1>7, <1>14, <1>15, <1>16 DEF w, bought, sold, Follows

-----------------------------------------------------------------------------
(* From scores to weights to the scale of a portfolio *)
WeightInput == /\ Given("ranks") => input[2] \in Scores
               /\ Given("vols") => input[2] \in Vols
               /\ Given("curve") => input[2] \in Curves

\* What the weights are asked about.
LEMMA WeightInputTyped == ResearchSpec => []WeightInput
<1>1. ASSUME ResearchInit PROVE WeightInput
  <2>1. CASE input \in Inputs
    BY <2>1 DEF Inputs, WeightInput, Given
  <2>2. CASE input = NoInput
    BY <2>2 DEF NoInput, WeightInput, Given
  <2> QED
    BY <1>1, <2>1, <2>2 DEF ResearchInit
<1>2. ASSUME WeightInput, [ResearchNext]_<<vars, input>> PROVE WeightInput'
  <2>1. Given("ranks")' => Given("ranks") /\ input' = input
    BY <1>2, InputsStay
  <2>2. Given("vols")' => Given("vols") /\ input' = input
    BY <1>2, InputsStay
  <2>3. Given("curve")' => Given("curve") /\ input' = input
    BY <1>2, InputsStay
  <2> QED
    BY <1>2, <2>1, <2>2, <2>3 DEF WeightInput
<1> QED
  BY <1>1, <1>2, PTL DEF ResearchSpec

\* The scores of the run.
LEMMA RanksGiven == ASSUME WeightInput PROVE WeightsFollowRanks
<1> DEFINE score == input[2]
           S == DOMAIN score
<1> SUFFICES ASSUME Given("ranks"), NEW top \in 1 .. 3, NEW bottom \in 1 .. 3
             PROVE  Follows(score, S, Assets, Weights(Assets, score, top, bottom, 30, 60), 60)
  BY DEF WeightsFollowRanks, Follows
<1>1. S \in SUBSET Assets /\ S # {} /\ score \in [S -> 0 .. 2]
  BY DEF WeightInput, Scores
<1>2. Assets = 1 .. 5 /\ 1 \in Int /\ 5 \in Int
  BY DEF Assets
<1>3. IsFiniteSet(Assets)
  BY <1>2, FS_Interval
<1>4. IsScore(score, S)
  <2>1. IsFiniteSet(S)
    BY <1>1, <1>3, FS_Subset
  <2>2. S \subseteq Int
    BY <1>1, <1>2
  <2>3. \A a \in S : score[a] \in Int
    BY <1>1
  <2> QED
    BY <1>1, <2>1, <2>2, <2>3 DEF IsScore
<1>5. top \in Nat \ {0} /\ bottom \in Nat \ {0} /\ 30 \in Nat \ {0} /\ 60 \in Nat /\ top <= 60
  OBVIOUS
<1> HIDE DEF S, score
<1> QED
  BY <1>1, <1>3, <1>4, <1>5, WeightsFollow

\* The volatilities of the run.
LEMMA VolsGiven == ASSUME WeightInput PROVE CapSurvives
<1> SUFFICES ASSUME Given("vols"), NEW a \in DOMAIN Clipped(input[2])
             PROVE  LET share == Clipped(input[2])
                    IN  /\ 4 * share[a] <= 3 * Total(share)
                        /\ Cardinality(DOMAIN share) = 2 => 4 * share[a] >= Total(share)
  BY DEF CapSurvives
<1> DEFINE vol == input[2]
<1>1. PICK n \in 2 .. 4 : vol \in [1 .. n -> {1, 2, 5, 20}]
  BY DEF WeightInput, Vols
<1> DEFINE S == 1 .. n
<1>2. vol \in [S -> Nat \ {0}] /\ DOMAIN vol = S
  BY <1>1
<1>3. IsFiniteSet(S) /\ S # {a}
  <2>1. 1 \in Int /\ n \in Int
    OBVIOUS
  <2>2. IsFiniteSet(1 .. n)
    BY <2>1, FS_Interval
  <2>3. 1 \in S /\ 2 \in S
    OBVIOUS
  <2> QED
    BY <2>2, <2>3
<1>4. a \in S
  BY <1>2 DEF Clipped
<1> HIDE DEF S, vol
<1> QED
  BY <1>2, <1>3, <1>4, CapsSurvive DEF vol

\* The curves of the run.
LEMMA CurveGiven == ASSUME WeightInput PROVE PeakIsRemembered
<1> DEFINE c == input[2]
           n == Len(c)
<1> SUFFICES ASSUME Given("curve")
             PROVE  ScaleAfter(c) = DrawdownScale(
                        Max({One} \cup {c[i].equity : i \in {i \in DOMAIN c : c[i].active}}), Last(c).equity)
  BY DEF PeakIsRemembered
<1>1. c \in Curves
  BY DEF WeightInput
<1>2. n \in Nat \ {0} /\ DOMAIN c = 1 .. n
  BY <1>1 DEF Curves
<1>3. IsCurve(c, n)
  BY <1>1, <1>2 DEF Curves, IsCurve
<1>4. {i \in DOMAIN c : c[i].active} = Held(c, n)
  BY <1>2 DEF Held
<1> HIDE DEF c, n
<1>5. PeakOf(c, n) = Max({One} \cup {c[i].equity : i \in Held(c, n)})
  BY <1>2, <1>3, PeakIsTheHighest
<1>6. ScaleAfter(c) = DrawdownScale(PeakOf(c, n), Last(c).equity)
  BY <1>2, <1>3, ScaleIs
<1> QED
  BY <1>4, <1>5, <1>6

\* Whatever scores, volatilities and curve are given: the weights follow the ranks,
\* the cap survives the second normalisation, and the scale is that of the highest
\* equity of the bars with a position.
THEOREM WeightsStand == ResearchSpec => []WeightsAreSound
<1>1. WeightInput => WeightsAreSound
  BY RanksGiven, VolsGiven, CurveGiven DEF WeightsAreSound
<1> QED
  BY <1>1, WeightInputTyped, PTL

-----------------------------------------------------------------------------
(* The pace of retraining *)

\* A history of evaluations, each later than the one before it.
IsHistory(h, n) ==
    /\ DOMAIN h = 1 .. n
    /\ \A i \in 1 .. n : h[i].at \in Nat
    /\ \A i, j \in 1 .. n : i < j => h[i].at < h[j].at

Sick(health) == health \in {"UNRELIABLE", "SUSPENDED"}

\* What the engine s knows after the first k evaluations of h: its alerts are those
\* since the model was last healthy, its last retraining is the last it allowed,
\* which keep the cooldown c, were allowed in critical states or after p alerts in
\* a row, and of which every critical state has one within the cooldown before it.
CountsAlerts(s, h, k) ==
    /\ s.alerts \in 0 .. k
    /\ \A m \in 1 .. k : m > k - s.alerts => h[m].health # "HEALTHY"
NotesTheLast(s) ==
    /\ s.allowed \in Seq(Nat)
    /\ s.last = IF Len(s.allowed) = 0 THEN -1 ELSE s.allowed[Len(s.allowed)]
KeepsCooldown(s, c) == \A j \in 1 .. Len(s.allowed) - 1 : s.allowed[j + 1] - s.allowed[j] >= c
ServesTheSick(s, h, k, c) ==
    \A i \in 1 .. k :
        Sick(h[i].health) =>
            \E j \in 1 .. Len(s.allowed) : h[i].at - c < s.allowed[j] /\ s.allowed[j] <= h[i].at
WaitsForAlerts(s, h, k, p) ==
    \A j \in 1 .. Len(s.allowed) :
        \E i \in 1 .. k :
            /\ s.allowed[j] = h[i].at
            /\ h[i].health = "DRIFTING" =>
                   i >= p /\ \A m \in 1 .. i : m > i - p => h[m].health # "HEALTHY"
Paced(s, h, k, p, c) ==
    /\ CountsAlerts(s, h, k) /\ NotesTheLast(s) /\ KeepsCooldown(s, c)
    /\ ServesTheSick(s, h, k, c) /\ WaitsForAlerts(s, h, k, p)

\* One evaluation keeps the pace, for any persistence and any cooldown.
LEMMA PaceIsKept ==
    ASSUME NEW n \in Nat, NEW h, IsHistory(h, n), NEW k \in 0 .. n, k < n,
           NEW p \in Nat, NEW c \in Nat \ {0}, NEW s, Paced(s, h, k, p, c)
    PROVE  Paced(Evaluated(s, h[k + 1].health, h[k + 1].at, p, c), h, k + 1, p, c)
<1> DEFINE health == h[k + 1].health
           moment == h[k + 1].at
           z == Evaluated(s, health, moment, p, c)
           alerts == IF health = "HEALTHY" THEN 0 ELSE s.alerts + 1
           cooling == s.last >= 0 /\ moment - s.last < c
           allow == Eligible(health, alerts, p) /\ ~cooling
           old == s.allowed
           len == Len(old)
           new == z.allowed
<1>1. /\ z.alerts = alerts
      /\ z.last = IF allow THEN moment ELSE s.last
      /\ new = IF allow THEN Append(old, moment) ELSE old
  BY DEF Evaluated
<1>2. /\ CountsAlerts(s, h, k) /\ NotesTheLast(s) /\ KeepsCooldown(s, c)
      /\ ServesTheSick(s, h, k, c) /\ WaitsForAlerts(s, h, k, p)
  BY DEF Paced
<1>3. k + 1 \in 1 .. n /\ moment \in Nat /\ \A i \in 1 .. k : h[i].at \in Nat /\ h[i].at < moment
  BY DEF IsHistory
<1>4. old \in Seq(Nat) /\ len \in Nat /\ s.last \in Int
  BY <1>2 DEF NotesTheLast
<1>5. \A j \in 1 .. len : old[j] \in Nat
  BY <1>4
<1>6. alerts \in Nat
  BY <1>2 DEF CountsAlerts
<1> HIDE DEF z, health, moment
<1>7. CountsAlerts(z, h, k + 1)
  <2>1. alerts \in 0 .. k + 1
    BY <1>2 DEF CountsAlerts
  <2>2. ASSUME NEW m \in 1 .. k + 1, m > k + 1 - alerts PROVE h[m].health # "HEALTHY"
    <3>1. health # "HEALTHY" /\ alerts = s.alerts + 1
      BY <2>1, <2>2
    <3>2. CASE m = k + 1
      BY <3>1, <3>2 DEF health
    <3>3. CASE m \in 1 .. k
      <4>1. m > k - s.alerts
        BY <1>2, <2>2, <3>1 DEF CountsAlerts
      <4> QED
        BY <1>2, <3>3, <4>1 DEF CountsAlerts
    <3> QED
      BY <3>2, <3>3
  <2> QED
    BY <1>1, <2>1, <2>2 DEF CountsAlerts
<1>8. CASE ~allow
  <2>1. new = old /\ z.last = s.last
    BY <1>1, <1>8
  <2>2. NotesTheLast(z) /\ KeepsCooldown(z, c)
    BY <1>2, <2>1 DEF NotesTheLast, KeepsCooldown
  <2>3. ServesTheSick(z, h, k + 1, c)
    <3> SUFFICES ASSUME NEW i \in 1 .. k + 1, Sick(h[i].health)
                 PROVE  \E j \in 1 .. len : h[i].at - c < old[j] /\ old[j] <= h[i].at
      BY <2>1 DEF ServesTheSick
    <3>1. CASE i \in 1 .. k
      BY <1>2, <3>1 DEF ServesTheSick
    <3>2. CASE i = k + 1
      <4>1. cooling
        BY <1>8, <3>2 DEF Sick, Eligible, health
      <4>2. len > 0 /\ s.last = old[len]
        BY <1>2, <4>1 DEF NotesTheLast
      <4>3. len \in 1 .. len /\ old[len] \in Nat
        BY <1>4, <1>5, <4>2
      <4>4. PICK i2 \in 1 .. k : old[len] = h[i2].at
        BY <1>2, <4>3 DEF WaitsForAlerts
      <4>5. old[len] < moment
        BY <1>3, <4>4
      <4>6. h[i].at = moment
        BY <3>2 DEF moment
      <4>7. moment - c < old[len]
        BY <1>3, <4>1, <4>2, <4>3
      <4>8. h[i].at - c < old[len] /\ old[len] <= h[i].at
        BY <1>3, <4>3, <4>5, <4>6, <4>7
      <4> QED
        BY <4>3, <4>8
    <3> QED
      BY <3>1, <3>2
  <2>4. WaitsForAlerts(z, h, k + 1, p)
    <3>1. \A i \in 1 .. k : i \in 1 .. k + 1
      OBVIOUS
    <3> QED
      BY <1>2, <2>1, <3>1 DEF WaitsForAlerts
  <2> QED
    BY <1>7, <2>2, <2>3, <2>4 DEF Paced, z, health, moment
<1>9. CASE allow
  <2>1. new = Append(old, moment) /\ z.last = moment
    BY <1>1, <1>9
  <2>2. /\ Len(new) = len + 1 /\ new \in Seq(Nat) /\ new[len + 1] = moment
        /\ \A j \in 1 .. len : new[j] = old[j]
    BY <1>3, <1>4, <2>1
  <2> HIDE DEF new
  <2>3. NotesTheLast(z)
    BY <1>4, <2>1, <2>2 DEF NotesTheLast, new
  <2>4. KeepsCooldown(z, c)
    <3> SUFFICES ASSUME NEW j \in 1 .. len PROVE new[j + 1] - new[j] >= c
      BY <1>4, <2>2 DEF KeepsCooldown, new
    <3>1. CASE j < len
      <4>1. j \in 1 .. len - 1 /\ j + 1 \in 1 .. len
        BY <1>4, <3>1
      <4> QED
        BY <1>2, <2>2, <4>1 DEF KeepsCooldown
    <3>2. CASE j = len
      <4>1. s.last = old[len] /\ old[len] \in Nat
        BY <1>2, <1>4, <1>5, <3>2 DEF NotesTheLast
      <4>2. moment - old[len] >= c
        BY <1>3, <1>9, <4>1
      <4> QED
        BY <2>2, <3>2, <4>2
    <3> QED
      BY <1>4, <3>1, <3>2
  <2>5. ServesTheSick(z, h, k + 1, c)
    <3> SUFFICES ASSUME NEW i \in 1 .. k + 1, Sick(h[i].health)
                 PROVE  \E j \in 1 .. len + 1 : h[i].at - c < new[j] /\ new[j] <= h[i].at
      BY <2>2 DEF ServesTheSick, new
    <3>1. CASE i \in 1 .. k
      <4>1. PICK j \in 1 .. len : h[i].at - c < old[j] /\ old[j] <= h[i].at
        BY <1>2, <3>1 DEF ServesTheSick
      <4>2. j \in 1 .. len + 1 /\ new[j] = old[j]
        BY <1>4, <2>2
      <4> QED
        BY <4>1, <4>2
    <3>2. CASE i = k + 1
      <4>1. len + 1 \in 1 .. len + 1 /\ h[i].at = moment
        BY <1>4, <3>2 DEF moment
      <4>2. moment - c < moment /\ moment <= moment
        BY <1>3
      <4>3. h[i].at - c < new[len + 1] /\ new[len + 1] <= h[i].at
        BY <2>2, <4>1, <4>2
      <4> QED
        BY <4>1, <4>3
    <3> QED
      BY <3>1, <3>2
  <2>6. WaitsForAlerts(z, h, k + 1, p)
    <3> SUFFICES ASSUME NEW j \in 1 .. len + 1
                 PROVE  \E i \in 1 .. k + 1 :
                            /\ new[j] = h[i].at
                            /\ h[i].health = "DRIFTING" =>
                                   i >= p /\ \A m \in 1 .. i : m > i - p => h[m].health # "HEALTHY"
      BY <2>2 DEF WaitsForAlerts, new
    <3>1. CASE j \in 1 .. len
      <4>1. PICK i \in 1 .. k :
                   /\ old[j] = h[i].at
                   /\ h[i].health = "DRIFTING" =>
                          i >= p /\ \A m \in 1 .. i : m > i - p => h[m].health # "HEALTHY"
        BY <1>2, <3>1 DEF WaitsForAlerts
      <4>2. i \in 1 .. k + 1 /\ new[j] = old[j]
        BY <2>2, <3>1
      <4> QED
        BY <4>1, <4>2
    <3>2. CASE j = len + 1
      <4>1. new[j] = h[k + 1].at /\ k + 1 \in 1 .. k + 1
        BY <2>2, <3>2 DEF moment
      <4>2. ASSUME health = "DRIFTING"
            PROVE  k + 1 >= p /\ \A m \in 1 .. k + 1 : m > k + 1 - p => h[m].health # "HEALTHY"
        <5>1. alerts >= p
          BY <1>9, <4>2 DEF Eligible
        <5>2. z.alerts = alerts /\ alerts \in 0 .. k + 1
          BY <1>1, <1>7 DEF CountsAlerts
        <5>3. ASSUME NEW m \in 1 .. k + 1, m > k + 1 - p PROVE h[m].health # "HEALTHY"
          <6>1. m > k + 1 - z.alerts
            BY <5>1, <5>2, <5>3
          <6> QED
            BY <1>7, <6>1 DEF CountsAlerts
        <5> QED
          BY <5>1, <5>2, <5>3
      <4> QED
        BY <4>1, <4>2 DEF health
    <3> QED
      BY <1>4, <3>1, <3>2
  <2> QED
    BY <1>7, <2>3, <2>4, <2>5, <2>6 DEF Paced, z, health, moment
<1> QED
  BY <1>8, <1>9

-----------------------------------------------------------------------------
OneEvaluation(v, s) == Evaluated(s, v.health, v.at, 2, 3)
Engines == INSTANCE FoldLemmas WITH Op <- OneEvaluation, Initial <- Fresh, Choose <- Largest

\* The engine after the first k evaluations of h
EngineAfter(h, k) == Engines!Fold(h, 1 .. k)

\* The engine after one more evaluation.
LEMMA EngineNext ==
    ASSUME NEW h, NEW k \in Nat
    PROVE  /\ EngineAfter(h, 0) = Fresh
           /\ EngineAfter(h, k + 1) = Evaluated(EngineAfter(h, k), h[k + 1].health, h[k + 1].at, 2, 3)
<1>1. \A n \in Nat : Engines!Chooses(1 .. n) /\ (n > 0 => Largest(1 .. n) = n)
  BY Engines!MaxOfInterval DEF Largest, Engines!Chooses, Max, Engines!Max
<1>2. Engines!Fold(h, 1 .. k + 1) = OneEvaluation(h[k + 1], Engines!Fold(h, 1 .. k))
  BY <1>1, Engines!FoldNext
<1>3. Engines!Fold(h, {}) = Fresh /\ 1 .. 0 = {}
  BY Engines!FoldEmpty
<1> QED
  BY <1>2, <1>3 DEF EngineAfter, OneEvaluation

\* However long a history is: two retrainings keep the cooldown, no critical model
\* waits longer for one, and drift alone has waited for its alerts.
THEOREM PaceIsHeld ==
    ASSUME NEW n \in Nat, NEW h, IsHistory(h, n)
    PROVE  Paced(Policy(h, 2, 3), h, n, 2, 3)
<1> DEFINE K == {k \in 0 .. n : Paced(EngineAfter(h, k), h, k, 2, 3)}
<1>1. 0 \in K
  <2>1. EngineAfter(h, 0) = Fresh
    BY EngineNext
  <2>2. Paced(Fresh, h, 0, 2, 3)
    BY DEF Fresh, Paced, CountsAlerts, NotesTheLast, KeepsCooldown, ServesTheSick, WaitsForAlerts
  <2> QED
    BY <2>1, <2>2
<1>2. ASSUME NEW k \in 0 .. n, k \in K, k < n PROVE k + 1 \in K
  <2>1. Paced(EngineAfter(h, k), h, k, 2, 3) /\ k \in Nat
    BY <1>2
  <2>2. Paced(Evaluated(EngineAfter(h, k), h[k + 1].health, h[k + 1].at, 2, 3), h, k + 1, 2, 3)
    BY <1>2, <2>1, PaceIsKept
  <2> QED
    BY <1>2, <2>1, <2>2, EngineNext
<1> HIDE DEF K
<1>3. n \in K
  BY <1>1, <1>2, Engines!Reaches
<1>4. Policy(h, 2, 3) = Engines!Fold(h, DOMAIN h)
  BY DEF Policy, FoldLeft, MapThenFoldSet, Engines!Fold, Engines!MapThenFoldSet, OneEvaluation, Largest
<1> QED
  BY <1>3, <1>4 DEF K, IsHistory, EngineAfter

-----------------------------------------------------------------------------
PaceInput == Given("policy") => input[2] \in Histories

\* What the pace is asked about.
LEMMA PaceInputTyped == ResearchSpec => []PaceInput
<1>1. ASSUME ResearchInit PROVE PaceInput
  <2>1. CASE input \in Inputs
    BY <2>1 DEF Inputs, PaceInput, Given
  <2>2. CASE input = NoInput
    BY <2>2 DEF NoInput, PaceInput, Given
  <2> QED
    BY <1>1, <2>1, <2>2 DEF ResearchInit
<1>2. ASSUME PaceInput, [ResearchNext]_<<vars, input>> PROVE PaceInput'
  <2>1. Given("policy")' => Given("policy") /\ input' = input
    BY <1>2, InputsStay
  <2> QED
    BY <1>2, <2>1 DEF PaceInput
<1> QED
  BY <1>1, <1>2, PTL DEF ResearchSpec

\* Evaluations some time apart each.
LEMMA TimedIsHistory ==
    ASSUME NEW n \in Nat, NEW states \in [1 .. n -> Healths], NEW gaps \in [1 .. n -> Nat \ {0}]
    PROVE  IsHistory(Timed(states, gaps), n)
<1> DEFINE h == Timed(states, gaps)
           at(i) == Sums!Fold(gaps, 1 .. i)
<1>1. DOMAIN h = 1 .. n /\ \A i \in 1 .. n : h[i].at = at(i)
  <2>1. \A i \in 1 .. n : SumFunctionOnSet(gaps, 1 .. i) = at(i)
    BY DEF SumFunctionOnSet, FoldFunctionOnSet, MapThenFoldSet, Sums!Fold, Sums!MapThenFoldSet, Plus, AnyOf
  <2> QED
    BY <2>1 DEF Timed
<1>2. ASSUME NEW i \in 1 .. n
      PROVE  /\ Sums!IsSum /\ Sums!IsFiniteSet(1 .. i) /\ Sums!Chooses(1 .. i)
             /\ Sums!Values(gaps, 1 .. i, Nat) /\ Sums!Values(gaps, 1 .. i, Int)
  <2>1. 1 \in Int /\ i \in Int
    OBVIOUS
  <2>2. IsFiniteSet(1 .. i)
    BY <2>1, FS_Interval
  <2>3. \A x \in 1 .. i : gaps[x] \in Nat /\ gaps[x] \in Int
    <3>1. 1 .. i \subseteq 1 .. n
      OBVIOUS
    <3> QED
      BY <3>1
  <2>4. Sums!IsFiniteSet(1 .. i)
    BY <2>2 DEF Sums!IsFiniteSet, IsFiniteSet
  <2>5. Sums!Values(gaps, 1 .. i, Nat) /\ Sums!Values(gaps, 1 .. i, Int)
    BY <2>3 DEF Sums!Values
  <2>6. Sums!IsSum /\ Sums!Chooses(1 .. i)
    BY DEF Sums!IsSum, Sums!Chooses, Plus, AnyOf
  <2> QED
    BY <2>4, <2>5, <2>6
<1>3. ASSUME NEW i \in 1 .. n PROVE at(i) \in Nat
  BY <1>2, Sums!SumType
<1>4. ASSUME NEW i \in 1 .. n, NEW j \in 1 .. n, i < j PROVE at(i) < at(j)
  <2> DEFINE R == (1 .. j) \ {j}
  <2>1. j \in 1 .. j /\ R \in SUBSET (1 .. j) /\ 1 .. i \in SUBSET R
    BY <1>4
  <2>2. at(j) = gaps[j] + Sums!Fold(gaps, R)
    <3> DEFINE J == 1 .. j
    <3>1. Sums!IsSum /\ Sums!IsFiniteSet(J) /\ Sums!Chooses(J) /\ Sums!Values(gaps, J, Int) /\ j \in J
      BY <1>2, <2>1
    <3> HIDE DEF J
    <3>2. Sums!Fold(gaps, J) = gaps[j] + Sums!Fold(gaps, J \ {j})
      BY <3>1, Sums!SumSplit
    <3> QED
      BY <3>2 DEF J
  <2>3. Sums!IsFiniteSet(R) /\ Sums!Chooses(R) /\ Sums!Values(gaps, R, Nat)
    <3>1. IsFiniteSet(R)
      BY <1>2, <2>1, FS_Subset DEF Sums!IsFiniteSet, IsFiniteSet
    <3> QED
      BY <1>2, <2>1, <3>1 DEF Sums!IsFiniteSet, IsFiniteSet, Sums!Chooses, Sums!Values
  <2> HIDE DEF R
  <2>4. Sums!Fold(gaps, R) \in Nat /\ at(i) <= Sums!Fold(gaps, R)
    BY <1>2, <2>1, <2>3, Sums!SumMonotone
  <2>5. gaps[j] \in Nat \ {0}
    OBVIOUS
  <2> QED
    BY <1>3, <2>2, <2>4, <2>5
<1> HIDE DEF at, h
<1> QED
  BY <1>1, <1>3, <1>4 DEF IsHistory, h

\* Retraining keeps its pace in the run: the cooldown between two of them, one
\* within it for every critical state, and persistent alerts before one for drift.
THEOREM RetrainingKeepsPace == ResearchSpec => []RetrainingIsPaced
<1>1. ASSUME PaceInput PROVE RetrainingIsPaced
  <2> DEFINE h == input[2]
             s == Policy(h, 2, 3)
             allowed == s.allowed
  <2> SUFFICES ASSUME Given("policy")
               PROVE  /\ \A i \in 1 .. Len(allowed) - 1 : allowed[i + 1] - allowed[i] >= 3
                      /\ \A i \in DOMAIN h :
                            h[i].health = "SUSPENDED" =>
                                \E j \in DOMAIN allowed : h[i].at - 3 < allowed[j] /\ allowed[j] <= h[i].at
                      /\ \A i \in DOMAIN h :
                            h[i].health = "DRIFTING" /\ (\E j \in DOMAIN allowed : allowed[j] = h[i].at)
                            => i > 1 /\ h[i - 1].health # "HEALTHY"
    BY DEF RetrainingIsPaced
  <2>1. PICK states \in [1 .. 5 -> Healths], gaps \in [1 .. 5 -> {1, 2}] : h = Timed(states, gaps)
    BY <1>1 DEF PaceInput, Histories
  <2>2. IsHistory(h, 5)
    <3>1. gaps \in [1 .. 5 -> Nat \ {0}] /\ 5 \in Nat
      BY <2>1
    <3> QED
      BY <2>1, <3>1, TimedIsHistory
  <2>3. Paced(s, h, 5, 2, 3)
    BY <2>2, PaceIsHeld
  <2> HIDE DEF h, s
  <2>4. DOMAIN h = 1 .. 5 /\ \A i, j \in 1 .. 5 : h[i].at \in Nat /\ (i < j => h[i].at < h[j].at)
    BY <2>2 DEF IsHistory
  <2>5. DOMAIN allowed = 1 .. Len(allowed)
    BY <2>3 DEF Paced, NotesTheLast
  <2>6. \A i \in 1 .. Len(allowed) - 1 : allowed[i + 1] - allowed[i] >= 3
    BY <2>3 DEF Paced, KeepsCooldown
  <2>7. ASSUME NEW i \in DOMAIN h, h[i].health = "SUSPENDED"
        PROVE  \E j \in DOMAIN allowed : h[i].at - 3 < allowed[j] /\ allowed[j] <= h[i].at
    BY <2>3, <2>4, <2>5, <2>7 DEF Paced, ServesTheSick, Sick
  <2>8. ASSUME NEW i \in DOMAIN h, h[i].health = "DRIFTING", NEW j \in DOMAIN allowed, allowed[j] = h[i].at
        PROVE  i > 1 /\ h[i - 1].health # "HEALTHY"
    <3>1. PICK m \in 1 .. 5 :
                 /\ allowed[j] = h[m].at
                 /\ h[m].health = "DRIFTING" =>
                        m >= 2 /\ \A q \in 1 .. m : q > m - 2 => h[q].health # "HEALTHY"
      BY <2>3, <2>5 DEF Paced, WaitsForAlerts
    <3>2. m = i
      <4>1. h[m].at = h[i].at /\ i \in 1 .. 5 /\ h[m].at \in Nat
        BY <2>4, <2>8, <3>1
      <4>2. ~(m < i) /\ ~(i < m)
        BY <2>4, <4>1
      <4> QED
        BY <4>1, <4>2
    <3>3. i >= 2 /\ i - 1 \in 1 .. i /\ i - 1 > i - 2
      BY <2>4, <2>8, <3>1, <3>2
    <3> QED
      BY <2>8, <3>1, <3>2, <3>3
  <2> QED
    BY <2>6, <2>7, <2>8
<1> QED
  BY <1>1, PaceInputTyped, PTL

\* AssessmentIsSound: the judgement of a model and the pace of its retrainings, in
\* every run.
THEOREM JudgementsAreSound == ResearchSpec => []AssessmentIsSound
<1>1. EvidenceIsHeard /\ RetrainingIsPaced => AssessmentIsSound
  BY DEF AssessmentIsSound
<1> QED
  BY <1>1, EvidenceStaysHeard, RetrainingKeepsPace, PTL
=============================================================================
