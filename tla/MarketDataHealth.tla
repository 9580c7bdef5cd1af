--------------------------- MODULE MarketDataHealth ---------------------------
(***************************************************************************)
(* Market data on its way to a trading decision                            *)
(* (data/market_data_health.py): the validator, the deduplication and      *)
(* ordering tracker, the freshness engine, the universe validator, the     *)
(* recovery coordinator (reconnection and REST fallback) and the trading   *)
(* safety gate, with messages that come late, twice, out of order, invalid *)
(* or not at all, while the clock goes on.                                 *)
(*                                                                         *)
(* A candle is the number of its bar, and bar b opens at b * BarLength; 0  *)
(* is a candle whose prices or volume make no sense.                       *)
(* There is one timeframe and one stream, as in the callers under src/.    *)
(* Messages of the stream take the way the coordinator's candles take:     *)
(* validator, tracker, engine.                                             *)
(***************************************************************************)
EXTENDS Integers, Sequences

CONSTANTS
    Universe,          \* required_universe, never empty
    BarLength,         \* one hour
    MaxDelay,          \* max_candle_delay_seconds
    HeartbeatTimeout,  \* ws_heartbeat_timeout_seconds
    Skew,              \* max_clock_skew_seconds
    CacheSize,         \* max_cache_size
    MaxAttempts,       \* max_reconnect_attempts
    MaxFetch,          \* bound on the candles of a REST response
    MaxClock,          \* bound on the clock of a behaviour
    NoSymbol           \* stands for no symbol

ASSUME MarketDataAssumption ==
    /\ {BarLength, HeartbeatTimeout, CacheSize, MaxAttempts} \subseteq Nat \ {0}
    /\ {MaxDelay, Skew, MaxFetch, MaxClock} \subseteq Nat
    /\ MaxDelay < BarLength /\ BarLength <= MaxClock
    /\ Universe # {} /\ NoSymbol \notin Universe

VARIABLES
    now,       \* the clock
    active,    \* _connection_active
    activity,  \* time of the last transport activity or heartbeat, 0 for none
    newest,    \* the tracker: the latest finalized bar of each symbol, 0 for none
    seen,      \* the tracker: identities, oldest first
    latest,    \* the engine: the last finalized candle of each symbol, 0 for none
    rest,      \* the REST fallback in progress: its symbol and the candles to come
    attempt,   \* the reconnection in progress: its attempt, 0 for none
    halted,    \* is_trading_halted of the portfolio
    decision   \* the last rebalance decision

tracker == <<newest, seen>>
engine == <<active, activity, latest>>
calls == <<rest, attempt>>
gateVars == <<now, tracker, engine, calls, halted, decision>>

Bars == 1 .. (MaxClock + Skew) \div BarLength
Candles == [bar : Bars \cup {0}, final : BOOLEAN]

SymbolStatuses == {"DISCONNECTED", "UNAVAILABLE", "INCOMPLETE", "STALE", "HEALTHY"}
UniverseStatuses == {"PORTFOLIO_HALTED", "DISCONNECTED", "STALE", "INCOMPLETE", "INVALID", "HEALTHY"}

GateTypes ==
    /\ now \in BarLength .. MaxClock
    /\ active \in BOOLEAN
    /\ activity \in 0 .. now
    /\ newest \in [Universe -> Bars \cup {0}]
    /\ seen \in Seq(Universe \X Bars) /\ Len(seen) <= CacheSize
    /\ latest \in [Universe -> Bars \cup {0}]
    /\ rest \in [symbol : Universe \cup {NoSymbol}, todo : Seq(Candles)]
    /\ rest.symbol # NoSymbol => rest.todo # <<>>
    /\ attempt \in 0 .. MaxAttempts
    /\ halted \in BOOLEAN
    /\ decision \in [why : UniverseStatuses \cup {"NONE"}, cutoff : Bars \cup {0}]

GateInit ==
    /\ now = BarLength
    /\ active = FALSE
    /\ activity = 0
    /\ newest = [s \in Universe |-> 0]
    /\ seen = <<>>
    /\ latest = [s \in Universe |-> 0]
    /\ rest = [symbol |-> NoSymbol, todo |-> <<>>]
    /\ attempt = 0
    /\ halted = FALSE
    /\ decision = [why |-> "NONE", cutoff |-> 0]

-----------------------------------------------------------------------------
(* MarketDataValidator and CandleDeduplicatorAndOrderingTracker *)

\* validate_candle: prices and volume in order, and a bar that has opened, give
\* or take the clock skew.  Whether it has closed is not looked at.
ValidCandle(c) == c.bar > 0 /\ c.bar * BarLength <= now + Skew

SeenKeys == {seen[i] : i \in DOMAIN seen}

\* Every final candle that is not a duplicate is remembered, older ones too.
Remembered(s, c) ==
    LET longer == Append(seen, <<s, c.bar>>)
    IN  IF Len(longer) > CacheSize THEN Tail(longer) ELSE longer

\* No comparison with the latest candle.
AcceptsUnordered(s, c) == c.final /\ <<s, c.bar>> \notin SeenKeys

\* process_candle: ACCEPTED_NEW.
Accepts(s, c) ==
    /\ c.final
    /\ <<s, c.bar>> \notin SeenKeys
    /\ c.bar >= newest[s]

Track(s, c) ==
    /\ seen' = IF c.final /\ <<s, c.bar>> \notin SeenKeys THEN Remembered(s, c) ELSE seen
    /\ newest' = IF Accepts(s, c) THEN [newest EXCEPT ![s] = c.bar] ELSE newest

-----------------------------------------------------------------------------
(* MarketDataFreshnessEngine *)

\* record_valid_candle (for a final candle) after an accepted one.
Engage(s, c) ==
    IF Accepts(s, c)
    THEN /\ active' = TRUE
         /\ activity' = now
         /\ latest' = [latest EXCEPT ![s] = c.bar]
    ELSE UNCHANGED engine

Silent == activity > 0 /\ now - activity > HeartbeatTimeout

\* Seconds after the expected close, never less than 0.
Age(s) == IF now >= (latest[s] + 1) * BarLength THEN now - (latest[s] + 1) * BarLength ELSE 0

\* evaluate_symbol_health
SymbolStatus(s) ==
    CASE ~active -> "DISCONNECTED"
      [] active /\ Silent -> "UNAVAILABLE"
      [] active /\ ~Silent /\ latest[s] = 0 -> "INCOMPLETE"
      [] active /\ ~Silent /\ latest[s] # 0 /\ Age(s) > MaxDelay -> "STALE"
      [] OTHER -> "HEALTHY"

-----------------------------------------------------------------------------
(* CrossSectionalUniverseValidator and TradingSafetyGate *)

SomeIs(status) == \E s \in Universe : SymbolStatus(s) = status

\* Any one cutoff will do.
UniverseStatusUnaligned ==
    CASE SomeIs("DISCONNECTED") -> "DISCONNECTED"
      [] ~SomeIs("DISCONNECTED") /\ SomeIs("STALE") -> "STALE"
      [] SomeIs("INCOMPLETE") \/ SomeIs("UNAVAILABLE") -> "INCOMPLETE"
      [] OTHER -> "HEALTHY"

\* evaluate_universe: all symbols healthy, all at the same bar.
UniverseStatus ==
    CASE SomeIs("DISCONNECTED") -> "DISCONNECTED"
      [] ~SomeIs("DISCONNECTED") /\ SomeIs("STALE") -> "STALE"
      [] ~SomeIs("DISCONNECTED") /\ ~SomeIs("STALE")
            /\ (SomeIs("INCOMPLETE") \/ SomeIs("UNAVAILABLE")) -> "INCOMPLETE"
      [] (\A s \in Universe : SymbolStatus(s) = "HEALTHY")
            /\ (\E s, t \in Universe : latest[s] # latest[t]) -> "INVALID"
      [] OTHER -> "HEALTHY"

\* verify_trading_permission and handle_rebalance_decision: the rebalance is
\* executed at the common cutoff, or skipped for good.
Decide ==
    /\ LET why == IF halted THEN "PORTFOLIO_HALTED" ELSE UniverseStatus
       IN  decision' = [why |-> why,
                        cutoff |-> IF why = "HEALTHY"
                                   THEN CHOOSE b \in Bars : \E s \in Universe : latest[s] = b
                                   ELSE 0]
    /\ UNCHANGED <<now, tracker, engine, calls, halted>>

\* The portfolio fails its integrity check, or is recovered.
PortfolioHalts ==
    /\ halted' = ~halted
    /\ UNCHANGED <<now, tracker, engine, calls, decision>>

-----------------------------------------------------------------------------
(* The stream and the coordinator. *)

Tick ==
    /\ now < MaxClock
    /\ now' = now + 1
    /\ UNCHANGED <<tracker, engine, calls, halted, decision>>

\* A message with a candle.  One that is not final, not valid or not new leaves
\* no trace in the engine.
Message(s, c) ==
    /\ ValidCandle(c)
    /\ Track(s, c)
    /\ Engage(s, c)
    /\ UNCHANGED <<now, calls, halted, decision>>

Heartbeat ==
    /\ attempt = 0
    /\ active' = TRUE
    /\ activity' = now
    /\ UNCHANGED <<now, tracker, latest, calls, halted, decision>>

Disconnect ==
    /\ active' = FALSE
    /\ UNCHANGED <<now, tracker, activity, latest, calls, halted, decision>>

\* execute_rest_fallback: the response, of any candles in any order ...
FetchRest(s) ==
    /\ rest.symbol = NoSymbol
    /\ \E n \in 1 .. MaxFetch : \E todo \in [1 .. n -> Candles] :
          rest' = [symbol |-> s, todo |-> todo]
    /\ UNCHANGED <<now, tracker, engine, attempt, halted, decision>>

RestDone == rest' = [symbol |-> NoSymbol, todo |-> <<>>]

\* ... is taken candle by candle, up to the first invalid one.
TakeRest(s) ==
    /\ rest.symbol = s /\ s # NoSymbol
    /\ LET c == Head(rest.todo)
       IN  IF ValidCandle(c)
           THEN /\ Track(s, c)
                /\ Engage(s, c)
                /\ IF Len(rest.todo) = 1 THEN RestDone ELSE rest' = [rest EXCEPT !.todo = Tail(@)]
           ELSE RestDone /\ UNCHANGED <<tracker, engine>>
    /\ UNCHANGED <<now, attempt, halted, decision>>

\* handle_reconnect: the stream counts as disconnected while it is tried.
BeginReconnect ==
    /\ attempt = 0
    /\ attempt' = 1
    /\ active' = FALSE
    /\ UNCHANGED <<now, tracker, activity, latest, rest, halted, decision>>

\* The connection fails; after the last attempt the call gives up.
AttemptFails ==
    /\ attempt > 0
    /\ attempt' = IF attempt < MaxAttempts THEN attempt + 1 ELSE 0
    /\ UNCHANGED <<now, tracker, engine, rest, halted, decision>>

AttemptSucceeds ==
    /\ attempt > 0
    /\ attempt' = 0
    /\ active' = TRUE
    /\ activity' = now
    /\ UNCHANGED <<now, tracker, latest, rest, halted, decision>>

Feed == \E s \in Universe : TakeRest(s) \/ FetchRest(s) \/ \E c \in Candles : Message(s, c)

GateNext ==
    \/ Tick \/ Decide \/ PortfolioHalts
    \/ Feed \/ Heartbeat \/ Disconnect
    \/ BeginReconnect \/ AttemptFails \/ AttemptSucceeds

GateSpec == GateInit /\ [][GateNext]_gateVars

-----------------------------------------------------------------------------
\* The tracker and the engine keep the same candle of every symbol, though only
\* the tracker compares (market_data_health.py:470 and :623).
EngineFollowsTracker == latest = newest

\* "Older candles cannot overwrite latest authoritative state": through
\* duplicates, late messages, REST responses in any order and evicted
\* identities, no symbol goes back to an earlier bar.
NeverBackwards == [][\A s \in Universe : latest'[s] >= latest[s]]_gateVars

\* A symbol that is healthy stays so until time passes or the connection is
\* given up: nothing that is received can make fresh data stale.
OnlyTimeAndSilenceHurt ==
    [][now' = now /\ (active => active') =>
          \A s \in Universe : SymbolStatus(s) = "HEALTHY" => SymbolStatus(s)' = "HEALTHY"]_gateVars

\* "Untrusted, stale or incomplete market data: trading not permitted": an
\* executed rebalance had every symbol at one and the same bar, none older than
\* the bar that closed last, on a stream that is not silent.
DecidedOnCurrentBar ==
    [][decision' # decision /\ decision'.why = "HEALTHY" =>
          /\ \A s \in Universe : newest[s] = decision'.cutoff
          /\ decision'.cutoff + 1 >= now \div BarLength
          /\ now - activity <= HeartbeatTimeout
          /\ ~halted]_gateVars
=============================================================================
