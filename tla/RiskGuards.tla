---------------------------- MODULE RiskGuards ----------------------------
(***************************************************************************)
(* RiskGuards (src/risk/guards.py), the singleton every execution asks for *)
(* permission, and the readiness check that reads it                       *)
(* (src/observability/health.py).                                          *)
(*                                                                         *)
(* Of the time since the last heartbeat only the limit of 10 s matters,    *)
(* after which trades are refused.                                         *)
(***************************************************************************)
EXTENDS Naturals

CONSTANTS
    MaxFailures,        \* max_consecutive_bundle_failures, 5 in the code
    MaxOpenPositions    \* settings.max_open_positions

ASSUME MaxFailuresAssumption == MaxFailures \in Nat \ {0}
ASSUME MaxOpenPositionsAssumption == MaxOpenPositions \in Nat

VARIABLES
    stream_healthy,
    heartbeat,                      \* age of last_stream_heartbeat
    consecutive_bundle_failures

guardVars == <<stream_healthy, heartbeat, consecutive_bundle_failures>>

\* What nothing in src/ ever changes: the positions are not counted, no
\* latency is recorded, the monitor sets jito_healthy to True every 10 s and
\* the one caller passes the same slot twice.
current_open_positions == 0
jito_healthy == TRUE

GuardsInit == /\ stream_healthy = TRUE
              /\ heartbeat = "fresh"
              /\ consecutive_bundle_failures = 0

\* Mutant: a heartbeat leaves stream_healthy as it is.
UpdateHeartbeatOnly == heartbeat' = "fresh" /\ UNCHANGED stream_healthy
UpdateStreamHeartbeat == heartbeat' = "fresh" /\ stream_healthy' = TRUE

\* Time passes without an event of the stream.
HeartbeatAges ==
    /\ heartbeat = "fresh"
    /\ heartbeat' = "over10"
    /\ UNCHANGED <<stream_healthy, consecutive_bundle_failures>>

ReportBundleFailure ==
    consecutive_bundle_failures' = consecutive_bundle_failures + 1

ReportBundleSuccess == consecutive_bundle_failures' = 0

StreamDown == heartbeat # "fresh"

BreakerTripped == consecutive_bundle_failures >= MaxFailures

\* Mutants of IsTradeAllowed: without the failures check; with > for >=.
TradeAllowedWithoutBreaker ==
    ~StreamDown /\ stream_healthy /\ jito_healthy
TradeAllowedOffByOne ==
    /\ ~StreamDown /\ stream_healthy /\ jito_healthy
    /\ consecutive_bundle_failures <= MaxFailures

\* The slot lag is 0 and the p99 latency of no samples is 0.
IsTradeAllowed ==
    /\ ~StreamDown
    /\ stream_healthy
    /\ jito_healthy
    /\ current_open_positions < MaxOpenPositions
    /\ ~BreakerTripped

\* is_trade_allowed also notes that the stream is down.
NoteStreamHealth ==
    stream_healthy' = IF StreamDown THEN FALSE ELSE stream_healthy

\* The readiness check of health.py.
IsReady == stream_healthy /\ jito_healthy

GuardsTypeOK ==
    /\ stream_healthy \in BOOLEAN
    /\ heartbeat \in {"fresh", "over10"}
    /\ consecutive_bundle_failures \in Nat

=============================================================================
