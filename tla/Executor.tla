----------------------------- MODULE Executor -----------------------------
(***************************************************************************)
(* Executor.execute (src/execution/executor.py) with the risk guards it    *)
(* asks and the Jito client it submits through (jito_client.py).           *)
(*                                                                         *)
(* A task is one call of execute().  An action runs a task from one await  *)
(* to the next.  The wait for the blockhash is a step of its own also when *)
(* the cache answers at once: the behaviours without the wait are among    *)
(* those with it.  BlockhashCache models the cache.                        *)
(*                                                                         *)
(* The block engine is external: it may accept a bundle whose response is  *)
(* lost, and an accepted bundle lands or fails in its own time.            *)
(***************************************************************************)
EXTENDS RiskGuards, FiniteSets

CONSTANTS
    Tasks,      \* calls of execute()
    Mints,
    NoMint,     \* of a task that was not called yet
    Modes       \* values of settings.mode considered

ASSUME ModesAssumption == Modes \subseteq {"paper", "shadow", "live"}
ASSUME MintsAssumption == NoMint \notin Mints /\ IsFiniteSet(Mints)

VARIABLES
    mode,               \* settings.mode, set by the environment at import
    at,                 \* where each task is
    mint,               \* intent.mint of each task
    result,             \* status of the BundleResult of each task
    active_executions,
    bundle,             \* external: each task's bundle at the block engine
    reports,            \* history: reports of each task to the risk guards
    exiting             \* external: asyncio.run is cancelling what is left

execVars == <<at, mint, result, active_executions, bundle, reports, exiting>>
vars == <<guardVars, execVars, mode>>

Init ==
    /\ GuardsInit
    /\ mode \in Modes
    /\ at = [t \in Tasks |-> "idle"]
    /\ mint = [t \in Tasks |-> NoMint]
    /\ result = [t \in Tasks |-> "none"]
    /\ active_executions = {}
    /\ bundle = [t \in Tasks |-> "none"]
    /\ reports = [t \in Tasks |-> 0]
    /\ exiting = FALSE

Waits == {"paper", "blockhash", "send", "track"}

InFlight == {t \in Tasks : at[t] \in Waits}

-----------------------------------------------------------------------------
(* Ends of a call                                                          *)

Goes(t, place) == at' = [at EXCEPT ![t] = place]

Count(t) == reports' = [reports EXCEPT ![t] = @ + 1]

ReportsFailure(t) == ReportBundleFailure /\ Count(t)
ReportsSuccess(t) == ReportBundleSuccess /\ Count(t)
ReportsNothing == UNCHANGED <<consecutive_bundle_failures, reports>>

\* Mutant: the return of a result other than landed skips the finally block.
ReturnsKeepingActive(t, status) ==
    /\ Goes(t, "done")
    /\ result' = [result EXCEPT ![t] = status]
    /\ active_executions' = IF status = "landed"
                            THEN active_executions \ {mint[t]}
                            ELSE active_executions

\* A return from inside the try block, through the finally block.
Returns(t, status) ==
    /\ Goes(t, "done")
    /\ result' = [result EXCEPT ![t] = status]
    /\ active_executions' = active_executions \ {mint[t]}

\* A return before the try block: nothing to release.  Its BundleResult is a
\* failed one; "refused" stands for it, as its error_message tells it from the
\* failures of an execution.
TurnedAway(t, m) ==
    /\ Goes(t, "done")
    /\ result' = [result EXCEPT ![t] = "refused"]
    /\ UNCHANGED active_executions

-----------------------------------------------------------------------------
(* Steps of execute()                                                      *)

FirstWait == IF mode = "paper" THEN "paper" ELSE "blockhash"

DoubleSend(m) == m \in active_executions

\* Mutant: the mint is added after the first wait and not before it.
AdmitWithoutAdding(t, m) ==
    /\ Goes(t, FirstWait)
    /\ UNCHANGED <<active_executions, result>>

Admit(t, m) ==
    /\ Goes(t, FirstWait)
    /\ active_executions' = active_executions \cup {m}
    /\ UNCHANGED result

Execute(t, m) ==
    /\ at[t] = "idle" /\ ~exiting
    /\ mint' = [mint EXCEPT ![t] = m]
    /\ \/ DoubleSend(m) /\ TurnedAway(t, m) /\ UNCHANGED stream_healthy
       \/ /\ ~DoubleSend(m) /\ NoteStreamHealth
          /\ \/ ~IsTradeAllowed /\ TurnedAway(t, m)
             \/ IsTradeAllowed /\ Admit(t, m)
    /\ UNCHANGED <<heartbeat, consecutive_bundle_failures, bundle, reports,
                   exiting>>

PaperFills(t) ==
    /\ at[t] = "paper"
    /\ Returns(t, "landed")
    /\ ReportsSuccess(t)
    /\ UNCHANGED <<stream_healthy, heartbeat, mint, bundle, exiting>>

\* Mutant: the handler of the exception does not report it.
PrepareRaisesUnreported(t) ==
    /\ at[t] = "blockhash"
    /\ Returns(t, "failed")
    /\ ReportsNothing
    /\ UNCHANGED <<stream_healthy, heartbeat, mint, bundle, exiting>>

\* Building or signing the transaction raises.
PrepareRaises(t) ==
    /\ at[t] = "blockhash"
    /\ Returns(t, "failed")
    /\ ReportsFailure(t)
    /\ UNCHANGED <<stream_healthy, heartbeat, mint, bundle, exiting>>

Prepare(t) ==
    /\ at[t] = "blockhash"
    /\ \/ mode = "shadow" /\ Returns(t, "landed")
       \/ mode = "live" /\ Goes(t, "send")
          /\ UNCHANGED <<result, active_executions>>
    /\ ReportsNothing
    /\ UNCHANGED <<stream_healthy, heartbeat, mint, bundle, exiting>>

\* send_bundle returns None: the engine rejected the bundle, or accepted it
\* and its response was lost or came after the 3 s timeout.
SendFails(t) ==
    /\ at[t] = "send"
    /\ \/ UNCHANGED bundle
       \/ bundle' = [bundle EXCEPT ![t] = "accepted"]
    /\ Returns(t, "failed")
    /\ ReportsFailure(t)
    /\ UNCHANGED <<stream_healthy, heartbeat, mint, exiting>>

SendSucceeds(t) ==
    /\ at[t] = "send"
    /\ bundle' = [bundle EXCEPT ![t] = "accepted"]
    /\ Goes(t, "track")
    /\ ReportsNothing
    /\ UNCHANGED <<stream_healthy, heartbeat, mint, result, active_executions,
                   exiting>>

\* Mutant: the polling has no time limit.
TrackAnswersUntimed(t) == {bundle[t]} \ {"accepted"}

\* What track_bundle may answer: the status of a bundle that landed or failed,
\* or a timeout after 15 s of polls without one, whatever became of it.
TrackAnswers(t) ==
    {"timeout"} \cup IF bundle[t] \in {"landed", "failed"} THEN {bundle[t]} ELSE {}

TrackReports(t, status) ==
    IF status = "landed" THEN ReportsSuccess(t) ELSE ReportsFailure(t)

TrackEnds(t) ==
    /\ at[t] = "track"
    /\ \E status \in TrackAnswers(t) :
          Returns(t, status) /\ TrackReports(t, status)
    /\ UNCHANGED <<stream_healthy, heartbeat, mint, bundle, exiting>>

\* A task cancelled as the process exits: CancelledError is not an Exception,
\* so only the finally block runs.  A submission under way may be accepted.
Cancel(t) ==
    /\ at[t] \in Waits /\ exiting
    /\ \/ UNCHANGED bundle
       \/ at[t] = "send" /\ bundle' = [bundle EXCEPT ![t] = "accepted"]
    /\ Returns(t, "none")
    /\ ReportsNothing
    /\ UNCHANGED <<stream_healthy, heartbeat, mint, exiting>>

Resume(t) ==
    /\ ~exiting
    /\ \/ PaperFills(t) \/ PrepareRaises(t) \/ Prepare(t)
       \/ SendFails(t) \/ SendSucceeds(t) \/ TrackEnds(t)

-----------------------------------------------------------------------------
(* The environment                                                         *)

\* external: the block engine settles a bundle it accepted
Settle(t) ==
    /\ bundle[t] = "accepted"
    /\ \E fate \in {"landed", "failed"} : bundle' = [bundle EXCEPT ![t] = fate]
    /\ UNCHANGED <<guardVars, at, mint, result, active_executions, reports,
                   exiting>>

\* handle_raw_event updates the heartbeat with every event
Heartbeat ==
    /\ UpdateStreamHeartbeat
    /\ UNCHANGED <<consecutive_bundle_failures, execVars>>

Ages == HeartbeatAges /\ UNCHANGED execVars

\* asyncio.run cancels the tasks that are left when main() has returned.
Exit ==
    /\ ~exiting /\ exiting' = TRUE
    /\ UNCHANGED <<guardVars, at, mint, result, active_executions, bundle,
                   reports>>

Step ==
    \/ \E t \in Tasks, m \in Mints : Execute(t, m)
    \/ \E t \in Tasks : Resume(t) \/ Cancel(t) \/ Settle(t)
    \/ Heartbeat
    \/ Ages
    \/ Exit

Next == Step /\ UNCHANGED mode

\* Every await of execute() has a timeout: 0.5 s of sleep, the RPC client's,
\* 3 s for the submission, 15 s of tracking; and a cancellation is delivered.
Fairness ==
    \A t \in Tasks : /\ WF_vars(Resume(t) /\ UNCHANGED mode)
                     /\ WF_vars(Cancel(t) /\ UNCHANGED mode)

Spec == Init /\ [][Next]_vars
FairSpec == Spec /\ Fairness

-----------------------------------------------------------------------------
(* Properties                                                              *)

\* Types of the variables.
TypeOK ==
    /\ GuardsTypeOK
    /\ mode \in Modes
    /\ at \in [Tasks -> Waits \cup {"idle", "done"}]
    /\ mint \in [Tasks -> Mints \cup {NoMint}]
    /\ result \in [Tasks -> {"none", "refused", "landed", "failed", "timeout"}]
    /\ active_executions \in SUBSET Mints
    /\ bundle \in [Tasks -> {"none", "accepted", "landed", "failed"}]
    /\ reports \in [Tasks -> Nat]
    /\ exiting \in BOOLEAN

\* The set that guards against double sends is exactly the mints being
\* executed: on no path, an exception and a cancellation included, does a mint
\* stay in it, nor is it released while its execution goes on.
ActiveAreInFlight == active_executions = {mint[t] : t \in InFlight}

\* Two executions of a mint never overlap (executor.py:32).
OneExecutionPerMint ==
    \A s, t \in InFlight : mint[s] = mint[t] => s = t

\* The breaker is checked once per execution, before its first await, so it
\* can be overrun by those admitted before it tripped, and by no more: at most
\* one per mint.
OverrunBounded ==
    consecutive_bundle_failures + Cardinality(InFlight)
        <= (MaxFailures - 1) + Cardinality(Mints)

\* Once tripped with nothing in flight the breaker stays tripped: only the
\* success of an execution resets it, and none is admitted any more.
BreakerLatches ==
    [][ BreakerTripped /\ InFlight = {} => BreakerTripped' /\ InFlight' = {} ]_vars

\* An execution reports its outcome to the guards exactly once, whichever way
\* it ends: filled, failed by an exception, rejected by the engine, landed,
\* failed or timed out.  A call that was turned away, one that still runs and
\* one that was cancelled reported nothing, and of a shadow execution only an
\* exception is reported.
ReportedOnce ==
    \A t \in Tasks :
        reports[t] = IF \/ result[t] \in {"none", "refused"}
                        \/ mode = "shadow" /\ result[t] = "landed"
                     THEN 0 ELSE 1

\* The process reports itself not ready only while the heartbeat is late, and the
\* second check of is_trade_allowed never refuses what the first let through.
UnhealthyOnlyWhileDown == ~IsReady => StreamDown

\* Every execution returns and its mint can be traded again.
ExecutionsEnd == \A t \in Tasks : (at[t] \in Waits) ~> (at[t] = "done")

=============================================================================
