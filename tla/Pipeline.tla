----------------------------- MODULE Pipeline -----------------------------
(***************************************************************************)
(* PipelineOrchestrator (src/app/orchestrator.py) over the token store     *)
(* (src/state/token_store.py), the security auditor                        *)
(* (src/security/audit.py), the entry signal (src/engine/signals.py), the  *)
(* executor and the shutdown of LifecycleManager (src/app/lifecycle.py).   *)
(*                                                                         *)
(* The store's lock is never held across an await, so its methods do not   *)
(* suspend and handle_raw_event runs as one step.  The event loop runs     *)
(* ready tasks in the order they became ready: an execution created by the *)
(* handler starts before the dispatcher, which waits for the handler, is   *)
(* woken for the next event.  Hence at most one execution waits to start.  *)
(***************************************************************************)
EXTENDS Naturals, FiniteSets, Functions

CONSTANTS
    Tasks, Mints, NoMint, Modes, MaxFailures, MaxOpenPositions,
    CheckMintAuthority,     \* settings.check_mint_authority
    CheckFreezeAuthority,   \* settings.check_freeze_authority
    MaxAudits               \* bound: background audits at a time

ASSUME CheckAssumption == /\ CheckMintAuthority \in BOOLEAN
                          /\ CheckFreezeAuthority \in BOOLEAN
                          /\ MaxAudits \in Nat \ {0}

\* What Executor assumes of the constants it shares with this module.
ASSUME ExecutorAssumption ==
    /\ MaxFailures \in Nat \ {0} /\ MaxOpenPositions \in Nat
    /\ Modes \subseteq {"paper", "shadow", "live"}
    /\ NoMint \notin Mints /\ IsFiniteSet(Mints)

VARIABLES
    stream_healthy, heartbeat, consecutive_bundle_failures,
    mode, at, mint, result, active_executions, bundle, reports, exiting,
    pending,        \* the mint of an execution that was created, not started
    stored,         \* TokenStore: the mints it has a state of
    in_position,    \* of the state of each mint
    audit_status,   \* of the state of each mint
    audit_cache,    \* SecurityAuditor
    audits,         \* background audits of each mint under way
    forgotten,      \* history: the mints evicted while they were in position
    revoked,        \* external: both authorities of the mint are revoked
    shutdown        \* how far LifecycleManager has got

guardVars == <<stream_healthy, heartbeat, consecutive_bundle_failures>>
execVars == <<at, mint, result, active_executions, bundle, reports, exiting>>
auditVars == <<audit_cache, audits>>
vars == <<guardVars, execVars, mode, pending, stored, in_position, audit_status,
          auditVars, forgotten, revoked, shutdown>>

Exec == INSTANCE Executor

Init ==
    /\ Exec!Init
    /\ pending = NoMint
    /\ stored = {}
    /\ in_position = [m \in Mints |-> FALSE]
    /\ audit_status = [m \in Mints |-> "PENDING"]
    /\ audit_cache = [m \in Mints |-> "none"]
    /\ audits = [m \in Mints |-> 0]
    /\ forgotten = {}
    /\ revoked \in [Mints -> BOOLEAN]
    /\ shutdown = "no"

-----------------------------------------------------------------------------
(* handle_raw_event                                                        *)

\* A Pump.fun event payload is not a serialized transaction, so the in-memory
\* check of the authorities does not pass for any event that was parsed.
PassesInMemory == ~CheckMintAuthority

\* Mutant: the auditor forgets a verdict with the stored state.
AuditInMemoryUnlessEvicted(m) ==
    IF ~PassesInMemory THEN "DENY"
    ELSE IF audit_cache[m] = "none" \/ m \notin stored THEN "PENDING"
    ELSE audit_cache[m]

AuditInMemory(m) ==
    IF ~PassesInMemory THEN "DENY"
    ELSE IF audit_cache[m] = "none" THEN "PENDING" ELSE audit_cache[m]

\* Mutant: no background audit for a mint that is new to the store.
SpawnsAuditForKnown(m, verdict) == verdict = "PENDING" /\ m \in stored

SpawnsAudit(m, verdict) == verdict = "PENDING"

\* Mutant: the position is not looked at.
EntrySignalIgnoresPosition(m, verdict, meets) == verdict = "ALLOW" /\ meets

\* The slot lag and the staleness are those of the event just stored, so both
\* are within their limits; meets stands for the thresholds on the trades.
EntrySignal(m, verdict, meets) ==
    ~in_position[m] /\ verdict = "ALLOW" /\ meets

IdleTasks == {t \in Tasks : at[t] = "idle"}

DispatcherAwake == shutdown # "closing" /\ ~exiting /\ pending = NoMint

UpdateStreamHeartbeat == stream_healthy' = TRUE /\ heartbeat' = "fresh"

HandleEvent(m) ==
    /\ DispatcherAwake
    /\ IdleTasks # {}                   \* bound
    /\ UpdateStreamHeartbeat
    /\ stored' = stored \cup {m}
    /\ LET verdict == AuditInMemory(m) IN
       /\ audit_cache' = [audit_cache EXCEPT ![m] = verdict]
       /\ audit_status' = [audit_status EXCEPT ![m] = verdict]
       /\ \/ /\ SpawnsAudit(m, verdict)
             /\ SumFunction(audits) < MaxAudits     \* bound
             /\ audits' = [audits EXCEPT ![m] = @ + 1]
          \/ ~SpawnsAudit(m, verdict) /\ UNCHANGED audits
       /\ \E meets \in BOOLEAN :
             pending' = IF EntrySignal(m, verdict, meets) THEN m ELSE pending
    /\ UNCHANGED <<consecutive_bundle_failures, execVars, in_position,
                   forgotten, revoked, shutdown>>

\* An event that is not parsed only updates the heartbeat.
HandleOtherEvent ==
    /\ DispatcherAwake
    /\ Exec!Heartbeat
    /\ UNCHANGED <<pending, stored, in_position, audit_status, auditVars,
                   forgotten, revoked, shutdown>>

-----------------------------------------------------------------------------
(* _run_bg_audit                                                           *)

AuthorityChecked == CheckMintAuthority \/ CheckFreezeAuthority

\* Mutant: an audit whose RPC fails leaves the verdict pending.
AuditVerdictsPending(m) ==
    {"PENDING"} \cup (IF revoked[m] THEN {"ALLOW"} ELSE {"DENY"})

\* Each RPC may fail and the holders may change.  Without the account the
\* authorities do not pass; without the holders or the supply the concentration
\* is not looked at.
AuditVerdicts(m) ==
    {"DENY"} \cup (IF AuthorityChecked /\ ~revoked[m] THEN {} ELSE {"ALLOW"})

\* Mutant: the verdict reaches the cache and not the stored state.
StoreVerdictNowhere(m, verdict) == UNCHANGED audit_status

StoreVerdict(m, verdict) ==
    audit_status' = [audit_status EXCEPT ![m] =
                        IF m \in stored THEN verdict ELSE @]

AuditEnds(m) ==
    /\ audits[m] > 0 /\ ~exiting
    /\ audits' = [audits EXCEPT ![m] = @ - 1]
    /\ \E verdict \in AuditVerdicts(m) :
          /\ audit_cache' = [audit_cache EXCEPT ![m] = verdict]
          /\ StoreVerdict(m, verdict)
    /\ UNCHANGED <<guardVars, execVars, pending, stored, in_position,
                   forgotten, revoked, shutdown>>

-----------------------------------------------------------------------------
(* _dispatch_execution                                                     *)

orchestratorRest ==
    <<stored, audit_status, auditVars, forgotten, revoked, shutdown>>

\* Mutant: the position is set when the execution succeeds and not before.
PositionOnlyOnceLanded(t, m) ==
    in_position' = [in_position EXCEPT ![m] = result'[t] = "landed"]

\* in_position once the task's step is done: TRUE while execute() goes on,
\* then TRUE only if the bundle landed; a cancelled task leaves it alone.
PositionAfter(t, m) ==
    in_position' = [in_position EXCEPT ![m] =
        at'[t] # "done" \/ result'[t] \in {"landed", "none"}]

DispatchExecution(t, m) ==
    PositionAfter(t, m) /\ UNCHANGED orchestratorRest

StartExecution ==
    /\ pending # NoMint /\ ~exiting
    /\ pending' = NoMint
    /\ \E t \in IdleTasks :
          Exec!Execute(t, pending) /\ DispatchExecution(t, pending)

ResumeExecution(t) ==
    /\ Exec!Resume(t)
    /\ DispatchExecution(t, mint[t])
    /\ UNCHANGED pending

\* Mutant: an execution that tracks its bundle swallows the cancellation.
CancelUnlessTracking(t) ==
    /\ at[t] # "track" /\ Exec!Cancel(t)
    /\ DispatchExecution(t, mint[t])
    /\ UNCHANGED pending

CancelExecution(t) ==
    /\ Exec!Cancel(t)
    /\ DispatchExecution(t, mint[t])
    /\ UNCHANGED pending

-----------------------------------------------------------------------------
(* TokenStore._cleanup_loop                                                *)

\* The TTL is an hour and an execution or an audit takes less than a minute:
\* one that is under way refreshed the mint too recently.
BusyNever(m) == FALSE   \* mutant: the TTL is shorter than an execution
Busy(m) == \/ pending = m \/ audits[m] > 0
           \/ \E t \in Exec!InFlight : mint[t] = m

\* The state is gone, its fields have their defaults if it is created again;
\* the auditor's cache keeps its verdict.
Evict(m) ==
    /\ m \in stored /\ ~Busy(m) /\ shutdown # "closing" /\ ~exiting
    /\ stored' = stored \ {m}
    /\ in_position' = [in_position EXCEPT ![m] = FALSE]
    /\ audit_status' = [audit_status EXCEPT ![m] = "PENDING"]
    /\ forgotten' = IF in_position[m] THEN forgotten \cup {m} ELSE forgotten
    /\ UNCHANGED <<guardVars, execVars, pending, auditVars, revoked, shutdown>>

-----------------------------------------------------------------------------
(* LifecycleManager.initiate_shutdown, then the end of asyncio.run         *)

others == <<pending, stored, in_position, audit_status, auditVars, forgotten,
            revoked>>

\* Cancels the one task it was given, the monitor, and waits for it.
InitiateShutdown ==
    /\ shutdown = "no" /\ shutdown' = "cancelling"
    /\ UNCHANGED <<guardVars, execVars, others>>

\* grpc_client.stop, token_store.stop, rpc_client.close
CleanUp ==
    /\ shutdown = "cancelling" /\ shutdown' = "closing"
    /\ UNCHANGED <<guardVars, execVars, others>>

\* main() returns; an execution not started yet never runs
Exit ==
    /\ shutdown = "closing" /\ Exec!Exit
    /\ pending' = NoMint
    /\ UNCHANGED <<stored, in_position, audit_status, auditVars, forgotten,
                   revoked, shutdown>>

-----------------------------------------------------------------------------

Environment ==
    /\ Exec!Ages \/ \E t \in Tasks : Exec!Settle(t)
    /\ UNCHANGED <<others, shutdown>>

Step ==
    \/ \E m \in Mints : HandleEvent(m) \/ AuditEnds(m) \/ Evict(m)
    \/ HandleOtherEvent
    \/ StartExecution
    \/ \E t \in Tasks : ResumeExecution(t) \/ CancelExecution(t)
    \/ InitiateShutdown \/ CleanUp \/ Exit
    \/ Environment

Next == Step /\ UNCHANGED mode

\* The loop runs the tasks that are ready, and every await of an execution, of
\* an audit and of the shutdown ends.  Events and evictions need not come.
Fairness ==
    /\ WF_vars(StartExecution /\ UNCHANGED mode)
    /\ \A t \in Tasks : /\ WF_vars(ResumeExecution(t) /\ UNCHANGED mode)
                        /\ WF_vars(CancelExecution(t) /\ UNCHANGED mode)
    /\ \A m \in Mints : WF_vars(AuditEnds(m) /\ UNCHANGED mode)
    /\ WF_vars((CleanUp \/ Exit) /\ UNCHANGED mode)

Spec == Init /\ [][Next]_vars
FairSpec == Spec /\ Fairness

-----------------------------------------------------------------------------
(* Properties                                                              *)

Verdicts == {"ALLOW", "DENY", "PENDING"}

\* Types of the variables of the orchestrator.
TypeOK ==
    /\ Exec!TypeOK
    /\ pending \in Mints \cup {NoMint}
    /\ stored \in SUBSET Mints
    /\ in_position \in [Mints -> BOOLEAN]
    /\ audit_status \in [Mints -> Verdicts]
    /\ audit_cache \in [Mints -> Verdicts \cup {"none"}]
    /\ audits \in [Mints -> Nat]
    /\ forgotten \in SUBSET Mints
    /\ revoked \in [Mints -> BOOLEAN]
    /\ shutdown \in {"no", "cancelling", "closing"}

\* The verdict the signal reads from a stored state is the auditor's latest:
\* handler, background audit and eviction never leave the two apart.
VerdictCoherent == \A m \in stored : audit_status[m] = audit_cache[m]

\* A mint whose verdict is pending has an audit under way that will settle it:
\* none is left pending with nobody working on it.
PendingHasAudit == \A m \in Mints : audit_cache[m] = "PENDING" => audits[m] > 0

\* Once a mint is allowed or denied no further audit of it is begun, and only
\* one that was under way by then can overturn the verdict an execution relies
\* on: neither the next event nor the return of an evicted mint can.
VerdictFinal ==
    [][ \A m \in Mints : audit_cache[m] \in {"ALLOW", "DENY"} =>
          /\ audits'[m] <= audits[m]
          /\ audits'[m] = audits[m] => audit_cache'[m] = audit_cache[m] ]_vars

\* From its first step to its last an execution's mint is stored and marked in
\* position, so that no event can signal a second entry meanwhile.
InPositionWhileExecuting ==
    \A t \in Exec!InFlight : mint[t] \in stored /\ in_position[mint[t]]

\* The executor's double-send guard is never what stops an execution of the
\* pipeline: one is created only for a mint that is flat and not executing.
CreatedOnlyWhenFlat ==
    pending # NoMint => ~in_position[pending] /\ pending \notin active_executions

\* A mint that was bought is bought again only if the store forgot, while the
\* position was open, that it is in position: nothing else in the pipeline, a
\* second event, a failed or cancelled execution of the mint or an audit, makes
\* it flat again (token_store.py:80).
RebuyNeedsEviction ==
    \A s, t \in Tasks :
        /\ s # t /\ mint[s] = mint[t]
        /\ result[s] = "landed"
        /\ t \in Exec!InFlight \/ result[t] = "landed"
        => mint[s] \in forgotten

Executions(m) == {t \in Exec!InFlight : mint[t] = m}

\* Each mint's position goes through the life PositionLife describes.
Life == INSTANCE PositionLife WITH
    position <- [m \in Mints |->
        IF Executions(m) # {}
        THEN IF Cardinality(Executions(m)) = 1 THEN "buying" ELSE "twice"
        ELSE IF in_position[m] THEN "held" ELSE "flat"]
FollowsPositionLife == Life!Spec

\* Every execution that was created ends or is dropped by the exit.
ExecutionsEnd ==
    /\ \A t \in Tasks : (t \in Exec!InFlight) ~> (t \notin Exec!InFlight)
    /\ (pending # NoMint) ~> (pending = NoMint)

\* A pending verdict becomes ALLOW or DENY unless the process exits first.
AuditsSettle ==
    \A m \in Mints : (audit_cache[m] = "PENDING")
        ~> (audit_cache[m] \in {"ALLOW", "DENY"} \/ exiting)

\* Once begun the shutdown ends with no execution left.
ShutdownCompletes == (shutdown # "no") ~> [](exiting /\ Exec!InFlight = {})

\* executor.py:23 says the executor "Prevents double-sends", executor.py:32
\* that active_executions is there "to prevent double buying": a mint whose
\* bundle was given up as failed or timed out is not bought by it and again by
\* another one.
NoDoubleBuy ==
    \A s, t \in Tasks :
        /\ result[s] \in {"failed", "timeout"} /\ bundle[s] = "landed"
        /\ mint[s] = mint[t] /\ bundle[t] = "landed"
        => s = t

\* README.md:55 says the guards measure "open position counts" "to instantly
\* toggle off trading if thresholds are crossed": no more mints are in position
\* than may be open.
PositionsWithinLimit ==
    Cardinality({m \in Mints : in_position[m]}) <= MaxOpenPositions

\* audit.py:40 denies in memory "if we parsed creation transaction and
\* authorities are NOT revoked": a mint that has no background audit yet is
\* denied only if its authorities are not revoked.
RevokedNotDenied ==
    [][ \A m \in Mints :
          audit_cache[m] = "none" /\ revoked[m] => audit_cache'[m] # "DENY" ]_vars

\* lifecycle.py:23 says execution workers are cancelled first "to stop new
\* submissions".
NoSubmissionInShutdown ==
    [][ \A t \in Tasks :
          shutdown # "no" => ~(at[t] # "send" /\ at'[t] = "send") ]_vars

=============================================================================
