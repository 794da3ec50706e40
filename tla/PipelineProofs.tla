--------------------------- MODULE PipelineProofs ---------------------------
(***************************************************************************)
(* Proofs about Pipeline, for any number of executions, mints and audits,  *)
(* every mode and every setting of the checks.  The pipeline's steps are   *)
(* steps of the executor, so what ExecutorProofs shows of the executor     *)
(* holds in it and is what the proofs about the positions rest on.         *)
(***************************************************************************)
EXTENDS Pipeline, FiniteSetTheorems, TLAPS

EP == INSTANCE ExecutorProofs

-----------------------------------------------------------------------------
(* The executor of Pipeline is the one of ExecutorProofs                   *)

\* What EP's facts assume of the constants.
LEMMA ExecutorConstants ==
    /\ MaxFailures \in Nat \ {0} /\ MaxOpenPositions \in Nat
    /\ Modes \subseteq {"paper", "shadow", "live"}
    /\ NoMint \notin Mints /\ EP!IsFiniteSet(Mints)
  BY ExecutorAssumption DEF IsFiniteSet, EP!IsFiniteSet

\* Both names stand for the same state functions.
ExecutorsAgree ==
    /\ Exec!Init <=> EP!Init
    /\ Exec!TypeOK <=> EP!TypeOK
    /\ Exec!InFlight = EP!InFlight
    /\ Exec!vars = EP!vars

\* Each pair unfolds to one and the same formula.
LEMMA SameStates == ExecutorsAgree
<1>1. Exec!Init <=> EP!Init
  BY DEF Exec!Init, EP!Init, Exec!GuardsInit, EP!GuardsInit
<1>2. Exec!TypeOK <=> EP!TypeOK
  BY DEF Exec!TypeOK, EP!TypeOK, Exec!GuardsTypeOK, EP!GuardsTypeOK,
         Exec!Waits, EP!Waits
<1>3. Exec!InFlight = EP!InFlight
  BY DEF Exec!InFlight, EP!InFlight, Exec!Waits, EP!Waits
<1>4. Exec!vars = EP!vars
  BY DEF Exec!vars, EP!vars, Exec!guardVars, EP!guardVars,
         Exec!execVars, EP!execVars
<1> QED BY <1>1, <1>2, <1>3, <1>4 DEF ExecutorsAgree

\* And in the state after a step.
LEMMA SameStatesNext == ExecutorsAgree'
  BY SameStates, PTL

\* And for the same number.
LEMMA SameCardinality ==
  ASSUME NEW S
  PROVE  Exec!Cardinality(S) = EP!Cardinality(S)
  BY DEF Exec!Cardinality, EP!Cardinality

\* Both names stand for the same call of execute().
LEMMA SameCall ==
  ASSUME NEW t, NEW m
  PROVE  Exec!Execute(t, m) <=> EP!Execute(t, m)
  BY DEF Exec!Execute, EP!Execute, Exec!TurnedAway, EP!TurnedAway,
         Exec!Goes, EP!Goes, Exec!Admit, EP!Admit,
         Exec!FirstWait, EP!FirstWait, Exec!DoubleSend, EP!DoubleSend,
         Exec!NoteStreamHealth, EP!NoteStreamHealth,
         Exec!IsTradeAllowed, EP!IsTradeAllowed, Exec!StreamDown, EP!StreamDown,
         Exec!BreakerTripped, EP!BreakerTripped,
         Exec!jito_healthy, EP!jito_healthy,
         Exec!current_open_positions, EP!current_open_positions

\* Both names stand for the same further steps of an execution.
LEMMA SameSteps ==
  ASSUME NEW t
  PROVE  /\ Exec!Resume(t) <=> EP!Resume(t)
         /\ Exec!Cancel(t) <=> EP!Cancel(t)
         /\ Exec!Settle(t) <=> EP!Settle(t)
<1> USE DEF Exec!Returns, EP!Returns, Exec!Goes, EP!Goes,
            Exec!ReportsFailure, EP!ReportsFailure,
            Exec!ReportsSuccess, EP!ReportsSuccess,
            Exec!ReportsNothing, EP!ReportsNothing, Exec!Count, EP!Count,
            Exec!ReportBundleFailure, EP!ReportBundleFailure,
            Exec!ReportBundleSuccess, EP!ReportBundleSuccess
<1>1. /\ Exec!PaperFills(t) <=> EP!PaperFills(t)
      /\ Exec!PrepareRaises(t) <=> EP!PrepareRaises(t)
      /\ Exec!Prepare(t) <=> EP!Prepare(t)
  BY DEF Exec!PaperFills, EP!PaperFills, Exec!PrepareRaises,
         EP!PrepareRaises, Exec!Prepare, EP!Prepare
<1>2. /\ Exec!SendFails(t) <=> EP!SendFails(t)
      /\ Exec!SendSucceeds(t) <=> EP!SendSucceeds(t)
      /\ Exec!TrackEnds(t) <=> EP!TrackEnds(t)
  BY DEF Exec!SendFails, EP!SendFails, Exec!SendSucceeds, EP!SendSucceeds,
         Exec!TrackEnds, EP!TrackEnds, Exec!TrackAnswers, EP!TrackAnswers,
         Exec!TrackReports, EP!TrackReports
<1>3. Exec!Resume(t) <=> EP!Resume(t)
  BY <1>1, <1>2 DEF Exec!Resume, EP!Resume
<1>4. Exec!Cancel(t) <=> EP!Cancel(t)
  BY DEF Exec!Cancel, EP!Cancel, Exec!Waits, EP!Waits
<1>5. Exec!Settle(t) <=> EP!Settle(t)
  BY DEF Exec!Settle, EP!Settle, Exec!guardVars, EP!guardVars
<1> QED BY <1>3, <1>4, <1>5

\* Hence they stand for the same next-state relation.
LEMMA SameNext == Exec!Next <=> EP!Next
<1>1. /\ Exec!Heartbeat <=> EP!Heartbeat
      /\ Exec!Ages <=> EP!Ages
      /\ Exec!Exit <=> EP!Exit
  BY DEF Exec!Heartbeat, EP!Heartbeat, Exec!Ages, EP!Ages, Exec!Exit, EP!Exit,
         Exec!UpdateStreamHeartbeat, EP!UpdateStreamHeartbeat,
         Exec!HeartbeatAges, EP!HeartbeatAges, Exec!execVars, EP!execVars,
         Exec!guardVars, EP!guardVars
<1> QED BY <1>1, SameCall, SameSteps
        DEF Exec!Next, EP!Next, Exec!Step, EP!Step

\* Every step of the pipeline is a step of the executor or leaves it alone.
LEMMA NextUsesExecutor == TypeOK /\ [Next]_vars => [Exec!Next]_(Exec!vars)
<1> SUFFICES ASSUME TypeOK, [Next]_vars PROVE [Exec!Next]_(Exec!vars)
  OBVIOUS
<1> USE DEF Exec!Next, Exec!Step
<1>1. CASE UNCHANGED <<guardVars, execVars, mode>>
  BY <1>1 DEF guardVars, execVars, Exec!vars, Exec!guardVars, Exec!execVars
<1>2. ASSUME UNCHANGED mode, NEW m \in Mints, HandleEvent(m)
      PROVE  Exec!Next
  <2>1. Exec!Heartbeat
    BY <1>2 DEF HandleEvent, UpdateStreamHeartbeat, execVars, Exec!Heartbeat,
                Exec!UpdateStreamHeartbeat, Exec!execVars
  <2> QED BY <2>1, <1>2
<1>3. CASE UNCHANGED mode /\ StartExecution
  <2>1. pending \in Mints
    BY <1>3 DEF StartExecution, TypeOK
  <2>2. \E t \in Tasks : Exec!Execute(t, pending)
    BY <1>3 DEF StartExecution, IdleTasks
  <2> QED BY <2>1, <2>2, <1>3
<1>4. ASSUME UNCHANGED mode, NEW t \in Tasks,
             ResumeExecution(t) \/ CancelExecution(t)
      PROVE  Exec!Next
  BY <1>4 DEF ResumeExecution, CancelExecution
<1>5. CASE UNCHANGED mode /\ (HandleOtherEvent \/ Exit \/ Environment)
  BY <1>5 DEF HandleOtherEvent, Exit, Environment
<1>6. ASSUME UNCHANGED mode,
             \/ \E m \in Mints : AuditEnds(m) \/ Evict(m)
             \/ InitiateShutdown \/ CleanUp
      PROVE  UNCHANGED <<guardVars, execVars, mode>>
  BY <1>6 DEF AuditEnds, Evict, InitiateShutdown, CleanUp
<1>7. UNCHANGED vars => UNCHANGED <<guardVars, execVars, mode>>
  BY DEF vars
<1> QED BY <1>1, <1>2, <1>3, <1>4, <1>5, <1>6, <1>7 DEF Next, Step

-----------------------------------------------------------------------------
(* Types                                                                   *)

\* Init has the types and nothing in flight.
LEMMA InitTyped == Init => TypeOK /\ EP!Exclusive
<1> SUFFICES ASSUME Init PROVE TypeOK /\ EP!Exclusive
  OBVIOUS
<1>1. EP!Init
  BY SameStates DEF Init, ExecutorsAgree
<1>2. EP!TypeOK
  BY <1>1, ExecutorConstants
     DEF EP!Init, EP!GuardsInit, EP!TypeOK, EP!GuardsTypeOK
<1>3. EP!InFlight = {} /\ active_executions = {}
  BY <1>1 DEF EP!Init, EP!InFlight, EP!Waits
<1>4. TypeOK
  BY <1>2, SameStates DEF ExecutorsAgree, Init, TypeOK, Verdicts
<1> QED BY <1>2, <1>3, <1>4
        DEF EP!Exclusive, EP!ActiveAreInFlight, EP!OneExecutionPerMint

\* The executor's variables keep their types, its set stays exact and no mint
\* is executed twice.
LEMMA NextExclusive == TypeOK /\ EP!Exclusive /\ [Next]_vars => EP!Exclusive'
<1> SUFFICES ASSUME TypeOK, EP!Exclusive, [Next]_vars PROVE EP!Exclusive'
  OBVIOUS
<1>1. [EP!Next]_(EP!vars)
  BY NextUsesExecutor, SameNext, SameStates, SameStatesNext DEF ExecutorsAgree
<1> QED BY <1>1, ExecutorConstants, EP!NextTyped, EP!NextIsFlightStep,
           EP!FlightStepKeepsExclusive DEF EP!Exclusive

\* The verdicts the auditor gives: in memory, and at the end of an audit.
LEMMA VerdictTypes ==
  ASSUME TypeOK, NEW m \in Mints
  PROVE  AuditInMemory(m) \in Verdicts /\ AuditVerdicts(m) \subseteq {"ALLOW", "DENY"}
<1>1. AuditInMemory(m) \in Verdicts
  BY DEF TypeOK, AuditInMemory, Verdicts
<1>2. AuditVerdicts(m) \subseteq {"ALLOW", "DENY"}
  BY DEF AuditVerdicts
<1> QED BY <1>1, <1>2

\* The variables of the pipeline keep their types.
LEMMA NextTyped == TypeOK /\ EP!Exclusive /\ [Next]_vars => TypeOK'
<1> SUFFICES ASSUME TypeOK, EP!Exclusive, [Next]_vars PROVE TypeOK'
  OBVIOUS
<1>1. Exec!TypeOK'
  BY NextExclusive, SameStatesNext DEF ExecutorsAgree, EP!Exclusive
<1> DEFINE Rest == /\ pending \in Mints \cup {NoMint}
                   /\ stored \in SUBSET Mints
                   /\ in_position \in [Mints -> BOOLEAN]
                   /\ audit_status \in [Mints -> Verdicts]
                   /\ audit_cache \in [Mints -> Verdicts \cup {"none"}]
                   /\ audits \in [Mints -> Nat]
                   /\ forgotten \in SUBSET Mints
                   /\ revoked \in [Mints -> BOOLEAN]
                   /\ shutdown \in {"no", "cancelling", "closing"}
<1>2. Rest
  BY DEF TypeOK
<1>3. ASSUME NEW m \in Mints, HandleEvent(m) PROVE Rest'
  <2> DEFINE verdict == AuditInMemory(m)
  <2>1. verdict \in Verdicts
    BY VerdictTypes
  <2>2. /\ audit_cache' = [audit_cache EXCEPT ![m] = verdict]
        /\ audit_status' = [audit_status EXCEPT ![m] = verdict]
        /\ audits' = [audits EXCEPT ![m] = @ + 1] \/ audits' = audits
        /\ pending' \in {m, pending}
        /\ stored' = stored \cup {m}
        /\ UNCHANGED <<in_position, forgotten, revoked, shutdown>>
    BY <1>3 DEF HandleEvent
  <2> HIDE DEF verdict
  <2> QED BY <1>2, <2>1, <2>2
<1>4. ASSUME NEW m \in Mints, AuditEnds(m) PROVE Rest'
  <2>1. PICK verdict \in AuditVerdicts(m) :
          /\ audit_cache' = [audit_cache EXCEPT ![m] = verdict]
          /\ StoreVerdict(m, verdict)
    BY <1>4 DEF AuditEnds
  <2>2. verdict \in Verdicts
    BY <2>1, VerdictTypes DEF Verdicts
  <2>3. audit_status' \in [Mints -> Verdicts]
    BY <1>2, <2>1, <2>2 DEF StoreVerdict
  <2>4. audits' \in [Mints -> Nat]
    BY <1>2, <1>4 DEF AuditEnds
  <2> QED BY <1>2, <1>4, <2>1, <2>2, <2>3, <2>4 DEF AuditEnds
<1>5. ASSUME NEW t, NEW m, PositionAfter(t, m), UNCHANGED orchestratorRest,
             pending' \in {NoMint, pending}
      PROVE  Rest'
  BY <1>2, <1>5 DEF PositionAfter, orchestratorRest, auditVars
<1>6. StartExecution => Rest'
  BY <1>5 DEF StartExecution, DispatchExecution
<1>7. ASSUME NEW t \in Tasks, ResumeExecution(t) \/ CancelExecution(t)
      PROVE  Rest'
  BY <1>5, <1>7 DEF ResumeExecution, CancelExecution, DispatchExecution
<1>8. ASSUME NEW m \in Mints, Evict(m) PROVE Rest'
  BY <1>2, <1>8 DEF Evict, auditVars, Verdicts
<1>9. ASSUME \/ HandleOtherEvent \/ InitiateShutdown \/ CleanUp \/ Exit
             \/ Environment \/ UNCHANGED vars
      PROVE  Rest'
  BY <1>2, <1>9 DEF HandleOtherEvent, InitiateShutdown, CleanUp, Exit,
                    Environment, vars, others, auditVars
<1>10. Rest'
  BY <1>3, <1>4, <1>6, <1>7, <1>8, <1>9 DEF Next, Step
<1> QED BY <1>1, <1>10 DEF TypeOK

\* In every reachable state: the types, and the executor's exclusion.
LEMMA AlwaysExclusive == Spec => [](TypeOK /\ EP!Exclusive)
  BY InitTyped, NextTyped, NextExclusive, PTL DEF Spec

\* The variables of the orchestrator, the store and the auditor keep their
\* types.
THEOREM TypeCorrect == Spec => []TypeOK
  BY AlwaysExclusive, PTL

\* The actions of the pipeline contain those of the executor, so its behaviours
\* are behaviours of the executor; this only carries the facts about it over.
LEMMA BehavesAsExecutor == Spec => Exec!Spec
  BY TypeCorrect, NextUsesExecutor, PTL DEF Spec, Exec!Spec, Init

\* What ExecutorProofs shows is about the same executor.
LEMMA PipelineIsExecutor == Spec => EP!Spec
<1>1. EP!Init <=> Exec!Init
  BY SameStates DEF ExecutorsAgree
<1>2. [Exec!Next]_(Exec!vars) => [EP!Next]_(EP!vars)
  BY SameNext, SameStates, SameStatesNext DEF ExecutorsAgree
<1> QED BY <1>1, <1>2, BehavesAsExecutor, PTL DEF EP!Spec, Exec!Spec

\* So neither the double-send set nor the circuit breaker can be upset by what
\* the pipeline around the executor does, an exit in the middle included.
THEOREM ExecutorPromisesKept ==
  Spec => [](/\ Exec!ActiveAreInFlight
             /\ Exec!OneExecutionPerMint
             /\ Exec!OverrunBounded
             /\ Exec!ReportedOnce)
<1>1. EP!Spec => []EP!ActiveAreInFlight
  BY ExecutorConstants, EP!DoubleSendSetExact
<1>2. EP!Spec => []EP!OneExecutionPerMint
  BY ExecutorConstants, EP!NoOverlap
<1>3. EP!Spec => []EP!OverrunBounded
  BY ExecutorConstants, EP!OverrunStaysBounded
<1>4. EP!Spec => []EP!ReportedOnce
  BY ExecutorConstants, EP!OutcomesReportedOnce
<1>5. /\ EP!ActiveAreInFlight => Exec!ActiveAreInFlight
      /\ EP!OneExecutionPerMint => Exec!OneExecutionPerMint
      /\ EP!OverrunBounded => Exec!OverrunBounded
      /\ EP!ReportedOnce => Exec!ReportedOnce
  BY SameStates, SameCardinality
     DEF ExecutorsAgree, EP!ActiveAreInFlight, Exec!ActiveAreInFlight,
     EP!OneExecutionPerMint, Exec!OneExecutionPerMint,
     EP!OverrunBounded, Exec!OverrunBounded,
     EP!ReportedOnce, Exec!ReportedOnce, EP!Waits, Exec!Waits
<1> QED BY PipelineIsExecutor, <1>1, <1>2, <1>3, <1>4, <1>5, PTL

\* Once the breaker is tripped with no execution in flight, no event, audit or
\* eviction brings it back: nothing resets it before the process ends.
THEOREM BreakerStaysTripped == Spec => Exec!BreakerLatches
<1>1. EP!Spec => EP!BreakerLatches
  BY ExecutorConstants, EP!BreakerStaysTripped
<1> DEFINE Latched == Exec!BreakerTripped /\ Exec!InFlight = {}
           Remains == EP!BreakerTripped /\ EP!InFlight = {}
<1>2. Latched <=> Remains
  BY SameStates DEF ExecutorsAgree, Exec!BreakerTripped, EP!BreakerTripped
<1>3. (Latched <=> Remains)'
  BY SameStatesNext DEF ExecutorsAgree, Exec!BreakerTripped, EP!BreakerTripped
<1>4. [EP!BreakerTripped /\ EP!InFlight = {} =>
         EP!BreakerTripped' /\ EP!InFlight' = {}]_(EP!vars)
        => [Exec!BreakerTripped /\ Exec!InFlight = {} =>
              Exec!BreakerTripped' /\ Exec!InFlight' = {}]_(Exec!vars)
  BY <1>2, <1>3, SameStates, SameStatesNext DEF ExecutorsAgree
<1> QED BY PipelineIsExecutor, <1>1, <1>4, PTL
        DEF EP!BreakerLatches, Exec!BreakerLatches

-----------------------------------------------------------------------------
(* Verdicts                                                                *)

\* When the check in memory cannot pass, every verdict is DENY at once and no
\* audit is ever begun.
DeniedAtOnce ==
    PassesInMemory \/ \A m \in Mints : /\ audits[m] = 0
                                       /\ audit_cache[m] \in {"none", "DENY"}

Audited == TypeOK /\ VerdictCoherent /\ PendingHasAudit /\ DeniedAtOnce

\* What a step does to the verdict of a mint, as the auditor keeps it, as the
\* stored state has it, and to the number of audits of the mint: nothing but to
\* forget the stored state; a verdict in memory, with an audit if it is pending;
\* or the end of an audit.
LeavesVerdict(m) ==
    /\ UNCHANGED <<audit_cache[m], audits[m]>>
    /\ m \in stored' => m \in stored /\ audit_status'[m] = audit_status[m]
JudgesInMemory(m) ==
    /\ audit_cache'[m] = AuditInMemory(m) /\ audit_status'[m] = AuditInMemory(m)
    /\ audits'[m] = IF AuditInMemory(m) = "PENDING" THEN audits[m] + 1
                                                    ELSE audits[m]
SettlesVerdict(m) ==
    /\ audits[m] > 0 /\ audits'[m] = audits[m] - 1
    /\ audit_cache'[m] \in {"ALLOW", "DENY"}
    /\ m \in stored' => audit_status'[m] = audit_cache'[m]
VerdictStep ==
    \A m \in Mints : LeavesVerdict(m) \/ JudgesInMemory(m) \/ SettlesVerdict(m)

\* Every step of the pipeline is one of those for each mint.
LEMMA NextIsVerdictStep == TypeOK /\ [Next]_vars => VerdictStep
<1> SUFFICES ASSUME TypeOK, [Next]_vars, NEW k \in Mints
             PROVE  LeavesVerdict(k) \/ JudgesInMemory(k) \/ SettlesVerdict(k)
  BY DEF VerdictStep
<1> USE DEF LeavesVerdict, JudgesInMemory, SettlesVerdict
<1>0. /\ stored \in SUBSET Mints
      /\ audit_status \in [Mints -> Verdicts]
      /\ audit_cache \in [Mints -> Verdicts \cup {"none"}]
      /\ audits \in [Mints -> Nat]
  BY DEF TypeOK
<1>1. ASSUME NEW m \in Mints, HandleEvent(m)
      PROVE  LeavesVerdict(k) \/ JudgesInMemory(k)
  <2>1. /\ audit_cache' = [audit_cache EXCEPT ![m] = AuditInMemory(m)]
        /\ audit_status' = [audit_status EXCEPT ![m] = AuditInMemory(m)]
        /\ \/ /\ AuditInMemory(m) = "PENDING"
              /\ audits' = [audits EXCEPT ![m] = @ + 1]
           \/ AuditInMemory(m) # "PENDING" /\ UNCHANGED audits
        /\ stored' = stored \cup {m}
    BY <1>1 DEF HandleEvent, SpawnsAudit
  <2>2. CASE k = m
    BY <1>0, <2>1, <2>2
  <2>3. CASE k # m
    BY <1>0, <2>1, <2>3
  <2> QED BY <2>2, <2>3
<1>2. ASSUME NEW m \in Mints, AuditEnds(m)
      PROVE  LeavesVerdict(k) \/ SettlesVerdict(k)
  <2>1. PICK verdict \in AuditVerdicts(m) :
          /\ audit_cache' = [audit_cache EXCEPT ![m] = verdict]
          /\ StoreVerdict(m, verdict)
    BY <1>2 DEF AuditEnds
  <2>2. verdict \in {"ALLOW", "DENY"}
    BY <2>1, VerdictTypes
  <2>3. /\ audits[m] > 0 /\ audits' = [audits EXCEPT ![m] = @ - 1]
        /\ UNCHANGED stored
    BY <1>2 DEF AuditEnds
  <2>4. audit_status' = [audit_status EXCEPT ![m] =
                            IF m \in stored THEN verdict ELSE @]
    BY <2>1 DEF StoreVerdict
  <2>5. CASE k = m
    BY <1>0, <2>1, <2>2, <2>3, <2>4, <2>5
  <2>6. CASE k # m
    BY <1>0, <2>1, <2>3, <2>4, <2>6
  <2> QED BY <2>5, <2>6
<1>3. ASSUME NEW m \in Mints, Evict(m) PROVE LeavesVerdict(k)
  BY <1>0, <1>3 DEF Evict, auditVars
<1>4. UNCHANGED <<stored, audit_status, auditVars>> => LeavesVerdict(k)
  BY DEF auditVars
<1>5. ASSUME \/ HandleOtherEvent \/ StartExecution
             \/ \E t \in Tasks : ResumeExecution(t) \/ CancelExecution(t)
             \/ InitiateShutdown \/ CleanUp \/ Exit \/ Environment
             \/ UNCHANGED vars
      PROVE  UNCHANGED <<stored, audit_status, auditVars>>
  BY <1>5 DEF HandleOtherEvent, StartExecution, ResumeExecution,
              CancelExecution, DispatchExecution, orchestratorRest,
              InitiateShutdown, CleanUp, Exit, Environment, others, vars
<1> QED BY <1>1, <1>2, <1>3, <1>4, <1>5 DEF Next, Step

\* A step of those kinds keeps the verdicts coherent and the pending audited.
LEMMA VerdictStepKeepsAudited ==
  Audited /\ TypeOK' /\ VerdictStep
    => (VerdictCoherent /\ PendingHasAudit /\ DeniedAtOnce)'
<1> SUFFICES ASSUME Audited, TypeOK', VerdictStep
             PROVE  (VerdictCoherent /\ PendingHasAudit /\ DeniedAtOnce)'
  OBVIOUS
<1> USE DEF LeavesVerdict, JudgesInMemory, SettlesVerdict
<1>1. \A m \in Mints : audits[m] \in Nat
  BY DEF Audited, TypeOK
<1>2. VerdictCoherent'
  <2> SUFFICES ASSUME NEW m \in stored' PROVE audit_status'[m] = audit_cache'[m]
    BY DEF VerdictCoherent
  <2>1. m \in Mints
    BY DEF TypeOK
  <2> QED BY <2>1 DEF Audited, VerdictCoherent, VerdictStep
<1>3. PendingHasAudit'
  <2> SUFFICES ASSUME NEW m \in Mints, audit_cache'[m] = "PENDING"
               PROVE  audits'[m] > 0
    BY DEF PendingHasAudit
  <2> QED BY <1>1 DEF Audited, PendingHasAudit, VerdictStep
<1>4. DeniedAtOnce'
  <2> SUFFICES ASSUME ~PassesInMemory, NEW m \in Mints
               PROVE  audits'[m] = 0 /\ audit_cache'[m] \in {"none", "DENY"}
    BY DEF DeniedAtOnce, PassesInMemory
  <2>1. AuditInMemory(m) = "DENY"
    BY DEF AuditInMemory
  <2> QED BY <2>1 DEF Audited, DeniedAtOnce, VerdictStep
<1> QED BY <1>2, <1>3, <1>4

\* In every reachable state.
LEMMA AlwaysAudited == Spec => []Audited
<1>1. Init => Audited
  BY InitTyped DEF Init, Audited, VerdictCoherent, PendingHasAudit, DeniedAtOnce
<1>2. Audited /\ TypeOK' /\ [Next]_vars => Audited'
  BY NextIsVerdictStep, VerdictStepKeepsAudited DEF Audited
<1> QED BY <1>1, <1>2, TypeCorrect, PTL DEF Spec

\* The verdict the entry signal reads from a stored state is the auditor's
\* latest, with any number of audits of a mint under way and whenever the store
\* forgets the mint and meets it again.
THEOREM VerdictsCoherent == Spec => []VerdictCoherent
  BY AlwaysAudited, PTL DEF Audited

\* No verdict is pending without an audit that will settle it.
THEOREM PendingIsAudited == Spec => []PendingHasAudit
  BY AlwaysAudited, PTL DEF Audited

\* Only an audit that was under way can overturn a verdict, and no further one
\* is begun.
THEOREM VerdictsFinal == Spec => VerdictFinal
<1> DEFINE Final == \A m \in Mints : audit_cache[m] \in {"ALLOW", "DENY"} =>
          /\ audits'[m] <= audits[m]
          /\ audits'[m] = audits[m] => audit_cache'[m] = audit_cache[m]
<1>1. Audited /\ [Next]_vars => Final
  <2> SUFFICES ASSUME Audited, VerdictStep, NEW m \in Mints,
                      audit_cache[m] \in {"ALLOW", "DENY"}
               PROVE  /\ audits'[m] <= audits[m]
                      /\ audits'[m] = audits[m]
                            => audit_cache'[m] = audit_cache[m]
    BY NextIsVerdictStep DEF Audited
  <2>1. audits[m] \in Nat
    BY DEF Audited, TypeOK
  <2>2. AuditInMemory(m) = audit_cache[m]
    BY DEF AuditInMemory, Audited, DeniedAtOnce
  <2> QED BY <2>1, <2>2 DEF VerdictStep, LeavesVerdict, JudgesInMemory,
                             SettlesVerdict
<1> QED BY <1>1, AlwaysAudited, PTL DEF Spec, VerdictFinal

-----------------------------------------------------------------------------
(* Positions                                                               *)

\* A mint whose execution was created is stored, flat and not executing, and
\* one that is executing is stored and in position: this is what makes each
\* of the two invariants follow from the other after a step.
Entered ==
    /\ TypeOK /\ EP!Exclusive
    /\ InPositionWhileExecuting
    /\ CreatedOnlyWhenFlat
    /\ pending # NoMint => pending \in stored

\* What a step does to the positions: nothing, when at most a mint is added to
\* the store or the execution that was created is dropped; an event signals an
\* entry; the execution begins; one ends; or the store forgets a mint.
Keeps ==
    /\ EP!SamePlaces /\ UNCHANGED in_position
    /\ stored \subseteq stored' /\ pending' \in {pending, NoMint}
Signals(m) ==
    /\ EP!SamePlaces /\ UNCHANGED in_position /\ ~in_position[m]
    /\ stored \subseteq stored' /\ m \in stored'
    /\ pending = NoMint /\ pending' = m
Begins(t) ==
    /\ pending # NoMint /\ pending' = NoMint
    /\ EP!Joins(t, pending)
    /\ in_position' = [in_position EXCEPT ![pending] = TRUE]
    /\ UNCHANGED stored
Ends(t) ==
    /\ EP!Leaves(t)
    /\ \E held \in BOOLEAN :
          in_position' = [in_position EXCEPT ![mint[t]] = held]
    /\ UNCHANGED <<pending, stored>>
Forgets(m) ==
    /\ ~Busy(m) /\ EP!SamePlaces
    /\ in_position' = [in_position EXCEPT ![m] = FALSE]
    /\ stored' = stored \ {m} /\ UNCHANGED pending
EntryStep ==
    \/ Keeps
    \/ \E m \in Mints : Signals(m) \/ Forgets(m)
    \/ \E t \in Tasks : Begins(t) \/ Ends(t)

\* A step that leaves the executions alone leaves their places alone.
LEMMA IdleExecutor == UNCHANGED <<at, mint, active_executions>> => EP!SamePlaces
  BY DEF EP!SamePlaces, EP!InFlight

\* An event signals an entry or nothing.
LEMMA HandlerEntryStep ==
  ASSUME TypeOK, NEW m \in Mints, HandleEvent(m)
  PROVE  EntryStep
<1>1. EP!SamePlaces /\ UNCHANGED in_position
  BY IdleExecutor DEF HandleEvent, execVars
<1>2. stored' = stored \cup {m} /\ pending = NoMint
  BY DEF HandleEvent, DispatcherAwake
<1>3. pending' = pending \/ (pending' = m /\ ~in_position[m])
  BY DEF HandleEvent, EntrySignal
<1> QED BY <1>1, <1>2, <1>3 DEF EntryStep, Keeps, Signals

\* The dispatched execution is admitted, and its position marked, or it is
\* turned away and the position stays flat.
LEMMA StartEntryStep ==
  ASSUME Entered, StartExecution
  PROVE  EntryStep
<1>1. /\ pending # NoMint /\ pending' = NoMint /\ UNCHANGED stored
      /\ pending \in Mints /\ in_position \in [Mints -> BOOLEAN]
      /\ in_position[pending] = FALSE
  BY DEF StartExecution, DispatchExecution, orchestratorRest, Entered, TypeOK,
         CreatedOnlyWhenFlat
<1>2. PICK t \in Tasks : Exec!Execute(t, pending) /\ PositionAfter(t, pending)
  BY DEF StartExecution, DispatchExecution, IdleTasks
<1>3. \/ EP!SamePlaces /\ at'[t] = "done" /\ result'[t] = "refused"
      \/ EP!Joins(t, pending) /\ at'[t] # "done"
  BY <1>1, <1>2, SameCall, ExecutorConstants, EP!ExecuteFlight DEF Entered
<1>4. CASE EP!SamePlaces /\ at'[t] = "done" /\ result'[t] = "refused"
  <2>1. in_position' = [in_position EXCEPT ![pending] = FALSE]
    BY <1>2, <1>4 DEF PositionAfter
  <2>2. in_position' = in_position
    BY <1>1, <2>1
  <2> QED BY <1>1, <1>4, <2>2 DEF EntryStep, Keeps
<1>5. CASE EP!Joins(t, pending) /\ at'[t] # "done"
  <2>1. in_position' = [in_position EXCEPT ![pending] = TRUE]
    BY <1>2, <1>5 DEF PositionAfter
  <2> QED BY <1>1, <1>5, <2>1 DEF EntryStep, Begins
<1> QED BY <1>3, <1>4, <1>5

\* An execution goes on in position, or it ends one way or the other.
LEMMA ResumeEntryStep ==
  ASSUME Entered, NEW t \in Tasks, ResumeExecution(t) \/ CancelExecution(t)
  PROVE  EntryStep
<1>1. UNCHANGED <<pending, stored>> /\ PositionAfter(t, mint[t])
  BY DEF ResumeExecution, CancelExecution, DispatchExecution, orchestratorRest
<1>2. \/ EP!SamePlaces /\ t \in EP!InFlight /\ at'[t] # "done"
      \/ EP!Leaves(t)
  BY SameSteps, ExecutorConstants, EP!ResumeFlight, EP!CancelFlight
     DEF Entered, ResumeExecution, CancelExecution
<1>3. CASE EP!Leaves(t)
  BY <1>1, <1>3 DEF PositionAfter, EntryStep, Ends
<1>4. CASE EP!SamePlaces /\ t \in EP!InFlight /\ at'[t] # "done"
  <2>1. in_position[mint[t]] = TRUE /\ in_position \in [Mints -> BOOLEAN]
    BY <1>4, SameStates
       DEF ExecutorsAgree, Entered, TypeOK, InPositionWhileExecuting
  <2>2. in_position' = [in_position EXCEPT ![mint[t]] = TRUE]
    BY <1>1, <1>4 DEF PositionAfter
  <2> QED BY <1>1, <1>4, <2>1, <2>2 DEF EntryStep, Keeps
<1> QED BY <1>2, <1>3, <1>4

\* Every step of the pipeline is one of the five kinds.
LEMMA NextIsEntryStep == Entered /\ [Next]_vars => EntryStep
<1> SUFFICES ASSUME Entered, [Next]_vars PROVE EntryStep
  OBVIOUS
<1>1. ASSUME NEW m \in Mints, HandleEvent(m) PROVE EntryStep
  BY <1>1, HandlerEntryStep DEF Entered
<1>2. CASE StartExecution
  BY <1>2, StartEntryStep
<1>3. ASSUME NEW t \in Tasks, ResumeExecution(t) \/ CancelExecution(t)
      PROVE  EntryStep
  BY <1>3, ResumeEntryStep
<1>4. ASSUME NEW m \in Mints, Evict(m) PROVE EntryStep
  BY <1>4, IdleExecutor DEF Evict, execVars, EntryStep, Forgets
<1>5. ASSUME UNCHANGED <<at, mint, active_executions, in_position, stored>>,
             pending' \in {pending, NoMint}
      PROVE  EntryStep
  BY <1>5, IdleExecutor DEF EntryStep, Keeps
<1>6. ASSUME NEW m \in Mints, AuditEnds(m) PROVE EntryStep
  BY <1>5, <1>6 DEF AuditEnds, execVars
<1>7. HandleOtherEvent \/ Environment => EntryStep
  BY <1>5 DEF HandleOtherEvent, Environment, others, Exec!Heartbeat,
              Exec!Ages, Exec!Settle, Exec!execVars
<1>8. InitiateShutdown \/ CleanUp \/ Exit \/ UNCHANGED vars => EntryStep
  BY <1>5 DEF InitiateShutdown, CleanUp, Exit, others, vars, execVars, Exec!Exit
<1> QED BY <1>1, <1>2, <1>3, <1>4, <1>6, <1>7, <1>8 DEF Next, Step

\* Those five kinds of step keep a mint that executes stored and in position,
\* and one whose execution was created flat.
LEMMA EntryStepKeepsEntered ==
  Entered /\ TypeOK' /\ EP!Exclusive' /\ EntryStep => Entered'
<1> SUFFICES ASSUME Entered, TypeOK', EP!Exclusive', EntryStep
             PROVE  Entered'
  OBVIOUS
<1> DEFINE Position == \A t \in EP!InFlight : /\ mint[t] \in stored
                                              /\ in_position[mint[t]]
           Created == pending # NoMint => /\ ~in_position[pending]
                                          /\ pending \notin active_executions
                                          /\ pending \in stored
<1>1. /\ Position /\ Created
      /\ in_position \in [Mints -> BOOLEAN] /\ stored \in SUBSET Mints
      /\ pending \in Mints \cup {NoMint} /\ NoMint \notin Mints
      /\ mint \in [Tasks -> Mints \cup {NoMint}] /\ EP!InFlight \subseteq Tasks
      /\ active_executions = {mint[t] : t \in EP!InFlight}
      /\ \A s, t \in EP!InFlight : mint[s] = mint[t] => s = t
  <2>1. Position /\ Created
    BY SameStates DEF ExecutorsAgree, Entered, InPositionWhileExecuting,
                      CreatedOnlyWhenFlat
  <2>2. mint \in [Tasks -> Mints \cup {NoMint}] /\ EP!InFlight \subseteq Tasks
    BY DEF Entered, EP!Exclusive, EP!TypeOK, EP!InFlight
  <2> QED BY <2>1, <2>2, ExecutorConstants
          DEF Entered, TypeOK, EP!Exclusive, EP!ActiveAreInFlight,
              EP!OneExecutionPerMint
<1>2. Keeps => (Position /\ Created)'
  BY <1>1 DEF Keeps, EP!SamePlaces
<1>3. ASSUME NEW m \in Mints, Signals(m) PROVE (Position /\ Created)'
  <2>1. m \notin active_executions
    BY <1>1, <1>3 DEF Signals
  <2> QED BY <1>1, <1>3, <2>1 DEF Signals, EP!SamePlaces
<1>4. ASSUME NEW m \in Mints, Forgets(m) PROVE (Position /\ Created)'
  <2>1. pending # m /\ \A t \in EP!InFlight : mint[t] # m
    BY <1>4, SameStates DEF ExecutorsAgree, Forgets, Busy
  <2> QED BY <1>1, <1>4, <2>1 DEF Forgets, EP!SamePlaces
<1>5. ASSUME NEW t \in Tasks, Begins(t) PROVE (Position /\ Created)'
  <2>1. /\ pending \in Mints /\ pending \in stored /\ mint'[t] = pending
        /\ \A s \in EP!InFlight : mint'[s] = mint[s] /\ mint[s] # pending
    BY <1>1, <1>5 DEF Begins, EP!Joins
  <2>2. EP!InFlight' = EP!InFlight \cup {t} /\ in_position'[pending]
        /\ stored' = stored
    BY <1>1, <1>5, <2>1 DEF Begins, EP!Joins
  <2>3. \A s \in EP!InFlight : in_position'[mint[s]] = in_position[mint[s]]
    BY <1>1, <1>5, <2>1 DEF Begins
  <2>4. Position'
    BY <1>1, <2>1, <2>2, <2>3
  <2> QED BY <1>5, <2>4 DEF Begins
<1>6. ASSUME NEW t \in Tasks, Ends(t) PROVE (Position /\ Created)'
  <2>1. \A s \in EP!InFlight \ {t} : mint[s] # mint[t]
    BY <1>1, <1>6 DEF Ends, EP!Leaves
  <2>2. pending # NoMint => pending # mint[t]
    BY <1>1, <1>6 DEF Ends, EP!Leaves
  <2> QED BY <1>1, <1>6, <2>1, <2>2 DEF Ends, EP!Leaves
<1>7. (Position /\ Created)'
  BY <1>2, <1>3, <1>4, <1>5, <1>6 DEF EntryStep
<1> HIDE DEF Position, Created
<1>8. Position' => InPositionWhileExecuting'
  BY SameStatesNext DEF ExecutorsAgree, Position, InPositionWhileExecuting
<1>9. Created' => CreatedOnlyWhenFlat' /\ (pending' # NoMint => pending' \in stored')
  BY DEF Created, CreatedOnlyWhenFlat
<1> QED BY <1>7, <1>8, <1>9 DEF Entered

\* In every reachable state.
LEMMA AlwaysEntered == Spec => []Entered
<1>1. Init => Entered
  <2> SUFFICES ASSUME Init PROVE Entered
    OBVIOUS
  <2>1. Exec!InFlight = {} /\ pending = NoMint
    BY DEF Init, Exec!Init, Exec!InFlight, Exec!Waits
  <2> QED BY <2>1, InitTyped
          DEF Entered, InPositionWhileExecuting, CreatedOnlyWhenFlat
<1>2. Entered /\ TypeOK' /\ EP!Exclusive' /\ [Next]_vars => Entered'
  BY NextIsEntryStep, EntryStepKeepsEntered
<1> QED BY <1>1, <1>2, AlwaysExclusive, PTL DEF Spec

\* From its first step to its last an execution's mint is in position, whatever
\* events, audits and clean-ups come between its awaits.
THEOREM PositionHeldThroughout == Spec => []InPositionWhileExecuting
  BY AlwaysEntered, PTL DEF Entered

\* An execution is created only for a mint that is flat and not executing, and
\* the mint is still so when the execution begins: the double-send guard of the
\* executor never has to turn one away.
THEOREM SignalsOnlyWhenFlat == Spec => []CreatedOnlyWhenFlat
  BY AlwaysEntered, PTL DEF Entered

-----------------------------------------------------------------------------
(* Rebuys                                                                  *)

\* A mint that was bought is in position or was forgotten: together with the
\* signal, which asks for a flat mint, this is what a rebuy has to get past.
Remembered ==
    /\ \A s \in Tasks : result[s] = "landed" =>
          /\ at[s] = "done" /\ mint[s] \in Mints
          /\ in_position[mint[s]] \/ mint[s] \in forgotten
    /\ \A s, t \in Tasks :
          /\ s # t /\ mint[s] = mint[t]
          /\ result[s] = "landed"
          /\ t \in EP!InFlight \/ result[t] = "landed"
          => mint[s] \in forgotten

\* The second part is the property.
LEMMA RememberedIs == Remembered => RebuyNeedsEviction
  BY SameStates DEF ExecutorsAgree, Remembered, RebuyNeedsEviction

\* What a step does to the results: nothing, and no position becomes flat but
\* one that is forgotten; an execution begins, or is refused, for a mint that
\* is flat; or one ends, in position if it landed.
Rests ==
    /\ UNCHANGED <<at, mint, result>>
    /\ forgotten \subseteq forgotten'
    /\ \A m \in Mints : in_position[m] => in_position'[m] \/ m \in forgotten'
GoesOn(t) ==
    /\ t \in EP!InFlight /\ EP!InFlight' = EP!InFlight
    /\ \A s \in Tasks : at[s] = "done" => at'[s] = "done"
    /\ UNCHANGED <<mint, result, forgotten>>
    /\ in_position' = [in_position EXCEPT ![mint[t]] = TRUE]
Tries(t, m) ==
    /\ at[t] = "idle" /\ EP!InFlight' \subseteq EP!InFlight \cup {t}
    /\ \A s \in Tasks : at[s] = "done" => at'[s] = "done"
    /\ mint' = [mint EXCEPT ![t] = m]
    /\ \A s \in Tasks : result'[s] = "landed" => result[s] = "landed"
    /\ ~in_position[m]
    /\ \A k \in Mints : k # m => in_position'[k] = in_position[k]
    /\ UNCHANGED forgotten
Returned(t, status) ==
    /\ t \in EP!InFlight /\ EP!InFlight' = EP!InFlight \ {t}
    /\ at' = [at EXCEPT ![t] = "done"]
    /\ result' = [result EXCEPT ![t] = status]
    /\ in_position' = [in_position EXCEPT ![mint[t]] =
                          status \in {"landed", "none"}]
    /\ UNCHANGED <<mint, forgotten>>
ResultStep ==
    \/ Rests
    \/ \E t \in Tasks : GoesOn(t) \/ (\E m \in Mints : Tries(t, m))
    \/ \E t \in Tasks : \E status : Returned(t, status)

\* The types the steps below need.
RebuyTypes ==
    /\ at \in [Tasks -> EP!Waits \cup {"idle", "done"}]
    /\ mint \in [Tasks -> Mints \cup {NoMint}]
    /\ result \in [Tasks -> {"none", "refused", "landed", "failed", "timeout"}]
    /\ in_position \in [Mints -> BOOLEAN]
    /\ EP!InFlight = {t \in Tasks : at[t] \in EP!Waits}
    /\ \A t \in EP!InFlight : mint[t] \in Mints
    /\ \A s, t \in EP!InFlight : mint[s] = mint[t] => s = t

\* They hold in every reachable state.
LEMMA EnteredTypes == Entered => RebuyTypes
<1> SUFFICES ASSUME Entered PROVE RebuyTypes
  OBVIOUS
<1>1. EP!TypeOK /\ TypeOK /\ EP!OneExecutionPerMint
  BY DEF Entered, EP!Exclusive
<1>2. \A t \in EP!InFlight : mint[t] \in Mints
  BY ExecutorConstants, EP!InFlightHaveMints DEF Entered
<1> QED BY <1>1, <1>2 DEF RebuyTypes, EP!TypeOK, TypeOK, EP!InFlight,
                          EP!OneExecutionPerMint

\* A dispatched execution is refused or begins.
LEMMA StartTries ==
  ASSUME Entered, StartExecution
  PROVE  ResultStep
<1>1. /\ pending \in Mints /\ in_position[pending] = FALSE
      /\ UNCHANGED forgotten /\ RebuyTypes
  BY EnteredTypes
     DEF StartExecution, DispatchExecution, orchestratorRest, Entered, TypeOK,
         CreatedOnlyWhenFlat
<1>2. PICK t \in Tasks : EP!Execute(t, pending) /\ PositionAfter(t, pending)
  BY SameCall DEF StartExecution, DispatchExecution, IdleTasks
<1>3. at[t] = "idle" /\ mint' = [mint EXCEPT ![t] = pending]
  BY <1>2 DEF EP!Execute
<1>4. /\ \A s \in Tasks : at[s] = "done" => at'[s] = "done"
      /\ \A s \in Tasks : result'[s] = "landed" => result[s] = "landed"
  BY <1>1, <1>2, <1>3
     DEF RebuyTypes, EP!Execute, EP!TurnedAway, EP!Admit, EP!Goes
<1>5. EP!InFlight' \subseteq EP!InFlight \cup {t}
  BY <1>1, <1>2, ExecutorConstants, EP!ExecuteFlight
     DEF Entered, EP!SamePlaces, EP!Joins
<1>6. \A k \in Mints : k # pending => in_position'[k] = in_position[k]
  BY <1>1, <1>2 DEF PositionAfter, RebuyTypes
<1>7. Tries(t, pending)
  BY <1>1, <1>3, <1>4, <1>5, <1>6 DEF Tries
<1> QED BY <1>1, <1>7 DEF ResultStep

\* An execution goes on or returns.
LEMMA ResumeReturns ==
  ASSUME Entered, NEW t \in Tasks, ResumeExecution(t) \/ CancelExecution(t)
  PROVE  ResultStep
<1>1. /\ EP!Resume(t) \/ EP!Cancel(t)
      /\ PositionAfter(t, mint[t]) /\ UNCHANGED forgotten /\ RebuyTypes
  BY SameSteps, EnteredTypes
     DEF ResumeExecution, CancelExecution, DispatchExecution, orchestratorRest
<1>2. mint' = mint
  BY <1>1 DEF EP!Resume, EP!Cancel, EP!PaperFills, EP!PrepareRaises,
     EP!Prepare, EP!SendFails, EP!SendSucceeds, EP!TrackEnds
<1>3. at[t] \in EP!Waits /\ t \in EP!InFlight
  BY <1>1 DEF EP!Resume, EP!Cancel, EP!PaperFills, EP!PrepareRaises,
     EP!Prepare, EP!SendFails, EP!SendSucceeds, EP!TrackEnds, EP!Waits,
     EP!InFlight
<1>4. \/ \E status : EP!Returns(t, status)
      \/ \E place \in EP!Waits : EP!Goes(t, place) /\ UNCHANGED result
  BY <1>1 DEF EP!Resume, EP!Cancel, EP!PaperFills, EP!PrepareRaises,
     EP!Prepare, EP!SendFails, EP!SendSucceeds, EP!TrackEnds, EP!Waits
<1>5. ASSUME NEW status, EP!Returns(t, status)
      PROVE  Returned(t, status)
  <2>1. EP!Leaves(t)
    BY <1>2, <1>3, <1>5, ExecutorConstants, EP!ReturnLeaves
       DEF Entered, EP!Exclusive
  <2>2. at'[t] = "done" /\ result'[t] = status
    BY <1>1, <1>5 DEF EP!Returns, EP!Goes, RebuyTypes
  <2>3. in_position' = [in_position EXCEPT ![mint[t]] =
                           status \in {"landed", "none"}]
    BY <1>1, <2>2 DEF PositionAfter
  <2> QED BY <1>1, <1>2, <1>3, <1>5, <2>1, <2>3
          DEF Returned, EP!Leaves, EP!Returns, EP!Goes
<1>6. ASSUME NEW place \in EP!Waits, EP!Goes(t, place), UNCHANGED result
      PROVE  GoesOn(t)
  <2>1. EP!InFlight' = EP!InFlight
    BY <1>3, <1>6, ExecutorConstants, EP!GoesOn DEF Entered, EP!Exclusive
  <2>2. at'[t] # "done" /\ \A s \in Tasks : at[s] = "done" => at'[s] = "done"
    BY <1>1, <1>3, <1>6 DEF RebuyTypes, EP!Goes, EP!Waits
  <2> QED BY <1>1, <1>2, <1>3, <1>6, <2>1, <2>2 DEF GoesOn, PositionAfter
<1> QED BY <1>4, <1>5, <1>6 DEF ResultStep

\* Every step of the pipeline is one of those.
LEMMA NextIsResultStep == Entered /\ [Next]_vars => ResultStep
<1> SUFFICES ASSUME Entered, [Next]_vars PROVE ResultStep
  OBVIOUS
<1>1. ASSUME UNCHANGED <<at, mint, result, in_position, forgotten>>
      PROVE  ResultStep
  BY <1>1 DEF ResultStep, Rests
<1>2. ASSUME NEW m \in Mints, HandleEvent(m) \/ AuditEnds(m)
      PROVE  ResultStep
  BY <1>1, <1>2 DEF HandleEvent, AuditEnds, execVars
<1>3. ASSUME NEW m \in Mints, Evict(m) PROVE ResultStep
  <2>1. /\ UNCHANGED <<at, mint, result>> /\ in_position \in [Mints -> BOOLEAN]
        /\ in_position' = [in_position EXCEPT ![m] = FALSE]
        /\ forgotten' = IF in_position[m] THEN forgotten \cup {m} ELSE forgotten
    BY <1>3 DEF Evict, execVars, Entered, TypeOK
  <2> QED BY <2>1 DEF ResultStep, Rests
<1>4. HandleOtherEvent \/ Environment => ResultStep
  BY <1>1 DEF HandleOtherEvent, Environment, others, Exec!Heartbeat,
              Exec!Ages, Exec!Settle, Exec!execVars
<1>5. InitiateShutdown \/ CleanUp \/ Exit \/ UNCHANGED vars => ResultStep
  BY <1>1 DEF InitiateShutdown, CleanUp, Exit, others, vars, execVars, Exec!Exit
<1> QED BY <1>2, <1>3, <1>4, <1>5, StartTries, ResumeReturns DEF Next, Step

\* Those steps remember what was bought.
LEMMA ResultStepRemembers ==
  RebuyTypes /\ Remembered /\ ResultStep => Remembered'
<1> SUFFICES ASSUME RebuyTypes, Remembered, ResultStep PROVE Remembered'
  OBVIOUS
<1> USE DEF RebuyTypes, Remembered
<1>1. Rests => Remembered'
  BY DEF Rests, EP!InFlight
<1>2. ASSUME NEW t \in Tasks, GoesOn(t) PROVE Remembered'
  BY <1>2 DEF GoesOn
<1>3. ASSUME NEW t \in Tasks, NEW m \in Mints, Tries(t, m) PROVE Remembered'
  <2>1. result'[t] # "landed"
    BY <1>3 DEF Tries
  <2>2. /\ \A s \in Tasks : s # t => mint'[s] = mint[s]
        /\ mint'[t] = m
    BY <1>3 DEF Tries
  <2> QED BY <1>3, <2>1, <2>2 DEF Tries
<1>4. ASSUME NEW t \in Tasks, NEW status, Returned(t, status)
      PROVE  Remembered'
  <2> DEFINE k == mint[t]
  <2>1. /\ k \in Mints /\ \A s \in EP!InFlight : s # t => mint[s] # k
        /\ at[t] # "done" /\ result[t] # "landed"
    BY <1>4 DEF Returned, EP!Waits
  <2>2. /\ \A s \in Tasks : s # t => result'[s] = result[s] /\ at'[s] = at[s]
        /\ result'[t] = status /\ at'[t] = "done"
        /\ UNCHANGED <<mint, forgotten>>
        /\ EP!InFlight' = EP!InFlight \ {t} /\ t \in EP!InFlight
    BY <1>4 DEF Returned
  <2>3. /\ in_position'[k] = (status \in {"landed", "none"})
        /\ \A m \in Mints : m # k => in_position'[m] = in_position[m]
    BY <1>4, <2>1 DEF Returned
  <2>4. ASSUME NEW s \in Tasks, result'[s] = "landed"
        PROVE  /\ at'[s] = "done" /\ mint'[s] \in Mints
               /\ in_position'[mint'[s]] \/ mint'[s] \in forgotten'
    BY <2>1, <2>2, <2>3, <2>4
  <2>5. ASSUME NEW s \in Tasks, NEW u \in Tasks, s # u, mint'[s] = mint'[u],
               result'[s] = "landed",
               u \in EP!InFlight' \/ result'[u] = "landed"
        PROVE  mint'[s] \in forgotten'
    BY <2>1, <2>2, <2>5
  <2> QED BY <2>4, <2>5
<1> QED BY <1>1, <1>2, <1>3, <1>4 DEF ResultStep

\* A mint is bought again only if the store forgot it while it was held: no
\* event, audit, refusal, failure or cancellation opens the way to a rebuy.
THEOREM RebuysWereForgotten == Spec => []RebuyNeedsEviction
<1>1. Init => Remembered
  BY DEF Init, Exec!Init, Remembered
<1>2. Entered /\ Remembered /\ [Next]_vars => Remembered'
  BY EnteredTypes, NextIsResultStep, ResultStepRemembers
<1> QED BY <1>1, <1>2, AlwaysEntered, RememberedIs, PTL DEF Spec

-----------------------------------------------------------------------------
(* The life of a position                                                  *)

\* The position of each mint, as the executor's set and the store have it.
PositionOf(m) == IF m \in active_executions THEN "buying"
                 ELSE IF in_position[m] THEN "held" ELSE "flat"
Positions == [m \in Mints |-> PositionOf(m)]

\* The refinement mapping of Life.
MappedPositions == [m \in Mints |->
    IF Executions(m) # {}
    THEN IF Cardinality(Executions(m)) = 1 THEN "buying" ELSE "twice"
    ELSE IF in_position[m] THEN "held" ELSE "flat"]

\* They are the same: a mint in the set has one execution, not two.
LEMMA MappedPositionsAre == Entered => MappedPositions = Positions
<1> SUFFICES ASSUME Entered, NEW m \in Mints
             PROVE  MappedPositions[m] = PositionOf(m)
  BY DEF MappedPositions, Positions
<1>1. /\ active_executions = {mint[t] : t \in EP!InFlight}
      /\ \A s, t \in EP!InFlight : mint[s] = mint[t] => s = t
      /\ Executions(m) = {t \in EP!InFlight : mint[t] = m}
  BY SameStates DEF ExecutorsAgree, Executions, Entered, EP!Exclusive,
                    EP!ActiveAreInFlight, EP!OneExecutionPerMint
<1>2. CASE m \in active_executions
  <2>1. PICK t \in EP!InFlight : mint[t] = m
    BY <1>1, <1>2
  <2>2. Executions(m) = {t}
    BY <1>1, <2>1
  <2>3. Cardinality(Executions(m)) = 1
    BY <2>2, FS_Singleton
  <2> QED BY <1>2, <2>2, <2>3 DEF MappedPositions, PositionOf
<1>3. CASE m \notin active_executions
  <2>1. Executions(m) = {}
    BY <1>1, <1>3
  <2> QED BY <1>3, <2>1 DEF MappedPositions, PositionOf
<1> QED BY <1>2, <1>3

\* Also after a step.
LEMMA MappedPositionsNext == Entered' => (MappedPositions = Positions)'
  BY MappedPositionsAre, PTL

\* A move of one position in its life, the others staying as they are.
Moves(m, from, to) ==
    Positions[m] = from /\ Positions' = [Positions EXCEPT ![m] = to]
LifeStep ==
    \/ UNCHANGED Positions
    \/ \E m \in Mints : \/ Moves(m, "flat", "buying")
                        \/ Moves(m, "buying", "held")
                        \/ Moves(m, "buying", "flat")
                        \/ Moves(m, "held", "flat")

\* Each of the five kinds of step is a move or moves nothing.
LEMMA EntryStepIsLifeStep == Entered /\ EntryStep => LifeStep
<1> SUFFICES ASSUME Entered, EntryStep PROVE LifeStep
  OBVIOUS
<1> USE DEF LifeStep, Moves, Positions, PositionOf
<1>1. /\ in_position \in [Mints -> BOOLEAN]
      /\ pending \in Mints \cup {NoMint}
      /\ pending # NoMint => /\ ~in_position[pending]
                             /\ pending \notin active_executions
      /\ active_executions = {mint[t] : t \in EP!InFlight}
      /\ \A t \in EP!InFlight : mint[t] \in Mints
  BY ExecutorConstants, EP!InFlightHaveMints
     DEF Entered, TypeOK, CreatedOnlyWhenFlat, EP!Exclusive, EP!ActiveAreInFlight
<1>2. Keeps \/ (\E m \in Mints : Signals(m)) => LifeStep
  BY DEF Keeps, Signals, EP!SamePlaces
<1>3. ASSUME NEW m \in Mints, Forgets(m) PROVE LifeStep
  <2>1. /\ m \notin active_executions
        /\ UNCHANGED active_executions
        /\ in_position' = [in_position EXCEPT ![m] = FALSE]
    BY <1>1, <1>3, SameStates
       DEF ExecutorsAgree, Forgets, Busy, EP!SamePlaces
  <2>2. CASE in_position[m]
    <3>1. Moves(m, "held", "flat")
      BY <1>1, <2>1, <2>2
    <3> QED BY <3>1
  <2>3. CASE ~in_position[m]
    BY <1>1, <2>1, <2>3
  <2> QED BY <2>2, <2>3
<1>4. ASSUME NEW t \in Tasks, Begins(t) PROVE LifeStep
  <2>1. /\ pending \in Mints
        /\ active_executions' = active_executions \cup {pending}
        /\ in_position' = [in_position EXCEPT ![pending] = TRUE]
    BY <1>1, <1>4 DEF Begins, EP!Joins
  <2>2. Moves(pending, "flat", "buying")
    BY <1>1, <1>4, <2>1 DEF Begins
  <2> QED BY <2>1, <2>2
<1>5. ASSUME NEW t \in Tasks, Ends(t) PROVE LifeStep
  <2> DEFINE m == mint[t]
  <2>1. /\ m \in Mints /\ m \in active_executions
        /\ active_executions' = active_executions \ {m}
    BY <1>1, <1>5 DEF Ends, EP!Leaves
  <2>2. PICK held \in BOOLEAN : in_position' = [in_position EXCEPT ![m] = held]
    BY <1>5 DEF Ends
  <2> HIDE DEF m
  <2>3. Moves(m, "buying", IF held THEN "held" ELSE "flat")
    BY <1>1, <2>1, <2>2
  <2> QED BY <2>1, <2>3
<1> QED BY <1>2, <1>3, <1>4, <1>5 DEF EntryStep

\* Every position is entered once at a time and only while it is flat, is held
\* or flat again after its execution, and is given up only when the store
\* forgets the mint: PositionLife, implemented for any number of mints.
THEOREM PositionsFollowLife == Spec => FollowsPositionLife
<1>1. Init => Life!Init
  <2> SUFFICES ASSUME Init PROVE Life!Init
    OBVIOUS
  <2>1. \A m \in Mints : Executions(m) = {} /\ in_position[m] = FALSE
    BY DEF Init, Exec!Init, Exec!InFlight, Exec!Waits, Executions
  <2> QED BY <2>1 DEF Life!Init
<1>2. Entered /\ Entered' /\ [Next]_vars => [Life!Next]_MappedPositions
  <2> SUFFICES ASSUME Entered, Entered', [Next]_vars
               PROVE  [Life!Next]_MappedPositions
    OBVIOUS
  <2>1. LifeStep
    BY NextIsEntryStep, EntryStepIsLifeStep
  <2>2. MappedPositions = Positions /\ MappedPositions' = Positions'
    BY MappedPositionsAre, MappedPositionsNext
  <2>3. LifeStep => Life!Next \/ UNCHANGED MappedPositions
    BY <2>2 DEF LifeStep, Moves, Life!Next, Life!Buy, Life!Fill, Life!Abort,
                Life!Forget, Life!Becomes, MappedPositions
  <2> QED BY <2>1, <2>3
<1> QED BY <1>1, <1>2, AlwaysEntered, PTL
        DEF Spec, FollowsPositionLife, Life!Spec, MappedPositions

=============================================================================
