-------------------------- MODULE ExecutorProofs --------------------------
(***************************************************************************)
(* Proofs about Executor, for any number of executions and of mints, any   *)
(* threshold of the circuit breaker and every mode.                        *)
(***************************************************************************)
EXTENDS Executor, FiniteSetTheorems, TLAPS

\* The set that guards against double sends and the executions under way say
\* the same of each other: that a return releases no mint of another execution
\* rests on there being one execution per mint, and that one on the set.
Exclusive == TypeOK /\ ActiveAreInFlight /\ OneExecutionPerMint

\* How a step changes who is in flight: not at all, by one that joins with a
\* mint that is not active, or by one that leaves and releases its mint.
SamePlaces == /\ InFlight' = InFlight
              /\ \A t \in InFlight : mint'[t] = mint[t]
              /\ active_executions' = active_executions
Joins(t, m) == /\ t \notin InFlight /\ InFlight' = InFlight \cup {t}
               /\ m \in Mints \ active_executions
               /\ mint' = [mint EXCEPT ![t] = m]
               /\ active_executions' = active_executions \cup {m}
Leaves(t) == /\ t \in InFlight /\ InFlight' = InFlight \ {t}
             /\ mint' = mint
             /\ active_executions' = active_executions \ {mint[t]}
FlightStep ==
    \/ SamePlaces
    \/ \E t \in Tasks, m \in Mints : Joins(t, m)
    \/ \E t \in Tasks : Leaves(t)

\* An execution under way has a mint.
LEMMA InFlightHaveMints == Exclusive => \A t \in InFlight : mint[t] \in Mints
  BY DEF Exclusive, TypeOK, ActiveAreInFlight

\* A task that goes to another wait stays in flight.
LEMMA GoesOn ==
  ASSUME TypeOK, NEW t \in InFlight, NEW place \in Waits, Goes(t, place)
  PROVE  InFlight' = InFlight
  BY DEF TypeOK, InFlight, Goes

\* A task that returns leaves.
LEMMA ReturnLeaves ==
  ASSUME TypeOK, NEW t \in InFlight, NEW status, Returns(t, status),
         UNCHANGED mint
  PROVE  Leaves(t)
<1>1. t \in Tasks /\ at' = [at EXCEPT ![t] = "done"] /\ at \in [Tasks -> Waits \cup {"idle", "done"}]
  BY DEF Returns, Goes, InFlight, TypeOK
<1>2. InFlight' = InFlight \ {t}
  BY <1>1 DEF InFlight, Waits
<1> QED BY <1>2 DEF Leaves, Returns

\* A call of execute() is turned away, or joins with a mint that was free.
LEMMA ExecuteFlight ==
  ASSUME Exclusive, NEW t \in Tasks, NEW m \in Mints, Execute(t, m)
  PROVE  \/ SamePlaces /\ at'[t] = "done" /\ result'[t] = "refused"
         \/ Joins(t, m) /\ at'[t] # "done"
<1>0. TypeOK
  BY DEF Exclusive
<1>1. t \notin InFlight /\ \A s \in InFlight : s # t
  BY DEF Execute, InFlight, Waits
<1>2. mint' = [mint EXCEPT ![t] = m]
  BY DEF Execute
<1>3. CASE TurnedAway(t, m)
  <2>1. InFlight' = InFlight
    BY <1>0, <1>1, <1>3 DEF TurnedAway, Goes, InFlight, TypeOK, Waits
  <2>2. at'[t] = "done" /\ result'[t] = "refused"
    BY <1>0, <1>3 DEF TurnedAway, Goes, TypeOK
  <2> QED BY <2>1, <2>2, <1>0, <1>1, <1>2, <1>3
          DEF SamePlaces, TurnedAway, TypeOK, InFlight
<1>4. CASE ~DoubleSend(m) /\ Admit(t, m)
  <2>1. InFlight' = InFlight \cup {t} /\ at'[t] # "done"
    BY <1>0, <1>4 DEF Admit, Goes, InFlight, TypeOK, FirstWait, Waits
  <2> QED BY <2>1, <1>1, <1>2, <1>4 DEF Joins, Admit, DoubleSend
<1> QED BY <1>3, <1>4 DEF Execute

\* Between two awaits an execution goes on to the second or returns.
LEMMA ResumeFlight ==
  ASSUME Exclusive, NEW t \in Tasks, Resume(t)
  PROVE  \/ SamePlaces /\ t \in InFlight /\ at'[t] # "done"
         \/ Leaves(t)
<1>0. TypeOK
  BY DEF Exclusive
<1>1. t \in InFlight /\ mint' = mint
  BY DEF Resume, InFlight, Waits, PaperFills, PrepareRaises, Prepare,
         SendFails, SendSucceeds, TrackEnds
<1>2. ASSUME NEW status, Returns(t, status) PROVE Leaves(t)
  BY <1>0, <1>1, <1>2, ReturnLeaves
<1>3. ASSUME NEW place \in Waits, Goes(t, place), UNCHANGED active_executions
      PROVE  SamePlaces /\ t \in InFlight /\ at'[t] # "done"
  <2>1. at'[t] # "done"
    BY <1>0, <1>3 DEF Goes, TypeOK, Waits
  <2> QED BY <2>1, <1>0, <1>1, <1>3, GoesOn DEF SamePlaces
<1> QED BY <1>2, <1>3
        DEF Resume, Waits, PaperFills, PrepareRaises, Prepare,
            SendFails, SendSucceeds, TrackEnds

\* A cancelled execution leaves without a result.
LEMMA CancelFlight ==
  ASSUME Exclusive, NEW t \in Tasks, Cancel(t)
  PROVE  Leaves(t) /\ result'[t] = "none"
<1>1. TypeOK /\ t \in InFlight /\ mint' = mint /\ Returns(t, "none")
  BY DEF Exclusive, Cancel, InFlight
<1> QED BY <1>1, ReturnLeaves DEF Returns, TypeOK

\* Every step of the executor is one of those three.
LEMMA NextIsFlightStep == Exclusive /\ [Next]_vars => FlightStep
<1> SUFFICES ASSUME Exclusive, [Next]_vars PROVE FlightStep
  OBVIOUS
<1> USE DEF FlightStep
<1>1. ASSUME NEW t \in Tasks, NEW m \in Mints, Execute(t, m)
      PROVE  FlightStep
  BY <1>1, ExecuteFlight
<1>2. ASSUME NEW t \in Tasks, Resume(t) \/ Cancel(t)
      PROVE  FlightStep
  BY <1>2, ResumeFlight, CancelFlight
<1>3. CASE UNCHANGED <<at, mint, active_executions>>
  BY <1>3 DEF SamePlaces, InFlight
<1>4. (\E t \in Tasks : Settle(t)) \/ Heartbeat \/ Ages \/ Exit
        => UNCHANGED <<at, mint, active_executions>>
  BY DEF Settle, Heartbeat, Ages, Exit, execVars
<1> QED BY <1>1, <1>2, <1>3, <1>4 DEF Next, Step, vars, execVars

\* Those three kinds of step keep one execution per mint and the set exact.
LEMMA FlightStepKeepsExclusive ==
  Exclusive /\ FlightStep => (ActiveAreInFlight /\ OneExecutionPerMint)'
<1> SUFFICES ASSUME Exclusive, FlightStep
             PROVE  (ActiveAreInFlight /\ OneExecutionPerMint)'
  OBVIOUS
<1> USE DEF ActiveAreInFlight, OneExecutionPerMint
<1>1. /\ ActiveAreInFlight /\ OneExecutionPerMint
      /\ mint \in [Tasks -> Mints \cup {NoMint}] /\ InFlight \subseteq Tasks
  BY DEF Exclusive, TypeOK, InFlight
<1>2. CASE SamePlaces
  BY <1>1, <1>2 DEF SamePlaces
<1>3. ASSUME NEW t \in Tasks, NEW m \in Mints, Joins(t, m)
      PROVE  (ActiveAreInFlight /\ OneExecutionPerMint)'
  <2>1. /\ \A s \in InFlight : mint'[s] = mint[s] /\ mint[s] # m
        /\ mint'[t] = m
    BY <1>1, <1>3 DEF Joins
  <2> QED BY <1>1, <1>3, <2>1 DEF Joins
<1>4. ASSUME NEW t \in Tasks, Leaves(t)
      PROVE  (ActiveAreInFlight /\ OneExecutionPerMint)'
  <2>1. \A s \in InFlight \ {t} : mint[s] # mint[t]
    BY <1>1, <1>4 DEF Leaves
  <2> QED BY <1>1, <1>4, <2>1 DEF Leaves
<1> QED BY <1>2, <1>3, <1>4 DEF FlightStep

\* The variables of a step of the executor keep their types.
LEMMA NextTyped == Exclusive /\ [Next]_vars => TypeOK'
<1> SUFFICES ASSUME Exclusive, [Next]_vars PROVE TypeOK'
  OBVIOUS
<1>0. TypeOK /\ \A t \in InFlight : mint[t] \in Mints
  BY InFlightHaveMints DEF Exclusive
<1> USE DEF TypeOK, GuardsTypeOK, Waits
<1>1. ASSUME NEW t \in Tasks, NEW m \in Mints, Execute(t, m), UNCHANGED mode
      PROVE  TypeOK'
  <2>1. stream_healthy' \in BOOLEAN
    BY <1>0, <1>1 DEF Execute, NoteStreamHealth
  <2> QED BY <1>0, <1>1, <2>1 DEF Execute, TurnedAway, Admit, Goes, FirstWait
<1>2. ASSUME NEW t \in Tasks, Resume(t) \/ Cancel(t), UNCHANGED mode
      PROVE  TypeOK'
  <2>1. /\ UNCHANGED <<stream_healthy, heartbeat, mint, exiting, mode>>
        /\ bundle' = bundle \/ bundle' = [bundle EXCEPT ![t] = "accepted"]
    BY <1>2 DEF Resume, Cancel, PaperFills, PrepareRaises, Prepare,
                SendFails, SendSucceeds, TrackEnds
  <2>2. \/ ReportsFailure(t) \/ ReportsSuccess(t) \/ ReportsNothing
    BY <1>2 DEF Resume, Cancel, PaperFills, PrepareRaises, Prepare,
                SendFails, SendSucceeds, TrackEnds, TrackReports
  <2>3. \/ \E status \in {"none", "landed", "failed", "timeout"} : Returns(t, status)
        \/ \E place \in Waits : Goes(t, place) /\ UNCHANGED <<result, active_executions>>
    BY <1>2 DEF Resume, Cancel, PaperFills, PrepareRaises, Prepare,
                SendFails, SendSucceeds, TrackEnds, TrackAnswers
  <2>4. consecutive_bundle_failures' \in Nat /\ reports' \in [Tasks -> Nat]
    BY <1>0, <2>2 DEF ReportsFailure, ReportsSuccess, ReportsNothing,
                      ReportBundleFailure, ReportBundleSuccess, Count
  <2>5. /\ at' \in [Tasks -> Waits \cup {"idle", "done"}]
        /\ result' \in [Tasks -> {"none", "refused", "landed", "failed", "timeout"}]
        /\ active_executions' \in SUBSET Mints
    BY <1>0, <2>3 DEF Returns, Goes
  <2> QED BY <1>0, <2>1, <2>4, <2>5
<1>3. ASSUME NEW t \in Tasks, Settle(t), UNCHANGED mode
      PROVE  TypeOK'
  BY <1>0, <1>3 DEF Settle, guardVars
<1>4. CASE (Heartbeat \/ Ages \/ Exit) /\ UNCHANGED mode
  BY <1>0, <1>4 DEF Heartbeat, UpdateStreamHeartbeat, Ages, HeartbeatAges,
                    Exit, guardVars, execVars
<1>5. CASE UNCHANGED vars
  BY <1>0, <1>5 DEF vars, guardVars, execVars
<1> QED BY <1>1, <1>2, <1>3, <1>4, <1>5 DEF Next, Step

\* Types, the exact set and one execution per mint in every reachable state.
LEMMA AlwaysExclusive == Spec => []Exclusive
<1>1. Init => Exclusive
  <2> SUFFICES ASSUME Init PROVE Exclusive
    OBVIOUS
  <2>1. TypeOK
    BY DEF Init, GuardsInit, TypeOK, GuardsTypeOK
  <2>2. InFlight = {}
    BY DEF Init, InFlight, Waits
  <2> QED BY <2>1, <2>2
          DEF Init, Exclusive, ActiveAreInFlight, OneExecutionPerMint
<1>2. Exclusive /\ [Next]_vars => Exclusive'
  BY NextTyped, NextIsFlightStep, FlightStepKeepsExclusive DEF Exclusive
<1> QED BY <1>1, <1>2, PTL DEF Spec

\* The variables of the executor and of the risk guards keep their types.
THEOREM TypeCorrect == Spec => []TypeOK
  BY AlwaysExclusive, PTL DEF Exclusive

\* On every way out of execute() its mint is released, and never before.
THEOREM DoubleSendSetExact == Spec => []ActiveAreInFlight
  BY AlwaysExclusive, PTL DEF Exclusive

\* No mint is executed twice at a time, for any number of executions.
THEOREM NoOverlap == Spec => []OneExecutionPerMint
  BY AlwaysExclusive, PTL DEF Exclusive

-----------------------------------------------------------------------------
(* The circuit breaker                                                     *)

\* A step admits only while the breaker has not tripped, a failure is reported
\* only by an execution that leaves, and nothing else adds to the failures.
BreakerStep ==
    \/ UNCHANGED <<InFlight, consecutive_bundle_failures>>
    \/ /\ ~BreakerTripped
       /\ UNCHANGED consecutive_bundle_failures
    \/ \E t \in InFlight :
          /\ InFlight' = InFlight \ {t}
          /\ consecutive_bundle_failures' \in
                {0, consecutive_bundle_failures, consecutive_bundle_failures + 1}

\* Every step of the executor is one of those.
LEMMA NextIsBreakerStep == Exclusive /\ [Next]_vars => BreakerStep
<1> SUFFICES ASSUME Exclusive, [Next]_vars PROVE BreakerStep
  OBVIOUS
<1>0. TypeOK
  BY DEF Exclusive
<1> USE DEF BreakerStep
<1>1. ASSUME NEW t \in Tasks, NEW m \in Mints, Execute(t, m)
      PROVE  BreakerStep
  <2>1. UNCHANGED consecutive_bundle_failures
    BY <1>1 DEF Execute
  <2>2. CASE TurnedAway(t, m)
    <3>1. InFlight' = InFlight
      BY <1>0, <1>1, <2>2 DEF Execute, TurnedAway, Goes, InFlight, TypeOK, Waits
    <3> QED BY <3>1, <2>1
  <2>3. CASE IsTradeAllowed
    BY <2>1, <2>3 DEF IsTradeAllowed
  <2> QED BY <1>1, <2>2, <2>3 DEF Execute
<1>2. ASSUME NEW t \in Tasks, Resume(t) \/ Cancel(t)
      PROVE  BreakerStep
  <2>1. t \in InFlight /\ mint' = mint
    BY <1>2 DEF Resume, Cancel, InFlight, Waits, PaperFills, PrepareRaises,
                Prepare, SendFails, SendSucceeds, TrackEnds
  <2>2. ASSUME NEW status, Returns(t, status) PROVE InFlight' = InFlight \ {t}
    BY <1>0, <2>1, <2>2, ReturnLeaves DEF Leaves
  <2>3. ASSUME NEW place \in Waits, Goes(t, place), ReportsNothing
        PROVE  BreakerStep
    <3>1. InFlight' = InFlight
      BY <1>0, <2>1, <2>3, GoesOn
    <3> QED BY <3>1, <2>3 DEF ReportsNothing
  <2>4. \/ \E status : Returns(t, status)
        \/ \E place \in Waits : Goes(t, place) /\ ReportsNothing
    BY <1>2 DEF Resume, Cancel, Waits, PaperFills, PrepareRaises, Prepare,
                SendFails, SendSucceeds, TrackEnds
  <2>5. ReportsFailure(t) \/ ReportsSuccess(t) \/ ReportsNothing
    BY <1>2 DEF Resume, Cancel, PaperFills, PrepareRaises, Prepare,
                SendFails, SendSucceeds, TrackEnds, TrackReports
  <2>6. consecutive_bundle_failures' \in
          {0, consecutive_bundle_failures, consecutive_bundle_failures + 1}
    BY <2>5 DEF ReportsFailure, ReportsSuccess, ReportsNothing,
                ReportBundleFailure, ReportBundleSuccess
  <2> QED BY <2>1, <2>2, <2>3, <2>4, <2>6
<1>3. UNCHANGED <<at, consecutive_bundle_failures>> => BreakerStep
  BY DEF InFlight
<1>4. (\E t \in Tasks : Settle(t)) \/ Heartbeat \/ Ages \/ Exit
        => UNCHANGED <<at, consecutive_bundle_failures>>
  BY DEF Settle, Heartbeat, Ages, Exit, execVars, guardVars, HeartbeatAges
<1>5. UNCHANGED vars => UNCHANGED <<at, consecutive_bundle_failures>>
  BY DEF vars, guardVars, execVars
<1> QED BY <1>1, <1>2, <1>3, <1>4, <1>5 DEF Next, Step

FewInFlight == /\ IsFiniteSet(InFlight)
               /\ Cardinality(InFlight) <= Cardinality(Mints)

\* There are no more executions under way than mints.
LEMMA AtMostOnePerMint == Exclusive => FewInFlight
<1> SUFFICES ASSUME Exclusive PROVE FewInFlight
  OBVIOUS
<1> DEFINE mintOf == [t \in InFlight |-> mint[t]]
<1>1. mintOf \in [InFlight -> Mints]
  BY InFlightHaveMints
<1>2. \A s, t \in InFlight : mintOf[s] = mintOf[t] => s = t
  BY DEF Exclusive, OneExecutionPerMint
<1>3. mintOf \in Injection(InFlight, Mints)
  BY <1>1, <1>2 DEF Injection, IsInjective
<1> QED BY <1>3, FS_Injection, MintsAssumption DEF FewInFlight

\* The bound on the overrun is kept by every step.
LEMMA BreakerStepKeepsBound ==
  Exclusive /\ FewInFlight /\ FewInFlight' /\ OverrunBounded /\ BreakerStep
    => OverrunBounded'
<1> SUFFICES ASSUME Exclusive, FewInFlight, FewInFlight', OverrunBounded,
                    BreakerStep
             PROVE  OverrunBounded'
  OBVIOUS
<1> DEFINE f == consecutive_bundle_failures
           flying == Cardinality(InFlight)
           mints == Cardinality(Mints)
<1>1. f \in Nat /\ flying \in Nat /\ mints \in Nat /\ MaxFailures \in Nat \ {0}
      /\ flying <= mints /\ f + flying <= (MaxFailures - 1) + mints
  <2>1. flying \in Nat /\ mints \in Nat /\ flying <= mints
    BY FS_CardinalityType, MintsAssumption DEF FewInFlight
  <2> QED BY <2>1, MaxFailuresAssumption
          DEF Exclusive, TypeOK, GuardsTypeOK, OverrunBounded
<1>2. flying' \in Nat /\ flying' <= mints
  BY FS_CardinalityType DEF FewInFlight
<1>3. CASE UNCHANGED <<InFlight, consecutive_bundle_failures>>
  BY <1>1, <1>3 DEF OverrunBounded
<1>4. CASE ~BreakerTripped /\ UNCHANGED consecutive_bundle_failures
  <2>1. f <= MaxFailures - 1
    BY <1>1, <1>4 DEF BreakerTripped
  <2> QED BY <1>1, <1>2, <1>4, <2>1 DEF OverrunBounded
<1>5. ASSUME NEW t \in InFlight, InFlight' = InFlight \ {t},
             f' \in {0, f, f + 1}
      PROVE  OverrunBounded'
  <2>1. Cardinality(InFlight \ {t}) = flying - 1
    BY <1>5, FS_RemoveElement DEF FewInFlight
  <2> QED BY <1>1, <1>2, <1>5, <2>1 DEF OverrunBounded
<1> QED BY <1>3, <1>4, <1>5 DEF BreakerStep

\* The failures counted exceed the threshold by less than the number of mints,
\* although the breaker is looked at only as an execution begins.
THEOREM OverrunStaysBounded == Spec => []OverrunBounded
<1>1. Init => OverrunBounded
  <2>1. Init => InFlight = {}
    BY DEF Init, InFlight, Waits
  <2>2. Cardinality(Mints) \in Nat
    BY FS_CardinalityType, MintsAssumption
  <2>3. Cardinality({}) = 0
    BY FS_EmptySet
  <2> QED BY <2>1, <2>2, <2>3, MaxFailuresAssumption
          DEF Init, GuardsInit, OverrunBounded
<1>2. Exclusive /\ FewInFlight /\ FewInFlight' /\ OverrunBounded /\ [Next]_vars
        => OverrunBounded'
  BY NextIsBreakerStep, BreakerStepKeepsBound
<1> QED BY <1>1, <1>2, AtMostOnePerMint, AlwaysExclusive, PTL DEF Spec

\* Once the breaker has tripped and nothing is in flight, nothing will ever
\* reset it: the process does not trade any more.
THEOREM BreakerStaysTripped == Spec => BreakerLatches
<1>1. Exclusive /\ [Next]_vars =>
        (BreakerTripped /\ InFlight = {} => BreakerTripped' /\ InFlight' = {})
  BY NextIsBreakerStep DEF BreakerStep, BreakerTripped
<1> QED BY <1>1, AlwaysExclusive, PTL DEF Spec, BreakerLatches

-----------------------------------------------------------------------------
(* Reports and health                                                      *)

\* An execution that has not ended has no result, and each wait is one of the
\* mode that has it.
Reporting ==
    /\ ReportedOnce
    /\ \A t \in Tasks :
          /\ at[t] # "done" => result[t] = "none"
          /\ at[t] = "paper" => mode = "paper"
          /\ at[t] \in {"send", "track"} => mode = "live"

\* A step that ends an execution reports it; no other step reports anything.
LEMMA NextReporting == TypeOK /\ Reporting /\ [Next]_vars => Reporting'
<1> SUFFICES ASSUME TypeOK, Reporting, [Next]_vars PROVE Reporting'
  OBVIOUS
<1> USE DEF Reporting, ReportedOnce, Waits
<1>0. /\ at \in [Tasks -> Waits \cup {"idle", "done"}]
      /\ result \in [Tasks -> {"none", "refused", "landed", "failed", "timeout"}]
      /\ reports \in [Tasks -> Nat]
      /\ mode \in {"paper", "shadow", "live"} /\ mode' = mode
  BY ModesAssumption DEF TypeOK, Next, vars
<1>1. ASSUME NEW t \in Tasks, NEW m \in Mints, Execute(t, m)
      PROVE  Reporting'
  <2>1. at[t] = "idle" /\ UNCHANGED reports
    BY <1>1 DEF Execute
  <2>2. CASE TurnedAway(t, m)
    BY <1>0, <2>1, <2>2 DEF TurnedAway, Goes
  <2>3. CASE Admit(t, m)
    BY <1>0, <2>1, <2>3 DEF Admit, Goes, FirstWait
  <2> QED BY <1>1, <2>2, <2>3 DEF Execute
<1>2. ASSUME NEW t \in Tasks, at[t] # "done",
             NEW status \in {"landed", "failed", "timeout"},
             ~(mode = "shadow" /\ status = "landed"),
             Returns(t, status), reports' = [reports EXCEPT ![t] = @ + 1]
      PROVE  Reporting'
  BY <1>0, <1>2 DEF Returns, Goes
<1>3. ASSUME NEW t \in Tasks, PaperFills(t) \/ PrepareRaises(t)
                               \/ SendFails(t) \/ TrackEnds(t)
      PROVE  Reporting'
  <2>1. at[t] # "done"
    BY <1>3 DEF PaperFills, PrepareRaises, SendFails, TrackEnds
  <2>2. \/ PrepareRaises(t) \/ SendFails(t) \/ mode \in {"paper", "live"}
    BY <1>3 DEF PaperFills, TrackEnds
  <2>3. /\ \E status \in {"landed", "failed", "timeout"} :
             Returns(t, status) /\ ~(mode = "shadow" /\ status = "landed")
        /\ reports' = [reports EXCEPT ![t] = @ + 1]
    BY <1>3, <2>2 DEF PaperFills, PrepareRaises, SendFails, TrackEnds,
          TrackAnswers, TrackReports, ReportsFailure, ReportsSuccess, Count
  <2> QED BY <1>2, <2>1, <2>3
<1>4. ASSUME NEW t \in Tasks, Prepare(t) PROVE Reporting'
  BY <1>0, <1>4 DEF Prepare, Returns, Goes, ReportsNothing
<1>5. ASSUME NEW t \in Tasks, SendSucceeds(t) PROVE Reporting'
  BY <1>0, <1>5 DEF SendSucceeds, Goes, ReportsNothing
<1>6. ASSUME NEW t \in Tasks, Cancel(t) PROVE Reporting'
  BY <1>0, <1>6 DEF Cancel, Returns, Goes, ReportsNothing
<1>8. UNCHANGED <<at, result, reports>> => Reporting'
  BY <1>0
<1>9. (\E t \in Tasks : Settle(t)) \/ Heartbeat \/ Ages \/ Exit
        => UNCHANGED <<at, result, reports>>
  BY DEF Settle, Heartbeat, Ages, Exit, execVars
<1> QED BY <1>1, <1>3, <1>4, <1>5, <1>6, <1>8, <1>9
        DEF Next, Step, Resume, vars, execVars

\* Each execution that ends tells the breaker exactly once, by whatever path it
\* ends: an exception or a rejected submission is reported like a bundle that
\* was tracked, and what was refused or cancelled reports nothing.
THEOREM OutcomesReportedOnce == Spec => []ReportedOnce
<1>1. Init => Reporting
  BY DEF Init, Reporting, ReportedOnce, Waits
<1> QED BY <1>1, NextReporting, TypeCorrect, PTL DEF Spec, Reporting

\* stream_healthy is cleared only by a check that finds the heartbeat late, and
\* the next heartbeat sets it again.
THEOREM UnhealthyImpliesLate == Spec => []UnhealthyOnlyWhileDown
<1>1. Init => UnhealthyOnlyWhileDown
  BY DEF Init, GuardsInit, UnhealthyOnlyWhileDown, IsReady, jito_healthy
<1>2. UnhealthyOnlyWhileDown /\ [Next]_vars => UnhealthyOnlyWhileDown'
  <2> SUFFICES ASSUME UnhealthyOnlyWhileDown, [Next]_vars
               PROVE  UnhealthyOnlyWhileDown'
    OBVIOUS
  <2> USE DEF UnhealthyOnlyWhileDown, StreamDown, IsReady, jito_healthy
  <2>1. ASSUME NEW t \in Tasks, NEW m \in Mints, Execute(t, m)
        PROVE  UnhealthyOnlyWhileDown'
    BY <2>1 DEF Execute, NoteStreamHealth
  <2>2. (\E t \in Tasks : Resume(t) \/ Cancel(t) \/ Settle(t)) \/ Exit
          => UNCHANGED <<stream_healthy, heartbeat>>
    BY DEF Resume, PaperFills, PrepareRaises, Prepare, SendFails,
           SendSucceeds, TrackEnds, Cancel, Settle, Exit, guardVars
  <2>3. Heartbeat \/ Ages => UnhealthyOnlyWhileDown'
    BY DEF Heartbeat, UpdateStreamHeartbeat, Ages, HeartbeatAges
  <2> QED BY <2>1, <2>2, <2>3 DEF Next, Step, vars, guardVars
<1> QED BY <1>1, <1>2, PTL DEF Spec

=============================================================================
