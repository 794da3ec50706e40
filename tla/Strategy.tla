----------------------------- MODULE Strategy -----------------------------
(***************************************************************************)
(* The strategy layer (src/engine/strategy.py with entry_rules.py,         *)
(* sizing.py and exit_rules.py) and the positions a caller keeps by it.    *)
(* The layer has no state: its caller injects a StrategyInput and a        *)
(* StrategyContext with each call, and is external here.  It opens what    *)
(* ENTER approves, closes on EXIT, and keeps the context up to date.       *)
(*                                                                         *)
(* Sizes are in microsol, multipliers in thousandths, the rest as in       *)
(* EntryRules.  How much a REDUCE sells is the caller's affair: a         *)
(* position keeps its size in the model, the worst case for the exposure.  *)
(***************************************************************************)
EXTENDS EntryRules, FiniteSets

CONSTANTS
    Mints,
    QueuePressures, SlotLags, BundleRates,  \* the infrastructure's values
    Returns,                \* price returns of an open position
    Ages,                   \* ages of a position at its evaluations, seconds
    Tokens,                 \* what an evaluation may be given of a token
    BaseSize,               \* SIZING_BASE of the profile, in thousandths
    MaxPosition,            \* SIZING_CAPS
    MaxGlobalExposure,
    MaxConcurrent,
    MinUseful

ASSUME ValuesAssumption ==
    /\ QueuePressures \subseteq Nat /\ SlotLags \subseteq Nat
    /\ BundleRates \subseteq Nat
    /\ Returns \subseteq Int
    /\ 0 \in Ages /\ Ages \subseteq Nat
ASSUME TokensAssumption == Tokens \subseteq
    [audit : {"ALLOW", "DENY", "PENDING"}, staleness : Nat, age : Nat,
     cooldown : Nat, trades : Nat, velocity : Nat, volume : Nat,
     imbalance : Nat, ofi : Int, return : Int, acceleration : Int,
     extension : Int]
ASSUME MintsAssumption == IsFiniteSet(Mints)
ASSUME SizesAssumption ==
    /\ BaseSize \in Nat \ {0} /\ MaxPosition \in Nat \ {0}
    /\ MaxGlobalExposure \in Nat \ {0} /\ MinUseful \in Nat \ {0}
    /\ MaxConcurrent \in Nat

\* The defaults of StrategyConfig
min_score_to_enter == 4500
stop_loss == -5
take_profit_partial == 10
take_profit_final == 20
time_stop == 180
confirmation_window == 15

VARIABLES
    infra,              \* queue_pressure, system_slot_lag and bundle rate
    in_position,
    size,               \* of each open position
    age,                \* timestamp - entry_time
    partial_exit_done,
    total_exposure_sol,
    late                \* history: evaluations a position past its time stop
                        \* has survived

positionVars == <<in_position, size, age, partial_exit_done,
                  total_exposure_sol, late>>
vars == <<infra, positionVars>>

Infra == [queue : QueuePressures, lag : SlotLags, bundle : BundleRates]

Init ==
    /\ infra \in Infra
    /\ in_position = [m \in Mints |-> FALSE]
    /\ size = [m \in Mints |-> 0]
    /\ age = [m \in Mints |-> 0]
    /\ partial_exit_done = [m \in Mints |-> FALSE]
    /\ total_exposure_sol = 0
    /\ late = [m \in Mints |-> 0]

current_open_positions == Cardinality({m \in Mints : in_position[m]})

-----------------------------------------------------------------------------
(* Entry                                                                   *)

\* From half its limit on, a load takes up to 40 % off the size and far above
\* the limit 60 %.  Each factor is cut to thousandths here; for the values of the
\* runs that an entry may see it is exact.
LoadFactor(load, limit) ==
    IF 2 * load > limit
    THEN AtLeast(400, 1000 - (400 * (2 * load - limit)) \div limit)
    ELSE 1000

BundleFactor(rate) ==
    IF rate < 80 THEN AtLeast(500, (1000 * rate) \div 80) ELSE 1000

\* The product of the three factors, rounded to thousandths.
InfraMultiplier(i) ==
    AtLeast(300, (LoadFactor(i.queue, max_queue_pressure)
                  * LoadFactor(i.lag, max_slot_lag)
                  * BundleFactor(i.bundle) + 500000) \div 1000000)

ScoreMultiplier(score) ==
    LET headroom == score - min_score_to_enter IN
    IF headroom <= 0 THEN 600
    ELSE IF headroom < 1500 THEN 600 + (8 * headroom + 15) \div 30 ELSE 1000

\* in nanosol
RawSize(inp, i) ==
    BaseSize * InfraMultiplier(i) * ScoreMultiplier(ComputeScore(inp, i))

remaining_exposure == MaxGlobalExposure - total_exposure_sol

Microsol(nanosol) == (nanosol + 500) \div 1000

\* Mutant: the size is not trimmed to the remaining exposure.
SizeUntrimmed(inp, i) == AtMost(MaxPosition, Microsol(RawSize(inp, i)))

\* The caps are whole microsols, so rounding before or after them is the same.
Size(inp, i) ==
    AtMost(remaining_exposure, AtMost(MaxPosition, Microsol(RawSize(inp, i))))

Approved(inp, i) ==
    /\ remaining_exposure > 0
    /\ RawSize(inp, i) >= 1000 * MinUseful
    /\ AtMost(remaining_exposure, MaxPosition) >= MinUseful
    /\ current_open_positions < MaxConcurrent

\* evaluate_opportunity returns ENTER.
Enters(inp, i) ==
    /\ Passes(inp, i)
    /\ ComputeScore(inp, i) >= min_score_to_enter
    /\ Approved(inp, i)

\* The caller opens the position.
Enter(m, inp) ==
    /\ ~in_position[m] /\ Enters(inp, infra)
    /\ in_position' = [in_position EXCEPT ![m] = TRUE]
    /\ size' = [size EXCEPT ![m] = Size(inp, infra)]
    /\ age' = [age EXCEPT ![m] = 0]
    /\ partial_exit_done' = [partial_exit_done EXCEPT ![m] = FALSE]
    /\ total_exposure_sol' = total_exposure_sol + Size(inp, infra)
    /\ late' = [late EXCEPT ![m] = 0]
    /\ UNCHANGED infra

-----------------------------------------------------------------------------
(* Exit                                                                    *)

\* return: price return since the entry; the others tell whether the data are
\* stale and which signals have dropped too far below their entry values.
ExitInputs == [return : Returns, stale : BOOLEAN, velocity_fell : BOOLEAN,
               imbalance_fell : BOOLEAN, ofi_fell : BOOLEAN]

\* Stop loss, stale data, slot lag and the final target come before the rest.
ExitsAtOnce(inp) ==
    \/ inp.return <= stop_loss
    \/ inp.stale
    \/ infra.lag > max_slot_lag
    \/ inp.return >= take_profit_final

\* Mutant: the partial target does not look at partial_exit_done.
PartialTargetAgain(m, inp) == inp.return >= take_profit_partial

PartialTarget(m, inp) ==
    ~partial_exit_done[m] /\ inp.return >= take_profit_partial

TimeStop(m) == age[m] > time_stop

\* Within the confirmation window: the entry was not followed through.
Unconfirmed(m, inp) ==
    /\ age[m] >= 3 /\ age[m] <= confirmation_window
    /\ inp.return < 0 /\ inp.imbalance_fell /\ inp.velocity_fell

\* After it: all three signals have dropped, or velocity and one other.
MomentumFailure(m, inp) ==
    /\ age[m] > confirmation_window
    /\ inp.velocity_fell /\ inp.imbalance_fell /\ inp.ofi_fell
MomentumFades(m, inp) ==
    /\ age[m] > confirmation_window
    /\ inp.velocity_fell /\ (inp.imbalance_fell \/ inp.ofi_fell)

\* 90 % of the queue limit, 70 % of the bundle limit
InfraDegraded ==
    \/ 100 * infra.queue > 90 * max_queue_pressure
    \/ 100 * infra.bundle < 70 * min_bundle_success_rate

\* The verdict of evaluate_exit is that of the first check that fires.
Verdict(m, inp) ==
    IF ExitsAtOnce(inp) THEN "EXIT"
    ELSE IF PartialTarget(m, inp) THEN "REDUCE_PARTIAL"
    ELSE IF TimeStop(m) \/ Unconfirmed(m, inp) \/ MomentumFailure(m, inp)
         THEN "EXIT"
    ELSE IF MomentumFades(m, inp) THEN "REDUCE"
    ELSE IF InfraDegraded THEN "EXIT"
    ELSE "HOLD"

Close(m, inp) ==
    /\ Verdict(m, inp) = "EXIT"
    /\ in_position' = [in_position EXCEPT ![m] = FALSE]
    /\ total_exposure_sol' = total_exposure_sol - size[m]
    /\ size' = [size EXCEPT ![m] = 0]
    /\ age' = [age EXCEPT ![m] = 0]
    /\ partial_exit_done' = [partial_exit_done EXCEPT ![m] = FALSE]
    /\ late' = [late EXCEPT ![m] = 0]

\* REDUCE and HOLD leave the position open.
Keep(m, inp) ==
    /\ Verdict(m, inp) # "EXIT"
    /\ partial_exit_done' = [partial_exit_done EXCEPT ![m] =
                                @ \/ Verdict(m, inp) = "REDUCE_PARTIAL"]
    /\ late' = [late EXCEPT ![m] = IF TimeStop(m) THEN @ + 1 ELSE @]
    /\ UNCHANGED <<in_position, size, age, total_exposure_sol>>

EvaluateExit(m, inp) ==
    /\ in_position[m]
    /\ Close(m, inp) \/ Keep(m, inp)
    /\ UNCHANGED infra

-----------------------------------------------------------------------------

\* external: the infrastructure and the clock
InfraChanges == infra' \in Infra /\ UNCHANGED positionVars

TimePasses(m) ==
    /\ in_position[m]
    /\ \E later \in Ages : later > age[m] /\ age' = [age EXCEPT ![m] = later]
    /\ UNCHANGED <<infra, in_position, size, partial_exit_done,
                   total_exposure_sol, late>>

Next ==
    \/ \E m \in Mints : \/ \E inp \in Tokens : Enter(m, inp)
                        \/ \E inp \in ExitInputs : EvaluateExit(m, inp)
                        \/ TimePasses(m)
    \/ InfraChanges

Spec == Init /\ [][Next]_vars

-----------------------------------------------------------------------------
(* Properties                                                              *)

\* Types of the variables.
TypeOK ==
    /\ infra \in Infra
    /\ in_position \in [Mints -> BOOLEAN]
    /\ size \in [Mints -> Int]
    /\ age \in [Mints -> Ages]
    /\ partial_exit_done \in [Mints -> BOOLEAN]
    /\ total_exposure_sol \in Int
    /\ late \in [Mints -> Nat]

\* However entries and exits of several mints alternate, the sizes approved
\* together never exceed the global cap, and none is below the useful minimum.
ExposureCapped ==
    /\ total_exposure_sol <= MaxGlobalExposure
    /\ current_open_positions <= MaxConcurrent
    /\ \A m \in Mints : in_position[m] => size[m] \in MinUseful..MaxPosition

\* The partial target comes before the time stop and could hide it: a position
\* past its time stop survives one evaluation at most, whatever the market
\* shows.
OverdueClosedSoon == \A m \in Mints : late[m] <= 1

\* i is no better an infrastructure than j
Worse(i, j) == i.queue >= j.queue /\ i.lag >= j.lag /\ i.bundle <= j.bundle

Offered(inp, i) == IF Enters(inp, i) THEN Size(inp, i) ELSE 0

\* Gates, score and size all look at the infrastructure: whatever token, a worse
\* one never offers a larger position than the infrastructure at hand.
WorseInfraNeverBigger ==
    \A inp \in Tokens, i \in Infra :
        Worse(i, infra) => Offered(inp, i) <= Offered(inp, infra)

\* exit_rules.py:231 says the infrastructure check uses "a more lenient
\* threshold than eligibility": what has just been entered, at the entry price
\* and with the entry's signals, is not exited at once.
EntryNotExitedAtOnce ==
    [][ \A m \in Mints : ~in_position[m] /\ in_position'[m] => ~InfraDegraded ]_vars

=============================================================================
