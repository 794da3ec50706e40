----------------------------- MODULE EntryRules -----------------------------
(***************************************************************************)
(* What the strategy layer thinks of a token: the gates of                 *)
(* src/engine/entry_rules.py and the score of src/engine/scoring.py, as    *)
(* functions of a StrategyInput.  Its fields are those of the token, inp,  *)
(* and those of the infrastructure, i.                                     *)
(*                                                                         *)
(* Ratios, returns and SOL are in hundredths, ages in seconds, staleness   *)
(* in milliseconds, points of the score in hundredths; a term of the score *)
(* is cut to hundredths where the code rounds their sum.  extension is the *)
(* distance of the price from the middle Bollinger band in units of the    *)
(* upper half; without bands it is 0, which neither gate nor score mind.   *)
(***************************************************************************)
EXTENDS Integers

CONSTANT Setup      \* StrategyConfig.setup_profile

ASSUME SetupAssumption == Setup \in {"conservative", "balanced", "aggressive"}

ENTRY_THRESHOLDS ==
    [conservative |-> [velocity |-> 200, volume |-> 50, imbalance |-> 60,
                       ofi |-> 1500, return |-> 25, acceleration |-> 15],
     balanced |-> [velocity |-> 150, volume |-> 30, imbalance |-> 55,
                   ofi |-> 800, return |-> 35, acceleration |-> 20],
     aggressive |-> [velocity |-> 100, volume |-> 15, imbalance |-> 50,
                     ofi |-> 400, return |-> 50, acceleration |-> 30]]
thresholds == ENTRY_THRESHOLDS[Setup]

\* The defaults of StrategyConfig
min_trade_count == 5
max_data_staleness_ms == 2000
max_slot_lag == 10
max_queue_pressure == 80
min_bundle_success_rate == 60
max_token_age_seconds == 120
max_bollinger_extension == 150

AtLeast(floor, x) == IF x < floor THEN floor ELSE x
AtMost(cap, x) == IF x > cap THEN cap ELSE x

-----------------------------------------------------------------------------
(* The gates                                                               *)

IsTokenEligible(inp, i) ==
    /\ inp.audit = "ALLOW"
    /\ inp.staleness <= max_data_staleness_ms
    /\ i.lag <= max_slot_lag
    /\ i.queue <= max_queue_pressure
    /\ i.bundle >= min_bundle_success_rate
    /\ inp.age <= max_token_age_seconds
    /\ inp.cooldown = 0
    /\ inp.trades >= min_trade_count

CheckEntryConditions(inp) ==
    /\ inp.velocity >= thresholds.velocity
    /\ inp.volume >= thresholds.volume
    /\ inp.imbalance >= thresholds.imbalance
    /\ inp.ofi >= thresholds.ofi

IsOverextended(inp) ==
    \/ inp.return > thresholds.return
    \/ inp.acceleration > thresholds.acceleration
    \/ inp.extension > max_bollinger_extension

\* evaluate_entry without the guard against a second entry.
Passes(inp, i) ==
    IsTokenEligible(inp, i) /\ CheckEntryConditions(inp) /\ ~IsOverextended(inp)

-----------------------------------------------------------------------------
(* The score                                                               *)

\* pts scaled by where x lies between lo and hi
Points(x, lo, hi, pts) ==
    IF x <= lo THEN 0 ELSE IF x >= hi THEN pts ELSE (pts * (x - lo)) \div (hi - lo)

ActivityScore(inp) ==
    Points(inp.velocity, thresholds.velocity, 5 * thresholds.velocity, 1500)
    + Points(inp.trades, min_trade_count, 4 * min_trade_count, 1000)

ImbalanceScore(inp) ==
    Points(inp.imbalance, thresholds.imbalance, 90, 1500)
    + Points(inp.volume, thresholds.volume, 6 * thresholds.volume, 1000)

OfiScore(inp) == Points(inp.ofi, thresholds.ofi, 5 * thresholds.ofi, 2000)

FreshnessScore(inp) ==
    1500 - Points(inp.staleness, 0, max_data_staleness_ms, 900)
         - Points(inp.age, 0, max_token_age_seconds, 600)

\* Mutant: a high slot lag is rewarded.
InfraScoreLagReversed(i) ==
    525 + Points(i.lag, 0, max_slot_lag, 525)
        - Points(i.queue, 0, max_queue_pressure, 525)
        + Points(i.bundle, min_bundle_success_rate, 100, 450)

InfraScore(i) ==
    1050 - Points(i.lag, 0, max_slot_lag, 525)
         - Points(i.queue, 0, max_queue_pressure, 525)
         + Points(i.bundle, min_bundle_success_rate, 100, 450)

ExtensionPenalty(inp) ==
    AtMost(2000,
        Points(2 * inp.return, thresholds.return, 2 * thresholds.return, 1000)
        + Points(2 * inp.acceleration, thresholds.acceleration,
                 2 * thresholds.acceleration, 1000)
        + Points(inp.extension, 80, max_bollinger_extension, 500))

\* compute_score, the total of the breakdown
ComputeScore(inp, i) ==
    AtLeast(0, AtMost(10000,
        ActivityScore(inp) + ImbalanceScore(inp) + OfiScore(inp)
        + FreshnessScore(inp) + InfraScore(i) - ExtensionPenalty(inp)))

=============================================================================
