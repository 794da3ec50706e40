-------------------------- MODULE StrategyProofs --------------------------
(***************************************************************************)
(* Proofs about Strategy, for any mints, caps, base size, and values of    *)
(* the market and the infrastructure.                                      *)
(***************************************************************************)
EXTENDS Strategy, FiniteSetTheorems, TLAPS

OpenMints == {m \in Mints : in_position[m]}

Typed ==
    /\ in_position \in [Mints -> BOOLEAN]
    /\ size \in [Mints -> Int]
    /\ partial_exit_done \in [Mints -> BOOLEAN]
    /\ total_exposure_sol \in Int
    /\ late \in [Mints -> Nat]
    /\ infra \in Infra

\* A closed position has no past, and one that survived an evaluation past its
\* time stop has taken its partial profit: it will not be spared again.
Overdue ==
    \A m \in Mints : /\ late[m] <= 1
                     /\ late[m] = 1 => partial_exit_done[m] /\ age[m] > time_stop

Within ==
    /\ total_exposure_sol <= MaxGlobalExposure
    /\ Cardinality(OpenMints) <= MaxConcurrent
    /\ \A m \in Mints : in_position[m] => size[m] \in MinUseful..MaxPosition

-----------------------------------------------------------------------------
(* The score and the size are integers                                     *)

\* Points of an integer are an integer, whatever the bounds.
LEMMA PointsInteger ==
  ASSUME NEW x \in Int, NEW lo \in Int, NEW hi \in Int, NEW pts \in Int, lo < hi
  PROVE  Points(x, lo, hi, pts) \in Int
<1>1. CASE x <= lo \/ x >= hi
  BY <1>1 DEF Points
<1>2. CASE lo < x /\ x < hi
  <2>1. hi - lo \in Int /\ hi - lo > 0 /\ pts * (x - lo) \in Int
    OBVIOUS
  <2>2. (pts * (x - lo)) \div (hi - lo) \in Int
    BY <2>1
  <2> QED BY <1>2, <2>2 DEF Points
<1> QED BY <1>1, <1>2

\* The fields of a token and of an infrastructure.
LEMMA FieldTypes ==
  /\ \A i \in Infra : i.queue \in Nat /\ i.lag \in Nat /\ i.bundle \in Nat
  /\ \A inp \in Tokens :
       /\ inp.staleness \in Nat /\ inp.age \in Nat /\ inp.trades \in Nat
       /\ inp.velocity \in Nat /\ inp.volume \in Nat /\ inp.imbalance \in Nat
       /\ inp.ofi \in Int /\ inp.return \in Int /\ inp.acceleration \in Int
       /\ inp.extension \in Int
<1>1. \A i \in Infra : i.queue \in Nat /\ i.lag \in Nat /\ i.bundle \in Nat
  BY ValuesAssumption DEF Infra
<1>2. ASSUME NEW inp \in Tokens
      PROVE  inp \in [audit : {"ALLOW", "DENY", "PENDING"}, staleness : Nat,
                      age : Nat, cooldown : Nat, trades : Nat, velocity : Nat,
                      volume : Nat, imbalance : Nat, ofi : Int, return : Int,
                      acceleration : Int, extension : Int]
  BY TokensAssumption
<1> QED BY <1>1, <1>2

\* Every profile's thresholds are positive, the imbalance's below 90.
LEMMA ThresholdTypes ==
  /\ thresholds.velocity \in Nat \ {0} /\ thresholds.volume \in Nat \ {0}
  /\ thresholds.ofi \in Nat \ {0} /\ thresholds.return \in Nat \ {0}
  /\ thresholds.acceleration \in Nat \ {0}
  /\ thresholds.imbalance \in Nat /\ thresholds.imbalance < 90
BY SetupAssumption DEF thresholds, ENTRY_THRESHOLDS

\* The part of the score that does not look at the infrastructure.
LEMMA ScoreParts ==
  ASSUME NEW inp \in Tokens
  PROVE  /\ ActivityScore(inp) \in Int /\ ImbalanceScore(inp) \in Int
         /\ OfiScore(inp) \in Int /\ FreshnessScore(inp) \in Int
         /\ ExtensionPenalty(inp) \in Int
<1>0. /\ inp.staleness \in Int /\ inp.age \in Int /\ inp.trades \in Int
      /\ inp.velocity \in Int /\ inp.volume \in Int /\ inp.imbalance \in Int
      /\ inp.ofi \in Int /\ 2 * inp.return \in Int /\ 2 * inp.acceleration \in Int
      /\ inp.extension \in Int
  BY FieldTypes
<1>1. ActivityScore(inp) \in Int
  <2> DEFINE x == inp.velocity
             v == thresholds.velocity
  <2>1. x \in Int /\ v \in Int /\ 5 * v \in Int /\ v < 5 * v
    BY <1>0, ThresholdTypes
  <2> HIDE DEF x, v
  <2>2. Points(x, v, 5 * v, 1500) \in Int
    BY <2>1, PointsInteger
  <2>3. Points(inp.trades, min_trade_count, 4 * min_trade_count, 1000) \in Int
    BY <1>0 DEF Points, min_trade_count
  <2> QED BY <2>2, <2>3 DEF ActivityScore, x, v
<1>2. ImbalanceScore(inp) \in Int
  <2> DEFINE x == inp.imbalance
             y == inp.volume
             m == thresholds.imbalance
             v == thresholds.volume
  <2>1. x \in Int /\ y \in Int /\ m \in Int /\ m < 90 /\ v \in Int /\ 6 * v \in Int /\ v < 6 * v
    BY <1>0, ThresholdTypes
  <2> HIDE DEF x, y, m, v
  <2>2. Points(x, m, 90, 1500) \in Int
    BY <2>1, PointsInteger
  <2>3. Points(y, v, 6 * v, 1000) \in Int
    BY <2>1, PointsInteger
  <2> QED BY <2>2, <2>3 DEF ImbalanceScore, x, y, m, v
<1>3. OfiScore(inp) \in Int
  <2> DEFINE x == inp.ofi
             o == thresholds.ofi
  <2>1. x \in Int /\ o \in Int /\ 5 * o \in Int /\ o < 5 * o
    BY <1>0, ThresholdTypes
  <2> HIDE DEF x, o
  <2>2. Points(x, o, 5 * o, 2000) \in Int
    BY <2>1, PointsInteger
  <2> QED BY <2>2 DEF OfiScore, x, o
<1>4. FreshnessScore(inp) \in Int
  <2>1. Points(inp.staleness, 0, max_data_staleness_ms, 900) \in Int
    BY <1>0 DEF Points, max_data_staleness_ms
  <2>2. Points(inp.age, 0, max_token_age_seconds, 600) \in Int
    BY <1>0 DEF Points, max_token_age_seconds
  <2> QED BY <2>1, <2>2 DEF FreshnessScore
<1>5. ExtensionPenalty(inp) \in Int
  <2> DEFINE r == thresholds.return
             a == thresholds.acceleration
             twice == 2 * inp.return
             speed == 2 * inp.acceleration
  <2>1. /\ r \in Int /\ 2 * r \in Int /\ r < 2 * r
        /\ a \in Int /\ 2 * a \in Int /\ a < 2 * a
        /\ twice \in Int /\ speed \in Int
    BY <1>0, ThresholdTypes
  <2> HIDE DEF r, a, twice, speed
  <2>2. Points(twice, r, 2 * r, 1000) \in Int
    BY <2>1, PointsInteger
  <2>3. Points(speed, a, 2 * a, 1000) \in Int
    BY <2>1, PointsInteger
  <2>4. Points(inp.extension, 80, max_bollinger_extension, 500) \in Int
    BY <1>0 DEF Points, max_bollinger_extension
  <2> QED BY <2>2, <2>3, <2>4 DEF ExtensionPenalty, AtMost, r, a, twice, speed
<1> QED BY <1>1, <1>2, <1>3, <1>4, <1>5

-----------------------------------------------------------------------------
(* A worse infrastructure scores lower and shrinks the size                *)

\* Each infrastructure term of the score is monotone.
LEMMA InfraScoreMonotone ==
  ASSUME NEW i \in Infra, NEW j \in Infra, Worse(i, j)
  PROVE  InfraScore(i) \in Int /\ InfraScore(j) \in Int
         /\ InfraScore(i) <= InfraScore(j)
<1>1. /\ i.queue \in Nat /\ i.lag \in Nat /\ i.bundle \in Nat
      /\ j.queue \in Nat /\ j.lag \in Nat /\ j.bundle \in Nat
      /\ i.queue >= j.queue /\ i.lag >= j.lag /\ i.bundle <= j.bundle
  BY FieldTypes DEF Worse
<1>2. /\ Points(i.lag, 0, 10, 525) \in Int /\ Points(j.lag, 0, 10, 525) \in Int
      /\ Points(i.lag, 0, 10, 525) >= Points(j.lag, 0, 10, 525)
  BY <1>1 DEF Points
<1>3. /\ Points(i.queue, 0, 80, 525) \in Int /\ Points(j.queue, 0, 80, 525) \in Int
      /\ Points(i.queue, 0, 80, 525) >= Points(j.queue, 0, 80, 525)
  BY <1>1 DEF Points
<1>4. /\ Points(i.bundle, 60, 100, 450) \in Int /\ Points(j.bundle, 60, 100, 450) \in Int
      /\ Points(i.bundle, 60, 100, 450) <= Points(j.bundle, 60, 100, 450)
  BY <1>1 DEF Points
<1> QED BY <1>2, <1>3, <1>4 DEF InfraScore, max_slot_lag, max_queue_pressure,
           min_bundle_success_rate

\* So is the score of any token.
LEMMA ScoreMonotone ==
  ASSUME NEW inp \in Tokens, NEW i \in Infra, NEW j \in Infra, Worse(i, j)
  PROVE  ComputeScore(inp, i) \in Int /\ ComputeScore(inp, j) \in Int
         /\ ComputeScore(inp, i) <= ComputeScore(inp, j)
<1>1. /\ InfraScore(i) \in Int /\ InfraScore(j) \in Int
      /\ InfraScore(i) <= InfraScore(j)
  BY InfraScoreMonotone
<1> DEFINE Rest(k) == ActivityScore(inp) + ImbalanceScore(inp) + OfiScore(inp)
                      + FreshnessScore(inp) + InfraScore(k) - ExtensionPenalty(inp)
<1>3. \A k : ComputeScore(inp, k) = AtLeast(0, AtMost(10000, Rest(k)))
  BY DEF ComputeScore
<1>4. Rest(i) \in Int /\ Rest(j) \in Int /\ Rest(i) <= Rest(j)
  BY <1>1, ScoreParts DEF Rest
<1> HIDE DEF Rest
<1> QED BY <1>3, <1>4 DEF AtLeast, AtMost

\* The three factors of the multiplier are monotone natural numbers, and so is
\* their product.
LEMMA ProductMonotone ==
  ASSUME NEW a \in Nat, NEW b \in Nat, NEW c \in Nat, NEW d \in Nat,
         a <= c, b <= d
  PROVE  a * b \in Nat /\ c * d \in Nat /\ a * b <= c * d
<1>1. a * b <= c * b
  OBVIOUS
<1>2. c * b <= c * d
  OBVIOUS
<1>3. a * b \in Nat /\ c * b \in Nat /\ c * d \in Nat
  OBVIOUS
<1> QED BY <1>1, <1>2, <1>3

LEMMA InfraMultiplierMonotone ==
  ASSUME NEW i \in Infra, NEW j \in Infra, Worse(i, j)
  PROVE  InfraMultiplier(i) \in Nat /\ InfraMultiplier(j) \in Nat
         /\ InfraMultiplier(i) <= InfraMultiplier(j)
<1>1. /\ i.queue \in Nat /\ i.lag \in Nat /\ i.bundle \in Nat
      /\ j.queue \in Nat /\ j.lag \in Nat /\ j.bundle \in Nat
      /\ i.queue >= j.queue /\ i.lag >= j.lag /\ i.bundle <= j.bundle
  BY FieldTypes DEF Worse
<1>2. /\ LoadFactor(i.queue, 80) \in Nat /\ LoadFactor(j.queue, 80) \in Nat
      /\ LoadFactor(i.queue, 80) <= LoadFactor(j.queue, 80)
  BY <1>1 DEF LoadFactor, AtLeast
<1>3. /\ LoadFactor(i.lag, 10) \in Nat /\ LoadFactor(j.lag, 10) \in Nat
      /\ LoadFactor(i.lag, 10) <= LoadFactor(j.lag, 10)
  BY <1>1 DEF LoadFactor, AtLeast
<1>4. /\ BundleFactor(i.bundle) \in Nat /\ BundleFactor(j.bundle) \in Nat
      /\ BundleFactor(i.bundle) <= BundleFactor(j.bundle)
  BY <1>1 DEF BundleFactor, AtLeast
<1> DEFINE Loads(k) == LoadFactor(k.queue, 80) * LoadFactor(k.lag, 10)
           Product(k) == Loads(k) * BundleFactor(k.bundle)
<1>5. Loads(i) \in Nat /\ Loads(j) \in Nat /\ Loads(i) <= Loads(j)
  BY <1>2, <1>3, ProductMonotone
<1> HIDE DEF Loads
<1>6. Product(i) \in Nat /\ Product(j) \in Nat /\ Product(i) <= Product(j)
  BY <1>4, <1>5, ProductMonotone
<1>7. \A k : InfraMultiplier(k) = AtLeast(300, (Product(k) + 500000) \div 1000000)
  BY DEF InfraMultiplier, Loads, max_queue_pressure, max_slot_lag
<1> HIDE DEF Product
<1> QED BY <1>6, <1>7 DEF AtLeast

LEMMA ScoreMultiplierMonotone ==
  ASSUME NEW s \in Int, NEW t \in Int, s <= t
  PROVE  ScoreMultiplier(s) \in Nat /\ ScoreMultiplier(t) \in Nat
         /\ ScoreMultiplier(s) <= ScoreMultiplier(t)
BY DEF ScoreMultiplier, min_score_to_enter

LEMMA RawSizeMonotone ==
  ASSUME NEW inp \in Tokens, NEW i \in Infra, NEW j \in Infra, Worse(i, j)
  PROVE  RawSize(inp, i) \in Nat /\ RawSize(inp, j) \in Nat
         /\ RawSize(inp, i) <= RawSize(inp, j)
<1> DEFINE Factor(k) == ScoreMultiplier(ComputeScore(inp, k))
           Based(k) == BaseSize * InfraMultiplier(k)
<1>1. /\ InfraMultiplier(i) \in Nat /\ InfraMultiplier(j) \in Nat
      /\ InfraMultiplier(i) <= InfraMultiplier(j)
  BY InfraMultiplierMonotone
<1>2. Factor(i) \in Nat /\ Factor(j) \in Nat /\ Factor(i) <= Factor(j)
  BY ScoreMonotone, ScoreMultiplierMonotone
<1>3. Based(i) \in Nat /\ Based(j) \in Nat /\ Based(i) <= Based(j)
  BY <1>1, ProductMonotone, SizesAssumption
<1>4. \A k : RawSize(inp, k) = Based(k) * Factor(k)
  BY DEF RawSize
<1> HIDE DEF Based, Factor
<1> QED BY <1>2, <1>3, <1>4, ProductMonotone

\* A size that is approved lies between the useful minimum and every cap.
LEMMA SizeWithinCaps ==
  ASSUME total_exposure_sol \in Int, NEW inp \in Tokens, NEW i \in Infra,
         Approved(inp, i)
  PROVE  /\ Size(inp, i) \in MinUseful..MaxPosition
         /\ total_exposure_sol + Size(inp, i) <= MaxGlobalExposure
<1> DEFINE raw == RawSize(inp, i)
<1>1. raw \in Int /\ raw >= 1000 * MinUseful
  <2>1. Worse(i, i)
    BY FieldTypes DEF Worse
  <2> QED BY <2>1, RawSizeMonotone DEF Approved
<1>2. /\ MinUseful \in Nat /\ MaxPosition \in Nat /\ MaxGlobalExposure \in Nat
      /\ remaining_exposure \in Int
  BY SizesAssumption DEF remaining_exposure
<1> HIDE DEF raw
<1>3. (raw + 500) \div 1000 \in Int /\ (raw + 500) \div 1000 >= MinUseful
  BY <1>1, <1>2
<1>4. remaining_exposure >= MinUseful /\ MaxPosition >= MinUseful
  BY <1>2 DEF Approved, AtMost
<1>5. /\ Size(inp, i) \in Int /\ Size(inp, i) >= MinUseful
      /\ Size(inp, i) <= MaxPosition /\ Size(inp, i) <= remaining_exposure
  BY <1>2, <1>3, <1>4 DEF Size, Microsol, AtMost, raw
<1> QED BY <1>2, <1>5 DEF remaining_exposure

\* What is approved on a worse infrastructure is approved on a better one, and
\* is no larger.
LEMMA OfferMonotone ==
  ASSUME total_exposure_sol \in Int, NEW inp \in Tokens, NEW i \in Infra,
         NEW j \in Infra, Worse(i, j)
  PROVE  Offered(inp, i) <= Offered(inp, j)
<1>1. /\ i.queue \in Nat /\ i.lag \in Nat /\ i.bundle \in Nat
      /\ j.queue \in Nat /\ j.lag \in Nat /\ j.bundle \in Nat
      /\ i.queue >= j.queue /\ i.lag >= j.lag /\ i.bundle <= j.bundle
  BY FieldTypes DEF Worse
<1>2. /\ RawSize(inp, i) \in Nat /\ RawSize(inp, j) \in Nat
      /\ RawSize(inp, i) <= RawSize(inp, j)
  BY RawSizeMonotone
<1>3. remaining_exposure \in Int /\ MaxPosition \in Int /\ MinUseful \in Int
  BY SizesAssumption DEF remaining_exposure
<1>4. Size(inp, i) \in Int /\ Size(inp, j) \in Int /\ Size(inp, i) <= Size(inp, j)
  BY <1>2, <1>3 DEF Size, Microsol, AtMost
<1>5. Enters(inp, i) => Enters(inp, j)
  <2> SUFFICES ASSUME Enters(inp, i) PROVE Enters(inp, j)
    OBVIOUS
  <2>1. Passes(inp, j)
    BY <1>1 DEF Enters, Passes, IsTokenEligible, max_slot_lag,
       max_queue_pressure, min_bundle_success_rate
  <2>2. ComputeScore(inp, j) >= min_score_to_enter
    BY ScoreMonotone DEF Enters, min_score_to_enter
  <2>3. Approved(inp, j)
    BY <1>2, <1>3 DEF Enters, Approved
  <2> QED BY <2>1, <2>2, <2>3 DEF Enters
<1>6. Enters(inp, j) => Size(inp, j) \in Nat
  BY SizeWithinCaps, SizesAssumption DEF Enters
<1> QED BY <1>4, <1>5, <1>6 DEF Offered

-----------------------------------------------------------------------------
(* The positions                                                           *)

\* No step leaves the caps: an entry is trimmed to them, nothing else adds.
LEMMA NextWithin == Typed /\ Within /\ [Next]_vars => (Typed /\ Within)'
<1> SUFFICES ASSUME Typed, Within, [Next]_vars PROVE (Typed /\ Within)'
  OBVIOUS
<1>0. IsFiniteSet(OpenMints) /\ Cardinality(OpenMints) \in Nat
      /\ MinUseful \in Nat \ {0} /\ MaxConcurrent \in Nat
      /\ MaxGlobalExposure \in Nat
  BY MintsAssumption, SizesAssumption, FS_Subset, FS_CardinalityType DEF OpenMints
<1>1. ASSUME NEW m \in Mints, NEW inp \in Tokens, Enter(m, inp)
      PROVE  (Typed /\ Within)'
  <2>1. /\ Size(inp, infra) \in MinUseful..MaxPosition
        /\ total_exposure_sol + Size(inp, infra) <= MaxGlobalExposure
    BY <1>1, SizeWithinCaps DEF Enter, Enters, Typed
  <2>2. ~in_position[m] /\ Cardinality(OpenMints) < MaxConcurrent
    BY <1>1 DEF Enter, Enters, Approved, current_open_positions, OpenMints
  <2>3. OpenMints' = OpenMints \cup {m}
    BY <1>1 DEF Enter, OpenMints, Typed
  <2>4. Cardinality(OpenMints') <= MaxConcurrent
    <3>1. m \notin OpenMints
      BY <2>2 DEF OpenMints
    <3>2. Cardinality(OpenMints \cup {m}) = Cardinality(OpenMints) + 1
      BY <1>0, <3>1, FS_AddElement
    <3>3. Cardinality(OpenMints \cup {m}) <= MaxConcurrent
      BY <1>0, <2>2, <3>2
    <3> QED BY <2>3, <3>3
  <2>5. Typed'
    BY <1>0, <1>1, <2>1 DEF Enter, Typed
  <2>6. \A n \in Mints : in_position'[n] => size'[n] \in MinUseful..MaxPosition
    BY <1>1, <2>1 DEF Enter, Typed, Within
  <2>7. total_exposure_sol' <= MaxGlobalExposure
    BY <1>1, <2>1 DEF Enter
  <2> QED BY <2>4, <2>5, <2>6, <2>7 DEF Within
<1>2. ASSUME NEW m \in Mints, NEW inp \in ExitInputs, EvaluateExit(m, inp)
      PROVE  (Typed /\ Within)'
  <2>1. CASE Close(m, inp)
    <3>1. OpenMints' = OpenMints \ {m}
      BY <2>1 DEF Close, OpenMints, Typed
    <3>2. Cardinality(OpenMints') <= MaxConcurrent
      BY <3>1, <1>0, FS_RemoveElement DEF Within
    <3>3. size[m] \in Nat
      BY <1>0, <1>2 DEF EvaluateExit, Within
    <3>4. total_exposure_sol' <= MaxGlobalExposure
          /\ total_exposure_sol' \in Int
      BY <1>0, <2>1, <3>3 DEF Close, Within, Typed
    <3>5. Typed'
      BY <1>2, <2>1, <3>4 DEF EvaluateExit, Close, Typed
    <3> QED BY <2>1, <3>2, <3>4, <3>5 DEF Close, Within, Typed
  <2>2. CASE Keep(m, inp)
    BY <1>2, <2>2 DEF EvaluateExit, Keep, Within, Typed, OpenMints
  <2> QED BY <1>2, <2>1, <2>2 DEF EvaluateExit
<1>3. ASSUME NEW m \in Mints, TimePasses(m) PROVE (Typed /\ Within)'
  BY <1>3 DEF TimePasses, Typed, Within, OpenMints
<1>4. CASE InfraChanges
  BY <1>4 DEF InfraChanges, positionVars, Typed, Within, OpenMints
<1>5. CASE UNCHANGED vars
  BY <1>5 DEF vars, positionVars, Typed, Within, OpenMints
<1> QED BY <1>1, <1>2, <1>3, <1>4, <1>5 DEF Next

AgesTyped == age \in [Mints -> Ages]

LEMMA AgesStayTyped == Spec => []AgesTyped
<1>1. Init => AgesTyped
  BY ValuesAssumption DEF Init, AgesTyped
<1>2. AgesTyped /\ [Next]_vars => AgesTyped'
  BY ValuesAssumption DEF AgesTyped, Next, Enter, EvaluateExit, Close, Keep, TimePasses,
     InfraChanges, vars, positionVars
<1> QED BY <1>1, <1>2, PTL DEF Spec

\* The caps hold in every state the positions can reach.
LEMMA AlwaysWithin == Spec => [](Typed /\ Within)
<1>1. Init => Typed /\ Within
  <2> SUFFICES ASSUME Init PROVE Typed /\ Within
    OBVIOUS
  <2>1. OpenMints = {} /\ Typed
    BY DEF Init, OpenMints, Typed
  <2> QED BY <2>1, FS_EmptySet, SizesAssumption DEF Init, Within
<1> QED BY <1>1, NextWithin, PTL DEF Spec

\* The sizes approved stay within the caps, however entries and exits alternate.
THEOREM ExposureStaysCapped == Spec => []ExposureCapped
<1>1. Within => ExposureCapped
  BY DEF Within, ExposureCapped, current_open_positions, OpenMints
<1> QED BY <1>1, AlwaysWithin, PTL

\* A position past its time stop is closed at the next evaluation or at the one
\* after: the partial target, the only check before the time stop that keeps a
\* position open, fires once.
THEOREM OverdueIsClosed == Spec => []OverdueClosedSoon
<1>1. Init => Overdue
  BY DEF Init, Overdue
<1>2. Typed /\ Overdue /\ AgesTyped /\ [Next]_vars => Overdue'
  <2> SUFFICES ASSUME Typed, Overdue, AgesTyped, [Next]_vars
               PROVE  Overdue'
    OBVIOUS
  <2> USE ValuesAssumption DEF Overdue, Typed, AgesTyped, time_stop
  <2>1. ASSUME NEW m \in Mints, NEW inp \in Tokens, Enter(m, inp)
        PROVE  Overdue'
    BY <2>1 DEF Enter
  <2>2. ASSUME NEW m \in Mints, NEW inp \in ExitInputs, EvaluateExit(m, inp)
        PROVE  Overdue'
    <3>1. CASE Close(m, inp)
      BY <3>1 DEF Close
    <3>2. CASE Keep(m, inp)
      <4>1. TimeStop(m) => /\ ~partial_exit_done[m]
                           /\ partial_exit_done'[m]
        BY <3>2 DEF Keep, Verdict, PartialTarget
      <4>2. late'[m] = IF TimeStop(m) THEN late[m] + 1 ELSE late[m]
        BY <3>2 DEF Keep
      <4>3. partial_exit_done[m] => partial_exit_done'[m]
        BY <3>2 DEF Keep
      <4> QED BY <3>2, <4>1, <4>2, <4>3 DEF Keep, TimeStop
    <3> QED BY <2>2, <3>1, <3>2 DEF EvaluateExit
  <2>3. ASSUME NEW m \in Mints, TimePasses(m) PROVE Overdue'
    <3>1. PICK later \in Ages : later > age[m] /\ age' = [age EXCEPT ![m] = later]
      BY <2>3 DEF TimePasses
    <3>2. /\ late' = late /\ partial_exit_done' = partial_exit_done
          /\ later \in Nat /\ age[m] \in Nat
      BY <2>3 DEF TimePasses
    <3>3. \A n \in Mints : age[n] > time_stop => age'[n] > time_stop
      BY <3>1, <3>2
    <3> QED BY <3>2, <3>3
  <2>4. CASE InfraChanges \/ UNCHANGED vars
    BY <2>4 DEF InfraChanges, vars, positionVars
  <2> QED BY <2>1, <2>2, <2>3, <2>4 DEF Next
<1>3. Overdue => OverdueClosedSoon
  BY DEF Overdue, OverdueClosedSoon
<1> QED BY <1>1, <1>2, <1>3, AgesStayTyped, AlwaysWithin, PTL DEF Spec

\* Types of the variables.
THEOREM StrategyTypeCorrect == Spec => []TypeOK
<1>1. Typed /\ AgesTyped => TypeOK
  BY DEF Typed, AgesTyped, TypeOK
<1> QED BY <1>1, AlwaysWithin, AgesStayTyped, PTL

\* Whatever the token, the profile's thresholds and the sizes of the profile, a
\* worse infrastructure is never offered a larger position: gates, score and
\* size all shrink with it.
THEOREM WorseInfraShrinks == Spec => []WorseInfraNeverBigger
<1>1. Typed => WorseInfraNeverBigger
  BY OfferMonotone DEF Typed, WorseInfraNeverBigger
<1> QED BY <1>1, AlwaysWithin, PTL

=============================================================================
