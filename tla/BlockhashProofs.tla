-------------------------- MODULE BlockhashProofs --------------------------
(***************************************************************************)
(* Proofs about BlockhashCache, for any number of callers and any limit on *)
(* the age of a cached blockhash.                                          *)
(***************************************************************************)
EXTENDS BlockhashCache, TLAPS

\* A reply carries a blockhash made after it was asked for, so the time kept
\* with the cached blockhash is never later than the blockhash.
Ages ==
    /\ TypeOK
    /\ \A c \in Callers : /\ asked[c] <= now
                          /\ at[c] = "answered" => /\ response[c] \in Nat
                                                   /\ asked[c] <= response[c]
    /\ cached_blockhash # Default => cached_blockhash_time <= cached_blockhash

\* Every step keeps the ages and serves no old blockhash from the cache.
LEMMA NextAges == Ages /\ HitsAreFresh /\ [Next]_vars => (Ages /\ HitsAreFresh)'
<1> SUFFICES ASSUME Ages, HitsAreFresh, [Next]_vars
             PROVE  (Ages /\ HitsAreFresh)'
  OBVIOUS
<1> USE FreshForAssumption, DefaultAssumption
    DEF Ages, TypeOK, HitsAreFresh, Hashes, cacheVars, fetchVars
<1>1. ASSUME NEW c \in Callers, Hit(c) PROVE (Ages /\ HitsAreFresh)'
  BY <1>1 DEF Hit, CacheFresh, Returns
<1>2. ASSUME NEW c \in Callers, Miss(c) PROVE (Ages /\ HitsAreFresh)'
  BY <1>2 DEF Miss
<1>3. ASSUME NEW c \in Callers, Answer(c) PROVE (Ages /\ HitsAreFresh)'
  BY <1>3 DEF Answer
<1>4. ASSUME NEW c \in Callers, Fetched(c) PROVE (Ages /\ HitsAreFresh)'
  BY <1>4 DEF Fetched, Returns, Stamp
<1>5. ASSUME NEW c \in Callers, FetchFails(c) PROVE (Ages /\ HitsAreFresh)'
  BY <1>5 DEF FetchFails, Returns
<1>6. CASE Tick
  BY <1>6 DEF Tick
<1>7. CASE UNCHANGED vars
  BY <1>7 DEF vars
<1> QED BY <1>1, <1>2, <1>3, <1>4, <1>5, <1>6, <1>7 DEF Next

\* The cache and what the callers were given, in every reachable state.
LEMMA AlwaysFresh == Spec => [](Ages /\ HitsAreFresh)
<1>1. Init => Ages /\ HitsAreFresh
  BY FreshForAssumption, DefaultAssumption
  DEF Init, Ages, TypeOK, HitsAreFresh, Hashes
<1> QED BY <1>1, NextAges, PTL DEF Spec

\* The variables of the cache keep their types.
THEOREM TypeCorrect == Spec => []TypeOK
  BY AlwaysFresh, PTL DEF Ages

\* A blockhash served from the cache is younger than the limit, whatever the
\* order in which overlapping fetches of other executions end.
THEOREM CacheServesFresh == Spec => []HitsAreFresh
  BY AlwaysFresh, PTL

=============================================================================
