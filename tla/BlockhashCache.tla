-------------------------- MODULE BlockhashCache --------------------------
(***************************************************************************)
(* Executor.get_recent_blockhash (src/execution/executor.py): a blockhash  *)
(* is served from the cache while it is younger than two seconds and       *)
(* fetched otherwise.  Fetches of several executions may overlap, and each *)
(* writes the cache when its own reply comes.                              *)
(*                                                                         *)
(* A blockhash is named by the time the cluster made it.                   *)
(***************************************************************************)
EXTENDS Integers

CONSTANTS
    Callers,    \* executions that ask for a blockhash
    FreshFor,   \* 2.0 seconds in the code
    Default,    \* Hash.default()
    MaxTime     \* bound: the clock stops here

ASSUME FreshForAssumption == FreshFor \in Nat \ {0}
ASSUME TimeAssumption == MaxTime \in Nat
ASSUME DefaultAssumption == Default \notin Nat

VARIABLES
    now,
    cached_blockhash, cached_blockhash_time,
    asked,      \* when each fetch was begun: the local variable now
    response,   \* external: the hash each reply under way carries
    at,         \* where each caller is
    used        \* what each caller was last given, how and when

fetchVars == <<asked, response>>
cacheVars == <<cached_blockhash, cached_blockhash_time>>
vars == <<now, cacheVars, fetchVars, at, used>>

Init ==
    /\ now = 0
    /\ cached_blockhash = Default /\ cached_blockhash_time = 0
    /\ asked = [c \in Callers |-> 0]
    /\ response = [c \in Callers |-> Default]
    /\ at = [c \in Callers |-> "idle"]
    /\ used = [c \in Callers |-> [hash |-> Default, how |-> "none", time |-> 0]]

Returns(c, hash, how) ==
    /\ at' = [at EXCEPT ![c] = "idle"]
    /\ used' = [used EXCEPT ![c] = [hash |-> hash, how |-> how, time |-> now]]

CacheFresh ==
    /\ cached_blockhash # Default
    /\ now - cached_blockhash_time < FreshFor

Hit(c) ==
    /\ at[c] = "idle" /\ CacheFresh
    /\ Returns(c, cached_blockhash, "hit")
    /\ UNCHANGED <<now, cacheVars, fetchVars>>

Miss(c) ==
    /\ at[c] = "idle" /\ ~CacheFresh
    /\ at' = [at EXCEPT ![c] = "asking"]
    /\ asked' = [asked EXCEPT ![c] = now]
    /\ UNCHANGED <<now, cacheVars, response, used>>

\* external: the RPC node answers with the latest blockhash; the reply travels
Answer(c) ==
    /\ at[c] = "asking"
    /\ at' = [at EXCEPT ![c] = "answered"]
    /\ response' = [response EXCEPT ![c] = now]
    /\ UNCHANGED <<now, cacheVars, asked, used>>

\* Mutant: the cache is stamped with the time of the reply.
StampOfReply(c) == now

\* The time stored is the one read before the await.
Stamp(c) == asked[c]

Fetched(c) ==
    /\ at[c] = "answered"
    /\ cached_blockhash' = response[c]
    /\ cached_blockhash_time' = Stamp(c)
    /\ Returns(c, response[c], "fetched")
    /\ UNCHANGED <<now, fetchVars>>

\* The RPC raises or answers with nothing: whatever is cached is returned, or
\* the default hash.
FetchFails(c) ==
    /\ at[c] \in {"asking", "answered"}
    /\ Returns(c, cached_blockhash, "fallback")
    /\ UNCHANGED <<now, cacheVars, fetchVars>>

Tick ==
    /\ now < MaxTime /\ now' = now + 1
    /\ UNCHANGED <<cacheVars, fetchVars, at, used>>

Next ==
    \/ \E c \in Callers : \/ Hit(c) \/ Miss(c) \/ Answer(c)
                          \/ Fetched(c) \/ FetchFails(c)
    \/ Tick

Spec == Init /\ [][Next]_vars

-----------------------------------------------------------------------------
(* Properties                                                              *)

Hashes == Nat \cup {Default}

\* Types of the variables.
TypeOK ==
    /\ now \in Nat
    /\ cached_blockhash \in Hashes /\ cached_blockhash_time \in Nat
    /\ asked \in [Callers -> Nat]
    /\ response \in [Callers -> Hashes]
    /\ at \in [Callers -> {"idle", "asking", "answered"}]
    /\ used \in [Callers -> [hash : Hashes, time : Nat,
                             how : {"none", "hit", "fetched", "fallback"}]]

\* A blockhash served from the cache was made less than FreshFor ago, however
\* the fetches of several executions overlap and however late a reply comes.
HitsAreFresh ==
    \A c \in Callers : used[c].how = "hit" =>
        /\ used[c].hash \in Nat
        /\ used[c].time - used[c].hash < FreshFor

=============================================================================
