------------------------------ MODULE Listener ------------------------------
(***************************************************************************)
(* The legacy listeners: SolanaStreamer (src/ingestion/stream.py), a       *)
(* WebSocket subscription, and GeyserStreamer (src/ingestion/geyser.py),   *)
(* a gRPC subscription.  Each call of start_streaming is a loop of its own *)
(* that connects, receives, dispatches and, after a failure, waits and     *)
(* tries again; all loops of a streamer share its flag running, which a    *)
(* loop looks at only at certain points.  What a loop does between two     *)
(* awaits is one action.                                                   *)
(***************************************************************************)
EXTENDS Naturals, FiniteSets

CONSTANTS
    Loops,          \* calls of start_streaming
    Kinds,          \* streamers considered: "websocket", "geyser"
    MaxBackoff,     \* 60 in the code
    ProtoAvailable, \* the gRPC stubs were generated
    MaxMisses       \* bound: failures in a row that are told apart

ASSUME KindsAssumption == Kinds \subseteq {"websocket", "geyser"}
ASSUME ListenerAssumption == /\ MaxBackoff \in Nat \ {0}
                             /\ ProtoAvailable \in BOOLEAN
                             /\ MaxMisses \in Nat \ {0}
\* Failures are told apart at least until the wait is the longest one.
ASSUME MissesAssumption == 2 ^ (MaxMisses - 1) >= MaxBackoff

VARIABLES
    kind,       \* which streamer
    running,
    place,      \* what each loop awaits: "closing" is the exit of async with,
                \* which after an exception is a part of "backing_off"
    backoff,    \* of each loop
    misses,     \* history: failures of each loop since its connect succeeded
    late        \* history: messages each loop has dispatched after the stop

loopVars == <<place, backoff, misses>>
vars == <<kind, running, loopVars, late>>

Init ==
    /\ kind \in Kinds
    /\ running = FALSE
    /\ place = [l \in Loops |-> "idle"]
    /\ backoff = [l \in Loops |-> 1]
    /\ misses = [l \in Loops |-> 0]
    /\ late = [l \in Loops |-> 0]

-----------------------------------------------------------------------------

Smaller(a, b) == IF a < b THEN a ELSE b

Goes(l, where, delay, missed) ==
    /\ place' = [place EXCEPT ![l] = where]
    /\ backoff' = [backoff EXCEPT ![l] = delay]
    /\ misses' = [misses EXCEPT ![l] = Smaller(missed, MaxMisses)]

Stays(l, where) == Goes(l, where, backoff[l], misses[l])

\* Any exception: the loop closes what it has opened and sleeps for the backoff
\* it has; it looks at nothing between the two.
Fails(l, delay, missed) == Goes(l, "backing_off", delay, missed + 1)

\* A WebSocket connection is awaited.  A gRPC channel and its call are made
\* without waiting for the server: the backoff is reset before any answer,
\* whether or not there will be one, and only the making of them can raise here.
Attempt(l, delay) ==
    \/ kind = "websocket" /\ Goes(l, "connecting", delay, misses[l])
    \/ kind = "geyser" /\ Goes(l, "receiving", 1, misses[l])
    \/ kind = "geyser" /\ Fails(l, delay, misses[l])

\* Mutant: the outer loop does not look at running.
NextTurnAlways(l, delay) == Attempt(l, delay)

\* The outer loop: while self.running
NextTurn(l, delay) ==
    \/ running /\ Attempt(l, delay)
    \/ ~running /\ Goes(l, "ended", delay, misses[l])

StartStreaming(l) ==
    /\ place[l] = "idle" /\ (kind = "geyser" => ProtoAvailable)
    /\ running' = TRUE
    /\ late' = [k \in Loops |-> 0]
    /\ Attempt(l, 1)
    /\ UNCHANGED kind

Stop ==
    /\ running /\ running' = FALSE
    /\ UNCHANGED <<kind, loopVars, late>>

\* Mutant: the backoff of the failures before a connection is kept.
ConnectedKeepingBackoff(l) == Goes(l, "subscribing", backoff[l], 0)

Connected(l) == Goes(l, "subscribing", 1, 0)

\* websockets.connect, which gives up after its time limit
ConnectEnds(l) ==
    /\ place[l] = "connecting"
    /\ Connected(l) \/ Fails(l, backoff[l], misses[l])
    /\ UNCHANGED <<kind, running, late>>

\* The send of the subscription, then the first look at running.
SubscribeEnds(l) ==
    /\ place[l] = "subscribing"
    /\ \/ running /\ Stays(l, "receiving")
       \/ ~running /\ Stays(l, "closing")
       \/ Fails(l, backoff[l], misses[l])
    /\ UNCHANGED <<kind, running, late>>

\* Mutant: no streamer looks at running between a message and its dispatch.
DispatchesAlways == TRUE

\* The gRPC loop drops a message that comes after the stop and leaves.
Dispatches == kind = "geyser" => running

\* A message that is dispatched, or one without anything to dispatch, after
\* which the loop looks at running.
Receive(l) ==
    /\ place[l] = "receiving"
    /\ \/ /\ Dispatches /\ Stays(l, "dispatching")
          /\ late' = [late EXCEPT ![l] = @ + IF running THEN 0 ELSE 1]
       \/ /\ ~running /\ Stays(l, "closing")
          /\ UNCHANGED late
    /\ UNCHANGED <<kind, running>>

\* Exceptions of asynchronous handlers are swallowed, one of a synchronous
\* handler costs the connection.
DispatchEnds(l) ==
    /\ place[l] = "dispatching"
    /\ \/ (running \/ kind = "geyser") /\ Stays(l, "receiving")
       \/ ~running /\ kind = "websocket" /\ Stays(l, "closing")
       \/ Fails(l, backoff[l], misses[l])
    /\ UNCHANGED <<kind, running, late>>

\* The connection is lost, or a message cannot be read.
StreamFails(l) ==
    /\ place[l] = "receiving"
    /\ Fails(l, backoff[l], misses[l])
    /\ UNCHANGED <<kind, running, late>>

\* The server ends the gRPC stream in order: no exception, hence no sleep.
StreamEnds(l) ==
    /\ place[l] = "receiving" /\ kind = "geyser"
    /\ Stays(l, "closing")
    /\ UNCHANGED <<kind, running, late>>

\* The connection is closed, or closing it raised.  The outer loop looks at
\* running only now: a start meanwhile has revived a loop that was leaving.
CloseEnds(l) ==
    /\ place[l] = "closing"
    /\ NextTurn(l, backoff[l]) \/ Fails(l, backoff[l], misses[l])
    /\ UNCHANGED <<kind, running, late>>

Wakes(l) ==
    /\ place[l] = "backing_off"
    /\ NextTurn(l, Smaller(backoff[l] * 2, MaxBackoff))
    /\ UNCHANGED <<kind, running, late>>

LoopStep(l) == ConnectEnds(l) \/ SubscribeEnds(l) \/ DispatchEnds(l)
               \/ CloseEnds(l) \/ Wakes(l)

Next ==
    \/ Stop
    \/ \E l \in Loops : \/ StartStreaming(l) \/ LoopStep(l)
                        \/ Receive(l) \/ StreamFails(l) \/ StreamEnds(l)

\* Connecting and closing have time limits, a send, the handlers and a sleep
\* end.  Messages and the end of a connection are up to the server.
Fairness == \A l \in Loops : WF_vars(LoopStep(l))

Spec == Init /\ [][Next]_vars
FairSpec == Spec /\ Fairness

-----------------------------------------------------------------------------
(* Properties                                                              *)

\* Types of the variables.
TypeOK ==
    /\ kind \in Kinds
    /\ running \in BOOLEAN
    /\ place \in [Loops -> {"idle", "connecting", "subscribing", "receiving",
                            "dispatching", "closing", "backing_off", "ended"}]
    /\ backoff \in [Loops -> 1 .. MaxBackoff]
    /\ misses \in [Loops -> 0 .. MaxMisses]
    /\ late \in [Loops -> Nat]

Waiting(l) == place[l] = "backing_off"

\* The wait of a WebSocket loop after a failure doubles with every failed
\* attempt to connect, up to the limit, and is the shortest one again for a loop
\* that had connected.  A gRPC loop keeps no such promise (geyser.py:86).
RetryDelays ==
    kind = "websocket" => \A l \in Loops : Waiting(l) =>
        backoff[l] = Smaller(2 ^ (misses[l] - 1), MaxBackoff)

\* While the streamer is stopped a WebSocket loop dispatches at most the one
\* message it was waiting for, a gRPC loop none, however they fail and retry.
AtMostOneLate ==
    ~running => \A l \in Loops : late[l] <= IF kind = "websocket" THEN 1 ELSE 0

\* A loop that is stopped ends, unless the streamer is started again or the
\* server sends nothing and keeps the connection.
StopNoticed ==
    \A l \in Loops : (~running /\ place[l] # "idle")
        ~> (running \/ place[l] \in {"ended", "receiving"})

=============================================================================
