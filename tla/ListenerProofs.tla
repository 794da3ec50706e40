--------------------------- MODULE ListenerProofs ---------------------------
(***************************************************************************)
(* Proofs about Listener, for any number of loops and any longest wait.    *)
(***************************************************************************)
EXTENDS Listener, NumberLemmas, TLAPS

Places == {"idle", "connecting", "subscribing", "receiving", "dispatching",
           "closing", "backing_off", "ended"}

\* What a step of a loop does to its own place, wait and misses stays typed.
LEMMA GoesTyped ==
  ASSUME TypeOK, NEW l \in Loops, NEW where \in Places,
         NEW delay \in 1 .. MaxBackoff, NEW missed \in Nat, Goes(l, where, delay, missed)
  PROVE  /\ place' \in [Loops -> Places]
         /\ backoff' \in [Loops -> 1 .. MaxBackoff]
         /\ misses' \in [Loops -> 0 .. MaxMisses]
<1>1. Smaller(missed, MaxMisses) \in 0 .. MaxMisses
  BY ListenerAssumption DEF Smaller
<1> QED BY <1>1 DEF Goes, TypeOK, Places

\* The next turn of the outer loop ends the loop or tries to connect.
LEMMA NextTurnTyped ==
  ASSUME TypeOK, NEW l \in Loops, NEW delay \in 1 .. MaxBackoff,
         NextTurn(l, delay) \/ Attempt(l, delay)
  PROVE  /\ place' \in [Loops -> Places]
         /\ backoff' \in [Loops -> 1 .. MaxBackoff]
         /\ misses' \in [Loops -> 0 .. MaxMisses]
<1>1. /\ misses[l] \in Nat /\ misses[l] + 1 \in Nat /\ 0 \in Nat
      /\ 1 \in 1 .. MaxBackoff
  BY ListenerAssumption DEF TypeOK
<1>2. \E where \in Places, d \in 1 .. MaxBackoff, n \in Nat : Goes(l, where, d, n)
  BY <1>1 DEF NextTurn, Attempt, Fails, Places
<1> QED BY <1>2, GoesTyped

\* The listener starts with values of their types.
LEMMA InitTyped == Init => TypeOK
<1> SUFFICES ASSUME Init PROVE TypeOK
  OBVIOUS
<1>1. 1 \in 1 .. MaxBackoff /\ 0 \in 0 .. MaxMisses
  BY ListenerAssumption
<1>2. kind \in Kinds /\ running \in BOOLEAN
  BY DEF Init
<1>3. place \in [Loops -> Places] /\ late \in [Loops -> Nat]
  BY DEF Init, Places
<1>4. backoff \in [Loops -> 1 .. MaxBackoff] /\ misses \in [Loops -> 0 .. MaxMisses]
  BY <1>1 DEF Init
<1> QED BY <1>2, <1>3, <1>4 DEF TypeOK, Places

\* One step per action.
LEMMA TypeStep == TypeOK /\ [Next]_vars => TypeOK'
<1> SUFFICES ASSUME TypeOK, [Next]_vars PROVE TypeOK'
  OBVIOUS
<1> DEFINE LoopTypes == /\ place' \in [Loops -> Places]
                        /\ backoff' \in [Loops -> 1 .. MaxBackoff]
                        /\ misses' \in [Loops -> 0 .. MaxMisses]
<1>0. \A l \in Loops : /\ backoff[l] \in 1 .. MaxBackoff
                       /\ misses[l] \in Nat /\ misses[l] + 1 \in Nat
  BY ListenerAssumption DEF TypeOK
<1>1. ASSUME NEW l \in Loops, StartStreaming(l) PROVE TypeOK'
  <2>1. LoopTypes
    BY <1>1, NextTurnTyped, ListenerAssumption DEF StartStreaming
  <2> QED BY <1>1, <2>1 DEF StartStreaming, TypeOK, Places
<1>2. ASSUME NEW l \in Loops, LoopStep(l) PROVE TypeOK'
  <2>1. CASE Wakes(l)
    <3>1. Smaller(backoff[l] * 2, MaxBackoff) \in 1 .. MaxBackoff
      BY <1>0, ListenerAssumption DEF Smaller
    <3>2. LoopTypes
      BY <2>1, <3>1, NextTurnTyped DEF Wakes
    <3> QED BY <2>1, <3>2 DEF Wakes, TypeOK, Places
  <2>2. CASE CloseEnds(l)
    <3>1. CASE NextTurn(l, backoff[l])
      <4>1. LoopTypes
        BY <1>0, <3>1, NextTurnTyped
      <4> QED BY <2>2, <4>1 DEF CloseEnds, TypeOK, Places
    <3>2. CASE Goes(l, "backing_off", backoff[l], misses[l] + 1)
      <4>1. LoopTypes
        BY <1>0, <3>2, GoesTyped DEF Places
      <4> QED BY <2>2, <4>1 DEF CloseEnds, TypeOK, Places
    <3> QED BY <2>2, <3>1, <3>2 DEF CloseEnds, Fails
  <2>3. CASE ConnectEnds(l) \/ SubscribeEnds(l) \/ DispatchEnds(l)
    <3>1. \E where \in Places, d \in 1 .. MaxBackoff, n \in Nat : Goes(l, where, d, n)
      BY <1>0, <2>3, ListenerAssumption DEF ConnectEnds, SubscribeEnds, DispatchEnds,
         Connected, Fails, Stays, Places
    <3>2. LoopTypes
      BY <3>1, GoesTyped
    <3> QED BY <2>3, <3>2
            DEF ConnectEnds, SubscribeEnds, DispatchEnds, TypeOK, Places
  <2> QED BY <1>2, <2>1, <2>2, <2>3 DEF LoopStep
<1>3. ASSUME NEW l \in Loops, Receive(l) PROVE TypeOK'
  <2>1. \E where \in Places : Goes(l, where, backoff[l], misses[l])
    BY <1>3 DEF Receive, Stays, Places
  <2>2. LoopTypes
    BY <1>0, <2>1, GoesTyped
  <2>3. late' \in [Loops -> Nat]
    BY <1>3 DEF Receive, TypeOK
  <2> QED BY <1>3, <2>2, <2>3 DEF Receive, TypeOK, Places
<1>4. ASSUME NEW l \in Loops, StreamFails(l) PROVE TypeOK'
  <2>1. Goes(l, "backing_off", backoff[l], misses[l] + 1)
    BY <1>4 DEF StreamFails, Fails
  <2>2. LoopTypes
    BY <1>0, <2>1, GoesTyped DEF Places
  <2> QED BY <1>4, <2>2 DEF StreamFails, TypeOK, Places
<1>5. ASSUME NEW l \in Loops, StreamEnds(l) PROVE TypeOK'
  <2>1. Goes(l, "closing", backoff[l], misses[l])
    BY <1>5 DEF StreamEnds, Stays
  <2>2. LoopTypes
    BY <1>0, <2>1, GoesTyped DEF Places
  <2> QED BY <1>5, <2>2 DEF StreamEnds, TypeOK, Places
<1>6. CASE Stop
  BY <1>6 DEF Stop, loopVars, TypeOK
<1>7. CASE UNCHANGED vars
  BY <1>7 DEF vars, loopVars, TypeOK
<1> QED BY <1>1, <1>2, <1>3, <1>4, <1>5, <1>6, <1>7 DEF Next

\* Types of the variables.
THEOREM ListenerTypeCorrect == Spec => []TypeOK
<1>1. Init => TypeOK
  BY InitTyped
<1> QED BY <1>1, TypeStep, PTL DEF Spec

\* Where a loop can be that dispatched a message after the stop: on its way to
\* its end, never again before a message.
LateInv ==
    \A l \in Loops :
        /\ running => late[l] = 0
        /\ kind = "geyser" => late[l] = 0
        /\ late[l] <= 1
        /\ late[l] = 1 =>
              place[l] \in {"dispatching", "closing", "backing_off", "ended"}

\* Every step keeps it.
LEMMA LateStep == TypeOK /\ LateInv /\ [Next]_vars => LateInv'
<1> SUFFICES ASSUME TypeOK, LateInv, [Next]_vars PROVE LateInv'
  OBVIOUS
<1> USE KindsAssumption DEF LateInv, TypeOK
<1>1. ASSUME NEW l \in Loops, StartStreaming(l) PROVE LateInv'
  BY <1>1 DEF StartStreaming
<1>2. ASSUME NEW l \in Loops, LoopStep(l) PROVE LateInv'
  <2>1. CASE Wakes(l)
    BY <2>1 DEF Wakes, NextTurn, Goes, Attempt, Fails
  <2>2. CASE ConnectEnds(l)
    BY <2>2 DEF ConnectEnds, Goes, Connected, Fails
  <2>3. CASE SubscribeEnds(l)
    BY <2>3 DEF SubscribeEnds, Goes, Stays, Fails
  <2>4. CASE DispatchEnds(l)
    BY <2>4 DEF DispatchEnds, Goes, Stays, Fails
  <2>5. CASE CloseEnds(l)
    BY <2>5 DEF CloseEnds, NextTurn, Goes, Attempt, Fails
  <2> QED BY <1>2, <2>1, <2>2, <2>3, <2>4, <2>5 DEF LoopStep
<1>3. ASSUME NEW l \in Loops, Receive(l) PROVE LateInv'
  <2>1. late[l] = 0
    BY <1>3 DEF Receive
  <2>2. CASE /\ Dispatches /\ Stays(l, "dispatching")
             /\ late' = [late EXCEPT ![l] = @ + IF running THEN 0 ELSE 1]
    BY <1>3, <2>1, <2>2 DEF Receive, Dispatches, Stays, Goes
  <2>3. CASE ~running /\ Stays(l, "closing") /\ UNCHANGED late
    BY <1>3, <2>3 DEF Receive, Stays, Goes
  <2> QED BY <1>3, <2>2, <2>3 DEF Receive
<1>4. ASSUME NEW l \in Loops, StreamFails(l) PROVE LateInv'
  BY <1>4 DEF StreamFails, Fails, Goes
<1>5. ASSUME NEW l \in Loops, StreamEnds(l) PROVE LateInv'
  BY <1>5 DEF StreamEnds, Stays, Goes
<1>6. CASE Stop
  BY <1>6 DEF Stop, loopVars
<1>7. CASE UNCHANGED vars
  BY <1>7 DEF vars, loopVars
<1> QED BY <1>1, <1>2, <1>3, <1>4, <1>5, <1>6, <1>7 DEF Next

\* Of any number of loops that are stopped together each dispatches at most the
\* one message it was waiting for, and none of a gRPC streamer does.
THEOREM LateMessages == Spec => []AtMostOneLate
<1>1. Init => TypeOK /\ LateInv
  BY InitTyped DEF Init, LateInv
<1>2. TypeOK /\ LateInv => AtMostOneLate
  BY KindsAssumption DEF TypeOK, LateInv, AtMostOneLate
<1> QED BY <1>1, <1>2, TypeStep, LateStep, PTL DEF Spec

-----------------------------------------------------------------------------
(* The waits                                                               *)

\* The wait after n doublings.
Delay(n) == Smaller(2 ^ n, MaxBackoff)

\* A failure more than are told apart leaves the wait the longest one.
LEMMA FailureDelay ==
  ASSUME NEW n \in 0 .. MaxMisses
  PROVE  Delay(n) = Delay(Smaller(n + 1, MaxMisses) - 1)
<1>1. CASE n < MaxMisses
  <2>1. Smaller(n + 1, MaxMisses) - 1 = n
    BY <1>1, ListenerAssumption DEF Smaller
  <2> QED BY <2>1
<1>2. CASE n = MaxMisses
  <2> DEFINE p == 2 ^ (n - 1)
             q == 2 ^ n
  <2>1. n - 1 \in Nat /\ n = n - 1 + 1 /\ Smaller(n + 1, MaxMisses) - 1 = n - 1
    BY <1>2, ListenerAssumption DEF Smaller
  <2>2. p \in Nat /\ q = 2 * p /\ p >= MaxBackoff /\ MaxBackoff \in Nat
    BY <1>2, <2>1, PowerDoubles, MissesAssumption, ListenerAssumption
  <2> HIDE DEF p, q
  <2>3. Smaller(p, MaxBackoff) = Smaller(q, MaxBackoff)
    BY <2>2 DEF Smaller
  <2> QED BY <2>1, <2>3 DEF Delay, p, q
<1> QED BY <1>1, <1>2, ListenerAssumption

\* Doubling the wait and cutting it at the longest is doubling it once more.
LEMMA DelayDoubles ==
  ASSUME NEW n \in Nat
  PROVE  Smaller(Delay(n) * 2, MaxBackoff) = Delay(n + 1)
<1> DEFINE p == 2 ^ n
           q == 2 ^ (n + 1)
<1>1. p \in Nat /\ q = 2 * p /\ MaxBackoff \in Nat \ {0}
  BY PowerDoubles, ListenerAssumption
<1> HIDE DEF p, q
<1>2. Smaller(Smaller(p, MaxBackoff) * 2, MaxBackoff) = Smaller(q, MaxBackoff)
  BY <1>1 DEF Smaller
<1> QED BY <1>2 DEF Delay, p, q

\* The first retry waits a second.
LEMMA DelayOfZero == Delay(0) = 1
  BY PowerOfZero, ListenerAssumption DEF Delay, Smaller

\* What the wait of a WebSocket loop is, by where the loop is: it counts the
\* failures since the last connection, the one being waited for excepted.
Delayed(l) ==
    /\ place[l] = "idle" => misses[l] = 0
    /\ place[l] = "connecting" => backoff[l] = Delay(misses[l])
    /\ place[l] \in {"subscribing", "receiving", "dispatching", "closing"}
           => backoff[l] = 1 /\ misses[l] = 0
    /\ place[l] = "backing_off"
           => misses[l] >= 1 /\ backoff[l] = Delay(misses[l] - 1)

AllDelayed == TypeOK /\ kind = "websocket" /\ \A l \in Loops : Delayed(l)

\* A loop that goes somewhere leaves the others alone.
LEMMA OthersDelayed ==
  ASSUME AllDelayed, NEW l \in Loops, NEW where, NEW delay, NEW missed,
         Goes(l, where, delay, missed), Delayed(l)'
  PROVE  \A k \in Loops : Delayed(k)'
<1> SUFFICES ASSUME NEW k \in Loops, k # l PROVE Delayed(k)'
  OBVIOUS
<1>1. place'[k] = place[k] /\ backoff'[k] = backoff[k] /\ misses'[k] = misses[k]
  BY DEF Goes, AllDelayed, TypeOK
<1> QED BY <1>1 DEF Delayed, AllDelayed

\* What a loop that goes somewhere has afterwards.
LEMMA GoesTo ==
  ASSUME AllDelayed, NEW l \in Loops, NEW where, NEW delay, NEW missed,
         Goes(l, where, delay, missed)
  PROVE  /\ place'[l] = where /\ backoff'[l] = delay
         /\ misses'[l] = Smaller(missed, MaxMisses)
  BY DEF Goes, AllDelayed, TypeOK

\* A failure before the next connection.
LEMMA FailsDelayed ==
  ASSUME AllDelayed, NEW l \in Loops, NEW missed \in 0 .. MaxMisses,
         Fails(l, Delay(missed), missed)
  PROVE  \A k \in Loops : Delayed(k)'
<1> DEFINE delay == Delay(missed)
<1>1. Goes(l, "backing_off", delay, missed + 1)
  BY DEF Fails
<1>2. /\ place'[l] = "backing_off" /\ backoff'[l] = Delay(missed)
      /\ misses'[l] = Smaller(missed + 1, MaxMisses)
  BY <1>1, GoesTo
<1>3. Smaller(missed + 1, MaxMisses) >= 1
  BY ListenerAssumption DEF Smaller
<1>4. Delayed(l)'
  BY <1>2, <1>3, FailureDelay DEF Delayed
<1> HIDE DEF delay
<1> QED BY <1>1, <1>4, OthersDelayed

\* The next turn of the outer loop, with the wait it would have.
LEMMA TurnDelayed ==
  ASSUME AllDelayed, NEW l \in Loops, NEW delay, delay = Delay(misses[l]),
         NextTurn(l, delay) \/ Attempt(l, delay)
  PROVE  \A k \in Loops : Delayed(k)'
<1>1. misses[l] \in 0 .. MaxMisses /\ Smaller(misses[l], MaxMisses) = misses[l]
      /\ Smaller(0, MaxMisses) = 0
  BY ListenerAssumption DEF AllDelayed, TypeOK, Smaller
<1>2. ASSUME NEW where \in {"connecting", "ended"}, Goes(l, where, delay, misses[l])
      PROVE  \A k \in Loops : Delayed(k)'
  <2>1. Delayed(l)'
    BY <1>1, <1>2, GoesTo DEF Delayed
  <2> QED BY <1>2, <2>1, OthersDelayed
<1>3. CASE Fails(l, delay, misses[l])
  <2> DEFINE missed == misses[l]
  <2>1. missed \in 0 .. MaxMisses /\ Fails(l, Delay(missed), missed)
    BY <1>1, <1>3
  <2> HIDE DEF missed
  <2> QED BY <2>1, FailsDelayed
<1> QED BY <1>2, <1>3 DEF NextTurn, Attempt, AllDelayed

\* A loop that is connected stays so, fails, or leaves.
LEMMA ConnectedDelayed ==
  ASSUME AllDelayed, NEW l \in Loops, backoff[l] = 1, misses[l] = 0,
         \/ \E where \in {"subscribing", "receiving", "dispatching", "closing"} :
               Stays(l, where)
         \/ Fails(l, backoff[l], misses[l])
  PROVE  \A k \in Loops : Delayed(k)'
<1>1. 0 \in 0 .. MaxMisses /\ Smaller(0, MaxMisses) = 0
  BY ListenerAssumption DEF Smaller
<1>2. ASSUME NEW where \in {"subscribing", "receiving", "dispatching", "closing"},
             Stays(l, where)
      PROVE  \A k \in Loops : Delayed(k)'
  <2>1. Goes(l, where, 1, 0)
    BY <1>2 DEF Stays
  <2>2. Delayed(l)'
    BY <1>1, <2>1, GoesTo DEF Delayed
  <2> QED BY <2>1, <2>2, OthersDelayed
<1>3. CASE Fails(l, backoff[l], misses[l])
  <2>1. Fails(l, Delay(0), 0)
    BY <1>3, DelayOfZero
  <2> QED BY <1>1, <2>1, FailsDelayed
<1> QED BY <1>2, <1>3

\* One step per action.
LEMMA NextDelayed == AllDelayed /\ [Next]_vars => (\A l \in Loops : Delayed(l))'
<1> SUFFICES ASSUME AllDelayed, [Next]_vars PROVE \A k \in Loops : Delayed(k)'
  OBVIOUS
<1>0. \A l \in Loops : Delayed(l) /\ misses[l] \in 0 .. MaxMisses
  BY DEF AllDelayed, TypeOK
<1>1. ASSUME NEW l \in Loops, StartStreaming(l) PROVE \A k \in Loops : Delayed(k)'
  <2>1. Attempt(l, 1) /\ 1 = Delay(misses[l])
    BY <1>0, <1>1, DelayOfZero DEF StartStreaming, Delayed
  <2> QED BY <2>1, TurnDelayed
<1>2. ASSUME NEW l \in Loops, ConnectEnds(l) PROVE \A k \in Loops : Delayed(k)'
  <2>1. CASE Connected(l)
    <3>1. Goes(l, "subscribing", 1, 0)
      BY <2>1 DEF Connected
    <3>2. Smaller(0, MaxMisses) = 0
      BY ListenerAssumption DEF Smaller
    <3>3. Delayed(l)'
      BY <3>1, <3>2, GoesTo DEF Delayed
    <3> QED BY <3>1, <3>3, OthersDelayed
  <2>2. CASE Fails(l, backoff[l], misses[l])
    <3> DEFINE missed == misses[l]
    <3>1. missed \in 0 .. MaxMisses /\ Fails(l, Delay(missed), missed)
      BY <1>0, <1>2, <2>2 DEF ConnectEnds, Delayed
    <3> HIDE DEF missed
    <3> QED BY <3>1, FailsDelayed
  <2> QED BY <1>2, <2>1, <2>2 DEF ConnectEnds
<1>3. ASSUME NEW l \in Loops,
             SubscribeEnds(l) \/ DispatchEnds(l) \/ Receive(l) \/ StreamFails(l)
      PROVE  \A k \in Loops : Delayed(k)'
  <2>1. backoff[l] = 1 /\ misses[l] = 0
    BY <1>0, <1>3 DEF SubscribeEnds, DispatchEnds, Receive, StreamFails, Delayed
  <2> QED BY <1>3, <2>1, ConnectedDelayed
          DEF SubscribeEnds, DispatchEnds, Receive, StreamFails
<1>4. ASSUME NEW l \in Loops, StreamEnds(l) PROVE \A k \in Loops : Delayed(k)'
  BY <1>4 DEF StreamEnds, AllDelayed
<1>7. ASSUME NEW l \in Loops, CloseEnds(l) PROVE \A k \in Loops : Delayed(k)'
  <2>1. backoff[l] = 1 /\ misses[l] = 0 /\ 1 = Delay(misses[l])
    BY <1>0, <1>7, DelayOfZero DEF CloseEnds, Delayed
  <2> QED BY <1>7, <2>1, TurnDelayed, ConnectedDelayed DEF CloseEnds
<1>5. ASSUME NEW l \in Loops, Wakes(l) PROVE \A k \in Loops : Delayed(k)'
  <2> DEFINE n == misses[l] - 1
  <2>1. n \in Nat /\ n + 1 = misses[l] /\ backoff[l] = Delay(n)
    BY <1>0, <1>5 DEF Wakes, Delayed
  <2>2. Smaller(backoff[l] * 2, MaxBackoff) = Delay(misses[l])
    BY <2>1, DelayDoubles
  <2> QED BY <1>5, <2>2, TurnDelayed DEF Wakes
<1>6. CASE Stop \/ UNCHANGED vars
  BY <1>0, <1>6 DEF Stop, vars, loopVars, Delayed
<1> QED BY <1>1, <1>2, <1>3, <1>4, <1>5, <1>6, <1>7 DEF Next, LoopStep

\* However the WebSocket loops fail, connect and are stopped: a wait counts the
\* failures since the last connection and no others.
THEOREM WaitsDouble == Spec => []RetryDelays
<1> DEFINE Inv == TypeOK /\ (kind = "websocket" => AllDelayed)
<1>1. Init => Inv
  BY InitTyped, DelayOfZero DEF Init, AllDelayed, Delayed
<1>2. Inv => RetryDelays
  BY DEF AllDelayed, Delayed, RetryDelays, Waiting, Delay
<1>3. Inv /\ [Next]_vars => Inv'
  <2> SUFFICES ASSUME Inv, [Next]_vars PROVE Inv'
    OBVIOUS
  <2>1. kind' = kind
    BY DEF Next, Stop, StartStreaming, LoopStep, ConnectEnds, SubscribeEnds,
           DispatchEnds, CloseEnds, Wakes, Receive, StreamFails, StreamEnds, vars
  <2> QED BY <2>1, TypeStep, NextDelayed DEF AllDelayed
<1> QED BY <1>1, <1>2, <1>3, PTL DEF Spec

=============================================================================
