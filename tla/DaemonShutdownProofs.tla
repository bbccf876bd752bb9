------------------------ MODULE DaemonShutdownProofs ------------------------
(***************************************************************************)
(* The safety properties of DaemonShutdown, for any set of requests and    *)
(* any channel capacity.  Neither NoStrandedCaller nor                     *)
(* ClosedOnlyWhenUnused is inductive: the first needs to know where an     *)
(* unanswered message is (CallerInv), the second which of the three tasks  *)
(* the process has already left behind (PhaseInv).                         *)
(***************************************************************************)
EXTENDS DaemonShutdown, SequenceTheorems, TLAPS

Queued(r) == \E i \in 1 .. Len(queue) : queue[i] = r

CallerInv == \A r \in Requests : rpc[r] = "awaiting" => serving = r \/ Queued(r)

ConsumerInv ==
    /\ consumer = "handling" <=> serving # NoRequest
    /\ consumer = "ended" => queue = <<>>

PhaseInv ==
    /\ phase = "running" /\ ~cancel =>
          loop # "ended" /\ consumer # "ended" /\ ~graceOver
    /\ phase = "cleanup" => loop = "ended" /\ cancel
    /\ browser = "closed" =>
          phase = "exited" /\ consumer = "ended" /\ loop = "ended"

IndInv == TypeOK /\ CallerInv /\ ConsumerInv /\ PhaseInv

(* What Append and Tail do to the members of the channel's buffer.         *)
LEMMA AppendQueue ==
    ASSUME NEW q \in Seq(Requests), NEW r \in Requests
    PROVE  /\ Append(q, r) \in Seq(Requests)
           /\ Len(Append(q, r)) = Len(q) + 1
           /\ Append(q, r)[Len(q) + 1] = r
           /\ \A i \in 1 .. Len(q) : Append(q, r)[i] = q[i]
  BY AppendProperties

LEMMA TailQueue ==
    ASSUME NEW q \in Seq(Requests), q # <<>>
    PROVE  /\ Head(q) \in Requests /\ Head(q) = q[1]
           /\ Tail(q) \in Seq(Requests)
           /\ Len(q) \in Nat /\ Len(q) >= 1
           /\ Len(Tail(q)) = Len(q) - 1
           /\ \A i \in 1 .. Len(q) - 1 : Tail(q)[i] = q[i + 1]
  <1>1. Len(q) \in Nat /\ Len(q) >= 1
    BY EmptySeq
  <1>2. QED
    BY <1>1, HeadTailProperties

LEMMA InitInv == Init => IndInv
  <1> SUFFICES ASSUME Init PROVE IndInv
    OBVIOUS
  <1>1. queue \in Seq(Requests) /\ Len(queue) <= Capacity
    BY ShutdownConstants DEF Init
  <1>2. TypeOK
    BY <1>1 DEF Init, TypeOK, Waiting, Settled
  <1>3. QED
    BY <1>2 DEF Init, IndInv, CallerInv, ConsumerInv, PhaseInv

(* Steps that leave the channel, its consumer and the callers alone.       *)
LEMMA TaskSteps ==
    ASSUME IndInv,
           HttpNoticeCancel \/ HttpEnd \/ SockAccept \/ SockHandled \/ LoopEnds
             \/ Sigterm \/ LoopNoticesCancel \/ GracePasses \/ Joined
    PROVE  IndInv'
  <1>1. TypeOK'
    BY DEF IndInv, TypeOK, HttpNoticeCancel, HttpEnd, SockAccept, SockHandled,
           LoopEnds, Sigterm, LoopNoticesCancel, GracePasses, Joined
  <1>2. CallerInv' /\ ConsumerInv'
    BY DEF IndInv, CallerInv, ConsumerInv, Queued, HttpNoticeCancel, HttpEnd,
           SockAccept, SockHandled, LoopEnds, Sigterm, LoopNoticesCancel,
           GracePasses, Joined
  <1>3. PhaseInv'
    BY DEF IndInv, TypeOK, PhaseInv, HttpNoticeCancel, HttpEnd, SockAccept,
           SockHandled, LoopEnds, Sigterm, LoopNoticesCancel, GracePasses,
           Joined
  <1>4. QED
    BY <1>1, <1>2, <1>3 DEF IndInv

(* Steps of one caller; only sending touches the channel.                  *)
LEMMA CallerSteps ==
    ASSUME IndInv, NEW r \in Requests,
           HttpRequest(r) \/ SendToBridge(r) \/ SendFails(r) \/ HttpDisconnect(r)
    PROVE  IndInv'
  <1> USE DEF Waiting, Settled
  <1>1. CASE SendToBridge(r)
    <2> USE <1>1 DEF SendToBridge
    <2>1. queue \in Seq(Requests) /\ Len(queue) \in Nat
      BY LenProperties DEF IndInv, TypeOK
    <2>2. /\ queue' \in Seq(Requests) /\ Len(queue') = Len(queue) + 1
          /\ queue'[Len(queue) + 1] = r
          /\ \A i \in 1 .. Len(queue) : queue'[i] = queue[i]
      BY <2>1, AppendQueue
    <2>3. TypeOK'
      BY <2>1, <2>2, ShutdownConstants DEF IndInv, TypeOK
    <2>4. CallerInv'
      <3> SUFFICES ASSUME NEW s \in Requests, rpc'[s] = "awaiting"
                   PROVE  serving' = s \/ Queued(s)'
        BY DEF CallerInv
      <3>1. CASE s = r
        BY <3>1, <2>1, <2>2 DEF Queued
      <3>2. CASE s # r
        <4>1. serving = s \/ Queued(s)
          BY <3>2 DEF IndInv, TypeOK, CallerInv
        <4>2. QED
          BY <4>1, <2>1, <2>2 DEF Queued
      <3>3. QED
        BY <3>1, <3>2
    <2>5. ConsumerInv' /\ PhaseInv'
      BY DEF IndInv, TypeOK, ConsumerInv, PhaseInv
    <2>6. QED
      BY <2>3, <2>4, <2>5 DEF IndInv
  <1>2. CASE HttpRequest(r) \/ SendFails(r) \/ HttpDisconnect(r)
    <2>1. TypeOK'
      BY <1>2 DEF IndInv, TypeOK, HttpRequest, SendFails, HttpDisconnect
    <2>2. CallerInv'
      BY <1>2 DEF IndInv, TypeOK, CallerInv, Queued, HttpRequest, SendFails,
                  HttpDisconnect
    <2>3. ConsumerInv' /\ PhaseInv'
      BY <1>2 DEF IndInv, ConsumerInv, PhaseInv, HttpRequest, SendFails,
                  HttpDisconnect
    <2>4. QED
      BY <2>1, <2>2, <2>3 DEF IndInv
  <1>3. QED
    BY <1>1, <1>2

(* Steps of the consumer: taking a message, answering it, draining.        *)
LEMMA ConsumerSteps ==
    ASSUME IndInv, Receive \/ Handled \/ HandlerPanics \/ StopAndDrain
    PROVE  IndInv'
  <1> USE DEF Waiting, Settled
  <1>1. CASE Receive
    <2> USE <1>1 DEF Receive
    <2>1. queue \in Seq(Requests) /\ queue # <<>>
      BY DEF IndInv, TypeOK
    <2>2. /\ serving' \in Requests /\ serving' = queue[1]
          /\ queue' \in Seq(Requests)
          /\ Len(queue) \in Nat /\ Len(queue) >= 1
          /\ Len(queue') = Len(queue) - 1
          /\ \A i \in 1 .. Len(queue) - 1 : queue'[i] = queue[i + 1]
      BY <2>1, TailQueue
    <2>3. TypeOK'
      BY <2>2, ShutdownConstants DEF IndInv, TypeOK
    <2>4. CallerInv'
      <3> SUFFICES ASSUME NEW s \in Requests, rpc[s] = "awaiting"
                   PROVE  serving' = s \/ Queued(s)'
        BY DEF CallerInv
      <3>1. serving = NoRequest /\ s # NoRequest
        BY ShutdownConstants DEF IndInv, ConsumerInv
      <3>2. PICK i \in 1 .. Len(queue) : queue[i] = s
        BY <3>1 DEF IndInv, CallerInv, Queued
      <3>3. CASE i = 1
        BY <3>2, <3>3, <2>2
      <3>4. CASE i # 1
        <4>1. /\ i - 1 \in 1 .. Len(queue')
              /\ queue'[i - 1] = queue[i]
          BY <3>4, <2>2
        <4>2. QED
          BY <4>1, <3>2 DEF Queued
      <3>5. QED
        BY <3>3, <3>4
    <2>5. ConsumerInv' /\ PhaseInv'
      BY <2>2, ShutdownConstants DEF IndInv, TypeOK, ConsumerInv, PhaseInv, Running
    <2>6. QED
      BY <2>3, <2>4, <2>5 DEF IndInv
  <1>2. CASE Handled \/ HandlerPanics
    <2>1. serving \in Requests
      BY <1>2 DEF IndInv, TypeOK, ConsumerInv, Handled, HandlerPanics
    <2>2. /\ \E result \in {"ok", "failed"} : Reply(serving, result)
          /\ consumer' = "receiving" /\ serving' = NoRequest
          /\ UNCHANGED <<phase, cancel, graceOver, loop, http, queue, browser>>
          /\ consumer = "handling"
      BY <1>2 DEF Handled, HandlerPanics
    <2>3. /\ rpc' \in [Requests -> {"new"} \cup Waiting \cup Settled]
          /\ \A s \in Requests :
                rpc'[s] = "awaiting" => rpc[s] = "awaiting" /\ s # serving
      BY <2>1, <2>2 DEF IndInv, TypeOK, Reply
    <2>4. TypeOK'
      BY <2>2, <2>3 DEF IndInv, TypeOK
    <2>5. CallerInv'
      BY <2>2, <2>3 DEF IndInv, CallerInv, Queued
    <2>6. ConsumerInv' /\ PhaseInv'
      BY <2>2 DEF IndInv, ConsumerInv, PhaseInv
    <2>7. QED
      BY <2>4, <2>5, <2>6 DEF IndInv
  <1>3. CASE StopAndDrain
    <2> USE <1>3 DEF StopAndDrain
    <2>1. queue' = <<>> /\ queue' \in Seq(Requests) /\ Len(queue') = 0
      BY EmptySeq
    <2>2. TypeOK'
      BY <2>1, ShutdownConstants DEF IndInv, TypeOK
    <2>3. serving = NoRequest
      BY DEF IndInv, ConsumerInv
    <2>4. \A s \in Requests : rpc'[s] # "awaiting"
      <3> SUFFICES ASSUME NEW s \in Requests, rpc'[s] = "awaiting" PROVE FALSE
        OBVIOUS
      <3>1. rpc[s] = "awaiting" /\ ~ \E i \in DOMAIN queue : queue[i] = s
        OBVIOUS
      <3>2. DOMAIN queue = 1 .. Len(queue)
        BY LenProperties DEF IndInv, TypeOK
      <3>3. Queued(s)
        BY <3>1, <2>3, ShutdownConstants DEF IndInv, CallerInv
      <3>4. QED
        BY <3>1, <3>2, <3>3 DEF Queued
    <2>5. CallerInv' /\ ConsumerInv' /\ PhaseInv'
      BY <2>1, <2>3, <2>4
      DEF IndInv, CallerInv, ConsumerInv, PhaseInv, Running
    <2>6. QED
      BY <2>2, <2>5 DEF IndInv
  <1>4. QED
    BY <1>1, <1>2, <1>3

(* The two ways out of the process; both settle every waiting caller.      *)
LEMMA ExitSteps ==
    ASSUME IndInv, SockPanics \/ Cleanup
    PROVE  IndInv'
  <1>1. /\ phase' = "exited" /\ loop' = "ended"
        /\ UNCHANGED <<cancel, graceOver, http, consumer, serving, queue>>
        /\ rpc' = [r \in Requests |->
                     IF rpc[r] \in Waiting THEN "reset" ELSE rpc[r]]
        /\ browser' \in {"closed", "abandoned"}
        /\ browser' = "closed" => consumer = "ended"
    BY DEF IndInv, PhaseInv, SockPanics, Cleanup, Exits
  <1>2. TypeOK'
    BY <1>1 DEF IndInv, TypeOK, Waiting, Settled
  <1>3. CallerInv' /\ ConsumerInv' /\ PhaseInv'
    BY <1>1 DEF IndInv, CallerInv, ConsumerInv, PhaseInv, Waiting
  <1>4. QED
    BY <1>2, <1>3 DEF IndInv

LEMMA NextInv == IndInv /\ [Next]_vars => IndInv'
  <1> SUFFICES ASSUME IndInv, [Next]_vars PROVE IndInv'
    OBVIOUS
  <1>1. CASE UNCHANGED vars
    BY <1>1 DEF IndInv, TypeOK, CallerInv, Queued, ConsumerInv, PhaseInv, vars
  <1>2. CASE Next
    BY <1>2, TaskSteps, CallerSteps, ConsumerSteps, ExitSteps DEF Next
  <1>3. QED
    BY <1>1, <1>2

(* In every reachable state the whole inductive invariant holds.           *)
THEOREM Invariance == Spec => []IndInv
  BY InitInv, NextInv, PTL DEF Spec

(* The states of the tasks stay within their types, and the channel never  *)
(* holds more than BRIDGE_CHANNEL_CAPACITY messages.                       *)
THEOREM TypeCorrect == Spec => []TypeOK
  <1>1. IndInv => TypeOK
    BY DEF IndInv
  <1>2. QED
    BY <1>1, Invariance, PTL

(* However sends, receives, panics and the token interleave, the drain and *)
(* the dropped receiver leave no caller waiting for a consumer that is     *)
(* gone.                                                                   *)
THEOREM DrainStrandsNobody == Spec => []NoStrandedCaller
  <1>1. IndInv => NoStrandedCaller
    <2> SUFFICES ASSUME IndInv, consumer = "ended"
                 PROVE  queue = <<>> /\ \A r \in Requests : rpc[r] # "awaiting"
      BY DEF NoStrandedCaller
    <2>1. queue = <<>> /\ serving = NoRequest
      BY DEF IndInv, ConsumerInv
    <2>2. \A r \in Requests : ~Queued(r) /\ r # NoRequest
      BY <2>1, ShutdownConstants DEF Queued
    <2>3. QED
      BY <2>1, <2>2 DEF IndInv, CallerInv
  <1>2. QED
    BY <1>1, Invariance, PTL

(* Before the token is cancelled nothing takes the accept loop or the      *)
(* consumer down.                                                          *)
THEOREM ServiceSurvivesPanics == Spec => []ServesUntilCancelled
  <1>1. IndInv => ServesUntilCancelled
    BY DEF IndInv, PhaseInv, ServesUntilCancelled
  <1>2. QED
    BY <1>1, Invariance, PTL

(* Chrome is closed only once no handler is left that could be using it.   *)
THEOREM CloseIsExclusive == Spec => []ClosedOnlyWhenUnused
  <1>1. IndInv => ClosedOnlyWhenUnused
    BY DEF IndInv, PhaseInv, ConsumerInv, ClosedOnlyWhenUnused
  <1>2. QED
    BY <1>1, Invariance, PTL
=============================================================================
