--------------------------- MODULE DaemonShutdown ---------------------------
(***************************************************************************)
(* Inside one daemon process, from its accept loop's start to its exit:    *)
(* the Unix-socket accept loop, the HTTP server and the bridge consumer    *)
(* that run concurrently on the one-threaded runtime, and the joined       *)
(* shutdown of the three (cli/main.rs run_daemon, cli/transport.rs,        *)
(* cli/http_server.rs).  A request is one HTTP tool call; the bridge is a  *)
(* bounded mpsc channel of <request, oneshot reply> pairs.                 *)
(***************************************************************************)
EXTENDS Integers, Sequences

CONSTANTS
    Requests,   \* HTTP tool calls, each made at most once
    Capacity,   \* BRIDGE_CHANNEL_CAPACITY
    NoRequest

ASSUME ShutdownConstants ==
    /\ Capacity \in Nat \ {0}
    /\ NoRequest \notin Requests

VARIABLES
    phase,      \* run_daemon: its join!, shutdown_cleanup, or gone
    cancel,     \* the CancellationToken
    graceOver,  \* SHUTDOWN_GRACE_TIMEOUT has passed since cancel
    loop,       \* the accept loop: run_cancellable
    http,       \* the axum server
    consumer,   \* run_bridge_consumer
    serving,    \* the request whose handler the consumer awaits
    queue,      \* the channel's buffer
    rpc,        \* ChannelTransport::call of each request
    browser     \* what became of Chrome

vars == <<phase, cancel, graceOver, loop, http, consumer, serving, queue, rpc,
          browser>>

Waiting == {"sending", "awaiting"}
Settled == {"ok", "failed", "gone", "reset"}

TypeOK ==
    /\ phase \in {"running", "cleanup", "exited"}
    /\ cancel \in BOOLEAN /\ graceOver \in BOOLEAN
    /\ loop \in {"accepting", "handling", "ended"}
    /\ http \in {"up", "draining", "ended"}
    /\ consumer \in {"receiving", "handling", "ended"}
    /\ serving \in Requests \cup {NoRequest}
    /\ queue \in Seq(Requests) /\ Len(queue) <= Capacity
    /\ rpc \in [Requests -> {"new"} \cup Waiting \cup Settled]
    /\ browser \in {"open", "closed", "abandoned"}

(* The server may be absent from the start: no port configured, or the     *)
(* port is taken.                                                          *)
Init ==
    /\ phase = "running"
    /\ cancel = FALSE /\ graceOver = FALSE
    /\ loop = "accepting"
    /\ http \in {"up", "ended"}
    /\ consumer = "receiving"
    /\ serving = NoRequest
    /\ queue = <<>>
    /\ rpc = [r \in Requests |-> "new"]
    /\ browser = "open"

Running == phase # "exited"      \* the runtime still polls tasks

----------------------------------------------------------------------------
(* The HTTP side: McpRouter over ChannelTransport::call.                   *)

HttpRequest(r) ==
    /\ Running /\ http = "up"
    /\ rpc[r] = "new"
    /\ rpc' = [rpc EXCEPT ![r] = "sending"]
    /\ UNCHANGED <<phase, cancel, graceOver, loop, http, consumer, serving,
                   queue, browser>>

SendToBridge(r) ==
    /\ Running /\ rpc[r] = "sending"
    /\ consumer # "ended" /\ Len(queue) < Capacity
    /\ queue' = Append(queue, r)
    /\ rpc' = [rpc EXCEPT ![r] = "awaiting"]
    /\ UNCHANGED <<phase, cancel, graceOver, loop, http, consumer, serving,
                   browser>>

(* The receiver was dropped when the consumer returned.                    *)
SendFails(r) ==
    /\ Running /\ rpc[r] = "sending"
    /\ consumer = "ended"
    /\ rpc' = [rpc EXCEPT ![r] = "failed"]
    /\ UNCHANGED <<phase, cancel, graceOver, loop, http, consumer, serving,
                   queue, browser>>

(* The HTTP client hangs up: the call's future is dropped.  A message that *)
(* is already in the channel stays there.                                  *)
HttpDisconnect(r) ==
    /\ Running /\ rpc[r] \in Waiting
    /\ rpc' = [rpc EXCEPT ![r] = "gone"]
    /\ UNCHANGED <<phase, cancel, graceOver, loop, http, consumer, serving,
                   queue, browser>>

(* Graceful shutdown: stop accepting, then wait for requests in flight.    *)
HttpNoticeCancel ==
    /\ Running /\ cancel /\ http = "up"
    /\ http' = "draining"
    /\ UNCHANGED <<phase, cancel, graceOver, loop, consumer, serving, queue,
                   rpc, browser>>

HttpEnd ==
    /\ Running /\ http = "draining"
    /\ \A r \in Requests : rpc[r] \notin Waiting
    /\ http' = "ended"
    /\ UNCHANGED <<phase, cancel, graceOver, loop, consumer, serving, queue,
                   rpc, browser>>

----------------------------------------------------------------------------
(* The bridge consumer.                                                    *)

Reply(r, result) ==
    rpc' = IF rpc[r] = "awaiting" THEN [rpc EXCEPT ![r] = result] ELSE rpc

Receive ==
    /\ Running /\ consumer = "receiving" /\ queue # <<>>
    /\ consumer' = "handling"
    /\ serving' = Head(queue)
    /\ queue' = Tail(queue)
    /\ UNCHANGED <<phase, cancel, graceOver, loop, http, rpc, browser>>

(* The handler returns a result or an error, or times out.                 *)
Handled ==
    /\ Running /\ consumer = "handling"
    /\ \E result \in {"ok", "failed"} : Reply(serving, result)
    /\ consumer' = "receiving"
    /\ serving' = NoRequest
    /\ UNCHANGED <<phase, cancel, graceOver, loop, http, queue, browser>>

(* Mutant: no catch_unwind around handle_request.                          *)
HandlerPanicsUncaught ==
    /\ Running /\ consumer = "handling"
    /\ Reply(serving, "failed")
    /\ consumer' = "ended"
    /\ serving' = NoRequest
    /\ queue' = <<>>
    /\ UNCHANGED <<phase, cancel, graceOver, loop, http, browser>>

(* catch_unwind turns a panic into an error reply and the loop goes on.    *)
HandlerPanics ==
    /\ Running /\ consumer = "handling"
    /\ Reply(serving, "failed")
    /\ consumer' = "receiving"
    /\ serving' = NoRequest
    /\ UNCHANGED <<phase, cancel, graceOver, loop, http, queue, browser>>

(* Mutant: the consumer returns without draining.                          *)
StopWithoutDrain ==
    /\ Running /\ consumer = "receiving" /\ cancel
    /\ consumer' = "ended"
    /\ UNCHANGED <<phase, cancel, graceOver, loop, http, serving, queue, rpc,
                   browser>>

(* The select sees the token; what is queued is answered "daemon shutting  *)
(* down" and the receiver dropped, without an await in between.            *)
StopAndDrain ==
    /\ Running /\ consumer = "receiving" /\ cancel
    /\ consumer' = "ended"
    /\ rpc' = [r \in Requests |->
                 IF rpc[r] = "awaiting" /\ \E i \in DOMAIN queue : queue[i] = r
                 THEN "failed" ELSE rpc[r]]
    /\ queue' = <<>>
    /\ UNCHANGED <<phase, cancel, graceOver, loop, http, serving, browser>>

----------------------------------------------------------------------------
(* The accept loop, here only as one of the three joined tasks.            *)

SockAccept ==
    /\ phase = "running" /\ loop = "accepting"
    /\ loop' = "handling"
    /\ UNCHANGED <<phase, cancel, graceOver, http, consumer, serving, queue,
                   rpc, browser>>

SockHandled ==
    /\ phase = "running" /\ loop = "handling"
    /\ loop' = IF cancel THEN "ended" ELSE "accepting"
    /\ UNCHANGED <<phase, cancel, graceOver, http, consumer, serving, queue,
                   rpc, browser>>

(* The shutdown request, or an accept error: request_shutdown either way.  *)
LoopEnds ==
    /\ phase = "running" /\ loop = "accepting"
    /\ loop' = "ended"
    /\ cancel' = TRUE
    /\ UNCHANGED <<phase, graceOver, http, consumer, serving, queue, rpc,
                   browser>>

(* Nothing catches a panic on the socket path: block_on unwinds, the       *)
(* process dies with whatever it was doing.                                *)
SockPanics ==
    /\ phase = "running" /\ loop = "handling"
    /\ phase' = "exited"
    /\ loop' = "ended"
    /\ browser' = "abandoned"
    /\ rpc' = [r \in Requests |->
                 IF rpc[r] \in Waiting THEN "reset" ELSE rpc[r]]
    /\ UNCHANGED <<cancel, graceOver, http, consumer, serving, queue>>

----------------------------------------------------------------------------
(* Shutdown: await_with_shutdown_grace around each task, the join, the     *)
(* cleanup.                                                                *)

Sigterm ==
    /\ phase = "running" /\ ~cancel
    /\ cancel' = TRUE
    /\ UNCHANGED <<phase, graceOver, loop, http, consumer, serving, queue, rpc,
                   browser>>

LoopNoticesCancel ==
    /\ phase = "running" /\ cancel /\ loop = "accepting"
    /\ loop' = "ended"
    /\ UNCHANGED <<phase, cancel, graceOver, http, consumer, serving, queue,
                   rpc, browser>>

(* Mutant: the countdown starts when the daemon does.                      *)
GraceFromStart ==
    /\ phase = "running" /\ ~graceOver
    /\ graceOver' = TRUE
    /\ loop' = "ended"
    /\ UNCHANGED <<phase, cancel, http, consumer, serving, queue, rpc, browser>>

(* The accept loop's future is dropped, with the handler it awaited; the   *)
(* consumer and the server are tasks of their own and run on.              *)
GracePasses ==
    /\ phase = "running" /\ cancel /\ ~graceOver
    /\ graceOver' = TRUE
    /\ loop' = "ended"
    /\ UNCHANGED <<phase, cancel, http, consumer, serving, queue, rpc, browser>>

(* Mutant: the three tasks are joined without a grace period.              *)
JoinWithoutGrace ==
    /\ phase = "running" /\ cancel
    /\ loop = "ended" /\ consumer = "ended" /\ http = "ended"
    /\ phase' = "cleanup"
    /\ UNCHANGED <<cancel, graceOver, loop, http, consumer, serving, queue,
                   rpc, browser>>

Joined ==
    /\ phase = "running" /\ cancel
    /\ loop = "ended"
    /\ consumer = "ended" \/ graceOver
    /\ http = "ended" \/ graceOver
    /\ phase' = "cleanup"
    /\ UNCHANGED <<cancel, graceOver, loop, http, consumer, serving, queue,
                   rpc, browser>>

Exits ==
    /\ phase' = "exited"
    /\ rpc' = [r \in Requests |->
                 IF rpc[r] \in Waiting THEN "reset" ELSE rpc[r]]
    /\ UNCHANGED <<cancel, graceOver, loop, http, consumer, serving, queue>>

(* Mutant: the browser is closed without asking who else holds it.         *)
CloseAnyway ==
    /\ phase = "cleanup"
    /\ browser' = "closed"
    /\ Exits

(* The consumer's Rc<Daemon> keeps every handler's Rc<NativeBrowser>       *)
(* alive, so Rc::get_mut succeeds only once the consumer has returned;     *)
(* otherwise close() is skipped.  The runtime is then shut down.           *)
Cleanup ==
    /\ phase = "cleanup"
    /\ browser' = IF consumer = "ended" THEN "closed" ELSE "abandoned"
    /\ Exits

----------------------------------------------------------------------------

Next ==
    \/ \E r \in Requests :
          HttpRequest(r) \/ SendToBridge(r) \/ SendFails(r) \/ HttpDisconnect(r)
    \/ HttpNoticeCancel \/ HttpEnd
    \/ Receive \/ Handled \/ HandlerPanics \/ StopAndDrain
    \/ SockAccept \/ SockHandled \/ LoopEnds \/ SockPanics
    \/ Sigterm \/ LoopNoticesCancel \/ GracePasses \/ Joined \/ Cleanup

Spec == Init /\ [][Next]_vars

(* Handlers end within REQUEST_TIMEOUT, tasks that are ready are polled,   *)
(* and time passes.  The select between the token and the next message is  *)
(* drawn at random each time, so a token that stays cancelled is noticed   *)
(* in the end (strong fairness); the channel serves blocked senders in     *)
(* turn.  HttpEnd is not fair: a client may keep its connection open.      *)
Fairness ==
    /\ \A r \in Requests : WF_vars(SendFails(r)) /\ SF_vars(SendToBridge(r))
    /\ WF_vars(HttpNoticeCancel)
    /\ WF_vars(Receive) /\ WF_vars(Handled \/ HandlerPanics)
    /\ SF_vars(StopAndDrain)
    /\ WF_vars(SockHandled) /\ SF_vars(LoopNoticesCancel)
    /\ WF_vars(GracePasses) /\ WF_vars(Joined) /\ WF_vars(Cleanup)

FairSpec == Spec /\ Fairness

----------------------------------------------------------------------------
(* Properties.                                                             *)

(* Once the consumer is gone nobody waits on a reply that cannot come: the *)
(* drain and the dropped receiver together leave no caller behind, however *)
(* sends, receives and the token interleave.                               *)
NoStrandedCaller ==
    consumer = "ended" =>
        queue = <<>> /\ \A r \in Requests : rpc[r] # "awaiting"

(* The bridge serves until shutdown: no panic, hang-up or HTTP failure     *)
(* takes the consumer, or the accept loop, down before the token is set.   *)
ServesUntilCancelled ==
    phase = "running" /\ ~cancel => loop # "ended" /\ consumer # "ended"

(* Chrome is never closed under a handler that may still be using it.      *)
ClosedOnlyWhenUnused ==
    browser = "closed" => serving = NoRequest /\ loop # "handling"

(* Every HTTP tool call is settled: answered, or cut off by the exit.      *)
EveryRequestSettled ==
    \A r \in Requests : rpc[r] \in Waiting ~> rpc[r] \in Settled

(* main.rs: SIGTERM and the shutdown request always produce a bounded      *)
(* process exit, whatever the three tasks are doing.                       *)
ShutdownEnds == cancel ~> phase = "exited"
=============================================================================
