-------------------------- MODULE DaemonLifecycle --------------------------
(***************************************************************************)
(* The machine-wide daemon of stapler-mcp and the thin clients that find,  *)
(* start and call it: client::ensure_daemon and client::call               *)
(* (core/client.rs, thin-client/transport.rs), run_daemon (cli/main.rs),   *)
(* the accept loop (core/daemon.rs), the flock (native/lock.rs) and the    *)
(* Unix socket (native/socket.rs).                                         *)
(*                                                                         *)
(* Processes are numbered in the order they are spawned.  A daemon owns    *)
(* the connections of its listener: those waiting in the kernel's backlog  *)
(* and the one being served.  A client connection carries one request and  *)
(* is written as soon as it is connected, so both are one step.            *)
(***************************************************************************)
EXTENDS Integers, Sequences, FiniteSets

CONSTANTS
    Clients,      \* one thin-client call at a time for each
    MaxCalls,     \* bound: tool calls made by each client
    MaxDaemons,   \* bound: daemon processes started in a behavior
    MaxFaults,    \* bound: crashes, signals and shutdown requests together
    Env,          \* which environment events may happen, see EnvKinds
    HttpPort,     \* STAPLER_MCP_HTTP_PORT in the environment of each client
    ServicePort   \* the same for a daemon started by the service manager

EnvKinds == {"crash", "sigterm", "shutdown", "accepterror", "launchfail",
             "spawnfail", "slowstart", "calltimeout", "handlertimeout",
             "service"}

NoPort == 0

ASSUME ConstantsAssumption ==
    /\ MaxCalls \in Nat /\ MaxDaemons \in Nat /\ MaxFaults \in Nat
    /\ Env \subseteq EnvKinds
    /\ HttpPort \in [Clients -> Nat]
    /\ ServicePort \in Nat \ {NoPort}

Daemons  == 1 .. MaxDaemons
NoDaemon == 0
Requests == Clients \X (1 .. MaxCalls)

Operator == "operator"      \* whoever sends the shutdown request
NoConn   == <<>>
Conns == [kind : {"ping", "call"}, req : Requests]
           \cup [kind : {"shutdown"}, req : {Operator}]

VARIABLES
    lockHolder,   \* the process holding the flock on daemon.lock
    sockFile,     \* the process whose listener daemon.sock names
    portFile,     \* contents of the http-port file, NoPort if absent
    dstate,       \* how far each daemon process has come
    cancel,       \* Daemon::shutdown and Daemon::cancel, set together
    backlog,      \* connections waiting in each daemon's accept queue
    current,      \* the tool call each daemon's accept loop is serving
    port,         \* STAPLER_MCP_HTTP_PORT each daemon was started with
    cpc,          \* where each client is in SocketTransport::call
    ncall,        \* calls begun by each client
    spawned,      \* ensure_daemon's local of the same name
    executed,     \* how often the handler of each request was started
    outcome,      \* what each call returned
    faults        \* faults injected so far

daemonVars == <<lockHolder, sockFile, portFile, dstate, cancel, backlog,
                current, port>>
clientVars == <<cpc, ncall, spawned, outcome>>
vars == <<daemonVars, clientVars, executed, faults>>

Starting == {"started", "ported", "locked", "launched", "unlinked"}
HoldsLock == {"locked", "launched", "unlinked", "serving", "closing"}
DaemonStates == {"unborn", "exited"} \cup Starting \cup HoldsLock
ClientStates == {"idle", "connecting", "pinging", "spawning", "deciding",
                 "proceeding", "calling"}

TypeOK ==
    /\ lockHolder \in Daemons \cup {NoDaemon}
    /\ sockFile \in Daemons \cup {NoDaemon}
    /\ portFile \in Nat
    /\ dstate \in [Daemons -> DaemonStates]
    /\ cancel \in [Daemons -> BOOLEAN]
    /\ backlog \in [Daemons -> Seq(Conns)]
    /\ current \in [Daemons -> Conns \cup {NoConn}]
    /\ port \in [Daemons -> Nat]
    /\ cpc \in [Clients -> ClientStates]
    /\ ncall \in [Clients -> 0 .. MaxCalls]
    /\ spawned \in [Clients -> BOOLEAN]
    /\ executed \in [Requests -> Nat]
    /\ outcome \in [Requests -> {"pending", "ok", "err"}]
    /\ faults \in 0 .. MaxFaults

Init ==
    /\ lockHolder = NoDaemon
    /\ sockFile = NoDaemon
    /\ portFile = NoPort
    /\ dstate = [d \in Daemons |-> "unborn"]
    /\ cancel = [d \in Daemons |-> FALSE]
    /\ backlog = [d \in Daemons |-> <<>>]
    /\ current = [d \in Daemons |-> NoConn]
    /\ port = [d \in Daemons |-> NoPort]
    /\ cpc = [c \in Clients |-> "idle"]
    /\ ncall = [c \in Clients |-> 0]
    /\ spawned = [c \in Clients |-> FALSE]
    /\ executed = [r \in Requests |-> 0]
    /\ outcome = [r \in Requests |-> "pending"]
    /\ faults = 0

(* The listener a connect() to daemon.sock reaches.  A file left behind by *)
(* a process that has stopped listening refuses the connection.            *)
Listening(d) == dstate[d] = "serving"
Reaches(d)   == sockFile = d /\ Listening(d)
Refused      == \A d \in Daemons : ~Reaches(d)

Alive(d) == dstate[d] \notin {"unborn", "exited"}

(* Everything a live process does on its own (start, wind down) takes less *)
(* than ensure_daemon's startup budget, unless the run admits slow starts. *)
DeadlinePassed ==
    "slowstart" \in Env \/ \A d \in Daemons : ~Alive(d)

Request(c) == <<c, ncall[c]>>
Ping(c) == [kind |-> "ping", req |-> Request(c)]
Call(c) == [kind |-> "call", req |-> Request(c)]

(* A connection nobody will answer any more: its listener or its server is *)
(* gone, so the client reads end-of-file or a reset.                       *)
Lost(conn) ==
    \A d \in Daemons :
        /\ current[d] # conn
        /\ \A i \in DOMAIN backlog[d] : backlog[d][i] # conn

----------------------------------------------------------------------------
(* The client: SocketTransport::call = ensure_daemon, then one call.       *)

Goto(c, state) == cpc' = [cpc EXCEPT ![c] = state]

Return(c, result) ==
    /\ Goto(c, "idle")
    /\ outcome' = [outcome EXCEPT ![Request(c)] = result]
    /\ UNCHANGED <<ncall, spawned>>

Connect(conn) ==
    \E d \in Daemons :
        /\ Reaches(d)
        /\ backlog' = [backlog EXCEPT ![d] = Append(@, conn)]

EnsureBegin(c) ==
    /\ cpc[c] = "idle" /\ ncall[c] < MaxCalls
    /\ Goto(c, "connecting")
    /\ ncall' = [ncall EXCEPT ![c] = @ + 1]
    /\ spawned' = [spawned EXCEPT ![c] = FALSE]
    /\ UNCHANGED <<daemonVars, outcome, executed, faults>>

PingConnect(c) ==
    /\ cpc[c] = "connecting"
    /\ Connect(Ping(c))
    /\ Goto(c, "pinging")
    /\ UNCHANGED <<lockHolder, sockFile, portFile, dstate, cancel, current,
                   port, ncall, spawned, outcome, executed, faults>>

(* Any error but a timeout: spawn once, then look at the deadline.         *)
PingFails(c) ==
    /\ \/ cpc[c] = "connecting" /\ Refused
       \/ cpc[c] = "pinging" /\ Lost(Ping(c))
    /\ Goto(c, IF spawned[c] THEN "deciding" ELSE "spawning")
    /\ UNCHANGED <<daemonVars, ncall, spawned, outcome, executed, faults>>

(* A ping that times out means a busy listener, so it counts as alive; its *)
(* connection stays in the backlog and will be served all the same.        *)
PingTimesOut(c) ==
    /\ cpc[c] = "pinging" /\ ~Lost(Ping(c))
    /\ Goto(c, "proceeding")
    /\ UNCHANGED <<daemonVars, ncall, spawned, outcome, executed, faults>>

(* A new process runs run_daemon with its parent's environment.            *)
StartProcess(p) ==
    \E d \in Daemons :
        /\ dstate[d] = "unborn"
        /\ \A e \in Daemons : e < d => dstate[e] # "unborn"
        /\ dstate' = [dstate EXCEPT ![d] = "started"]
        /\ port' = [port EXCEPT ![d] = p]
        /\ UNCHANGED <<lockHolder, sockFile, portFile, cancel, backlog,
                       current>>

(* Mutant: spawned is never set.                                           *)
SpawnEveryPoll(c) ==
    /\ cpc[c] = "spawning"
    /\ StartProcess(HttpPort[c])
    /\ Goto(c, "deciding")
    /\ UNCHANGED <<ncall, spawned, outcome, executed, faults>>

SpawnDaemon(c) ==
    /\ cpc[c] = "spawning"
    /\ StartProcess(HttpPort[c])
    /\ spawned' = [spawned EXCEPT ![c] = TRUE]
    /\ Goto(c, "deciding")
    /\ UNCHANGED <<ncall, outcome, executed, faults>>

SpawnFails(c) ==
    /\ "spawnfail" \in Env
    /\ cpc[c] = "spawning"
    /\ Return(c, "err")
    /\ UNCHANGED <<daemonVars, executed, faults>>

GiveUp(c) ==
    /\ cpc[c] = "deciding" /\ DeadlinePassed
    /\ Return(c, "err")
    /\ UNCHANGED <<daemonVars, executed, faults>>

Backoff(c) ==
    /\ cpc[c] = "deciding"
    /\ Goto(c, "connecting")
    /\ UNCHANGED <<daemonVars, ncall, spawned, outcome, executed, faults>>

CallConnect(c) ==
    /\ cpc[c] = "proceeding"
    /\ Connect(Call(c))
    /\ Goto(c, "calling")
    /\ UNCHANGED <<lockHolder, sockFile, portFile, dstate, cancel, current,
                   port, ncall, spawned, outcome, executed, faults>>

(* Mutant: a call whose connection is lost is sent again.                  *)
CallRetries(c) ==
    /\ cpc[c] = "calling" /\ Lost(Call(c))
    /\ Goto(c, "connecting")
    /\ UNCHANGED <<daemonVars, ncall, spawned, outcome, executed, faults>>

(* Mutant: the client waits for its reply whatever becomes of the daemon.  *)
CallIgnoresLoss(c) ==
    /\ cpc[c] = "proceeding" /\ Refused
    /\ Return(c, "err")
    /\ UNCHANGED <<daemonVars, executed, faults>>

(* No retry: the daemon may die between ensure_daemon and the call, or     *)
(* before it answers.                                                      *)
CallFails(c) ==
    /\ \/ cpc[c] = "proceeding" /\ Refused
       \/ cpc[c] = "calling" /\ Lost(Call(c))
    /\ Return(c, "err")
    /\ UNCHANGED <<daemonVars, executed, faults>>

CallTimesOut(c) ==
    /\ "calltimeout" \in Env
    /\ cpc[c] = "calling" /\ ~Lost(Call(c))
    /\ Return(c, "err")
    /\ UNCHANGED <<daemonVars, executed, faults>>

----------------------------------------------------------------------------
(* The daemon: run_daemon up to the accept loop.                           *)

Step(d, from, to) == dstate[d] = from /\ dstate' = [dstate EXCEPT ![d] = to]

(* Mutant: the socket path is cleaned up together with http-port.          *)
CleanBeforeLock(d) ==
    /\ Step(d, "started", "ported")
    /\ portFile' = port[d]
    /\ sockFile' = NoDaemon
    /\ UNCHANGED <<lockHolder, cancel, backlog, current, port, clientVars,
                   executed, faults>>

(* http-port is written, or removed, before the lock is tried.             *)
WritePortFile(d) ==
    /\ Step(d, "started", "ported")
    /\ portFile' = port[d]
    /\ UNCHANGED <<lockHolder, sockFile, cancel, backlog, current, port,
                   clientVars, executed, faults>>

(* Mutant: the lock is taken over from a holder that has stopped serving.  *)
TakeLock(d) ==
    /\ \A e \in Daemons : ~Listening(e)
    /\ Step(d, "ported", "locked")
    /\ lockHolder' = d
    /\ UNCHANGED <<sockFile, portFile, cancel, backlog, current, port,
                   clientVars, executed, faults>>

WinLock(d) ==
    /\ lockHolder = NoDaemon
    /\ Step(d, "ported", "locked")
    /\ lockHolder' = d
    /\ UNCHANGED <<sockFile, portFile, cancel, backlog, current, port,
                   clientVars, executed, faults>>

LoseLock(d) ==
    /\ lockHolder # NoDaemon
    /\ Step(d, "ported", "exited")
    /\ UNCHANGED <<lockHolder, sockFile, portFile, cancel, backlog, current,
                   port, clientVars, executed, faults>>

LaunchBrowser(d) ==
    /\ Step(d, "locked", "launched")
    /\ UNCHANGED <<lockHolder, sockFile, portFile, cancel, backlog, current,
                   port, clientVars, executed, faults>>

ReleaseLock(d) ==
    lockHolder' = IF lockHolder = d THEN NoDaemon ELSE lockHolder

LaunchFails(d) ==
    /\ "launchfail" \in Env /\ faults < MaxFaults
    /\ Step(d, "locked", "exited")
    /\ ReleaseLock(d)
    /\ faults' = faults + 1
    /\ UNCHANGED <<sockFile, portFile, cancel, backlog, current, port,
                   clientVars, executed>>

(* Mutant: the stale socket file is left for bind to find.                 *)
KeepStale(d) ==
    /\ Step(d, "launched", "unlinked")
    /\ UNCHANGED <<lockHolder, sockFile, portFile, cancel, backlog, current,
                   port, clientVars, executed, faults>>

(* Whatever the path names is unlinked, a live listener's socket too.      *)
RemoveStale(d) ==
    /\ Step(d, "launched", "unlinked")
    /\ sockFile' = NoDaemon
    /\ UNCHANGED <<lockHolder, portFile, cancel, backlog, current, port,
                   clientVars, executed, faults>>

(* EADDRINUSE ends run_cancellable, and with it the daemon.                *)
Bind(d) ==
    /\ Step(d, "unlinked", IF sockFile = NoDaemon THEN "serving" ELSE "closing")
    /\ sockFile' = IF sockFile = NoDaemon THEN d ELSE sockFile
    /\ cancel' = [cancel EXCEPT ![d] = sockFile # NoDaemon]
    /\ UNCHANGED <<lockHolder, portFile, backlog, current, port, clientVars,
                   executed, faults>>

----------------------------------------------------------------------------
(* The accept loop: one connection at a time.                              *)

(* Mutant: a response goes to whoever is waiting.                          *)
RespondToAny(conn, result) ==
    IF conn.kind = "call" /\ \E c \in Clients : cpc[c] = "calling"
    THEN \E c \in Clients : cpc[c] = "calling" /\ Return(c, result)
    ELSE IF \E c \in Clients : cpc[c] = "pinging" /\ conn = Ping(c)
    THEN /\ cpc' = [cpc EXCEPT ![conn.req[1]] = "proceeding"]
         /\ UNCHANGED <<ncall, spawned, outcome>>
    ELSE UNCHANGED clientVars

(* The response reaches the client if it still waits on that connection;   *)
(* a failed write is logged by serve_logged and changes nothing.           *)
Respond(conn, result) ==
    IF \E c \in Clients : cpc[c] = "pinging" /\ conn = Ping(c)
    THEN /\ cpc' = [cpc EXCEPT ![conn.req[1]] = "proceeding"]
         /\ UNCHANGED <<ncall, spawned, outcome>>
    ELSE IF \E c \in Clients : cpc[c] = "calling" /\ conn = Call(c)
    THEN Return(conn.req[1], result)
    ELSE UNCHANGED clientVars

(* Leaving run_cancellable drops the listener: waiting connections are     *)
(* reset, the socket file stays behind.                                    *)
LoopAgain(d, rest) ==
    IF cancel'[d]
    THEN /\ dstate' = [dstate EXCEPT ![d] = "closing"]
         /\ backlog' = [backlog EXCEPT ![d] = <<>>]
    ELSE /\ backlog' = [backlog EXCEPT ![d] = rest]
         /\ UNCHANGED dstate

Accepts(d, kind) ==
    /\ Listening(d) /\ current[d] = NoConn
    /\ backlog[d] # <<>> /\ Head(backlog[d]).kind = kind

AcceptPing(d) ==
    /\ Accepts(d, "ping")
    /\ Respond(Head(backlog[d]), "ok")
    /\ UNCHANGED cancel
    /\ LoopAgain(d, Tail(backlog[d]))
    /\ UNCHANGED <<lockHolder, sockFile, portFile, current, port, executed,
                   faults>>

AcceptShutdown(d) ==
    /\ Accepts(d, "shutdown")
    /\ cancel' = [cancel EXCEPT ![d] = TRUE]
    /\ LoopAgain(d, Tail(backlog[d]))
    /\ UNCHANGED <<lockHolder, sockFile, portFile, current, port, clientVars,
                   executed, faults>>

(* The frame is read and the handler started, whether or not the client    *)
(* is still there.                                                         *)
AcceptCall(d) ==
    /\ Accepts(d, "call")
    /\ current' = [current EXCEPT ![d] = Head(backlog[d])]
    /\ backlog' = [backlog EXCEPT ![d] = Tail(@)]
    /\ executed' = [executed EXCEPT ![Head(backlog[d]).req] = @ + 1]
    /\ UNCHANGED <<lockHolder, sockFile, portFile, dstate, cancel, port,
                   clientVars, faults>>

Finishes(d, result) ==
    /\ Listening(d) /\ current[d] # NoConn
    /\ Respond(current[d], result)
    /\ current' = [current EXCEPT ![d] = NoConn]
    /\ UNCHANGED cancel
    /\ LoopAgain(d, backlog[d])
    /\ UNCHANGED <<lockHolder, sockFile, portFile, port, executed, faults>>

FinishCall(d) == Finishes(d, "ok")

HandlerTimesOut(d) == "handlertimeout" \in Env /\ Finishes(d, "err")

----------------------------------------------------------------------------
(* Shutdown, failures and the environment.                                 *)

(* The accept loop ends: the call in service, if any, is dropped.          *)
StopListening(d) ==
    /\ dstate' = [dstate EXCEPT ![d] = "closing"]
    /\ backlog' = [backlog EXCEPT ![d] = <<>>]
    /\ current' = [current EXCEPT ![d] = NoConn]

Sigterm(d) ==
    /\ "sigterm" \in Env /\ faults < MaxFaults
    /\ Listening(d) /\ ~cancel[d]
    /\ cancel' = [cancel EXCEPT ![d] = TRUE]
    /\ faults' = faults + 1
    /\ UNCHANGED <<lockHolder, sockFile, portFile, dstate, backlog, current,
                   port, clientVars, executed>>

SendShutdown ==
    /\ "shutdown" \in Env /\ faults < MaxFaults
    /\ Connect([kind |-> "shutdown", req |-> Operator])
    /\ faults' = faults + 1
    /\ UNCHANGED <<lockHolder, sockFile, portFile, dstate, cancel, current,
                   port, clientVars, executed>>

(* The select sees the token while no connection is served, or the grace   *)
(* period ends with one still in service.                                  *)
NoticeCancel(d) ==
    /\ Listening(d) /\ cancel[d] /\ current[d] = NoConn
    /\ StopListening(d)
    /\ UNCHANGED <<lockHolder, sockFile, portFile, cancel, port, clientVars,
                   executed, faults>>

GraceExpires(d) ==
    /\ Listening(d) /\ cancel[d] /\ current[d] # NoConn
    /\ StopListening(d)
    /\ UNCHANGED <<lockHolder, sockFile, portFile, cancel, port, clientVars,
                   executed, faults>>

(* An accept error that is not transient.                                  *)
AcceptError(d) ==
    /\ "accepterror" \in Env /\ faults < MaxFaults
    /\ Listening(d) /\ current[d] = NoConn
    /\ StopListening(d)
    /\ cancel' = [cancel EXCEPT ![d] = TRUE]
    /\ faults' = faults + 1
    /\ UNCHANGED <<lockHolder, sockFile, portFile, port, clientVars, executed>>

(* The browser is closed and the process ends; the kernel drops the flock. *)
Exit(d) ==
    /\ Step(d, "closing", "exited")
    /\ ReleaseLock(d)
    /\ UNCHANGED <<sockFile, portFile, cancel, backlog, current, port,
                   clientVars, executed, faults>>

(* SIGKILL, a panic of a handler on the socket path, or SIGTERM before its *)
(* handler is installed.                                                   *)
Crash(d) ==
    /\ "crash" \in Env /\ faults < MaxFaults
    /\ Alive(d)
    /\ dstate' = [dstate EXCEPT ![d] = "exited"]
    /\ backlog' = [backlog EXCEPT ![d] = <<>>]
    /\ current' = [current EXCEPT ![d] = NoConn]
    /\ ReleaseLock(d)
    /\ faults' = faults + 1
    /\ UNCHANGED <<sockFile, portFile, cancel, port, clientVars, executed>>

ServiceStart ==
    /\ "service" \in Env
    /\ \A d \in Daemons : port[d] # ServicePort
    /\ StartProcess(ServicePort)
    /\ UNCHANGED <<clientVars, executed, faults>>

----------------------------------------------------------------------------

ClientStep(c) ==
    \/ EnsureBegin(c) \/ PingConnect(c) \/ PingFails(c) \/ PingTimesOut(c)
    \/ SpawnDaemon(c) \/ SpawnFails(c) \/ GiveUp(c) \/ Backoff(c)
    \/ CallConnect(c) \/ CallFails(c) \/ CallTimesOut(c)

DaemonStep(d) ==
    \/ WritePortFile(d) \/ WinLock(d) \/ LoseLock(d) \/ LaunchBrowser(d)
    \/ LaunchFails(d) \/ RemoveStale(d) \/ Bind(d)
    \/ AcceptPing(d) \/ AcceptShutdown(d) \/ AcceptCall(d)
    \/ FinishCall(d) \/ HandlerTimesOut(d)
    \/ Sigterm(d) \/ NoticeCancel(d) \/ GraceExpires(d) \/ AcceptError(d)
    \/ Exit(d) \/ Crash(d)

Next ==
    \/ \E c \in Clients : ClientStep(c)
    \/ \E d \in Daemons : DaemonStep(d)
    \/ SendShutdown \/ ServiceStart

Spec == Init /\ [][Next]_vars

(* A live process runs on; a client runs until its call returns; time      *)
(* passes, so a client that keeps polling meets its deadline (which comes  *)
(* and goes from GiveUp's guard between polls: strong fairness).           *)
ClientRuns(c) ==
    PingConnect(c) \/ PingFails(c) \/ SpawnDaemon(c) \/ Backoff(c)
        \/ CallConnect(c) \/ CallFails(c)

DaemonRuns(d) ==
    \/ WritePortFile(d) \/ WinLock(d) \/ LoseLock(d) \/ LaunchBrowser(d)
    \/ RemoveStale(d) \/ Bind(d)
    \/ AcceptPing(d) \/ AcceptShutdown(d) \/ AcceptCall(d) \/ FinishCall(d)
    \/ NoticeCancel(d) \/ GraceExpires(d) \/ Exit(d)

Fairness ==
    /\ \A c \in Clients : WF_vars(ClientRuns(c)) /\ SF_vars(GiveUp(c))
    /\ \A d \in Daemons : WF_vars(DaemonRuns(d))

FairSpec == Spec /\ Fairness

----------------------------------------------------------------------------
(* Properties.                                                             *)

(* A process past the lock is its only holder, so at most one process      *)
(* drives a browser, on one profile directory, at any time: run_daemon     *)
(* launches it after acquire_exclusive and holds the guard until it exits. *)
OneBrowser ==
    \A d, e \in Daemons :
        dstate[d] \in HoldsLock /\ dstate[e] \in HoldsLock => d = e

(* remove_stale unlinks without looking, and processes exit leaving their  *)
(* socket file behind; still the path always names the live listener: no   *)
(* late starter ever cuts clients off from a daemon that is serving.       *)
ListenerReachable ==
    \A d \in Daemons : Listening(d) => sockFile = d /\ lockHolder = d

(* Pings that time out, abandoned connections, replacement daemons and     *)
(* lost replies never make one tool call run twice: no layer retries.      *)
AtMostOnce == \A r \in Requests : executed[r] <= 1

(* The calls begun so far.                                                 *)
Issued == {r \in Requests : r[2] <= ncall[r[1]]}

(* ensure_daemon spawns at most one process for each call, so callers that *)
(* poll a cold or a dying daemon never become a storm of processes.        *)
SpawnsBounded ==
    Cardinality({d \in Daemons : dstate[d] # "unborn" /\ port[d] # ServicePort})
        <= Cardinality(Issued)

(* Every tool call returns, with a result or an error, whatever dies       *)
(* (thin-client/transport.rs: every wait has a deadline).                  *)
EveryCallReturns ==
    \A c \in Clients : cpc[c] # "idle" ~> cpc[c] = "idle"

(* The first ping of a call, before ensure_daemon has spawned anything.    *)
FirstPing(c, n) == cpc[c] = "connecting" /\ ~spawned[c] /\ ncall[c] = n

(* A call succeeds unless a daemon dies while it is under way: cold start, *)
(* several callers at once, a busy daemon and an earlier crash are all     *)
(* absorbed by ensure_daemon (cli/tests/daemon_parallel_cold_start.rs,     *)
(* daemon_kill_restart.rs, daemon_busy_fanout.rs).                         *)
CallSucceedsUnlessDaemonDies ==
    \A c \in Clients, n \in 1 .. MaxCalls, k \in 0 .. MaxFaults :
        (FirstPing(c, n) /\ faults = k)
            ~> (outcome[<<c, n>>] = "ok" \/ faults > k)

----------------------------------------------------------------------------
(* The clients, the processes, the lock and the socket together implement  *)
(* the abstract service: replacing a daemon hands over from one server to  *)
(* the next, and the double executions it rules out never happen.          *)
Serving == IF Refused THEN NoDaemon ELSE sockFile

Service == INSTANCE ToolService WITH
    Servers  <- Daemons,
    NoServer <- NoDaemon,
    server   <- Serving,
    issued   <- Issued,
    runs     <- executed,
    result   <- outcome

ImplementsToolService == Service!Spec
=============================================================================
