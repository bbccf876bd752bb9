----------------------- MODULE DaemonLifecycleProofs -----------------------
(***************************************************************************)
(* Theorems about DaemonLifecycle, for any number of clients, processes,   *)
(* calls and faults and for every environment.                             *)
(***************************************************************************)
EXTENDS DaemonLifecycle, FiniteSetTheorems, SequenceTheorems, TLAPS

(* The flock is held by exactly the process that is past it.               *)
LockInv ==
    \A d \in Daemons : dstate[d] \in HoldsLock <=> lockHolder = d

(* Between remove_stale and bind the path is free; while a daemon serves   *)
(* the path names its listener.                                            *)
SockInv ==
    \A d \in Daemons :
        /\ dstate[d] = "unlinked" => sockFile = NoDaemon
        /\ dstate[d] = "serving" => sockFile = d

(* A client that is busy is busy with a request.                           *)
ClientInv ==
    \A c \in Clients : cpc[c] # "idle" => ncall[c] # 0

IndInv == TypeOK /\ ClientInv /\ LockInv /\ SockInv

LEMMA DaemonNumbers == Daemons \subseteq Nat /\ NoDaemon \notin Daemons
BY ConstantsAssumption DEF Daemons, NoDaemon

LEMMA ClientConns ==
    ASSUME TypeOK, ClientInv, NEW c \in Clients, cpc[c] # "idle"
    PROVE  Request(c) \in Requests /\ Ping(c) \in Conns /\ Call(c) \in Conns
BY ConstantsAssumption
   DEF TypeOK, ClientInv, Request, Requests, Ping, Call, Conns

(* Responding to a client leaves it between calls or about to call.        *)
LEMMA RespondType ==
    ASSUME TypeOK, ClientInv, NEW conn, NEW result \in {"ok", "err"},
           Respond(conn, result)
    PROVE  /\ cpc' \in [Clients -> ClientStates]
           /\ ncall' = ncall /\ spawned' = spawned
           /\ outcome' \in [Requests -> {"pending", "ok", "err"}]
           /\ \A c \in Clients : cpc'[c] # "idle" => cpc[c] # "idle"
<1>1. CASE \E c \in Clients : cpc[c] = "pinging" /\ conn = Ping(c)
  <2>1. PICK c \in Clients : cpc[c] = "pinging" /\ conn = Ping(c)
    BY <1>1
  <2>2. conn.req[1] = c
    BY <2>1 DEF Ping, Request
  <2>3. /\ cpc' = [cpc EXCEPT ![c] = "proceeding"]
        /\ UNCHANGED <<ncall, spawned, outcome>>
    BY <1>1, <2>2 DEF Respond
  <2> QED
    BY <2>1, <2>3 DEF TypeOK, ClientStates
<1>2. CASE /\ ~\E c \in Clients : cpc[c] = "pinging" /\ conn = Ping(c)
           /\ \E c \in Clients : cpc[c] = "calling" /\ conn = Call(c)
  <2>1. PICK c \in Clients : cpc[c] = "calling" /\ conn = Call(c)
    BY <1>2
  <2>2. conn.req[1] = c
    BY <2>1 DEF Call, Request
  <2>3. Return(c, result)
    BY <1>2, <2>2 DEF Respond
  <2> QED
    BY <2>1, <2>3 DEF Return, Goto, TypeOK, ClientStates
<1>3. CASE /\ ~\E c \in Clients : cpc[c] = "pinging" /\ conn = Ping(c)
           /\ ~\E c \in Clients : cpc[c] = "calling" /\ conn = Call(c)
  BY <1>3 DEF Respond, TypeOK, clientVars
<1> QED BY <1>1, <1>2, <1>3

LEMMA ConnectType ==
    ASSUME TypeOK, NEW conn \in Conns, Connect(conn)
    PROVE  backlog' \in [Daemons -> Seq(Conns)]
<1>1. PICK d \in Daemons : backlog' = [backlog EXCEPT ![d] = Append(@, conn)]
  BY DEF Connect
<1>2. Append(backlog[d], conn) \in Seq(Conns)
  BY DEF TypeOK
<1> QED BY <1>1, <1>2 DEF TypeOK

LEMMA AcceptsType ==
    ASSUME TypeOK, NEW d \in Daemons, NEW kind, Accepts(d, kind)
    PROVE  Head(backlog[d]) \in Conns /\ Tail(backlog[d]) \in Seq(Conns)
BY HeadTailProperties DEF TypeOK, Accepts

(* After a connection is served the daemon serves on or closes.            *)
LEMMA LoopAgainType ==
    ASSUME IndInv, NEW d \in Daemons, Listening(d), NEW rest \in Seq(Conns),
           LoopAgain(d, rest), UNCHANGED <<lockHolder, sockFile>>
    PROVE  /\ backlog' \in [Daemons -> Seq(Conns)]
           /\ dstate' \in [Daemons -> DaemonStates]
           /\ LockInv' /\ SockInv'
<1>1. /\ backlog' \in [Daemons -> Seq(Conns)]
      /\ dstate' = dstate \/ dstate' = [dstate EXCEPT ![d] = "closing"]
  <2>1. CASE cancel'[d]
    <3>1. <<>> \in Seq(Conns)
      OBVIOUS
    <3> QED BY <2>1, <3>1 DEF LoopAgain, IndInv, TypeOK
  <2>2. CASE ~cancel'[d]
    BY <2>2 DEF LoopAgain, IndInv, TypeOK
  <2> QED BY <2>1, <2>2
<1> QED
  BY <1>1 DEF IndInv, TypeOK, LockInv, SockInv, Listening, DaemonStates,
              HoldsLock, Starting

(* A process that is started holds nothing yet.                            *)
LEMMA StartKeeps ==
    ASSUME IndInv, NEW p \in Nat, StartProcess(p)
    PROVE  /\ dstate' \in [Daemons -> DaemonStates]
           /\ port' \in [Daemons -> Nat] /\ LockInv' /\ SockInv'
           /\ UNCHANGED <<lockHolder, sockFile, portFile, cancel, backlog,
                          current>>
<1>1. PICK d \in Daemons :
         /\ dstate[d] = "unborn"
         /\ dstate' = [dstate EXCEPT ![d] = "started"]
         /\ port' = [port EXCEPT ![d] = p]
         /\ UNCHANGED <<lockHolder, sockFile, portFile, cancel, backlog,
                        current>>
  BY DEF StartProcess
<1>2. dstate' \in [Daemons -> DaemonStates] /\ port' \in [Daemons -> Nat]
  BY <1>1 DEF IndInv, TypeOK, DaemonStates, Starting
<1>3. LockInv' /\ SockInv'
  BY <1>1 DEF IndInv, TypeOK, LockInv, SockInv, HoldsLock
<1> QED BY <1>1, <1>2, <1>3

LEMMA InitInv == Init => IndInv
BY ConstantsAssumption
   DEF Init, IndInv, TypeOK, ClientInv, LockInv, SockInv, Daemons, NoDaemon,
       NoPort, DaemonStates, HoldsLock, Starting, ClientStates, NoConn, Requests

LEMMA StepInv == IndInv /\ [Next]_vars => IndInv'
<1> SUFFICES ASSUME IndInv, [Next]_vars PROVE IndInv'
  OBVIOUS
<1> USE ConstantsAssumption, DaemonNumbers
<1>1. ASSUME NEW c \in Clients, ClientStep(c) PROVE IndInv'
  <2>1. CASE EnsureBegin(c)
    <3>1. /\ TypeOK /\ ClientInv /\ LockInv /\ SockInv
          /\ ncall[c] \in 0 .. MaxCalls /\ ncall[c] < MaxCalls
      BY <2>1 DEF IndInv, TypeOK, EnsureBegin
    <3>2. ncall[c] + 1 \in 0 .. MaxCalls /\ ncall[c] + 1 # 0
      BY <3>1
    <3>3. /\ cpc' = [cpc EXCEPT ![c] = "connecting"]
          /\ ncall' = [ncall EXCEPT ![c] = ncall[c] + 1]
          /\ spawned' = [spawned EXCEPT ![c] = FALSE]
          /\ UNCHANGED <<daemonVars, outcome, executed, faults>>
      BY <2>1 DEF EnsureBegin, Goto
    <3>4. TypeOK'
      BY <3>1, <3>2, <3>3 DEF TypeOK, daemonVars, ClientStates
    <3>5. ClientInv'
      BY <3>1, <3>2, <3>3 DEF TypeOK, ClientInv
    <3>6. LockInv' /\ SockInv'
      BY <3>1, <3>3 DEF LockInv, SockInv, daemonVars
    <3> QED
      BY <3>4, <3>5, <3>6 DEF IndInv
  <2>2. CASE PingConnect(c)
    BY <2>2, ClientConns, ConnectType
       DEF IndInv, TypeOK, ClientInv, LockInv, SockInv, PingConnect, Goto,
           daemonVars, clientVars, ClientStates, DaemonStates, Starting,
           HoldsLock
  <2>3. CASE PingFails(c)
    BY <2>3
       DEF IndInv, TypeOK, ClientInv, LockInv, SockInv, PingFails, Goto,
           daemonVars, clientVars, ClientStates, DaemonStates, Starting,
           HoldsLock
  <2>4. CASE PingTimesOut(c)
    BY <2>4
       DEF IndInv, TypeOK, ClientInv, LockInv, SockInv, PingTimesOut,
           Goto, daemonVars, clientVars, ClientStates, DaemonStates,
           Starting, HoldsLock
  <2>5. CASE SpawnDaemon(c)
    <3>1. HttpPort[c] \in Nat
      OBVIOUS
    <3>2. /\ dstate' \in [Daemons -> DaemonStates]
          /\ port' \in [Daemons -> Nat] /\ LockInv' /\ SockInv'
          /\ UNCHANGED <<lockHolder, sockFile, portFile, cancel, backlog,
                         current>>
      BY <2>5, <3>1, StartKeeps DEF SpawnDaemon
    <3> QED
      BY <2>5, <3>2
         DEF IndInv, TypeOK, ClientInv, SpawnDaemon, Goto, ClientStates
  <2>6. CASE SpawnFails(c)
    BY <2>6
       DEF IndInv, TypeOK, ClientInv, LockInv, SockInv, SpawnFails,
           Return, Goto, daemonVars, clientVars, ClientStates,
           DaemonStates, Starting, HoldsLock
  <2>7. CASE GiveUp(c)
    BY <2>7
       DEF IndInv, TypeOK, ClientInv, LockInv, SockInv, GiveUp, Return,
           Goto, daemonVars, clientVars, ClientStates, DaemonStates,
           Starting, HoldsLock
  <2>8. CASE Backoff(c)
    BY <2>8
       DEF IndInv, TypeOK, ClientInv, LockInv, SockInv, Backoff, Goto,
           daemonVars, clientVars, ClientStates, DaemonStates, Starting,
           HoldsLock
  <2>9. CASE CallConnect(c)
    BY <2>9, ClientConns, ConnectType
       DEF IndInv, TypeOK, ClientInv, LockInv, SockInv, CallConnect, Goto,
           daemonVars, clientVars, ClientStates, DaemonStates, Starting,
           HoldsLock
  <2>10. CASE CallFails(c)
    BY <2>10
       DEF IndInv, TypeOK, ClientInv, LockInv, SockInv, CallFails, Return,
           Goto, daemonVars, clientVars, ClientStates, DaemonStates,
           Starting, HoldsLock
  <2>11. CASE CallTimesOut(c)
    BY <2>11
       DEF IndInv, TypeOK, ClientInv, LockInv, SockInv, CallTimesOut,
           Return, Goto, daemonVars, clientVars, ClientStates,
           DaemonStates, Starting, HoldsLock
  <2> QED
    BY <1>1, <2>1, <2>2, <2>3, <2>4, <2>5, <2>6, <2>7, <2>8, <2>9, <2>10, <2>11 DEF ClientStep
<1>2. ASSUME NEW d \in Daemons, DaemonStep(d) PROVE IndInv'
  <2>1. CASE WritePortFile(d)
    BY <2>1
       DEF IndInv, TypeOK, ClientInv, LockInv, SockInv, WritePortFile,
           Step, clientVars, ClientStates, DaemonStates, Starting,
           HoldsLock
  <2>2. CASE WinLock(d)
    BY <2>2
       DEF IndInv, TypeOK, ClientInv, LockInv, SockInv, WinLock, Step,
           clientVars, ClientStates, DaemonStates, Starting, HoldsLock
  <2>3. CASE LoseLock(d)
    BY <2>3
       DEF IndInv, TypeOK, ClientInv, LockInv, SockInv, LoseLock, Step,
           clientVars, ClientStates, DaemonStates, Starting, HoldsLock
  <2>4. CASE LaunchBrowser(d)
    BY <2>4
       DEF IndInv, TypeOK, ClientInv, LockInv, SockInv, LaunchBrowser,
           Step, clientVars, ClientStates, DaemonStates, Starting,
           HoldsLock
  <2>5. CASE LaunchFails(d)
    <3>1. TypeOK'
      BY <2>5 DEF IndInv, TypeOK, LaunchFails, Step, ReleaseLock, clientVars, DaemonStates
    <3>2. ClientInv' /\ LockInv' /\ SockInv'
      BY <2>5 DEF IndInv, TypeOK, ClientInv, LockInv, SockInv, LaunchFails, Step,
                  ReleaseLock, clientVars, HoldsLock
    <3> QED BY <3>1, <3>2 DEF IndInv
  <2>6. CASE RemoveStale(d)
    BY <2>6
       DEF IndInv, TypeOK, ClientInv, LockInv, SockInv, RemoveStale, Step,
           clientVars, ClientStates, DaemonStates, Starting, HoldsLock
  <2>7. CASE Bind(d)
    BY <2>7
       DEF IndInv, TypeOK, ClientInv, LockInv, SockInv, Bind, Step,
           clientVars, ClientStates, DaemonStates, Starting, HoldsLock
  <2>8. CASE AcceptPing(d)
    <3>1. Tail(backlog[d]) \in Seq(Conns) /\ Listening(d)
      BY <2>8, AcceptsType DEF IndInv, AcceptPing, Accepts
    <3>2. /\ backlog' \in [Daemons -> Seq(Conns)]
          /\ dstate' \in [Daemons -> DaemonStates] /\ LockInv' /\ SockInv'
      BY <2>8, <3>1, LoopAgainType DEF AcceptPing
    <3>3. /\ cpc' \in [Clients -> ClientStates]
          /\ ncall' = ncall /\ spawned' = spawned
          /\ outcome' \in [Requests -> {"pending", "ok", "err"}]
          /\ \A c \in Clients : cpc'[c] # "idle" => cpc[c] # "idle"
      BY <2>8, RespondType DEF AcceptPing, IndInv
    <3> QED
      BY <2>8, <3>2, <3>3 DEF IndInv, TypeOK, ClientInv, AcceptPing
  <2>9. CASE AcceptShutdown(d)
    <3>1. Tail(backlog[d]) \in Seq(Conns) /\ Listening(d)
      BY <2>9, AcceptsType DEF IndInv, AcceptShutdown, Accepts
    <3>2. /\ backlog' \in [Daemons -> Seq(Conns)]
          /\ dstate' \in [Daemons -> DaemonStates] /\ LockInv' /\ SockInv'
      BY <2>9, <3>1, LoopAgainType DEF AcceptShutdown
    <3> QED
      BY <2>9, <3>2
         DEF IndInv, TypeOK, ClientInv, AcceptShutdown, clientVars
  <2>10. CASE AcceptCall(d)
    <3>1. Head(backlog[d]) \in Conns /\ Tail(backlog[d]) \in Seq(Conns)
      BY <2>10, AcceptsType DEF IndInv, AcceptCall
    <3>2. executed' \in [Requests -> Nat]
      <4> DEFINE r == Head(backlog[d]).req
      <4>1. executed' = [executed EXCEPT ![r] = executed[r] + 1]
        BY <2>10 DEF AcceptCall
      <4>2. executed \in [Requests -> Nat]
        BY DEF IndInv, TypeOK
      <4>3. r \in Requests
        BY <2>10, <3>1 DEF AcceptCall, Accepts, Conns
      <4> HIDE DEF r
      <4> QED BY <4>1, <4>2, <4>3
    <3>3. /\ backlog' \in [Daemons -> Seq(Conns)]
          /\ current' \in [Daemons -> Conns \cup {NoConn}]
      BY <2>10, <3>1 DEF IndInv, TypeOK, AcceptCall
    <3>4. TypeOK'
      BY <2>10, <3>2, <3>3 DEF IndInv, TypeOK, AcceptCall, clientVars
    <3> QED
      BY <2>10, <3>4
         DEF IndInv, ClientInv, LockInv, SockInv, AcceptCall, clientVars
  <2>11. CASE FinishCall(d)
    <3>1. backlog[d] \in Seq(Conns) /\ Listening(d)
      BY <2>11 DEF IndInv, TypeOK, FinishCall, Finishes
    <3>2. /\ backlog' \in [Daemons -> Seq(Conns)]
          /\ dstate' \in [Daemons -> DaemonStates] /\ LockInv' /\ SockInv'
      BY <2>11, <3>1, LoopAgainType DEF FinishCall, Finishes
    <3>3. /\ cpc' \in [Clients -> ClientStates]
          /\ ncall' = ncall /\ spawned' = spawned
          /\ outcome' \in [Requests -> {"pending", "ok", "err"}]
          /\ \A c \in Clients : cpc'[c] # "idle" => cpc[c] # "idle"
      BY <2>11, RespondType DEF FinishCall, Finishes, IndInv
    <3> QED
      BY <2>11, <3>2, <3>3 DEF IndInv, TypeOK, ClientInv, FinishCall, Finishes
  <2>12. CASE HandlerTimesOut(d)
    <3>1. backlog[d] \in Seq(Conns) /\ Listening(d)
      BY <2>12 DEF IndInv, TypeOK, HandlerTimesOut, Finishes
    <3>2. /\ backlog' \in [Daemons -> Seq(Conns)]
          /\ dstate' \in [Daemons -> DaemonStates] /\ LockInv' /\ SockInv'
      BY <2>12, <3>1, LoopAgainType DEF HandlerTimesOut, Finishes
    <3>3. /\ cpc' \in [Clients -> ClientStates]
          /\ ncall' = ncall /\ spawned' = spawned
          /\ outcome' \in [Requests -> {"pending", "ok", "err"}]
          /\ \A c \in Clients : cpc'[c] # "idle" => cpc[c] # "idle"
      BY <2>12, RespondType DEF HandlerTimesOut, Finishes, IndInv
    <3> QED
      BY <2>12, <3>2, <3>3 DEF IndInv, TypeOK, ClientInv, HandlerTimesOut, Finishes
  <2>13. CASE Sigterm(d)
    BY <2>13
       DEF IndInv, TypeOK, ClientInv, LockInv, SockInv, Sigterm,
           Listening, clientVars, ClientStates, DaemonStates, Starting,
           HoldsLock
  <2>14. CASE NoticeCancel(d)
    BY <2>14
       DEF IndInv, TypeOK, ClientInv, LockInv, SockInv, NoticeCancel,
           StopListening, Listening, clientVars, ClientStates,
           DaemonStates, Starting, HoldsLock
  <2>15. CASE GraceExpires(d)
    <3>1. TypeOK'
      <4>1. cancel' \in [Daemons -> BOOLEAN] /\ faults' \in 0 .. MaxFaults
        BY <2>15 DEF IndInv, TypeOK, GraceExpires
      <4>2. dstate' \in [Daemons -> DaemonStates]
        BY <2>15 DEF IndInv, TypeOK, GraceExpires, StopListening, DaemonStates, HoldsLock
      <4>3. /\ backlog' \in [Daemons -> Seq(Conns)]
            /\ current' \in [Daemons -> Conns \cup {NoConn}]
            /\ sockFile' \in Daemons \cup {NoDaemon}
        BY <2>15 DEF IndInv, TypeOK, GraceExpires, StopListening
      <4> QED
        BY <2>15, <4>1, <4>2, <4>3 DEF IndInv, TypeOK, GraceExpires, StopListening, clientVars
    <3>2. ClientInv' /\ LockInv' /\ SockInv'
      BY <2>15 DEF IndInv, TypeOK, ClientInv, LockInv, SockInv, GraceExpires,
                   StopListening, Listening, clientVars, HoldsLock
    <3> QED BY <3>1, <3>2 DEF IndInv
  <2>16. CASE AcceptError(d)
    <3>1. TypeOK'
      <4>1. cancel' \in [Daemons -> BOOLEAN] /\ faults' \in 0 .. MaxFaults
        BY <2>16 DEF IndInv, TypeOK, AcceptError
      <4>2. dstate' \in [Daemons -> DaemonStates]
        BY <2>16 DEF IndInv, TypeOK, AcceptError, StopListening, DaemonStates, HoldsLock
      <4>3. /\ backlog' \in [Daemons -> Seq(Conns)]
            /\ current' \in [Daemons -> Conns \cup {NoConn}]
            /\ sockFile' \in Daemons \cup {NoDaemon}
        BY <2>16 DEF IndInv, TypeOK, AcceptError, StopListening
      <4> QED
        BY <2>16, <4>1, <4>2, <4>3 DEF IndInv, TypeOK, AcceptError, StopListening, clientVars
    <3>2. ClientInv' /\ LockInv' /\ SockInv'
      BY <2>16 DEF IndInv, TypeOK, ClientInv, LockInv, SockInv, AcceptError,
                   StopListening, Listening, clientVars, HoldsLock
    <3> QED BY <3>1, <3>2 DEF IndInv
  <2>17. CASE Exit(d)
    BY <2>17
       DEF IndInv, TypeOK, ClientInv, LockInv, SockInv, Exit, Step,
           ReleaseLock, clientVars, ClientStates, DaemonStates, Starting,
           HoldsLock
  <2>18. CASE Crash(d)
    <3>1. TypeOK'
      <4>1. faults' \in 0 .. MaxFaults
        BY <2>18 DEF IndInv, TypeOK, Crash
      <4>2. lockHolder' \in Daemons \cup {NoDaemon}
        BY <2>18 DEF IndInv, TypeOK, Crash, ReleaseLock
      <4>3. dstate' \in [Daemons -> DaemonStates]
        BY <2>18 DEF IndInv, TypeOK, Crash, DaemonStates
      <4>4. /\ backlog' \in [Daemons -> Seq(Conns)]
            /\ current' \in [Daemons -> Conns \cup {NoConn}]
        BY <2>18 DEF IndInv, TypeOK, Crash
      <4> QED
        BY <2>18, <4>1, <4>2, <4>3, <4>4 DEF IndInv, TypeOK, Crash, clientVars
    <3>2. ClientInv' /\ LockInv' /\ SockInv'
      BY <2>18 DEF IndInv, TypeOK, ClientInv, LockInv, SockInv, Crash,
                   ReleaseLock, clientVars, HoldsLock
    <3> QED BY <3>1, <3>2 DEF IndInv
  <2> QED
    BY <1>2, <2>1, <2>2, <2>3, <2>4, <2>5, <2>6, <2>7, <2>8, <2>9, <2>10, <2>11, <2>12, <2>13, <2>14, <2>15, <2>16, <2>17, <2>18 DEF DaemonStep
<1>3. CASE SendShutdown
  <2>1. [kind |-> "shutdown", req |-> Operator] \in Conns
    BY DEF Conns
  <2>2. backlog' \in [Daemons -> Seq(Conns)]
    BY <1>3, <2>1, ConnectType DEF IndInv, SendShutdown
  <2>3. TypeOK'
    <3>1. outcome' \in [Requests -> {"pending", "ok", "err"}] /\ faults' \in 0 .. MaxFaults
      BY <1>3 DEF IndInv, TypeOK, SendShutdown, Connect, clientVars
    <3> QED
      BY <1>3, <2>2, <3>1 DEF IndInv, TypeOK, SendShutdown, clientVars
  <2>4. ClientInv' /\ LockInv' /\ SockInv'
    BY <1>3 DEF IndInv, ClientInv, LockInv, SockInv, SendShutdown, clientVars
  <2> QED
    BY <2>3, <2>4 DEF IndInv
<1>4. CASE ServiceStart
  <2>1. ServicePort \in Nat
    OBVIOUS
  <2> QED
    BY <1>4, <2>1, StartKeeps DEF IndInv, TypeOK, ClientInv, ServiceStart,
                                  clientVars
<1>5. CASE UNCHANGED vars
  BY <1>5 DEF IndInv, TypeOK, ClientInv, LockInv, SockInv, vars, daemonVars, clientVars
<1> QED
  BY <1>1, <1>2, <1>3, <1>4, <1>5 DEF Next

(* Every variable keeps its type, a busy client has a request.             *)
THEOREM TypeCorrect == Spec => []TypeOK
<1>1. IndInv => TypeOK
  BY DEF IndInv
<1> QED
  BY InitInv, StepInv, <1>1, PTL DEF Spec

(* At any time at most one process is past the lock, and so drives the     *)
(* browser.                                                                *)
THEOREM LockExcludes == Spec => []OneBrowser
<1>1. IndInv => OneBrowser
  BY DEF IndInv, LockInv, OneBrowser
<1> QED
  BY InitInv, StepInv, <1>1, PTL DEF Spec

(* The unconditional unlink of remove_stale never removes the socket of a  *)
(* daemon that serves, and clients always reach the one that holds the     *)
(* lock.                                                                   *)
THEOREM SocketStaysReachable == Spec => []ListenerReachable
<1>1. IndInv => ListenerReachable
  BY DEF IndInv, LockInv, SockInv, ListenerReachable, Listening, HoldsLock
<1> QED
  BY InitInv, StepInv, <1>1, PTL DEF Spec

----------------------------------------------------------------------------
(* At-most-once execution.  A call is written to the socket at most once,  *)
(* so it is in at most one place of one backlog; the accept loop takes it  *)
(* from there before its handler starts.                                   *)

CallConn(r) == [kind |-> "call", req |-> r]

(* The call of request r has been written to a connection.                 *)
Sent(r) ==
    \/ r[2] < ncall[r[1]]
    \/ r[2] = ncall[r[1]] /\ cpc[r[1]] \in {"calling", "idle"}

Waits(d, i, r) == i \in 1 .. Len(backlog[d]) /\ backlog[d][i] = CallConn(r)

ExecInv ==
    /\ \A r \in Requests :
          executed[r] \in {0, 1} /\ (executed[r] = 1 => Sent(r))
    /\ \A r \in Requests, d \in Daemons, i \in Nat :
          Waits(d, i, r) => executed[r] = 0 /\ Sent(r)
    /\ \A r \in Requests, d, e \in Daemons, i, j \in Nat :
          Waits(d, i, r) /\ Waits(e, j, r) => d = e /\ i = j

(* How one step moves a client.                                            *)
Moves(c) ==
    \/ ncall'[c] = ncall[c] /\ cpc'[c] = cpc[c]
    \/ ncall'[c] = ncall[c] /\ cpc[c] \notin {"idle", "calling"}
    \/ ncall'[c] = ncall[c] /\ cpc[c] = "calling" /\ cpc'[c] = "idle"
    \/ ncall'[c] = ncall[c] + 1 /\ cpc[c] = "idle"

LEMMA RespondMoves ==
    ASSUME TypeOK, NEW conn, NEW result, Respond(conn, result)
    PROVE  \A c \in Clients : Moves(c)
<1>1. CASE \E c \in Clients : cpc[c] = "pinging" /\ conn = Ping(c)
  <2>1. PICK c \in Clients : cpc[c] = "pinging" /\ conn = Ping(c)
    BY <1>1
  <2>2. conn.req[1] = c
    BY <2>1 DEF Ping, Request
  <2>3. cpc' = [cpc EXCEPT ![c] = "proceeding"] /\ UNCHANGED ncall
    BY <1>1, <2>2 DEF Respond
  <2> QED
    BY <2>1, <2>3 DEF TypeOK, Moves
<1>2. CASE /\ ~\E c \in Clients : cpc[c] = "pinging" /\ conn = Ping(c)
           /\ \E c \in Clients : cpc[c] = "calling" /\ conn = Call(c)
  <2>1. PICK c \in Clients : cpc[c] = "calling" /\ conn = Call(c)
    BY <1>2
  <2>2. conn.req[1] = c
    BY <2>1 DEF Call, Request
  <2>3. Return(c, result)
    BY <1>2, <2>2 DEF Respond
  <2> QED
    BY <2>1, <2>3 DEF Return, Goto, TypeOK, Moves
<1>3. CASE /\ ~\E c \in Clients : cpc[c] = "pinging" /\ conn = Ping(c)
           /\ ~\E c \in Clients : cpc[c] = "calling" /\ conn = Call(c)
  BY <1>3 DEF Respond, clientVars, Moves
<1> QED BY <1>1, <1>2, <1>3

LEMMA ClientMoves ==
    IndInv /\ [Next]_vars => \A c \in Clients : Moves(c)
<1> SUFFICES ASSUME IndInv, [Next]_vars PROVE \A c \in Clients : Moves(c)
  OBVIOUS
<1>1. TypeOK
  BY DEF IndInv
<1>2. ASSUME NEW c \in Clients, ClientStep(c)
      PROVE  \A b \in Clients : Moves(b)
  BY <1>1, <1>2, ConstantsAssumption
     DEF TypeOK, ClientStep, EnsureBegin, PingConnect, PingFails,
         PingTimesOut, SpawnDaemon, SpawnFails, GiveUp, Backoff, CallConnect,
         CallFails, CallTimesOut, Goto, Return, Moves
<1>3. ASSUME NEW d \in Daemons, DaemonStep(d)
      PROVE  \A b \in Clients : Moves(b)
  <2>1. CASE AcceptPing(d)
    BY <1>1, <2>1, RespondMoves DEF AcceptPing
  <2>2. CASE FinishCall(d) \/ HandlerTimesOut(d)
    BY <1>1, <2>2, RespondMoves DEF FinishCall, HandlerTimesOut, Finishes
  <2>3. CASE UNCHANGED clientVars
    BY <2>3 DEF clientVars, Moves
  <2> QED
    BY <1>3, <2>1, <2>2, <2>3
       DEF DaemonStep, WritePortFile, WinLock, LoseLock, LaunchBrowser,
           LaunchFails, RemoveStale, Bind, AcceptShutdown, AcceptCall,
           Sigterm, NoticeCancel, GraceExpires, AcceptError, Exit, Crash
<1>4. CASE SendShutdown \/ ServiceStart \/ UNCHANGED vars
  BY <1>4 DEF SendShutdown, ServiceStart, vars, clientVars, Moves
<1> QED
  BY <1>2, <1>3, <1>4 DEF Next

(* A call once written stays written.                                      *)
LEMMA SentStable ==
    ASSUME IndInv, [Next]_vars, NEW r \in Requests, Sent(r)
    PROVE  Sent(r)'
<1>1. r[1] \in Clients /\ r[2] \in Nat
  BY ConstantsAssumption DEF Requests
<1>2. Moves(r[1]) /\ ncall[r[1]] \in Nat
  <2>1. Moves(r[1])
    BY <1>1, ClientMoves
  <2>2. ncall[r[1]] \in 0 .. MaxCalls
    BY <1>1 DEF IndInv, TypeOK
  <2>3. 0 .. MaxCalls \subseteq Nat
    OBVIOUS
  <2> QED BY <2>1, <2>2, <2>3
<1> QED
  BY <1>1, <1>2 DEF Moves, Sent

(* Dropping or consuming waiting connections loses calls, never repeats    *)
(* them.                                                                   *)
Shrinks(d) ==
    \/ backlog'[d] = backlog[d]
    \/ backlog'[d] = <<>>
    \/ backlog[d] # <<>> /\ backlog'[d] = Tail(backlog[d])

LEMMA ShrinkWaits ==
    ASSUME TypeOK, NEW d \in Daemons, Shrinks(d)
    PROVE  \E k \in {0, 1} : \A r \in Requests, i \in Nat :
              Waits(d, i, r)' => Waits(d, i + k, r)
<1>0. backlog[d] \in Seq(Conns)
  BY DEF TypeOK
<1>1. CASE backlog'[d] = backlog[d]
  <2>1. \A r \in Requests, i \in Nat : Waits(d, i, r)' => Waits(d, i + 0, r)
    BY <1>0, <1>1 DEF Waits
  <2> QED BY <2>1
<1>2. CASE backlog'[d] = <<>>
  BY <1>2 DEF Waits
<1>3. CASE backlog[d] # <<>> /\ backlog'[d] = Tail(backlog[d])
  <2>1. /\ Len(backlog'[d]) = Len(backlog[d]) - 1
        /\ \A i \in 1 .. Len(backlog'[d]) : backlog'[d][i] = backlog[d][i + 1]
    BY <1>0, <1>3, HeadTailProperties
  <2>2. \A r \in Requests, i \in Nat : Waits(d, i, r)' => Waits(d, i + 1, r)
    BY <1>0, <2>1 DEF Waits
  <2> QED BY <2>2
<1> QED BY <1>1, <1>2, <1>3 DEF Shrinks

LEMMA ShrinkStep ==
    ASSUME IndInv, ExecInv, [Next]_vars, UNCHANGED executed,
           \A d \in Daemons : Shrinks(d)
    PROVE  ExecInv'
<1>1. \A d \in Daemons : \E k \in {0, 1} : \A r \in Requests, i \in Nat :
          Waits(d, i, r)' => Waits(d, i + k, r)
  BY ShrinkWaits DEF IndInv
<1>2. \A r \in Requests :
          executed'[r] \in {0, 1} /\ (executed'[r] = 1 => Sent(r)')
  BY SentStable DEF ExecInv
<1>3. ASSUME NEW r \in Requests, NEW d \in Daemons, NEW i \in Nat,
             Waits(d, i, r)'
      PROVE  executed'[r] = 0 /\ Sent(r)'
  <2>1. PICK k \in {0, 1} : Waits(d, i + k, r)
    BY <1>1, <1>3
  <2>2. executed[r] = 0 /\ Sent(r)
    BY <2>1 DEF ExecInv
  <2> QED BY <2>2, SentStable
<1>4. ASSUME NEW r \in Requests, NEW d \in Daemons, NEW e \in Daemons,
             NEW i \in Nat, NEW j \in Nat, Waits(d, i, r)', Waits(e, j, r)'
      PROVE  d = e /\ i = j
  <2>1. PICK k \in {0, 1} : \A q \in Requests, n \in Nat :
                               Waits(d, n, q)' => Waits(d, n + k, q)
    BY <1>1
  <2>2. PICK l \in {0, 1} : \A q \in Requests, n \in Nat :
                               Waits(e, n, q)' => Waits(e, n + l, q)
    BY <1>1
  <2>3. Waits(d, i + k, r) /\ Waits(e, j + l, r)
    BY <1>4, <2>1, <2>2
  <2>4. d = e /\ i + k = j + l
    BY <2>3 DEF ExecInv
  <2>5. Waits(d, i + l, r)
    BY <1>4, <2>2, <2>4
  <2>6. i + k = i + l
    BY <2>3, <2>5 DEF ExecInv
  <2> QED BY <2>4, <2>6
<1> QED BY <1>2, <1>3, <1>4 DEF ExecInv

LEMMA AppendStep ==
    ASSUME IndInv, ExecInv, [Next]_vars, UNCHANGED executed,
           NEW conn \in Conns, Connect(conn),
           \A r \in Requests : conn = CallConn(r) => ~Sent(r) /\ Sent(r)'
    PROVE  ExecInv'
<1>1. PICK t \in Daemons : backlog' = [backlog EXCEPT ![t] = Append(@, conn)]
  BY DEF Connect
<1>2. \A d \in Daemons : backlog[d] \in Seq(Conns)
  BY DEF IndInv, TypeOK
<1>3. ASSUME NEW r \in Requests, NEW d \in Daemons, NEW i \in Nat,
             Waits(d, i, r)'
      PROVE  \/ Waits(d, i, r)
             \/ conn = CallConn(r) /\ d = t /\ i = Len(backlog[t]) + 1
  <2>1. CASE d = t
    <3>1. backlog'[d] = Append(backlog[t], conn)
      BY <1>1, <2>1 DEF IndInv, TypeOK
    <3>2. /\ Len(backlog'[d]) = Len(backlog[t]) + 1
          /\ \A n \in 1 .. Len(backlog[t]) : backlog'[d][n] = backlog[t][n]
          /\ backlog'[d][Len(backlog[t]) + 1] = conn
      BY <1>2, <3>1, AppendProperties
    <3> QED BY <1>2, <1>3, <2>1, <3>2 DEF Waits
  <2>2. CASE d # t
    BY <1>1, <1>3, <2>2 DEF Waits, IndInv, TypeOK
  <2> QED BY <2>1, <2>2
<1>4. \A r \in Requests :
          executed'[r] \in {0, 1} /\ (executed'[r] = 1 => Sent(r)')
  BY SentStable DEF ExecInv
<1>5. ASSUME NEW r \in Requests, NEW d \in Daemons, NEW i \in Nat,
             Waits(d, i, r)'
      PROVE  executed'[r] = 0 /\ Sent(r)'
  <2>1. CASE Waits(d, i, r)
    BY <2>1, SentStable DEF ExecInv
  <2>2. CASE conn = CallConn(r)
    BY <2>2 DEF ExecInv
  <2> QED BY <1>3, <1>5, <2>1, <2>2
<1>6. ASSUME NEW r \in Requests, NEW d \in Daemons, NEW e \in Daemons,
             NEW i \in Nat, NEW j \in Nat, Waits(d, i, r)', Waits(e, j, r)'
      PROVE  d = e /\ i = j
  <2>1. CASE Waits(d, i, r) /\ Waits(e, j, r)
    BY <2>1 DEF ExecInv
  <2>2. CASE conn = CallConn(r)
    <3>1. ~Waits(d, i, r) /\ ~Waits(e, j, r)
      BY <2>2 DEF ExecInv
    <3> QED BY <1>3, <1>6, <3>1
  <2> QED BY <1>3, <1>6, <2>1, <2>2
<1> QED BY <1>4, <1>5, <1>6 DEF ExecInv

LEMMA AcceptCallStep ==
    ASSUME IndInv, ExecInv, [Next]_vars, NEW d \in Daemons, AcceptCall(d)
    PROVE  ExecInv'
<1> DEFINE conn == Head(backlog[d])
           q == conn.req
<1>1. backlog[d] \in Seq(Conns) /\ backlog[d] # <<>> /\ conn.kind = "call"
  BY DEF AcceptCall, Accepts, IndInv, TypeOK
<1>2. q \in Requests /\ conn = CallConn(q)
  BY <1>1, HeadTailProperties DEF Conns, CallConn
<1>3. Waits(d, 1, q)
  BY <1>1, <1>2 DEF Waits
<1>4. /\ \A e \in Daemons : Shrinks(e)
      /\ \A i \in Nat, r \in Requests : Waits(d, i, r)' => Waits(d, i + 1, r)
  <2>1. backlog' = [backlog EXCEPT ![d] = Tail(@)]
    BY DEF AcceptCall
  <2>2. \A e \in Daemons :
           backlog'[e] = IF e = d THEN Tail(backlog[e]) ELSE backlog[e]
    BY <2>1 DEF IndInv, TypeOK
  <2>3. /\ Len(backlog'[d]) = Len(backlog[d]) - 1
        /\ \A i \in 1 .. Len(backlog'[d]) : backlog'[d][i] = backlog[d][i + 1]
    <3>1. backlog'[d] = Tail(backlog[d])
      BY <2>2
    <3>2. backlog[d] \in Seq(Conns) /\ backlog[d] # <<>>
      BY <1>1
    <3> HIDE DEF conn, q
    <3> QED BY <3>1, <3>2, HeadTailProperties
  <2>4. \A i \in Nat, r \in Requests : Waits(d, i, r)' => Waits(d, i + 1, r)
    BY <1>1, <2>3 DEF Waits
  <2> QED BY <1>1, <2>2, <2>4 DEF Shrinks
<1>5. executed' = [executed EXCEPT ![q] = @ + 1] /\ executed[q] = 0 /\ Sent(q)
  BY <1>2, <1>3 DEF AcceptCall, ExecInv
<1> HIDE DEF q, conn
<1>6. \A e \in Daemons : \E k \in {0, 1} : \A r \in Requests, i \in Nat :
          Waits(e, i, r)' => Waits(e, i + k, r)
  BY <1>4, ShrinkWaits DEF IndInv
<1>7. \A r \in Requests :
          executed'[r] \in {0, 1} /\ (executed'[r] = 1 => Sent(r)')
  BY <1>2, <1>5, SentStable DEF ExecInv, IndInv, TypeOK
<1>8. ASSUME NEW r \in Requests, NEW e \in Daemons, NEW i \in Nat,
             Waits(e, i, r)'
      PROVE  executed'[r] = 0 /\ Sent(r)'
  <2>1. PICK k \in {0, 1} : Waits(e, i + k, r)
    BY <1>6, <1>8
  <2>2. executed[r] = 0 /\ Sent(r)
    BY <2>1 DEF ExecInv
  <2>3. r # q
    <3> SUFFICES ASSUME r = q PROVE FALSE
      OBVIOUS
    <3>1. e = d
      BY <1>2, <1>3, <2>1 DEF ExecInv
    <3>2. Waits(d, i + 1, q) /\ i # 0
      BY <1>4, <1>8, <3>1 DEF Waits
    <3> QED
      BY <1>2, <1>3, <3>2 DEF ExecInv
  <2>4. executed'[r] = executed[r]
    <3>1. executed \in [Requests -> Nat]
      BY DEF IndInv, TypeOK
    <3> QED BY <1>5, <2>3, <3>1
  <2> QED
    BY <2>2, <2>4, SentStable
<1>9. ASSUME NEW r \in Requests, NEW e \in Daemons, NEW f \in Daemons,
             NEW i \in Nat, NEW j \in Nat, Waits(e, i, r)', Waits(f, j, r)'
      PROVE  e = f /\ i = j
  <2>1. PICK k \in {0, 1} : \A p \in Requests, n \in Nat :
                               Waits(e, n, p)' => Waits(e, n + k, p)
    BY <1>6
  <2>2. PICK l \in {0, 1} : \A p \in Requests, n \in Nat :
                               Waits(f, n, p)' => Waits(f, n + l, p)
    BY <1>6
  <2>3. Waits(e, i + k, r) /\ Waits(f, j + l, r)
    BY <1>9, <2>1, <2>2
  <2>4. e = f /\ i + k = j + l
    BY <2>3 DEF ExecInv
  <2>5. Waits(e, i + l, r)
    BY <1>9, <2>2, <2>4
  <2>6. i + k = i + l
    BY <2>3, <2>5 DEF ExecInv
  <2> QED BY <2>4, <2>6
<1> QED BY <1>7, <1>8, <1>9 DEF ExecInv

LEMMA ExecStep == IndInv /\ ExecInv /\ [Next]_vars => ExecInv'
<1> SUFFICES ASSUME IndInv, ExecInv, [Next]_vars PROVE ExecInv'
  OBVIOUS
<1>1. TypeOK /\ ClientInv
  BY DEF IndInv
<1>2. ASSUME NEW c \in Clients, ClientStep(c) PROVE ExecInv'
  <2>1. CASE PingConnect(c)
    <3>1. Ping(c) \in Conns /\ Connect(Ping(c)) /\ UNCHANGED executed
      BY <1>1, <2>1, ClientConns DEF PingConnect
    <3>2. \A r \in Requests : Ping(c) # CallConn(r)
      BY DEF Ping, CallConn
    <3> QED BY <3>1, <3>2, AppendStep
  <2>2. CASE CallConnect(c)
    <3>1. Call(c) \in Conns /\ Connect(Call(c)) /\ UNCHANGED executed
      BY <1>1, <2>2, ClientConns DEF CallConnect
    <3>2. ASSUME NEW r \in Requests, Call(c) = CallConn(r)
          PROVE  ~Sent(r) /\ Sent(r)'
      <4>1. r = <<c, ncall[c]>>
        BY <3>2 DEF Call, CallConn, Request
      <4>2. cpc[c] = "proceeding" /\ cpc'[c] = "calling" /\ ncall'[c] = ncall[c]
        BY <1>1, <2>2 DEF CallConnect, Goto, TypeOK
      <4>3. ncall[c] \in Nat
        BY <1>1, ConstantsAssumption DEF TypeOK
      <4> QED BY <4>1, <4>2, <4>3 DEF Sent
    <3> QED BY <3>1, <3>2, AppendStep
  <2>3. CASE UNCHANGED <<backlog, executed>>
    BY <2>3, ShrinkStep DEF Shrinks
  <2> QED
    BY <1>2, <2>1, <2>2, <2>3
       DEF ClientStep, EnsureBegin, PingFails, PingTimesOut, SpawnDaemon,
           StartProcess, SpawnFails, GiveUp, Backoff, CallFails, CallTimesOut,
           daemonVars
<1>3. ASSUME NEW d \in Daemons, DaemonStep(d) PROVE ExecInv'
  <2>1. CASE AcceptCall(d)
    BY <2>1, AcceptCallStep
  <2>2. CASE AcceptPing(d) \/ AcceptShutdown(d)
    <3>1. \A e \in Daemons : Shrinks(e)
      BY <1>1, <2>2
         DEF AcceptPing, AcceptShutdown, Accepts, LoopAgain, TypeOK, Shrinks
    <3> QED BY <2>2, <3>1, ShrinkStep DEF AcceptPing, AcceptShutdown
  <2>3. CASE FinishCall(d) \/ HandlerTimesOut(d)
    <3>1. \A e \in Daemons : Shrinks(e)
      BY <1>1, <2>3
         DEF FinishCall, HandlerTimesOut, Finishes, LoopAgain, TypeOK, Shrinks
    <3> QED
      BY <2>3, <3>1, ShrinkStep DEF FinishCall, HandlerTimesOut, Finishes
  <2>4. CASE NoticeCancel(d) \/ GraceExpires(d) \/ AcceptError(d) \/ Crash(d)
    <3>1. backlog' = [backlog EXCEPT ![d] = <<>>] /\ UNCHANGED executed
      BY <2>4 DEF NoticeCancel, GraceExpires, AcceptError, Crash, StopListening
    <3>2. \A e \in Daemons : Shrinks(e)
      BY <1>1, <3>1 DEF TypeOK, Shrinks
    <3> QED BY <3>1, <3>2, ShrinkStep
  <2>5. CASE UNCHANGED <<backlog, executed>>
    BY <2>5, ShrinkStep DEF Shrinks
  <2> QED
    BY <1>3, <2>1, <2>2, <2>3, <2>4, <2>5
       DEF DaemonStep, WritePortFile, WinLock, LoseLock, LaunchBrowser,
           LaunchFails, RemoveStale, Bind, Sigterm, Exit
<1>4. CASE SendShutdown
  <2> DEFINE conn == [kind |-> "shutdown", req |-> Operator]
  <2>1. conn \in Conns /\ Connect(conn) /\ UNCHANGED executed
    BY <1>4 DEF SendShutdown, Conns
  <2>2. \A r \in Requests : conn # CallConn(r)
    BY DEF CallConn
  <2> HIDE DEF conn
  <2> QED BY <2>1, <2>2, AppendStep
<1>5. CASE ServiceStart \/ UNCHANGED vars
  <2>1. UNCHANGED <<backlog, executed>>
    BY <1>5 DEF ServiceStart, StartProcess, vars, daemonVars
  <2> QED BY <2>1, ShrinkStep DEF Shrinks
<1> QED
  BY <1>2, <1>3, <1>4, <1>5 DEF Next

(* No tool call ever runs twice, whatever is lost, abandoned or restarted. *)
THEOREM CallsRunAtMostOnce == Spec => []AtMostOnce
<1>1. Init => ExecInv
  BY DEF Init, ExecInv, Waits
<1>2. ExecInv => AtMostOnce
  BY DEF ExecInv, AtMostOnce
<1> QED
  BY InitInv, StepInv, ExecStep, <1>1, <1>2, PTL DEF Spec

----------------------------------------------------------------------------
(* Spawns.  A call has used up its right to spawn when ensure_daemon's     *)
(* local says so or when the client has begun a later one; the processes   *)
(* that clients spawned are no more than those calls.                      *)

Ours == {d \in Daemons : dstate[d] # "unborn" /\ port[d] # ServicePort}
Used == {r \in Issued : r[2] < ncall[r[1]] \/ spawned[r[1]]}

SpawnInv ==
    /\ \A c \in Clients : cpc[c] = "spawning" => ~spawned[c]
    /\ IsFiniteSet(Issued) /\ Cardinality(Ours) <= Cardinality(Used)

LEMMA SpawnFinite ==
    ASSUME SpawnInv
    PROVE  /\ IsFiniteSet(Used) /\ Cardinality(Used) \in Nat
           /\ Cardinality(Used) <= Cardinality(Issued) /\ Cardinality(Issued) \in Nat
           /\ IsFiniteSet(Ours) /\ Cardinality(Ours) \in Nat
<1>1. IsFiniteSet(Issued) /\ Used \in SUBSET Issued
  BY DEF SpawnInv, Used
<1> HIDE DEF Used
<1>2. IsFiniteSet(1 .. MaxDaemons)
  BY ConstantsAssumption, FS_Interval
<1>3. IsFiniteSet(Ours)
  BY <1>2, FS_Subset DEF Ours, Daemons
<1> QED
  BY <1>1, <1>3, FS_Subset, FS_CardinalityType

(* A step that starts no call and no process of a client.                  *)
LEMMA NoSpawnStep ==
    ASSUME SpawnInv, UNCHANGED <<ncall, spawned>>, Ours' = Ours,
           \A c \in Clients : cpc'[c] = "spawning" => cpc[c] = "spawning" \/ ~spawned[c]
    PROVE  SpawnInv'
<1>1. Issued' = Issued
  BY DEF Issued
<1>2. Used' = Used
  BY <1>1 DEF Used
<1> QED
  BY <1>1, <1>2 DEF SpawnInv

LEMMA BeginSpawnsNothing ==
    ASSUME IndInv, SpawnInv, NEW c \in Clients, EnsureBegin(c)
    PROVE  SpawnInv'
<1>1. /\ cpc[c] = "idle" /\ cpc' = [cpc EXCEPT ![c] = "connecting"]
      /\ ncall' = [ncall EXCEPT ![c] = @ + 1] /\ ncall[c] \in Nat /\ ncall[c] + 1 <= MaxCalls
      /\ spawned' = [spawned EXCEPT ![c] = FALSE] /\ UNCHANGED <<dstate, port>>
  BY ConstantsAssumption DEF EnsureBegin, Goto, daemonVars, IndInv, TypeOK
<1>2. /\ DOMAIN cpc = Clients /\ DOMAIN ncall = Clients /\ DOMAIN spawned = Clients
      /\ \A b \in Clients : ncall[b] \in Nat
  BY ConstantsAssumption DEF IndInv, TypeOK
<1>3. \A r \in Requests : r = <<r[1], r[2]>> /\ r[1] \in Clients /\ r[2] \in Nat
  BY ConstantsAssumption DEF Requests
<1> DEFINE new == <<c, ncall[c] + 1>>
<1>4. Issued' = Issued \cup {new}
  <2>1. new \in Requests
    BY <1>1, ConstantsAssumption DEF Requests
  <2>2. ASSUME NEW r \in Requests PROVE r[2] <= ncall'[r[1]] <=> r[2] <= ncall[r[1]] \/ r = new
    <3>1. CASE r[1] = c
      <4>1. ncall'[c] = ncall[c] + 1 /\ r[2] \in Nat /\ ncall[c] \in Nat
        BY <1>1, <1>2, <1>3
      <4>2. r[2] <= ncall[c] + 1 <=> r[2] <= ncall[c] \/ r[2] = ncall[c] + 1
        BY <4>1
      <4> QED BY <1>3, <3>1, <4>1, <4>2
    <3>2. CASE r[1] # c
      BY <1>1, <1>2, <1>3, <3>2
    <3> QED BY <3>1, <3>2
  <2> HIDE DEF new
  <2> QED BY <2>1, <2>2 DEF Issued
<1>5. Used \subseteq Used'
  <2> SUFFICES ASSUME NEW r \in Used PROVE r \in Used'
    OBVIOUS
  <2>1. r \in Requests /\ r \in Issued' /\ r[1] \in Clients /\ r[2] \in Nat
    BY <1>3, <1>4 DEF Used, Issued
  <2>2. CASE r[1] = c
    <3>1. ncall'[c] = ncall[c] + 1 /\ r[2] <= ncall[c]
      BY <1>1, <1>2, <2>2 DEF Used, Issued
    <3>2. r[2] < ncall'[r[1]]
      BY <1>1, <2>1, <2>2, <3>1
    <3> QED BY <2>1, <3>2 DEF Used
  <2>3. CASE r[1] # c
    BY <1>1, <1>2, <2>1, <2>3 DEF Used
  <2> QED BY <2>2, <2>3
<1>6. Ours' = Ours
  BY <1>1 DEF Ours
<1> HIDE DEF new
<1>7. IsFiniteSet(Issued')
  BY <1>4, FS_AddElement DEF SpawnInv
<1>8. Cardinality(Used) <= Cardinality(Used') /\ Cardinality(Used') \in Nat
  <2>1. Used' \in SUBSET Issued'
    BY DEF Used
  <2>2. IsFiniteSet(Used')
    BY <1>7, <2>1, FS_Subset
  <2> QED BY <1>5, <2>2, FS_Subset, FS_CardinalityType
<1>9. Cardinality(Ours') <= Cardinality(Used')
  BY <1>6, <1>8, SpawnFinite DEF SpawnInv
<1>10. \A b \in Clients : cpc'[b] = "spawning" => ~spawned'[b]
  BY <1>1, <1>2 DEF SpawnInv
<1> QED
  BY <1>7, <1>9, <1>10 DEF SpawnInv

LEMMA SpawnUsesCall ==
    ASSUME IndInv, SpawnInv, NEW c \in Clients, SpawnDaemon(c)
    PROVE  SpawnInv'
<1>1. PICK d \in Daemons :
         /\ cpc[c] = "spawning" /\ cpc' = [cpc EXCEPT ![c] = "deciding"]
         /\ spawned' = [spawned EXCEPT ![c] = TRUE] /\ UNCHANGED ncall
         /\ dstate' = [dstate EXCEPT ![d] = "started"]
         /\ port' = [port EXCEPT ![d] = HttpPort[c]]
  BY DEF SpawnDaemon, StartProcess, Goto
<1>2. /\ DOMAIN cpc = Clients /\ DOMAIN spawned = Clients
      /\ DOMAIN dstate = Daemons /\ DOMAIN port = Daemons
  BY DEF IndInv, TypeOK
<1>3. Request(c) \in Issued /\ Request(c) \notin Used /\ ~spawned[c]
  <2>1. Request(c) \in Requests /\ ncall[c] \in Nat
    BY <1>1, ClientConns, ConstantsAssumption DEF IndInv, TypeOK
  <2>2. ~spawned[c]
    BY <1>1 DEF SpawnInv
  <2> QED BY <2>1, <2>2 DEF Request, Issued, Used
<1>4. Issued' = Issued
  BY <1>1 DEF Issued
<1>5. Used \cup {Request(c)} \subseteq Used'
  <2>1. ASSUME NEW r \in Used PROVE r \in Used'
    <3>1. r \in Issued' /\ r[1] \in Clients
      BY <1>4 DEF Used, Issued, Requests
    <3> QED BY <1>1, <1>2, <3>1 DEF Used
  <2>2. Request(c)[1] = c /\ Request(c) \in Issued'
    BY <1>3, <1>4 DEF Request
  <2>3. spawned'[c]
    BY <1>1, <1>2
  <2>4. Request(c) \in Used'
    <3>1. PICK q : q = Request(c)
      OBVIOUS
    <3>2. q \in Issued' /\ spawned'[q[1]]
      BY <2>2, <2>3, <3>1
    <3>3. q \in Used'
      BY <3>2 DEF Used
    <3> QED BY <3>1, <3>3
  <2> QED BY <2>1, <2>4
<1>6. Ours' \subseteq Ours \cup {d}
  BY <1>1, <1>2 DEF Ours
<1>7. /\ IsFiniteSet(Used \cup {Request(c)})
      /\ Cardinality(Used \cup {Request(c)}) = Cardinality(Used) + 1
  BY <1>3, SpawnFinite, FS_AddElement
<1>8. Cardinality(Used \cup {Request(c)}) <= Cardinality(Used') /\ Cardinality(Used') \in Nat
  <2>1. Used' \in SUBSET Issued
    BY <1>4 DEF Used
  <2>2. IsFiniteSet(Used')
    BY <2>1, FS_Subset DEF SpawnInv
  <2> QED BY <1>5, <2>2, FS_Subset, FS_CardinalityType
<1>9. Cardinality(Ours') <= Cardinality(Ours) + 1 /\ Cardinality(Ours') \in Nat
  <2>1. /\ IsFiniteSet(Ours \cup {d})
        /\ Cardinality(Ours \cup {d}) =
              IF d \in Ours THEN Cardinality(Ours) ELSE Cardinality(Ours) + 1
    BY SpawnFinite, FS_AddElement
  <2>2. IsFiniteSet(Ours') /\ Cardinality(Ours') <= Cardinality(Ours \cup {d})
    BY <1>6, <2>1, FS_Subset
  <2>3. Cardinality(Ours') \in Nat
    BY <2>2, FS_CardinalityType
  <2> QED BY <2>1, <2>2, <2>3, SpawnFinite
<1>10. Cardinality(Ours') <= Cardinality(Used')
  BY <1>7, <1>8, <1>9, SpawnFinite DEF SpawnInv
<1>11. \A b \in Clients : cpc'[b] = "spawning" => ~spawned'[b]
  BY <1>1, <1>2 DEF SpawnInv
<1> QED
  BY <1>4, <1>10, <1>11 DEF SpawnInv

(* What a daemon does ends or continues a call.                            *)
LEMMA RespondSpawns ==
    ASSUME TypeOK, NEW conn, NEW result, Respond(conn, result)
    PROVE  /\ UNCHANGED <<ncall, spawned>>
           /\ \A c \in Clients : cpc'[c] = "spawning" => cpc[c] = "spawning"
<1>1. CASE \E c \in Clients : cpc[c] = "pinging" /\ conn = Ping(c)
  <2>1. PICK c \in Clients : cpc[c] = "pinging" /\ conn = Ping(c)
    BY <1>1
  <2>2. conn.req[1] = c
    BY <2>1 DEF Ping, Request
  <2>3. cpc' = [cpc EXCEPT ![c] = "proceeding"] /\ UNCHANGED <<ncall, spawned>>
    BY <1>1, <2>2 DEF Respond
  <2> QED
    BY <2>1, <2>3 DEF TypeOK
<1>2. CASE /\ ~\E c \in Clients : cpc[c] = "pinging" /\ conn = Ping(c)
           /\ \E c \in Clients : cpc[c] = "calling" /\ conn = Call(c)
  <2>1. PICK c \in Clients : cpc[c] = "calling" /\ conn = Call(c)
    BY <1>2
  <2>2. conn.req[1] = c
    BY <2>1 DEF Call, Request
  <2>3. Return(c, result)
    BY <1>2, <2>2 DEF Respond
  <2> QED
    BY <2>1, <2>3 DEF Return, Goto, TypeOK
<1>3. CASE /\ ~\E c \in Clients : cpc[c] = "pinging" /\ conn = Ping(c)
           /\ ~\E c \in Clients : cpc[c] = "calling" /\ conn = Call(c)
  BY <1>3 DEF Respond, clientVars
<1> QED BY <1>1, <1>2, <1>3

(* And no process is born by it.                                           *)
LEMMA DaemonStepSpawns ==
    ASSUME IndInv, NEW d \in Daemons, DaemonStep(d)
    PROVE  Ours' = Ours
<1>1. /\ dstate[d] # "unborn" /\ UNCHANGED port
      /\ \/ dstate' = dstate
         \/ \E s : s # "unborn" /\ dstate' = [dstate EXCEPT ![d] = s]
  BY DEF DaemonStep, WritePortFile, WinLock, LoseLock, LaunchBrowser,
         LaunchFails, RemoveStale, Bind, AcceptPing, AcceptShutdown,
         AcceptCall, FinishCall, HandlerTimesOut, Finishes, LoopAgain,
         Sigterm, NoticeCancel, GraceExpires, AcceptError, Exit, Crash,
         StopListening, Step, Accepts, Listening, Alive
<1>2. DOMAIN dstate = Daemons
  BY DEF IndInv, TypeOK
<1> QED
  BY <1>1, <1>2 DEF Ours

LEMMA SpawnStep == IndInv /\ SpawnInv /\ [Next]_vars => SpawnInv'
<1> SUFFICES ASSUME IndInv, SpawnInv, [Next]_vars PROVE SpawnInv'
  OBVIOUS
<1>1. TypeOK
  BY DEF IndInv
<1>2. ASSUME NEW c \in Clients, ClientStep(c) PROVE SpawnInv'
  <2>1. CASE EnsureBegin(c) \/ SpawnDaemon(c)
    BY <2>1, BeginSpawnsNothing, SpawnUsesCall
  <2>2. CASE ~ (EnsureBegin(c) \/ SpawnDaemon(c))
    <3>1. UNCHANGED <<ncall, spawned, dstate, port>>
      BY <1>2, <2>2
         DEF ClientStep, PingConnect, PingFails, PingTimesOut, SpawnFails,
             GiveUp, Backoff, CallConnect, CallFails, CallTimesOut, Return,
             daemonVars
    <3>2. \A b \in Clients : cpc'[b] = "spawning" => cpc[b] = "spawning" \/ ~spawned[b]
      BY <1>1, <1>2, <2>2
         DEF TypeOK, ClientStep, PingConnect, PingFails, PingTimesOut,
             SpawnFails, GiveUp, Backoff, CallConnect, CallFails,
             CallTimesOut, Goto, Return
    <3>3. Ours' = Ours
      BY <3>1 DEF Ours
    <3> QED BY <3>1, <3>2, <3>3, NoSpawnStep
  <2> QED BY <2>1, <2>2
<1>3. ASSUME NEW d \in Daemons, DaemonStep(d) PROVE SpawnInv'
  <2>1. Ours' = Ours
    BY <1>3, DaemonStepSpawns
  <2>2. /\ UNCHANGED <<ncall, spawned>>
        /\ \A c \in Clients : cpc'[c] = "spawning" => cpc[c] = "spawning"
    <3>1. CASE AcceptPing(d)
      BY <1>1, <3>1, RespondSpawns DEF AcceptPing
    <3>2. CASE FinishCall(d) \/ HandlerTimesOut(d)
      BY <1>1, <3>2, RespondSpawns DEF FinishCall, HandlerTimesOut, Finishes
    <3>3. CASE UNCHANGED clientVars
      BY <3>3 DEF clientVars
    <3> QED
      BY <1>3, <3>1, <3>2, <3>3
         DEF DaemonStep, WritePortFile, WinLock, LoseLock, LaunchBrowser,
             LaunchFails, RemoveStale, Bind, AcceptShutdown, AcceptCall,
             Sigterm, NoticeCancel, GraceExpires, AcceptError, Exit, Crash
  <2> QED BY <2>1, <2>2, NoSpawnStep
<1>4. CASE SendShutdown \/ UNCHANGED vars
  <2>1. UNCHANGED <<ncall, spawned, cpc, dstate, port>>
    BY <1>4 DEF SendShutdown, vars, clientVars, daemonVars
  <2>2. Ours' = Ours
    BY <2>1 DEF Ours
  <2> QED BY <2>1, <2>2, NoSpawnStep
<1>5. CASE ServiceStart
  <2>1. PICK d \in Daemons :
           /\ dstate[d] = "unborn" /\ dstate' = [dstate EXCEPT ![d] = "started"]
           /\ port' = [port EXCEPT ![d] = ServicePort]
    BY <1>5 DEF ServiceStart, StartProcess
  <2>2. UNCHANGED <<ncall, spawned, cpc>>
    BY <1>5 DEF ServiceStart, clientVars
  <2>3. Ours' = Ours
    BY <1>1, <2>1 DEF Ours, TypeOK
  <2> QED BY <2>2, <2>3, NoSpawnStep
<1> QED
  BY <1>2, <1>3, <1>4, <1>5 DEF Next

LEMMA InitSpawns == Init => SpawnInv
<1> SUFFICES ASSUME Init PROVE SpawnInv
  OBVIOUS
<1>1. Issued = {}
  BY ConstantsAssumption DEF Init, Issued, Requests
<1>2. Used = {} /\ Ours = {}
  BY <1>1 DEF Init, Used, Ours
<1>3. IsFiniteSet({}) /\ Cardinality({}) = 0
  BY FS_EmptySet
<1>4. \A c \in Clients : ~spawned[c]
  BY DEF Init
<1> QED
  BY <1>1, <1>2, <1>3, <1>4 DEF SpawnInv

(* No poll of a cold, busy or dying daemon spawns a second process for the *)
(* same call: the local of ensure_daemon outlives the polls.               *)
THEOREM CallsSpawnOnce == Spec => []SpawnsBounded
<1>1. SpawnInv => SpawnsBounded
  <2> SUFFICES ASSUME SpawnInv PROVE SpawnsBounded
    OBVIOUS
  <2>1. Cardinality(Ours) <= Cardinality(Issued)
    BY SpawnFinite DEF SpawnInv
  <2> QED BY <2>1 DEF SpawnsBounded, Ours
<1> QED
  BY InitInv, StepInv, InitSpawns, SpawnStep, <1>1, PTL DEF Spec

----------------------------------------------------------------------------
(* Refinement.  A step of the system is one step of the abstract service   *)
(* or none.  What the service says of a call that ends (it was issued and  *)
(* is open, and it was executed if it succeeds) needs two more facts: a    *)
(* result belongs to a call that has returned, and a call in service was   *)
(* executed.                                                               *)

Returned(r) ==
    \/ r[2] < ncall[r[1]]
    \/ r[2] = ncall[r[1]] /\ cpc[r[1]] = "idle"

ResultInv == \A r \in Requests : outcome[r] # "pending" => Returned(r)

CurrentInv ==
    \A d \in Daemons : current[d] # NoConn =>
        Listening(d) /\ \E r \in Requests : current[d] = CallConn(r) /\ executed[r] # 0

ServiceInv == IndInv /\ ExecInv /\ ResultInv /\ CurrentInv

(* A response either leaves all calls open or returns the one it is for.   *)
LEMMA RespondReturns ==
    ASSUME NEW conn, NEW result, Respond(conn, result)
    PROVE  \/ UNCHANGED <<ncall, outcome>>
           \/ \E c \in Clients : cpc[c] = "calling" /\ conn = Call(c) /\ Return(c, result)
<1>1. CASE \E c \in Clients : cpc[c] = "pinging" /\ conn = Ping(c)
  BY <1>1 DEF Respond
<1>2. CASE /\ ~\E c \in Clients : cpc[c] = "pinging" /\ conn = Ping(c)
           /\ \E c \in Clients : cpc[c] = "calling" /\ conn = Call(c)
  <2>1. PICK c \in Clients : cpc[c] = "calling" /\ conn = Call(c)
    BY <1>2
  <2>2. conn.req[1] = c
    BY <2>1 DEF Call, Request
  <2> QED
    BY <1>2, <2>1, <2>2 DEF Respond
<1>3. CASE /\ ~\E c \in Clients : cpc[c] = "pinging" /\ conn = Ping(c)
           /\ ~\E c \in Clients : cpc[c] = "calling" /\ conn = Call(c)
  BY <1>3 DEF Respond, clientVars
<1> QED BY <1>1, <1>2, <1>3

(* Outcomes change only when a call returns.                               *)
LEMMA OutcomesReturn ==
    ASSUME IndInv, [Next]_vars, outcome' # outcome
    PROVE  \E c \in Clients, result \in {"ok", "err"} : cpc[c] # "idle" /\ Return(c, result)
<1>1. ASSUME NEW c \in Clients, ClientStep(c)
      PROVE  Return(c, "err") /\ cpc[c] # "idle"
  BY <1>1
     DEF ClientStep, EnsureBegin, PingConnect, PingFails, PingTimesOut,
         SpawnDaemon, SpawnFails, GiveUp, Backoff, CallConnect, CallFails,
         CallTimesOut
<1>2. ASSUME NEW d \in Daemons, DaemonStep(d)
      PROVE  \E conn : \E result \in {"ok", "err"} : Respond(conn, result)
  <2>1. AcceptPing(d) \/ FinishCall(d) \/ HandlerTimesOut(d)
    BY <1>2
       DEF DaemonStep, WritePortFile, WinLock, LoseLock, LaunchBrowser,
           LaunchFails, RemoveStale, Bind, AcceptShutdown, AcceptCall, clientVars,
           Sigterm, NoticeCancel, GraceExpires, AcceptError, Exit, Crash
  <2> QED
    BY <2>1 DEF AcceptPing, FinishCall, HandlerTimesOut, Finishes
<1>3. ~(SendShutdown \/ ServiceStart \/ UNCHANGED vars)
  BY DEF SendShutdown, ServiceStart, vars, clientVars
<1>4. CASE \E d \in Daemons : DaemonStep(d)
  <2>1. PICK conn : \E result \in {"ok", "err"} : Respond(conn, result)
    BY <1>2, <1>4
  <2>2. PICK result \in {"ok", "err"} : Respond(conn, result)
    BY <2>1
  <2> QED BY <2>2, RespondReturns
<1> QED BY <1>1, <1>3, <1>4 DEF Next

LEMMA ResultStep == IndInv /\ ResultInv /\ [Next]_vars => ResultInv'
<1> SUFFICES ASSUME IndInv, ResultInv, [Next]_vars,
                    NEW r \in Requests, outcome'[r] # "pending"
             PROVE  Returned(r)'
  BY DEF ResultInv
<1>1. r = <<r[1], r[2]>> /\ r[1] \in Clients /\ r[2] \in Nat
  BY ConstantsAssumption DEF Requests
<1>2. Moves(r[1]) /\ ncall[r[1]] \in Nat
  <2>1. Moves(r[1])
    BY <1>1, ClientMoves
  <2>2. ncall[r[1]] \in 0 .. MaxCalls
    BY <1>1 DEF IndInv, TypeOK
  <2>3. 0 .. MaxCalls \subseteq Nat
    OBVIOUS
  <2> QED BY <2>1, <2>2, <2>3
<1>3. CASE outcome'[r] = outcome[r]
  <2>1. Returned(r)
    BY <1>3 DEF ResultInv
  <2> QED BY <1>1, <1>2, <2>1 DEF Returned, Moves
<1>4. CASE outcome'[r] # outcome[r]
  <2>1. PICK c \in Clients, result \in {"ok", "err"} :
           cpc[c] # "idle" /\ Return(c, result)
    BY <1>4, OutcomesReturn
  <2>2. r = Request(c)
    BY <1>4, <2>1 DEF Return, IndInv, TypeOK
  <2>3. r[1] = c /\ r[2] = ncall[c]
    BY <2>2 DEF Request
  <2> QED BY <2>1, <2>3 DEF Return, Goto, Returned, IndInv, TypeOK
<1> QED BY <1>3, <1>4

LEMMA CurrentStep ==
    IndInv /\ ExecInv /\ CurrentInv /\ [Next]_vars => CurrentInv'
<1> SUFFICES ASSUME IndInv, ExecInv, CurrentInv, [Next]_vars PROVE CurrentInv'
  OBVIOUS
<1>1. TypeOK
  BY DEF IndInv
<1>2. \A r \in Requests : executed[r] # 0 => executed'[r] # 0
  <2>1. CASE UNCHANGED executed
    BY <2>1
  <2>2. CASE \E d \in Daemons : AcceptCall(d)
    BY <1>1, <2>2 DEF AcceptCall, TypeOK
  <2> QED
    BY <2>1, <2>2
       DEF Next, ClientStep, EnsureBegin, PingConnect, PingFails, PingTimesOut,
           SpawnDaemon, SpawnFails, GiveUp, Backoff, CallConnect, CallFails,
           CallTimesOut, DaemonStep, WritePortFile, WinLock, LoseLock,
           LaunchBrowser, LaunchFails, RemoveStale, Bind, AcceptShutdown,
           AcceptPing, FinishCall, HandlerTimesOut, Finishes, Sigterm,
           NoticeCancel, GraceExpires, AcceptError, Exit, Crash, SendShutdown,
           ServiceStart, vars
<1>3. ASSUME NEW d \in Daemons, current'[d] = current[d], current[d] # NoConn,
             dstate'[d] = dstate[d]
      PROVE  Listening(d)' /\ \E r \in Requests : current'[d] = CallConn(r) /\ executed'[r] # 0
  <2>1. PICK r \in Requests : current[d] = CallConn(r) /\ executed[r] # 0
    BY <1>3 DEF CurrentInv
  <2> QED BY <1>2, <1>3, <2>1 DEF CurrentInv, Listening
<1>4. ASSUME NEW d \in Daemons, AcceptCall(d) PROVE CurrentInv'
  <2>1. Head(backlog[d]) \in Conns /\ Head(backlog[d]).kind = "call"
    BY <1>1, <1>4, AcceptsType DEF AcceptCall, Accepts
  <2>2. PICK r \in Requests : Head(backlog[d]) = CallConn(r)
    BY <2>1 DEF Conns, CallConn
  <2>3. executed'[r] # 0
    BY <1>1, <1>4, <2>2 DEF AcceptCall, CallConn, TypeOK
  <2>4. /\ current' = [current EXCEPT ![d] = CallConn(r)] /\ UNCHANGED dstate
        /\ Listening(d)
    BY <1>4, <2>2 DEF AcceptCall, Accepts
  <2>5. \A e \in Daemons : current'[e] = IF e = d THEN CallConn(r) ELSE current[e]
    BY <1>1, <2>4 DEF TypeOK
  <2> QED
    BY <1>3, <2>3, <2>4, <2>5 DEF CurrentInv, Listening
<1>5. ASSUME NEW d \in Daemons, DaemonStep(d), ~AcceptCall(d) PROVE CurrentInv'
  <2>1. \A e \in Daemons : \/ current'[e] = NoConn
                           \/ current'[e] = current[e] /\ dstate'[e] = dstate[e]
    <3>1. CASE AcceptPing(d) \/ AcceptShutdown(d) \/ FinishCall(d) \/ HandlerTimesOut(d)
      BY <1>1, <3>1
         DEF AcceptPing, AcceptShutdown, FinishCall, HandlerTimesOut, Finishes,
             Accepts, LoopAgain, TypeOK
    <3>2. CASE NoticeCancel(d) \/ GraceExpires(d) \/ AcceptError(d) \/ Crash(d) \/ Sigterm(d)
      BY <1>1, <3>2
         DEF NoticeCancel, GraceExpires, AcceptError, Crash, Sigterm,
             StopListening, TypeOK
    <3>3. CASE \/ WritePortFile(d) \/ WinLock(d) \/ LoseLock(d) \/ LaunchBrowser(d)
               \/ LaunchFails(d) \/ RemoveStale(d) \/ Bind(d) \/ Exit(d)
      <4>1. ~Listening(d) /\ UNCHANGED current
            /\ \A e \in Daemons : e # d => dstate'[e] = dstate[e]
        BY <1>1, <3>3
           DEF WritePortFile, WinLock, LoseLock, LaunchBrowser, LaunchFails,
               RemoveStale, Bind, Exit, Step, Listening, TypeOK
      <4> QED BY <4>1 DEF CurrentInv
    <3> QED BY <1>5, <3>1, <3>2, <3>3 DEF DaemonStep
  <2> QED BY <1>3, <2>1 DEF CurrentInv
<1>6. CASE UNCHANGED <<current, dstate>>
  BY <1>3, <1>6 DEF CurrentInv
<1>7. ASSUME NEW p, StartProcess(p) PROVE CurrentInv'
  <2>1. PICK d \in Daemons : dstate[d] = "unborn"
                             /\ dstate' = [dstate EXCEPT ![d] = "started"]
    BY <1>7 DEF StartProcess
  <2>2. UNCHANGED current /\ current[d] = NoConn
    BY <1>7, <2>1 DEF StartProcess, CurrentInv, Listening
  <2>3. \A e \in Daemons : e # d => dstate'[e] = dstate[e]
    BY <1>1, <2>1 DEF TypeOK
  <2> QED BY <1>3, <2>2, <2>3 DEF CurrentInv
<1>8. CASE \E c \in Clients : ClientStep(c)
  BY <1>6, <1>7, <1>8
     DEF ClientStep, EnsureBegin, PingConnect, PingFails, PingTimesOut,
         SpawnDaemon, SpawnFails, GiveUp, Backoff, CallConnect, CallFails,
         CallTimesOut, daemonVars
<1>9. CASE SendShutdown \/ ServiceStart \/ UNCHANGED vars
  BY <1>6, <1>7, <1>9 DEF SendShutdown, ServiceStart, vars, daemonVars
<1> QED BY <1>4, <1>5, <1>8, <1>9 DEF Next

ServiceVars == <<Serving, Issued, executed, outcome>>
ServiceStep == [Service!Next]_ServiceVars

(* The server of the abstract service is the process that listens.         *)
LEMMA ServerListens ==
    ASSUME IndInv
    PROVE  /\ Serving \in Daemons \cup {NoDaemon}
           /\ \A d \in Daemons : Serving = d <=> Listening(d)
<1>1. \A d \in Daemons : Listening(d) => sockFile = d
  BY DEF IndInv, SockInv, Listening
<1> QED
  BY <1>1, DaemonNumbers DEF Serving, Refused, Reaches, IndInv, TypeOK

LEMMA ServerEnds ==
    ASSUME IndInv, IndInv', \A d \in Daemons : Listening(d)' => Listening(d)
    PROVE  Serving' \in {Serving, NoDaemon}
<1>1. Serving' \in Daemons \cup {NoDaemon} /\ \A d \in Daemons : Serving' = d <=> Listening(d)'
  <2>1. \A d \in Daemons : Listening(d)' => sockFile' = d
    BY DEF IndInv, SockInv, Listening
  <2>2. sockFile' \in Daemons \cup {NoDaemon}
    BY DEF IndInv, TypeOK
  <2> QED
    BY <2>1, <2>2, DaemonNumbers DEF Serving, Refused, Reaches
<1> QED BY <1>1, ServerListens, DaemonNumbers

LEMMA ServerStays ==
    ASSUME IndInv, IndInv', \A d \in Daemons : Listening(d)' <=> Listening(d)
    PROVE  Serving' = Serving
<1>1. Serving' \in {Serving, NoDaemon}
  BY ServerEnds
<1>2. CASE Serving # NoDaemon
  <2>1. Serving \in Daemons /\ Listening(Serving)
    BY <1>2, ServerListens
  <2>2. PICK d \in Daemons : d = Serving
    BY <2>1
  <2>3. Listening(d)' /\ sockFile' = d
    BY <2>1, <2>2 DEF IndInv, SockInv, Listening
  <2> QED BY <2>2, <2>3 DEF Serving, Refused, Reaches
<1> QED BY <1>1, <1>2

(* Nothing but the server may change: it stops, or nothing happens.        *)
LEMMA StopsOrStays ==
    ASSUME IndInv, IndInv', \A d \in Daemons : Listening(d)' => Listening(d),
           UNCHANGED <<ncall, executed, outcome>>
    PROVE  ServiceStep
<1>1. Serving' \in {Serving, NoDaemon}
  BY ServerEnds
<1>2. UNCHANGED Issued
  BY DEF Issued
<1> QED
  BY <1>1, <1>2 DEF ServiceStep, ServiceVars, Service!Next, Service!Stop

(* A client that was under way returns: its call succeeds or fails.        *)
LEMMA ReturnStep ==
    ASSUME ServiceInv, IndInv', \A d \in Daemons : Listening(d)' => Listening(d),
           UNCHANGED executed,
           NEW c \in Clients, cpc[c] # "idle", NEW result \in {"ok", "err"},
           Return(c, result),
           result = "ok" => Serving # NoDaemon /\ executed[Request(c)] # 0
    PROVE  ServiceStep
<1> DEFINE r == Request(c)
<1>1. r \in Requests /\ r = <<c, ncall[c]>>
  BY ClientConns DEF ServiceInv, IndInv, Request
<1>2. outcome[r] = "pending"
  <2>1. ncall[c] \in Nat
    BY ConstantsAssumption DEF ServiceInv, IndInv, TypeOK
  <2> QED BY <1>1, <2>1 DEF ServiceInv, ResultInv, Returned
<1>3. r \in Issued /\ Issued' = Issued
  <2>1. ncall[c] \in Nat
    BY ConstantsAssumption DEF ServiceInv, IndInv, TypeOK
  <2> QED BY <1>1, <2>1 DEF Issued, Return
<1>4. Serving' \in {Serving, NoDaemon}
  BY ServerEnds DEF ServiceInv
<1>5. outcome' = [outcome EXCEPT ![r] = result]
  BY DEF Return
<1>6. result = "ok" => Serving # NoDaemon /\ executed[r] = 1
  BY <1>1 DEF ServiceInv, ExecInv
<1> HIDE DEF r
<1>7. CASE result = "ok"
  <2>1. Service!Succeed(r)
    BY <1>2, <1>3, <1>4, <1>5, <1>6, <1>7 DEF Service!Succeed
  <2> QED BY <1>1, <2>1 DEF ServiceStep, Service!Next
<1>8. CASE result = "err"
  <2>1. Service!Fail(r)
    BY <1>2, <1>3, <1>4, <1>5, <1>8 DEF Service!Fail
  <2> QED BY <1>1, <2>1 DEF ServiceStep, Service!Next
<1> QED BY <1>7, <1>8

LEMMA ClientSimulates ==
    ASSUME ServiceInv, IndInv', NEW c \in Clients, ClientStep(c)
    PROVE  ServiceStep
<1>1. TypeOK /\ IndInv
  BY DEF ServiceInv, IndInv
<1>2. CASE EnsureBegin(c)
  <2> DEFINE r == <<c, ncall[c] + 1>>
  <2>1. ncall[c] \in Nat /\ ncall' = [ncall EXCEPT ![c] = @ + 1] /\ ncall[c] < MaxCalls
        /\ UNCHANGED <<daemonVars, outcome, executed>>
    BY <1>1, <1>2, ConstantsAssumption DEF TypeOK, EnsureBegin
  <2>2. r \in Requests
    BY <2>1, ConstantsAssumption DEF Requests
  <2>3. Issued' = Issued \cup {r} /\ r \notin Issued
    <3>1. \A q \in Requests : /\ q = <<q[1], q[2]>> /\ q[1] \in Clients /\ q[2] \in Nat
                             /\ ncall[q[1]] \in Nat
      BY <1>1, ConstantsAssumption DEF Requests, TypeOK
    <3>2. \A q \in Requests :
             q[2] <= ncall'[q[1]] <=> q[2] <= ncall[q[1]] \/ q = r
      BY <1>1, <2>1, <3>1 DEF TypeOK
    <3> QED BY <2>1, <2>2, <3>2 DEF Issued
  <2>4. Serving' = Serving
    BY <2>1 DEF Serving, Refused, Reaches, Listening, daemonVars
  <2> HIDE DEF r
  <2>5. Service!Issue(r)
    BY <2>1, <2>3, <2>4 DEF Service!Issue
  <2> QED BY <2>2, <2>5 DEF ServiceStep, Service!Next
<1>3. CASE SpawnFails(c) \/ GiveUp(c) \/ CallFails(c) \/ CallTimesOut(c)
  <2>1. Return(c, "err") /\ cpc[c] # "idle" /\ UNCHANGED <<dstate, executed>>
    BY <1>3 DEF SpawnFails, GiveUp, CallFails, CallTimesOut, daemonVars
  <2> QED BY <2>1, ReturnStep DEF Listening
<1>4. CASE SpawnDaemon(c)
  <2>1. PICK d \in Daemons : dstate[d] = "unborn"
                             /\ dstate' = [dstate EXCEPT ![d] = "started"]
    BY <1>4 DEF SpawnDaemon, StartProcess
  <2>2. \A e \in Daemons : Listening(e)' => Listening(e)
    BY <1>1, <2>1 DEF Listening, TypeOK
  <2> QED BY <1>1, <1>4, <2>2, StopsOrStays DEF SpawnDaemon
<1>5. CASE UNCHANGED <<dstate, ncall, executed, outcome>>
  BY <1>1, <1>5, StopsOrStays DEF Listening
<1> QED
  BY <1>2, <1>3, <1>4, <1>5
     DEF ClientStep, PingConnect, PingFails, PingTimesOut, Backoff,
         CallConnect, daemonVars

LEMMA FinishSimulates ==
    ASSUME ServiceInv, IndInv', NEW d \in Daemons, NEW result \in {"ok", "err"},
           Finishes(d, result)
    PROVE  ServiceStep
<1>1. TypeOK /\ IndInv
  BY DEF ServiceInv, IndInv
<1>2. \A e \in Daemons : Listening(e)' => Listening(e)
  BY <1>1 DEF Finishes, LoopAgain, Listening, TypeOK
<1>3. PICK r \in Requests : current[d] = CallConn(r) /\ executed[r] # 0
  BY DEF Finishes, ServiceInv, CurrentInv
<1>4. Serving # NoDaemon
  BY <1>1, ServerListens, DaemonNumbers DEF Finishes
<1>5. Respond(current[d], result) /\ UNCHANGED executed
  BY DEF Finishes
<1>6. CASE UNCHANGED <<ncall, outcome>>
  BY <1>1, <1>2, <1>5, <1>6, StopsOrStays
<1>7. CASE \E c \in Clients : cpc[c] = "calling" /\ current[d] = Call(c) /\ Return(c, result)
  <2>1. PICK c \in Clients : cpc[c] = "calling" /\ current[d] = Call(c) /\ Return(c, result)
    BY <1>7
  <2>2. Request(c) = r
    BY <1>3, <2>1 DEF Call, CallConn
  <2> QED BY <1>2, <1>3, <1>4, <1>5, <2>1, <2>2, ReturnStep
<1> QED BY <1>5, <1>6, <1>7, RespondReturns

LEMMA DaemonSimulates ==
    ASSUME ServiceInv, IndInv', NEW d \in Daemons, DaemonStep(d)
    PROVE  ServiceStep
<1>1. TypeOK /\ IndInv
  BY DEF ServiceInv, IndInv
<1>2. CASE FinishCall(d) \/ HandlerTimesOut(d)
  BY <1>2, FinishSimulates DEF FinishCall, HandlerTimesOut
<1>3. CASE AcceptCall(d)
  <2>1. Head(backlog[d]) \in Conns /\ Head(backlog[d]).kind = "call"
    BY <1>1, <1>3, AcceptsType DEF AcceptCall, Accepts
  <2>2. PICK r \in Requests : Head(backlog[d]) = CallConn(r)
    BY <2>1 DEF Conns, CallConn
  <2>3. backlog[d] \in Seq(Conns) /\ backlog[d] # <<>>
    BY <1>1, <1>3 DEF AcceptCall, Accepts, TypeOK
  <2>4. Waits(d, 1, r)
    BY <2>2, <2>3 DEF Waits
  <2>5. executed[r] = 0 /\ Sent(r)
    BY <2>4 DEF ServiceInv, ExecInv
  <2>6. r \in Issued
    <3>1. r[1] \in Clients /\ r[2] \in Nat /\ ncall[r[1]] \in Nat
      BY <1>1, ConstantsAssumption DEF Requests, TypeOK
    <3> QED BY <2>5, <3>1 DEF Sent, Issued
  <2>7. executed' = [executed EXCEPT ![r] = 1]
    <3>1. Head(backlog[d]).req = r
      BY <2>2 DEF CallConn
    <3>2. executed' = [executed EXCEPT ![r] = executed[r] + 1]
      BY <1>3, <3>1 DEF AcceptCall
    <3> QED BY <2>5, <3>2
  <2>8. Serving # NoDaemon
    BY <1>1, <1>3, ServerListens, DaemonNumbers DEF AcceptCall, Accepts
  <2>9. Serving' = Serving /\ Issued' = Issued /\ outcome' = outcome
    BY <1>3 DEF AcceptCall, clientVars, Serving, Refused, Reaches, Listening, Issued
  <2>10. Service!Execute(r)
    BY <2>5, <2>6, <2>7, <2>8, <2>9 DEF Service!Execute
  <2> QED BY <2>10 DEF ServiceStep, Service!Next
<1>4. CASE Bind(d)
  <2>1. sockFile = NoDaemon /\ \A e \in Daemons : ~Listening(e)
    BY <1>1, <1>4, DaemonNumbers DEF Bind, Step, IndInv, SockInv, Listening
  <2>2. UNCHANGED <<ncall, executed, outcome>>
    BY <1>4 DEF Bind, clientVars
  <2>3. Serving = NoDaemon /\ Issued' = Issued
    BY <2>1, <2>2 DEF Serving, Refused, Reaches, Issued
  <2>4. Serving' = d
    <3>1. dstate'[d] = "serving" /\ sockFile' = d
      BY <1>1, <1>4, <2>1 DEF Bind, Step, TypeOK
    <3> QED BY <3>1 DEF Serving, Refused, Reaches, Listening
  <2>5. Service!Take
    BY <2>2, <2>3, <2>4 DEF Service!Take
  <2> QED BY <2>5 DEF ServiceStep, Service!Next
<1>5. CASE AcceptPing(d)
  <2>1. Respond(Head(backlog[d]), "ok") /\ Head(backlog[d]).kind = "ping"
        /\ UNCHANGED executed
    BY <1>5 DEF AcceptPing, Accepts
  <2>2. UNCHANGED <<ncall, outcome>>
    BY <2>1, RespondReturns DEF Call
  <2>3. \A e \in Daemons : Listening(e)' => Listening(e)
    BY <1>1, <1>5 DEF AcceptPing, LoopAgain, Listening, TypeOK
  <2> QED BY <1>1, <2>1, <2>2, <2>3, StopsOrStays
<1>6. CASE \/ WritePortFile(d) \/ WinLock(d) \/ LoseLock(d) \/ LaunchBrowser(d)
           \/ LaunchFails(d) \/ RemoveStale(d) \/ Exit(d)
  <2>1. \A e \in Daemons : Listening(e)' => Listening(e)
    BY <1>1, <1>6
       DEF WritePortFile, WinLock, LoseLock, LaunchBrowser, LaunchFails,
           RemoveStale, Exit, Step, Listening, TypeOK
  <2>2. UNCHANGED <<ncall, executed, outcome>>
    BY <1>6
       DEF WritePortFile, WinLock, LoseLock, LaunchBrowser, LaunchFails,
           RemoveStale, Exit, clientVars
  <2> QED BY <1>1, <2>1, <2>2, StopsOrStays
<1>7. CASE \/ AcceptShutdown(d) \/ Sigterm(d) \/ NoticeCancel(d)
           \/ GraceExpires(d) \/ AcceptError(d) \/ Crash(d)
  <2>1. \A e \in Daemons : Listening(e)' => Listening(e)
    BY <1>1, <1>7
       DEF AcceptShutdown, LoopAgain, Sigterm, NoticeCancel, GraceExpires,
           AcceptError, Crash, StopListening, Listening, TypeOK
  <2>2. UNCHANGED <<ncall, executed, outcome>>
    BY <1>7
       DEF AcceptShutdown, Sigterm, NoticeCancel, GraceExpires, AcceptError,
           Crash, clientVars
  <2> QED BY <1>1, <2>1, <2>2, StopsOrStays
<1> QED
  BY <1>2, <1>3, <1>4, <1>5, <1>6, <1>7 DEF DaemonStep

LEMMA StepSimulates == ServiceInv /\ IndInv' /\ [Next]_vars => ServiceStep
<1> SUFFICES ASSUME ServiceInv, IndInv', [Next]_vars PROVE ServiceStep
  OBVIOUS
<1>1. TypeOK /\ IndInv
  BY DEF ServiceInv, IndInv
<1>2. CASE ServiceStart
  <2>1. PICK d \in Daemons : dstate[d] = "unborn"
                             /\ dstate' = [dstate EXCEPT ![d] = "started"]
    BY <1>2 DEF ServiceStart, StartProcess
  <2>2. \A e \in Daemons : Listening(e)' => Listening(e)
    BY <1>1, <2>1 DEF Listening, TypeOK
  <2> QED BY <1>1, <1>2, <2>2, StopsOrStays DEF ServiceStart, clientVars
<1>3. CASE SendShutdown \/ UNCHANGED vars
  <2>1. UNCHANGED <<dstate, ncall, executed, outcome>>
    BY <1>3 DEF SendShutdown, vars, daemonVars, clientVars
  <2> QED BY <1>1, <2>1, StopsOrStays DEF Listening
<1> QED
  BY <1>2, <1>3, ClientSimulates, DaemonSimulates DEF Next

(* The clients, the processes, the lock and the socket are to their users  *)
(* one service (SocketTransport::call, Daemon::serve_connection): a call   *)
(* that succeeds was executed, exactly once, whichever process served it.  *)
THEOREM LifecycleImplementsService == Spec => ImplementsToolService
<1>1. Init => Service!Init
  <2> SUFFICES ASSUME Init PROVE Service!Init
    OBVIOUS
  <2>1. Serving = NoDaemon
    BY DEF Init, Serving, Refused, Reaches, Listening
  <2>2. Issued = {}
    BY ConstantsAssumption DEF Init, Issued, Requests
  <2> QED BY <2>1, <2>2 DEF Init, Service!Init
<1>2. Init => ServiceInv
  BY InitInv
     DEF Init, ServiceInv, ExecInv, Waits, ResultInv, CurrentInv
<1>3. ServiceInv /\ [Next]_vars => ServiceInv' /\ IndInv'
  BY StepInv, ExecStep, ResultStep, CurrentStep DEF ServiceInv
<1>4. ServiceInv /\ IndInv' /\ [Next]_vars => [Service!Next]_ServiceVars
  BY StepSimulates DEF ServiceStep
<1> QED
  BY <1>1, <1>2, <1>3, <1>4, PTL
     DEF Spec, ImplementsToolService, Service!Spec, ServiceVars
=============================================================================
