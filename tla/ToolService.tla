---------------------------- MODULE ToolService ----------------------------
(***************************************************************************)
(* What the thin clients are promised of the daemon, whatever processes    *)
(* come and go behind it: one server at a time, and at-most-once tool      *)
(* calls.  A call that fails may have been executed, may be executing, or  *)
(* may still be executed later; a call that succeeds was executed once.    *)
(***************************************************************************)
EXTENDS Integers

CONSTANTS Servers, NoServer, Requests

VARIABLES
    server,     \* the process that serves, if any
    issued,     \* requests made by clients
    runs,       \* how often the handler of each request was started
    result      \* what each request returned

TypeInv ==
    /\ server \in Servers \cup {NoServer}
    /\ issued \subseteq Requests
    /\ runs \in [Requests -> 0 .. 1]
    /\ result \in [Requests -> {"pending", "ok", "err"}]

Init ==
    /\ server = NoServer
    /\ issued = {}
    /\ runs = [r \in Requests |-> 0]
    /\ result = [r \in Requests |-> "pending"]

Issue(r) ==
    /\ r \notin issued
    /\ issued' = issued \cup {r}
    /\ UNCHANGED <<server, runs, result>>

Take ==
    /\ server = NoServer
    /\ server' \in Servers
    /\ UNCHANGED <<issued, runs, result>>

Stop ==
    /\ server # NoServer
    /\ server' = NoServer
    /\ UNCHANGED <<issued, runs, result>>

Execute(r) ==
    /\ server # NoServer
    /\ r \in issued /\ runs[r] = 0
    /\ runs' = [runs EXCEPT ![r] = 1]
    /\ UNCHANGED <<server, issued, result>>

(* The reply may be the server's last act before it stops.                 *)
Succeed(r) ==
    /\ server # NoServer
    /\ runs[r] = 1 /\ result[r] = "pending"
    /\ result' = [result EXCEPT ![r] = "ok"]
    /\ server' \in {server, NoServer}
    /\ UNCHANGED <<issued, runs>>

Fail(r) ==
    /\ r \in issued /\ result[r] = "pending"
    /\ result' = [result EXCEPT ![r] = "err"]
    /\ server' \in {server, NoServer}
    /\ UNCHANGED <<issued, runs>>

Next ==
    \/ Take \/ Stop
    \/ \E r \in Requests : Issue(r) \/ Execute(r) \/ Succeed(r) \/ Fail(r)

Spec == Init /\ [][Next]_<<server, issued, runs, result>>
=============================================================================
