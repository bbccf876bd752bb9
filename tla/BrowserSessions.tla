-------------------------- MODULE BrowserSessions --------------------------
(***************************************************************************)
(* The session registry of NativeBrowser (native/browser.rs): the map of   *)
(* sessions, the lock of each, its tabs, the cap on new sessions, the idle *)
(* reaper, and the calls that interleave at their await points on the      *)
(* one-threaded runtime.                                                   *)
(*                                                                         *)
(* Two lanes bring calls in, one request at a time each: the socket's      *)
(* accept loop and the HTTP bridge's consumer.  A task <<lane, session>>   *)
(* is a call of that lane on that session; only close_all_sessions runs    *)
(* more than one task on its lane.  One action is what the code does       *)
(* between two awaits.                                                     *)
(***************************************************************************)
EXTENDS Integers, Sequences, FiniteSets, SequencesExt

CONSTANTS
    MaxSessions,   \* MAX_OPEN_SESSIONS
    MaxIds,        \* bound: session ids handed out
    MaxPages,      \* bound: pages opened
    MaxCalls,      \* bound: requests, on both lanes together
    Env            \* which outside events may happen, see EnvKinds

EnvKinds == {"fail", "timeout", "crash", "redirect"}

ASSUME SessionsConstants ==
    /\ MaxSessions \in Nat /\ MaxIds \in Nat /\ MaxPages \in Nat
    /\ MaxCalls \in Nat
    /\ Env \subseteq EnvKinds

Lanes  == {"socket", "bridge"}
Ids    == 1 .. MaxIds
Pages  == 1 .. MaxPages
Tasks  == Lanes \X Ids
NoTask == <<>>

TabOps == {"tabList", "tabNew", "tabSelect", "tabClose"}
Ops    == {"navigate", "act", "close"} \cup TabOps

VARIABLES
    registry,   \* ids in NativeBrowser::sessions
    tabs,       \* BrowserSession::tabs, the pages in open order
    active,     \* BrowserSession::active_tab, counted from one
    idle,       \* last_used is more than SESSION_IDLE_TIMEOUT ago
    crashed,    \* BrowserSession::crashed
    blocked,    \* BrowserSession::blocked
    lock,       \* the task holding the session's lock
    pending,    \* pending_new_sessions
    open,       \* pages open in Chrome
    nextId,     \* new_session_id
    nextPage,   \* pages opened so far, plus one
    pc,         \* where each task is
    op,         \* the method each task runs
    held,       \* pages in a task's local variables
    reaping,    \* pages the reaper has still to close
    calls,      \* requests taken by the lanes
    panics,     \* <<op, id>> of each expect that failed
    dead        \* a panic on the socket lane ends the daemon

sessionVars == <<registry, tabs, active, idle, crashed, blocked>>
taskVars    == <<lock, pending, pc, op, held>>
pageVars    == <<open, nextPage>>
vars == <<sessionVars, taskVars, pageVars, nextId, reaping, calls, panics,
          dead>>

TypeOK ==
    /\ registry \subseteq Ids
    /\ tabs \in [Ids -> Seq(Pages)]
    /\ active \in [Ids -> Nat]
    /\ idle \in [Ids -> BOOLEAN]
    /\ crashed \in [Ids -> BOOLEAN]
    /\ blocked \in [Ids -> BOOLEAN]
    /\ lock \in [Ids -> Tasks \cup {NoTask}]
    /\ pending \in 0 .. Cardinality(Lanes)
    /\ open \subseteq Pages
    /\ nextId \in 1 .. MaxIds + 1
    /\ nextPage \in 1 .. MaxPages + 1
    /\ pc \in [Tasks -> {"idle", "opening", "loading", "waiting", "working",
                         "tabOpening", "tabLoading", "tabGoing", "tabClosing",
                         "closing"}]
    /\ op \in [Tasks -> Ops \cup {"new", "none"}]
    /\ held \in [Tasks -> Seq(Pages)]
    /\ reaping \subseteq Pages
    /\ calls \in 0 .. MaxCalls
    /\ panics \subseteq Ops \X Ids
    /\ dead \in BOOLEAN

Init ==
    /\ registry = {}
    /\ tabs = [s \in Ids |-> <<>>]
    /\ active = [s \in Ids |-> 1]
    /\ idle = [s \in Ids |-> FALSE]
    /\ crashed = [s \in Ids |-> FALSE]
    /\ blocked = [s \in Ids |-> FALSE]
    /\ lock = [s \in Ids |-> NoTask]
    /\ pending = 0
    /\ open = {}
    /\ nextId = 1 /\ nextPage = 1
    /\ pc = [t \in Tasks |-> "idle"]
    /\ op = [t \in Tasks |-> "none"]
    /\ held = [t \in Tasks |-> <<>>]
    /\ reaping = {}
    /\ calls = 0
    /\ panics = {}
    /\ dead = FALSE

TasksOf(l) == {t \in Tasks : t[1] = l}
Session(t) == t[2]
ActivePage(s) == tabs[s][active[s]]

(* A waiter the lock was handed to that has not been polled yet.           *)
Granted(t) == pc[t] = "waiting" /\ lock[Session(t)] = t

(* A lane takes its next request when the last one is answered.  The       *)
(* socket's arrives through the I/O driver, after every woken task was     *)
(* polled; the bridge's may already be in the channel.                     *)
LaneFree(l) ==
    /\ calls < MaxCalls
    /\ \A t \in TasksOf(l) : pc[t] = "idle"
    /\ l = "socket" => \A t \in Tasks : ~Granted(t)

TakeRequest == calls' = calls + 1

(* The tasks T end, by returning or by being dropped: their guards release *)
(* locks, each handed to the call that waits (of the other lane: at most   *)
(* one), and the slots reserved for new sessions.                          *)
Waiters(s, T) == {t \in Tasks \ T : pc[t] = "waiting" /\ Session(t) = s}

Leave(T) ==
    /\ pc' = [t \in Tasks |-> IF t \in T THEN "idle" ELSE pc[t]]
    /\ op' = [t \in Tasks |-> IF t \in T THEN "none" ELSE op[t]]
    /\ held' = [t \in Tasks |-> IF t \in T THEN <<>> ELSE held[t]]
    /\ lock' = [s \in Ids |->
                  IF lock[s] \notin T THEN lock[s]
                  ELSE IF Waiters(s, T) = {} THEN NoTask
                  ELSE CHOOSE t \in Waiters(s, T) : TRUE]
    /\ pending' = pending
         - Cardinality({t \in T : pc[t] \in {"opening", "loading"}})

(* A failed expect unwinds the lane's handler; on the socket lane nothing  *)
(* catches it.                                                             *)
Panic(t, o) ==
    /\ panics' = panics \cup {<<o, Session(t)>>}
    /\ dead' = (t[1] = "socket")
    /\ Leave(TasksOf(t[1]))

----------------------------------------------------------------------------
(* navigate without a session id.                                          *)

(* Mutant: the cap counts open sessions only, not reservations.            *)
NavigateUnreserved(l) ==
    /\ LaneFree(l) /\ nextId \in Ids
    /\ Cardinality(registry) < MaxSessions
    /\ pending' = pending + 1
    /\ pc' = [pc EXCEPT ![<<l, nextId>>] = "opening"]
    /\ op' = [op EXCEPT ![<<l, nextId>>] = "new"]
    /\ nextId' = nextId + 1
    /\ TakeRequest
    /\ UNCHANGED <<sessionVars, lock, held, pageVars, reaping, panics, dead>>

NavigateNew(l) ==
    /\ LaneFree(l) /\ nextId \in Ids
    /\ Cardinality(registry) + pending < MaxSessions
    /\ pending' = pending + 1
    /\ pc' = [pc EXCEPT ![<<l, nextId>>] = "opening"]
    /\ op' = [op EXCEPT ![<<l, nextId>>] = "new"]
    /\ nextId' = nextId + 1
    /\ TakeRequest
    /\ UNCHANGED <<sessionVars, lock, held, pageVars, reaping, panics, dead>>

(* Browser::new_page, for a new session and for a new tab.                 *)
PageOpens(t) ==
    /\ pc[t] \in {"opening", "tabOpening"} /\ nextPage \in Pages
    /\ pc' = [pc EXCEPT ![t] = IF @ = "opening" THEN "loading" ELSE "tabLoading"]
    /\ held' = [held EXCEPT ![t] = <<nextPage>>]
    /\ open' = open \cup {nextPage}
    /\ nextPage' = nextPage + 1
    /\ UNCHANGED <<sessionVars, lock, pending, op, nextId, reaping, calls,
                   panics, dead>>

OpenFails(t) ==
    /\ "fail" \in Env
    /\ pc[t] \in {"opening", "tabOpening"}
    /\ Leave({t})
    /\ UNCHANGED <<sessionVars, pageVars, nextId, reaping, calls, panics, dead>>

(* The network listeners cannot be registered: the page is closed.         *)
ListenFails(t) ==
    /\ "fail" \in Env
    /\ pc[t] = "loading"
    /\ open' = open \ ToSet(held[t])
    /\ Leave({t})
    /\ UNCHANGED <<sessionVars, nextPage, nextId, reaping, calls, panics, dead>>

(* Accessibility.enable, the navigation or the capture fails: an early     *)
(* return that leaves the page as it is.                                   *)
LoadFails(t) ==
    /\ "fail" \in Env
    /\ pc[t] = "loading"
    /\ Leave({t})
    /\ UNCHANGED <<sessionVars, pageVars, nextId, reaping, calls, panics, dead>>

(* The session is inserted, also when a redirect was blocked meanwhile.    *)
Loaded(t) ==
    LET s == Session(t) IN
    /\ pc[t] = "loading"
    /\ registry' = registry \cup {s}
    /\ tabs' = [tabs EXCEPT ![s] = held[t]]
    /\ \E b \in {FALSE, "redirect" \in Env} : blocked' = [blocked EXCEPT ![s] = b]
    /\ Leave({t})
    /\ UNCHANGED <<active, idle, crashed, pageVars, nextId, reaping, calls,
                   panics, dead>>

----------------------------------------------------------------------------
(* A call on a session: touch_or_evict, the lock, the checks, the work.    *)

Removed(s) ==
    /\ registry' = registry \ {s}
    /\ tabs' = [tabs EXCEPT ![s] = <<>>]

(* touch_or_evict on a crashed session removes it, with or without a call  *)
(* holding its lock, and closes nothing.                                   *)
TouchCrashed(l, s) ==
    /\ LaneFree(l)
    /\ s \in registry /\ crashed[s]
    /\ Removed(s)
    /\ TakeRequest
    /\ UNCHANGED <<active, idle, crashed, blocked, taskVars, pageVars, nextId,
                   reaping, panics, dead>>

(* What a call does from the moment it has the lock to its next await.     *)
Proceed(t, o, state, pages) ==
    /\ lock' = [lock EXCEPT ![Session(t)] = t]
    /\ pc' = [pc EXCEPT ![t] = state]
    /\ op' = [op EXCEPT ![t] = o]
    /\ held' = [held EXCEPT ![t] = pages]
    /\ UNCHANGED <<pending, panics, dead>>

Return(t) == Leave({t}) /\ UNCHANGED <<panics, dead>>

(* Only navigate, which clears it, and close_session ignore the flag.  A   *)
(* session may be gone in spite of the lock; opening a tab looks later.    *)
Refuses(o, s) ==
    \/ o \in {"act"} \cup TabOps /\ blocked[s]
    \/ o \notin {"close", "tabNew"} /\ s \notin registry
    \/ o = "tabClose" /\ Len(tabs[s]) = 1

EnterRefused(t, o) ==
    /\ Refuses(o, Session(t))
    /\ Return(t)
    /\ UNCHANGED <<registry, tabs, active, blocked>>

EnterNavigate(t, o) ==
    /\ o = "navigate"
    /\ blocked' = [blocked EXCEPT ![Session(t)] = FALSE]
    /\ Proceed(t, o, "working", <<ActivePage(Session(t))>>)
    /\ UNCHANGED <<registry, tabs, active>>

EnterAct(t, o) ==
    /\ o \in {"act", "tabList"}
    /\ Proceed(t, o, "working", <<ActivePage(Session(t))>>)
    /\ UNCHANGED <<registry, tabs, active, blocked>>

EnterTabNew(t, o) ==
    /\ o = "tabNew"
    /\ Proceed(t, o, "tabOpening", <<>>)
    /\ UNCHANGED <<registry, tabs, active, blocked>>

EnterTabSelect(t, o) ==
    /\ o = "tabSelect"
    /\ \E i \in DOMAIN tabs[Session(t)] :
          /\ active' = [active EXCEPT ![Session(t)] = i]
          /\ Proceed(t, o, "working", <<tabs[Session(t)][i]>>)
    /\ UNCHANGED <<registry, tabs, blocked>>

(* Mutant: the active index ignores that the tabs after i moved down.      *)
NewActiveUnshifted(i, was, left) == IF i = was /\ i > left THEN left ELSE was

NewActive(i, was, left) ==
    IF i < was THEN was - 1
    ELSE IF i = was /\ i > left THEN left
    ELSE was

EnterTabClose(t, o) ==
    LET s == Session(t) IN
    /\ o = "tabClose"
    /\ \E i \in DOMAIN tabs[s] :
          /\ tabs' = [tabs EXCEPT ![s] = RemoveAt(@, i)]
          /\ active' = [active EXCEPT ![s] = NewActive(i, @, Len(tabs[s]) - 1)]
          /\ Proceed(t, o, "tabClosing", <<tabs[s][i]>>)
    /\ UNCHANGED <<registry, blocked>>

(* The expect of close_session: with the lock held, the entry is there.    *)
EnterClose(t, o) ==
    LET s == Session(t) IN
    /\ o = "close"
    /\ IF s \in registry
       THEN Removed(s) /\ Proceed(t, o, "closing", tabs[s])
       ELSE Panic(t, o) /\ UNCHANGED <<registry, tabs>>
    /\ UNCHANGED <<active, blocked>>

Enter(t, o) ==
    \/ EnterRefused(t, o)
    \/ /\ ~Refuses(o, Session(t))
       /\ \/ EnterNavigate(t, o) \/ EnterAct(t, o) \/ EnterTabNew(t, o)
          \/ EnterTabSelect(t, o) \/ EnterTabClose(t, o) \/ EnterClose(t, o)

(* Mutant: close_session removes the entry before it takes the lock.       *)
BeginRemovesFirst(l, s, o) ==
    /\ LaneFree(l)
    /\ s \in registry /\ ~crashed[s]
    /\ idle' = [idle EXCEPT ![s] = FALSE]
    /\ IF lock[s] = NoTask
       THEN Enter(<<l, s>>, o)
       ELSE /\ pc' = [pc EXCEPT ![<<l, s>>] = IF o = "close" THEN "closing"
                                              ELSE "waiting"]
            /\ op' = [op EXCEPT ![<<l, s>>] = o]
            /\ IF o = "close"
               THEN Removed(s) /\ held' = [held EXCEPT ![<<l, s>>] = tabs[s]]
               ELSE UNCHANGED <<registry, tabs, held>>
            /\ UNCHANGED <<active, blocked, lock, pending, panics, dead>>
    /\ TakeRequest
    /\ UNCHANGED <<crashed, pageVars, nextId, reaping>>

(* touch_or_evict bumps last_used; a free lock is taken in the same poll.  *)
Begin(l, s, o) ==
    /\ LaneFree(l)
    /\ s \in registry /\ ~crashed[s]
    /\ idle' = [idle EXCEPT ![s] = FALSE]
    /\ IF lock[s] = NoTask
       THEN Enter(<<l, s>>, o)
       ELSE /\ pc' = [pc EXCEPT ![<<l, s>>] = "waiting"]
            /\ op' = [op EXCEPT ![<<l, s>>] = o]
            /\ UNCHANGED <<registry, tabs, active, blocked, lock, pending,
                           held, panics, dead>>
    /\ TakeRequest
    /\ UNCHANGED <<crashed, pageVars, nextId, reaping>>

Resume(t) ==
    /\ Granted(t)
    /\ Enter(t, op[t])
    /\ UNCHANGED <<idle, crashed, pageVars, nextId, reaping, calls>>

(* close_all_sessions: list_sessions, then join_all polls the closes once  *)
(* before any of them awaits.                                              *)
CloseAll(l) ==
    LET free == {s \in registry : ~crashed[s] /\ lock[s] = NoTask}
        busy == {s \in registry : ~crashed[s] /\ lock[s] # NoTask}
        Mine(t) == t[1] = l
    IN
    /\ LaneFree(l)
    /\ Cardinality(registry) > 1
    /\ registry' = busy
    /\ tabs' = [s \in Ids |-> IF s \in busy THEN tabs[s] ELSE <<>>]
    /\ idle' = [s \in Ids |-> idle[s] /\ s \notin free \cup busy]
    /\ lock' = [s \in Ids |-> IF s \in free THEN <<l, s>> ELSE lock[s]]
    /\ pc' = [t \in Tasks |->
                IF Mine(t) /\ Session(t) \in free THEN "closing"
                ELSE IF Mine(t) /\ Session(t) \in busy THEN "waiting"
                ELSE pc[t]]
    /\ op' = [t \in Tasks |->
                IF Mine(t) /\ Session(t) \in free \cup busy THEN "close"
                ELSE op[t]]
    /\ held' = [t \in Tasks |->
                  IF Mine(t) /\ Session(t) \in free THEN tabs[Session(t)]
                  ELSE held[t]]
    /\ TakeRequest
    /\ UNCHANGED <<active, crashed, blocked, pending, pageVars, nextId,
                   reaping, panics, dead>>

----------------------------------------------------------------------------
(* The work under the lock.                                                *)

(* The new tab's page is ready to be navigated, if its session still is    *)
(* there.                                                                  *)
TabChecked(t) ==
    /\ pc[t] = "tabLoading" /\ Session(t) \in registry
    /\ pc' = [pc EXCEPT ![t] = "tabGoing"]
    /\ UNCHANGED <<sessionVars, lock, pending, op, held, pageVars, nextId,
                   reaping, calls, panics, dead>>

(* Any failure before the page is registered closes it.                    *)
TabFails(t) ==
    /\ \/ pc[t] = "tabLoading" /\ Session(t) \notin registry
       \/ pc[t] \in {"tabLoading", "tabGoing"} /\ "fail" \in Env
       \/ pc[t] = "tabGoing" /\ blocked[Session(t)]
    /\ open' = open \ ToSet(held[t])
    /\ Leave({t})
    /\ UNCHANGED <<sessionVars, nextPage, nextId, reaping, calls, panics, dead>>

(* The page becomes the session's last and active tab; an expect.          *)
TabLoaded(t) ==
    LET s == Session(t) IN
    /\ pc[t] = "tabGoing" /\ ~blocked[s]
    /\ IF s \in registry
       THEN /\ tabs' = [tabs EXCEPT ![s] = @ \o held[t]]
            /\ active' = [active EXCEPT ![s] = Len(tabs[s]) + 1]
            /\ pc' = [pc EXCEPT ![t] = "working"]
            /\ UNCHANGED <<lock, pending, op, held, panics, dead>>
       ELSE Panic(t, op[t]) /\ UNCHANGED <<tabs, active>>
    /\ UNCHANGED <<registry, idle, crashed, blocked, pageVars, nextId,
                   reaping, calls>>

WorkFails(t) ==
    /\ "fail" \in Env
    /\ pc[t] = "working"
    /\ Leave({t})
    /\ UNCHANGED <<sessionVars, pageVars, nextId, reaping, calls, panics, dead>>

(* Every method but tabs tolerates that the session has gone meanwhile.    *)
WorkDone(t) ==
    LET s == Session(t) IN
    /\ pc[t] = "working"
    /\ IF op[t] \in TabOps /\ s \notin registry
       THEN Panic(t, op[t])
       ELSE Return(t)
    /\ idle' = [idle EXCEPT ![s] = @ /\ s \notin registry]
    /\ UNCHANGED <<registry, tabs, active, crashed, blocked, pageVars, nextId,
                   reaping, calls>>

(* close_session closes every tab in turn; tabs(Close) goes on to list the *)
(* remaining ones.                                                         *)
ClosePage(t) ==
    /\ pc[t] \in {"closing", "tabClosing"}
    /\ open' = open \ {Head(held[t])}
    /\ IF pc[t] = "tabClosing"
       THEN /\ pc' = [pc EXCEPT ![t] = "working"]
            /\ UNCHANGED <<lock, pending, op, held>>
       ELSE IF Len(held[t]) = 1 THEN Leave({t})
       ELSE /\ held' = [held EXCEPT ![t] = Tail(@)]
            /\ UNCHANGED <<lock, pending, op, pc>>
    /\ UNCHANGED <<sessionVars, nextPage, nextId, reaping, calls, panics, dead>>

Busy(l) == \E t \in TasksOf(l) : pc[t] # "idle"

(* Mutant: the lock is a flag that only a finished call resets.            *)
TimeoutKeepsLock(l) ==
    /\ "timeout" \in Env
    /\ Busy(l)
    /\ pc' = [t \in Tasks |-> IF t[1] = l THEN "idle" ELSE pc[t]]
    /\ op' = [t \in Tasks |-> IF t[1] = l THEN "none" ELSE op[t]]
    /\ held' = [t \in Tasks |-> IF t[1] = l THEN <<>> ELSE held[t]]
    /\ UNCHANGED <<sessionVars, lock, pending, pageVars, nextId, reaping,
                   calls, panics, dead>>

(* The method's own timeout, or REQUEST_TIMEOUT, drops the call's future   *)
(* at the await it is in.                                                  *)
Timeout(l) ==
    /\ "timeout" \in Env
    /\ Busy(l)
    /\ Leave(TasksOf(l))
    /\ UNCHANGED <<sessionVars, pageVars, nextId, reaping, calls, panics, dead>>

----------------------------------------------------------------------------
(* Chrome, the clock and the reaper.                                       *)

(* The flag is one for all the tabs of a session.                          *)
TargetCrash(p) ==
    /\ "crash" \in Env
    /\ p \in open
    /\ open' = open \ {p}
    /\ crashed' = [s \in Ids |->
          \/ crashed[s] \/ p \in ToSet(tabs[s])
          \/ \E t \in Tasks : Session(t) = s /\ p \in ToSet(held[t])]
    /\ UNCHANGED <<registry, tabs, active, idle, blocked, taskVars, nextPage,
                   nextId, reaping, calls, panics, dead>>

(* An in-page navigation to a host the policy blocks.                      *)
Redirect(s) ==
    /\ "redirect" \in Env
    /\ s \in registry /\ ~blocked[s]
    /\ blocked' = [blocked EXCEPT ![s] = TRUE]
    /\ UNCHANGED <<registry, tabs, active, idle, crashed, taskVars, pageVars,
                   nextId, reaping, calls, panics, dead>>

(* last_used is wall-clock time, which also jumps, as after a suspend, so  *)
(* a session may look idle while a call is still using it.                 *)
IdlePasses(s) ==
    /\ s \in registry /\ ~idle[s]
    /\ idle' = [idle EXCEPT ![s] = TRUE]
    /\ UNCHANGED <<registry, tabs, active, crashed, blocked, taskVars,
                   pageVars, nextId, reaping, calls, panics, dead>>

Evict(E) ==
    /\ E # {} /\ reaping = {}
    /\ registry' = registry \ E
    /\ reaping' = UNION {ToSet(tabs[s]) : s \in E}
    /\ tabs' = [s \in Ids |-> IF s \in E THEN <<>> ELSE tabs[s]]
    /\ UNCHANGED <<active, idle, crashed, blocked, taskVars, pageVars, nextId,
                   calls, panics, dead>>

(* Mutant: the reaper does not ask whether a session is busy.              *)
ReapBusy == Evict({s \in registry : idle[s]})

(* reap_expired up to its first await.                                     *)
Reap == Evict({s \in registry : idle[s] /\ lock[s] = NoTask})

ReapClose ==
    \E p \in reaping :
        /\ reaping' = reaping \ {p}
        /\ open' = open \ {p}
        /\ UNCHANGED <<sessionVars, taskVars, nextPage, nextId, calls, panics,
                       dead>>

----------------------------------------------------------------------------

TaskStep(t) ==
    \/ PageOpens(t) \/ OpenFails(t) \/ ListenFails(t) \/ LoadFails(t)
    \/ Loaded(t) \/ Resume(t)
    \/ TabChecked(t) \/ TabFails(t) \/ TabLoaded(t)
    \/ WorkFails(t) \/ WorkDone(t) \/ ClosePage(t)

LaneStep(l) ==
    \/ NavigateNew(l) \/ CloseAll(l) \/ Timeout(l)
    \/ \E s \in Ids : TouchCrashed(l, s) \/ \E o \in Ops : Begin(l, s, o)

Next ==
    /\ ~dead
    /\ \/ \E t \in Tasks : TaskStep(t)
       \/ \E l \in Lanes : LaneStep(l)
       \/ \E p \in Pages : TargetCrash(p)
       \/ \E s \in Ids : Redirect(s) \/ IdlePasses(s)
       \/ Reap \/ ReapClose

Spec == Init /\ [][Next]_vars

----------------------------------------------------------------------------
(* Properties.                                                             *)

(* The cap on open sessions, checked before and filled after several       *)
(* awaits, holds on both lanes' navigations together (MAX_OPEN_SESSIONS).  *)
CapHolds == Cardinality(registry) <= MaxSessions

(* A session always has a tab and its active index always names one,       *)
(* whatever tabs are opened, selected and closed, and no page is a tab of  *)
(* two sessions: active_page indexes without a check.                      *)
ActiveTabExists ==
    \A s \in registry :
        /\ active[s] \in DOMAIN tabs[s]
        /\ \A r \in registry : ToSet(tabs[r]) \cap ToSet(tabs[s]) # {} => r = s

(* While a call drives a page, the page stays the active tab of a          *)
(* registered session and is not closed: the reaper, close_session and     *)
(* tabs of the other lane wait.  Only a crash of the target takes it away. *)
CallKeepsItsTab ==
    \A t \in Tasks :
        pc[t] = "working" /\ op[t] \in {"navigate", "act"} =>
            LET s == Session(t) IN
            \/ crashed[s]
            \/ s \in registry /\ held[t] = <<ActivePage(s)>> /\ ActivePage(s) \in open

(* The expects in tabs ("presence confirmed above under the same guard")   *)
(* can only fail after a crash of the session's target: closing and        *)
(* reaping never pull a session out from under a tabs call.  After a crash *)
(* they do fail, as touch_or_evict, which takes no lock, removes the       *)
(* session in mid-call, against the comment that "later accesses within    *)
(* this arm are safe" under the guard.                                     *)
TabsExpectHolds ==
    \A panic \in panics : panic[1] \in TabOps => crashed[panic[2]]

(* A session is busy only while a call runs on it: however calls time out, *)
(* panic or are handed the lock, no lock is left behind that would hide an *)
(* idle session from the reaper, and no slot that would shrink the cap.    *)
BusyOnlyWhileCalled ==
    /\ \A s \in Ids : lock[s] # NoTask => pc[lock[s]] # "idle"
    /\ pending = Cardinality({t \in Tasks : op[t] = "new"})

(* tabs, browser.rs: a page that no session and no call has a use for any  *)
(* more must be closed explicitly, or it leaks for the process's lifetime. *)
EveryPageOwned ==
    \A p \in open :
        \/ p \in reaping
        \/ \E s \in registry : p \in ToSet(tabs[s])
        \/ \E t \in Tasks : p \in ToSet(held[t])

(* close_session: "this holds the session's own lock, so no concurrent     *)
(* call can have removed it".                                              *)
CloseExpectHolds == \A panic \in panics : panic[1] # "close"
=============================================================================
