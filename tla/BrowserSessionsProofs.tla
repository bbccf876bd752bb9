----------------------- MODULE BrowserSessionsProofs -----------------------
(***************************************************************************)
(* Proofs about BrowserSessions for any cap, any number of session ids,    *)
(* pages and requests, and any environment: the cap on sessions holds, no  *)
(* lock or reserved slot outlives the call that took it, every session has *)
(* an active tab, a call keeps its tab, and `tabs` finds what it expects.  *)
(*                                                                         *)
(* The cap is not inductive by itself: NavigateNew checks it several       *)
(* awaits before Loaded inserts the session.  What is inductive counts the *)
(* calls between the two, and says that `pending` is their number on every *)
(* way out of a call (Leave).                                              *)
(***************************************************************************)
EXTENDS BrowserSessions, FiniteSetTheorems, SequenceTheorems, TLAPS

States == {"idle", "opening", "loading", "waiting", "working", "tabOpening",
           "tabLoading", "tabGoing", "tabClosing", "closing"}

Opening == {t \in Tasks : op[t] = "new"}

SlotTypes ==
    /\ registry \subseteq Ids
    /\ lock \in [Ids -> Tasks \cup {NoTask}]
    /\ pc \in [Tasks -> States]
    /\ op \in [Tasks -> Ops \cup {"new", "none"}]
    /\ nextId \in 1 .. MaxIds + 1

NewIsOpening ==
    \A t \in Tasks : op[t] = "new" <=> pc[t] \in {"opening", "loading"}

TasksInv == SlotTypes /\ NewIsOpening /\ BusyOnlyWhileCalled

Reserved == Cardinality(registry) + Cardinality(Opening) <= MaxSessions

SlotInv == TasksInv /\ Reserved

----------------------------------------------------------------------------
(* Counting.                                                               *)

LEMMA FiniteTasks == IsFiniteSet(Ids) /\ IsFiniteSet(Tasks)
  <1>1. IsFiniteSet(Ids)
    BY FS_Interval, SessionsConstants DEF Ids
  <1>2. IsFiniteSet({"socket"}) /\ IsFiniteSet({"socket"} \cup {"bridge"})
    BY FS_Singleton, FS_AddElement
  <1>3. Lanes = {"socket"} \cup {"bridge"}
    BY DEF Lanes
  <1>4. QED
    BY <1>1, <1>2, <1>3, FS_Product DEF Tasks

LEMMA FiniteOpening ==
    /\ IsFiniteSet(Opening) /\ Cardinality(Opening) \in Nat
    /\ IsFiniteSet(Opening') /\ Cardinality(Opening') \in Nat
  BY FiniteTasks, FS_Subset, FS_CardinalityType DEF Opening

LEMMA NotATask == NoTask \notin Tasks
  <1> SUFFICES ASSUME NEW t \in Tasks PROVE t # <<>>
    BY DEF NoTask
  <1>1. PICK l \in Lanes, s \in Ids : t = <<l, s>>
    BY DEF Tasks
  <1>2. QED
    BY <1>1

(* A step that opens no further session keeps the reservations within the  *)
(* cap.                                                                    *)
LEMMA CapKept ==
    ASSUME SlotInv, registry' \subseteq registry, Opening' \subseteq Opening
    PROVE  Reserved'
  <1>1. IsFiniteSet(registry) /\ Cardinality(registry) \in Nat
    BY FiniteTasks, FS_Subset, FS_CardinalityType DEF SlotInv, TasksInv, SlotTypes
  <1>2. Cardinality(registry') <= Cardinality(registry)
        /\ Cardinality(registry') \in Nat
    BY <1>1, FS_Subset, FS_CardinalityType
  <1>3. Cardinality(Opening') <= Cardinality(Opening)
    BY FiniteOpening, FS_Subset
  <1>4. QED
    BY <1>1, <1>2, <1>3, FiniteOpening, SessionsConstants DEF SlotInv, Reserved

----------------------------------------------------------------------------
(* Ends of calls: whichever tasks end together, by returning or by being   *)
(* dropped, their slots and locks end with them.                           *)

LEMMA Leaves ==
    ASSUME TasksInv, NEW T \in SUBSET Tasks, Leave(T),
           registry' \subseteq Ids, nextId' = nextId
    PROVE  TasksInv' /\ Opening' = Opening \ T
  <1> USE DEF TasksInv
  <1>1. SlotTypes'
    <2>1. \A s \in Ids : Waiters(s, T) # {} =>
              (CHOOSE t \in Waiters(s, T) : TRUE) \in Tasks
      BY DEF Waiters
    <2>2. lock' \in [Ids -> Tasks \cup {NoTask}]
      BY <2>1 DEF Leave, SlotTypes
    <2>3. pc' \in [Tasks -> States] /\ op' \in [Tasks -> Ops \cup {"new", "none"}]
      BY DEF Leave, SlotTypes, States
    <2>4. QED
      BY <2>2, <2>3 DEF SlotTypes
  <1>2. NewIsOpening'
    BY DEF Leave, NewIsOpening
  <1>3. Opening' = Opening \ T
    BY DEF Opening, Leave
  <1>4. pending' = Cardinality(Opening')
    <2>1. {t \in T : pc[t] \in {"opening", "loading"}} = Opening \cap T
      BY DEF Opening, NewIsOpening
    <2>2. pending = Cardinality(Opening)
      BY DEF BusyOnlyWhileCalled, Opening
    <2>3. Cardinality(Opening \ T)
            = Cardinality(Opening) - Cardinality(Opening \cap T)
      BY FiniteOpening, FS_Difference
    <2>4. QED
      BY <1>3, <2>1, <2>2, <2>3 DEF Leave
  <1>5. ASSUME NEW s \in Ids, lock'[s] # NoTask
        PROVE  pc'[lock'[s]] # "idle"
    <2>1. CASE lock[s] \notin T
      <3>1. lock'[s] = lock[s]
        BY <2>1 DEF Leave
      <3>2. lock[s] \in Tasks /\ pc[lock[s]] # "idle"
        BY <1>5, <3>1 DEF SlotTypes, BusyOnlyWhileCalled
      <3>3. QED
        BY <2>1, <3>1, <3>2 DEF Leave
    <2>2. CASE lock[s] \in T
      <3>1. Waiters(s, T) # {} /\ lock'[s] = CHOOSE t \in Waiters(s, T) : TRUE
        BY <1>5, <2>2 DEF Leave
      <3>2. lock'[s] \in Tasks \ T /\ pc[lock'[s]] = "waiting"
        BY <3>1 DEF Waiters
      <3>3. QED
        BY <3>2 DEF Leave
    <2>3. QED
      BY <2>1, <2>2
  <1>6. QED
    BY <1>1, <1>2, <1>3, <1>4, <1>5 DEF BusyOnlyWhileCalled, Opening

(* A task that opens nothing and moves on, or takes a free lock and goes   *)
(* on under it, keeps the bookkeeping.                                     *)
LEMMA Moves ==
    ASSUME TasksInv, NEW t \in Tasks, NEW state \in States, NEW o,
           o \in Ops, op[t] # "new",
           state \notin {"idle", "opening", "loading"},
           pc' = [pc EXCEPT ![t] = state],
           op' = [op EXCEPT ![t] = o],
           \/ lock' = lock
           \/ lock' = [lock EXCEPT ![Session(t)] = t],
           registry' \subseteq Ids, nextId' = nextId, pending' = pending
    PROVE  TasksInv' /\ Opening' = Opening
  <1> USE DEF TasksInv
  <1>1. o # "new"
    BY DEF Ops, TabOps
  <1>2. SlotTypes'
    BY DEF SlotTypes
  <1>3. NewIsOpening'
    BY <1>1 DEF NewIsOpening, SlotTypes
  <1>4. Opening' = Opening
    BY <1>1 DEF Opening, SlotTypes
  <1>5. \A s \in Ids : lock'[s] # NoTask => pc'[lock'[s]] # "idle"
    BY DEF SlotTypes, BusyOnlyWhileCalled
  <1>6. QED
    BY <1>2, <1>3, <1>4, <1>5 DEF BusyOnlyWhileCalled, Opening

(* What a call does once it has the lock.                                  *)
LEMMA Enters ==
    ASSUME TasksInv, NEW t \in Tasks, NEW o, Enter(t, o), op[t] # "new",
           nextId' = nextId
    PROVE  /\ TasksInv' /\ Opening' \subseteq Opening
           /\ registry' \subseteq registry
  <1>1. registry' \subseteq registry /\ registry' \subseteq Ids
    BY DEF Enter, EnterRefused, EnterNavigate, EnterAct, EnterTabNew,
           EnterTabSelect, EnterTabClose, EnterClose, Removed, TasksInv, SlotTypes
  <1>2. CASE Leave({t}) \/ Leave(TasksOf(t[1]))
    BY <1>1, <1>2, Leaves DEF TasksOf
  <1>3. ASSUME NEW state \in States \ {"idle", "opening", "loading"}, NEW pages,
               Proceed(t, o, state, pages), o \in Ops
        PROVE  TasksInv' /\ Opening' = Opening
    BY <1>1, <1>3, Moves DEF Proceed
  <1>4. CASE EnterRefused(t, o)
    BY <1>1, <1>2, <1>4 DEF EnterRefused, Return
  <1>5. CASE EnterNavigate(t, o)
    BY <1>1, <1>3, <1>5 DEF EnterNavigate, States, Ops
  <1>6. CASE EnterAct(t, o)
    BY <1>1, <1>3, <1>6 DEF EnterAct, States, Ops, TabOps
  <1>7. CASE EnterTabNew(t, o)
    BY <1>1, <1>3, <1>7 DEF EnterTabNew, States, Ops, TabOps
  <1>8. CASE EnterTabSelect(t, o)
    BY <1>1, <1>3, <1>8 DEF EnterTabSelect, States, Ops, TabOps
  <1>9. CASE EnterTabClose(t, o)
    BY <1>1, <1>3, <1>9 DEF EnterTabClose, States, Ops, TabOps
  <1>10. CASE EnterClose(t, o)
    BY <1>1, <1>2, <1>3, <1>10 DEF EnterClose, Panic, States, Ops
  <1>11. QED
    BY <1>4, <1>5, <1>6, <1>7, <1>8, <1>9, <1>10 DEF Enter

----------------------------------------------------------------------------
(* The steps.                                                              *)

LEMMA InitSlots == Init => SlotInv
  <1> SUFFICES ASSUME Init PROVE SlotInv
    OBVIOUS
  <1>1. SlotTypes
    BY SessionsConstants DEF Init, SlotTypes, States
  <1>2. NewIsOpening
    BY DEF Init, NewIsOpening
  <1>3. Opening = {}
    BY DEF Init, Opening
  <1>4. Cardinality(Opening) = 0 /\ Cardinality(registry) = 0
    BY <1>3, FS_EmptySet DEF Init
  <1>5. BusyOnlyWhileCalled
    BY <1>4 DEF Init, BusyOnlyWhileCalled, Opening
  <1>6. QED
    BY <1>1, <1>2, <1>4, <1>5, SessionsConstants DEF SlotInv, TasksInv, Reserved

(* A lane that is free has no call, so its tasks hold no slot and no lock. *)
LEMMA FreeLane ==
    ASSUME TasksInv, NEW l \in Lanes, NEW s \in Ids, LaneFree(l)
    PROVE  /\ <<l, s>> \in Tasks /\ Session(<<l, s>>) = s
           /\ pc[<<l, s>>] = "idle" /\ op[<<l, s>>] # "new"
  <1>1. <<l, s>> \in Tasks /\ <<l, s>>[1] = l /\ Session(<<l, s>>) = s
    BY DEF Tasks, Session
  <1>2. pc[<<l, s>>] = "idle"
    BY <1>1 DEF LaneFree, TasksOf
  <1>3. QED
    BY <1>1, <1>2 DEF TasksInv, NewIsOpening

LEMMA NavigateNewStep ==
    ASSUME SlotInv, NEW l \in Lanes, NavigateNew(l)
    PROVE  SlotInv'
  <1> DEFINE t == <<l, nextId>>
  <1> USE DEF SlotInv, TasksInv
  <1>1. t \in Tasks /\ pc[t] = "idle" /\ op[t] # "new"
    BY FreeLane DEF NavigateNew
  <1>2. /\ pc' = [pc EXCEPT ![t] = "opening"] /\ op' = [op EXCEPT ![t] = "new"]
        /\ registry' = registry /\ lock' = lock /\ pending' = pending + 1
        /\ nextId' = nextId + 1 /\ nextId \in Ids
        /\ Cardinality(registry) + pending < MaxSessions
    BY DEF NavigateNew, sessionVars
  <1> HIDE DEF t
  <1>3. SlotTypes'
    BY <1>1, <1>2, SessionsConstants DEF SlotTypes, States, Ids
  <1>4. NewIsOpening'
    BY <1>1, <1>2 DEF NewIsOpening, SlotTypes
  <1>5. Opening' = Opening \cup {t} /\ t \notin Opening
    BY <1>1, <1>2 DEF Opening, SlotTypes
  <1>6. Cardinality(Opening') = Cardinality(Opening) + 1
    BY <1>5, FiniteOpening, FS_AddElement
  <1>7. pending = Cardinality(Opening)
    BY DEF BusyOnlyWhileCalled, Opening
  <1>8. \A s \in Ids : lock'[s] # NoTask => pc'[lock'[s]] # "idle"
    BY <1>1, <1>2 DEF SlotTypes, BusyOnlyWhileCalled
  <1>9. BusyOnlyWhileCalled'
    BY <1>2, <1>6, <1>7, <1>8 DEF BusyOnlyWhileCalled, Opening
  <1>10. Cardinality(registry) \in Nat
    BY FiniteTasks, FS_Subset, FS_CardinalityType DEF SlotTypes
  <1>11. Reserved'
    BY <1>2, <1>6, <1>7, <1>10, FiniteOpening, SessionsConstants DEF Reserved
  <1>12. QED
    BY <1>3, <1>4, <1>9, <1>11

(* Inserting the session uses up the slot that was reserved for it.        *)
LEMMA LoadedStep ==
    ASSUME SlotInv, NEW t \in Tasks, Loaded(t)
    PROVE  SlotInv'
  <1> USE DEF SlotInv
  <1>1. t \in Opening /\ Session(t) \in Ids
    BY DEF Loaded, TasksInv, NewIsOpening, Opening, Tasks, Session
  <1>2. registry' = registry \cup {Session(t)} /\ registry' \subseteq Ids
    BY <1>1 DEF Loaded, TasksInv, SlotTypes
  <1>3. TasksInv' /\ Opening' = Opening \ {t}
    BY <1>2, Leaves DEF Loaded
  <1>4. Cardinality(Opening') = Cardinality(Opening) - 1
    BY <1>1, <1>3, FiniteOpening, FS_RemoveElement
  <1>5. IsFiniteSet(registry) /\ Cardinality(registry) \in Nat
    BY FiniteTasks, FS_Subset, FS_CardinalityType DEF TasksInv, SlotTypes
  <1>6. /\ Cardinality(registry') \in Nat
        /\ Cardinality(registry') <= Cardinality(registry) + 1
    <2>1. /\ IsFiniteSet(registry \cup {Session(t)})
          /\ Cardinality(registry \cup {Session(t)})
               = IF Session(t) \in registry THEN Cardinality(registry)
                 ELSE Cardinality(registry) + 1
      BY <1>5, FS_AddElement
    <2>2. QED
      BY <1>2, <1>5, <2>1
  <1>7. Reserved'
    BY <1>4, <1>5, <1>6, FiniteOpening, SessionsConstants DEF Reserved
  <1>8. QED
    BY <1>3, <1>7

(* The other steps of opening a page.                                      *)
LEMMA OpeningSteps ==
    ASSUME SlotInv, NEW t \in Tasks,
           PageOpens(t) \/ OpenFails(t) \/ ListenFails(t) \/ LoadFails(t)
    PROVE  SlotInv'
  <1> USE DEF SlotInv
  <1>1. registry' = registry /\ nextId' = nextId
    BY DEF PageOpens, OpenFails, ListenFails, LoadFails, sessionVars
  <1>2. CASE PageOpens(t)
    <2>1. TasksInv' /\ Opening' = Opening
      BY <1>1, <1>2 DEF PageOpens, TasksInv, SlotTypes, States, NewIsOpening,
         BusyOnlyWhileCalled, Opening
    <2>2. QED
      BY <1>1, <2>1, CapKept
  <1>3. CASE OpenFails(t) \/ ListenFails(t) \/ LoadFails(t)
    <2>1. TasksInv' /\ Opening' = Opening \ {t}
      BY <1>1, <1>3, Leaves DEF OpenFails, ListenFails, LoadFails, TasksInv, SlotTypes
    <2>2. QED
      BY <1>1, <2>1, CapKept
  <1>4. QED
    BY <1>2, <1>3

LEMMA BeginStep ==
    ASSUME SlotInv, NEW l \in Lanes, NEW s \in Ids, NEW o \in Ops, Begin(l, s, o)
    PROVE  SlotInv'
  <1> USE DEF SlotInv
  <1>1. /\ <<l, s>> \in Tasks /\ pc[<<l, s>>] = "idle" /\ op[<<l, s>>] # "new"
        /\ nextId' = nextId
    BY FreeLane DEF Begin
  <1>2. CASE Enter(<<l, s>>, o)
    BY <1>1, <1>2, Enters, CapKept
  <1>3. CASE ~Enter(<<l, s>>, o)
    <2>1. /\ pc' = [pc EXCEPT ![<<l, s>>] = "waiting"]
          /\ op' = [op EXCEPT ![<<l, s>>] = o]
          /\ registry' = registry /\ lock' = lock /\ pending' = pending
      BY <1>3 DEF Begin
    <2>2. TasksInv' /\ Opening' = Opening
      BY <1>1, <2>1, Moves DEF States, TasksInv, SlotTypes
    <2>3. QED
      BY <2>1, <2>2, CapKept
  <1>4. QED
    BY <1>2, <1>3

LEMMA ResumeStep ==
    ASSUME SlotInv, NEW t \in Tasks, Resume(t)
    PROVE  SlotInv'
  <1>1. op[t] # "new" /\ Enter(t, op[t]) /\ nextId' = nextId
    BY DEF Resume, Granted, SlotInv, TasksInv, NewIsOpening
  <1>2. QED
    BY <1>1, Enters, CapKept DEF SlotInv

LEMMA CloseAllStep ==
    ASSUME SlotInv, NEW l \in Lanes, CloseAll(l)
    PROVE  SlotInv'
  <1> DEFINE free == {s \in registry : ~crashed[s] /\ lock[s] = NoTask}
             busy == {s \in registry : ~crashed[s] /\ lock[s] # NoTask}
             called(t) == t[1] = l /\ Session(t) \in free \cup busy
  <1> USE DEF SlotInv, TasksInv
  <1>1. free \subseteq Ids /\ busy \subseteq registry /\ registry' = busy
    BY DEF CloseAll, SlotTypes
  <1>2. \A t \in Tasks : t[1] = l => pc[t] = "idle" /\ op[t] # "new"
    BY DEF CloseAll, LaneFree, TasksOf, NewIsOpening
  <1>3. /\ lock' = [s \in Ids |-> IF s \in free THEN <<l, s>> ELSE lock[s]]
        /\ pc' = [t \in Tasks |->
                    IF t[1] = l /\ Session(t) \in free THEN "closing"
                    ELSE IF t[1] = l /\ Session(t) \in busy THEN "waiting"
                    ELSE pc[t]]
        /\ op' = [t \in Tasks |-> IF called(t) THEN "close" ELSE op[t]]
        /\ pending' = pending /\ nextId' = nextId
    BY DEF CloseAll
  <1>4. \A s \in Ids : <<l, s>> \in Tasks /\ <<l, s>>[1] = l /\ Session(<<l, s>>) = s
    BY DEF Tasks, Session
  <1> HIDE DEF free, busy
  <1>5. SlotTypes'
    BY <1>1, <1>3, <1>4 DEF SlotTypes, States, Ops
  <1>6. NewIsOpening'
    BY <1>2, <1>3 DEF NewIsOpening
  <1>7. Opening' = Opening
    BY <1>2, <1>3 DEF Opening
  <1>8. ASSUME NEW s \in Ids, lock'[s] # NoTask
        PROVE  pc'[lock'[s]] # "idle"
    <2>1. CASE s \in free
      BY <1>3, <1>4, <2>1
    <2>2. CASE s \notin free
      <3>1. lock'[s] = lock[s]
        BY <1>3, <2>2
      <3>2. lock[s] \in Tasks /\ pc[lock[s]] # "idle"
        BY <1>8, <3>1 DEF SlotTypes, BusyOnlyWhileCalled
      <3>3. QED
        BY <1>3, <3>1, <3>2
    <2>3. QED
      BY <2>1, <2>2
  <1>9. BusyOnlyWhileCalled'
    BY <1>3, <1>7, <1>8 DEF BusyOnlyWhileCalled, Opening
  <1>10. Reserved'
    BY <1>1, <1>7, CapKept
  <1>11. QED
    BY <1>5, <1>6, <1>9, <1>10

(* The work under the lock.                                                *)
LEMMA WorkSteps ==
    ASSUME SlotInv, NEW t \in Tasks,
           TabChecked(t) \/ TabFails(t) \/ TabLoaded(t) \/ WorkFails(t)
             \/ WorkDone(t) \/ ClosePage(t)
    PROVE  SlotInv'
  <1> USE DEF SlotInv
  <1>1. registry' = registry /\ nextId' = nextId /\ registry' \subseteq Ids
    BY DEF TabChecked, TabFails, TabLoaded, WorkFails, WorkDone, ClosePage,
           sessionVars, TasksInv, SlotTypes
  <1>2. CASE Leave({t}) \/ Leave(TasksOf(t[1]))
    <2>1. TasksInv' /\ Opening' \subseteq Opening
      BY <1>1, <1>2, Leaves DEF TasksOf
    <2>2. QED
      BY <1>1, <2>1, CapKept
  <1>3. CASE /\ lock' = lock /\ pending' = pending /\ op' = op
             /\ \/ pc' = pc
                \/ /\ pc[t] \notin {"opening", "loading"}
                   /\ \E state \in {"tabGoing", "working"} :
                         pc' = [pc EXCEPT ![t] = state]
    <2>1. TasksInv' /\ Opening' = Opening
      BY <1>1, <1>3 DEF TasksInv, SlotTypes, States, NewIsOpening,
         BusyOnlyWhileCalled, Opening
    <2>2. QED
      BY <1>1, <2>1, CapKept
  <1>4. CASE TabChecked(t)
    BY <1>3, <1>4 DEF TabChecked
  <1>5. CASE TabFails(t) \/ WorkFails(t) \/ WorkDone(t)
    BY <1>2, <1>5 DEF TabFails, WorkFails, WorkDone, Panic, Return
  <1>6. CASE TabLoaded(t)
    BY <1>2, <1>3, <1>6 DEF TabLoaded, Panic
  <1>7. CASE ClosePage(t)
    BY <1>2, <1>3, <1>7 DEF ClosePage
  <1>8. QED
    BY <1>4, <1>5, <1>6, <1>7

LEMMA TimeoutStep ==
    ASSUME SlotInv, NEW l \in Lanes, Timeout(l)
    PROVE  SlotInv'
  <1>1. registry' = registry /\ nextId' = nextId /\ registry' \subseteq Ids
    BY DEF Timeout, sessionVars, SlotInv, TasksInv, SlotTypes
  <1>2. TasksInv' /\ Opening' \subseteq Opening
    BY <1>1, Leaves DEF Timeout, TasksOf, SlotInv
  <1>3. QED
    BY <1>1, <1>2, CapKept DEF SlotInv

(* Steps that start and end no call: Chrome's, the clock's, the reaper's,  *)
(* a stutter, and touch_or_evict on a crashed session.                     *)
LEMMA OtherSteps ==
    ASSUME SlotInv, taskVars' = taskVars, nextId' = nextId,
           registry' \subseteq registry
    PROVE  SlotInv'
  <1>1. TasksInv' /\ Opening' = Opening
    BY DEF SlotInv, TasksInv, taskVars, SlotTypes, NewIsOpening,
           BusyOnlyWhileCalled, Opening
  <1>2. QED
    BY <1>1, CapKept DEF SlotInv

LEMMA NextSlots == SlotInv /\ [Next]_vars => SlotInv'
  <1> SUFFICES ASSUME SlotInv, [Next]_vars PROVE SlotInv'
    OBVIOUS
  <1>1. ASSUME NEW t \in Tasks, TaskStep(t) PROVE SlotInv'
    BY <1>1, LoadedStep, OpeningSteps, ResumeStep, WorkSteps DEF TaskStep
  <1>2. ASSUME NEW l \in Lanes, LaneStep(l) PROVE SlotInv'
    <2>1. ASSUME NEW s \in Ids, TouchCrashed(l, s) PROVE SlotInv'
      BY <2>1, OtherSteps DEF TouchCrashed, Removed
    <2>2. QED
      BY <1>2, <2>1, NavigateNewStep, CloseAllStep, TimeoutStep, BeginStep
         DEF LaneStep
  <1>3. CASE \/ \E p \in Pages : TargetCrash(p)
             \/ \E s \in Ids : Redirect(s) \/ IdlePasses(s)
             \/ Reap \/ ReapClose
    BY <1>3, OtherSteps
       DEF TargetCrash, Redirect, IdlePasses, Reap, ReapClose, Evict, sessionVars
  <1>4. CASE UNCHANGED vars
    BY <1>4, OtherSteps DEF vars, sessionVars
  <1>5. QED
    BY <1>1, <1>2, <1>3, <1>4 DEF Next

LEMMA SlotsAlways == Spec => []SlotInv
  BY InitSlots, NextSlots, PTL DEF Spec

(* However the navigations of both lanes interleave between the check of   *)
(* MAX_OPEN_SESSIONS and the insert, there are never more sessions.        *)
THEOREM CapIsKept == Spec => []CapHolds
  <1>1. SlotInv => CapHolds
    <2> SUFFICES ASSUME SlotInv PROVE CapHolds
      OBVIOUS
    <2>1. Cardinality(registry) \in Nat
      BY FiniteTasks, FS_Subset, FS_CardinalityType DEF SlotInv, TasksInv, SlotTypes
    <2>2. QED
      BY <2>1, FiniteOpening, SessionsConstants DEF SlotInv, Reserved, CapHolds
  <1>2. QED
    BY <1>1, SlotsAlways, PTL

(* A lock is held only by a call that is still running, and `pending` is   *)
(* the number of calls opening a session, after any timeout, failure or    *)
(* panic (SessionGuard and the pending-slot guard release on drop).        *)
THEOREM NothingLeftBehind == Spec => []BusyOnlyWhileCalled
  <1>1. SlotInv => BusyOnlyWhileCalled
    BY DEF SlotInv, TasksInv
  <1>2. QED
    BY <1>1, SlotsAlways, PTL

----------------------------------------------------------------------------
(* Sessions and their tabs.                                                *)

DataTypes ==
    /\ tabs \in [Ids -> Seq(Pages)]
    /\ active \in [Ids -> Nat]
    /\ idle \in [Ids -> BOOLEAN]
    /\ crashed \in [Ids -> BOOLEAN]
    /\ blocked \in [Ids -> BOOLEAN]
    /\ open \subseteq Pages
    /\ nextPage \in 1 .. MaxPages + 1
    /\ held \in [Tasks -> Seq(Pages)]
    /\ reaping \subseteq Pages
    /\ calls \in 0 .. MaxCalls
    /\ panics \subseteq Ops \X Ids
    /\ dead \in BOOLEAN

(* An id is used once: until its session is inserted nothing refers to it  *)
(* but the call that opens it, which is alone on its lane.                 *)
Unopened(s) == s >= nextId \/ \E t \in Opening : Session(t) = s

IdsInv ==
    /\ \A s \in Ids : Unopened(s) => s \notin registry /\ active[s] = 1
    /\ \A t \in Tasks : pc[t] # "idle" => Session(t) < nextId
    /\ \A t \in Opening, u \in Tasks :
          pc[u] # "idle" /\ (u[1] = t[1] \/ Session(u) = Session(t)) => u = t

TabsInv ==
    \A s \in Ids : IF s \in registry THEN active[s] \in 1 .. Len(tabs[s])
                   ELSE tabs[s] = <<>>

CallsInv ==
    \A t \in Tasks :
        /\ op[t] = "none" <=> pc[t] = "idle"
        /\ pc[t] \in {"loading", "tabLoading", "tabGoing", "closing",
                      "tabClosing"} => held[t] # <<>>

(* The page a call has opened and not yet made a tab.                      *)
Fresh(t) == IF pc[t] \in {"loading", "tabLoading", "tabGoing"}
            THEN ToSet(held[t]) ELSE {}

PagesInv ==
    /\ \A s \in Ids : \A p \in ToSet(tabs[s]) :
          /\ p < nextPage
          /\ \A r \in Ids : p \in ToSet(tabs[r]) => r = s
          /\ \A t \in Tasks : p \notin Fresh(t)
    /\ \A t \in Tasks : \A p \in Fresh(t) :
          p < nextPage /\ \A u \in Tasks : p \in Fresh(u) => u = t

DataInv == DataTypes /\ IdsInv /\ TabsInv /\ CallsInv /\ PagesInv

BrowserInv == SlotInv /\ DataInv

----------------------------------------------------------------------------
(* Lemmas about sequences of pages.                                        *)

LEMMA PageSeqs ==
    /\ <<>> \in Seq(Pages) /\ Len(<<>>) = 0 /\ ToSet(<<>>) = {}
    /\ \A p \in Pages : /\ <<p>> \in Seq(Pages) /\ <<p>> # <<>>
                        /\ Len(<<p>>) = 1 /\ ToSet(<<p>>) = {p}
    /\ \A q \in Seq(Pages) : /\ Len(q) \in Nat /\ DOMAIN q = 1 .. Len(q)
                             /\ ToSet(q) \subseteq Pages
                             /\ q # <<>> => Len(q) >= 1
                             /\ \A i \in 1 .. Len(q) : q[i] \in Pages
  <1>1. \A q \in Seq(Pages) : /\ Len(q) \in Nat /\ DOMAIN q = 1 .. Len(q)
                              /\ q # <<>> => Len(q) >= 1
                              /\ \A i \in 1 .. Len(q) : q[i] \in Pages
    BY EmptySeq, LenProperties, ElementOfSeq
  <1>2. \A q \in Seq(Pages) : ToSet(q) \subseteq Pages
    BY <1>1 DEF ToSet
  <1>3. <<>> \in Seq(Pages) /\ Len(<<>>) = 0 /\ ToSet(<<>>) = {}
    BY EmptySeq DEF ToSet
  <1>4. ASSUME NEW p \in Pages
        PROVE  <<p>> \in Seq(Pages) /\ <<p>> # <<>> /\ Len(<<p>>) = 1
               /\ ToSet(<<p>>) = {p}
    BY DEF ToSet
  <1>5. QED
    BY <1>1, <1>2, <1>3, <1>4

LEMMA JoinTabs ==
    ASSUME NEW q \in Seq(Pages), NEW r \in Seq(Pages)
    PROVE  /\ q \o r \in Seq(Pages) /\ Len(q \o r) = Len(q) + Len(r)
           /\ ToSet(q \o r) \subseteq ToSet(q) \cup ToSet(r)
  <1>1. /\ q \o r \in Seq(Pages) /\ Len(q \o r) = Len(q) + Len(r)
        /\ \A i \in 1 .. Len(q) + Len(r) :
              (q \o r)[i] = IF i <= Len(q) THEN q[i] ELSE r[i - Len(q)]
    BY ConcatProperties
  <1>2. ASSUME NEW i \in 1 .. Len(q \o r)
        PROVE  (q \o r)[i] \in ToSet(q) \cup ToSet(r)
    <2>1. CASE i <= Len(q)
      BY <1>1, <2>1, PageSeqs DEF ToSet
    <2>2. CASE ~(i <= Len(q))
      <3>1. i - Len(q) \in 1 .. Len(r)
        BY <1>1, <2>2, PageSeqs
      <3>2. QED
        BY <1>1, <2>2, <3>1, PageSeqs DEF ToSet
    <2>3. QED
      BY <2>1, <2>2
  <1>3. QED
    BY <1>1, <1>2, PageSeqs DEF ToSet

(* Closing tab i.                                                          *)
LEMMA RemoveTab ==
    ASSUME NEW q \in Seq(Pages), NEW i \in 1 .. Len(q)
    PROVE  /\ RemoveAt(q, i) \in Seq(Pages)
           /\ Len(RemoveAt(q, i)) = Len(q) - 1
           /\ ToSet(RemoveAt(q, i)) \subseteq ToSet(q)
  <1> DEFINE front == SubSeq(q, 1, i - 1)
             back  == SubSeq(q, i + 1, Len(q))
  <1>1. Len(q) \in Nat /\ i \in Int /\ \A j \in 1 .. Len(q) : q[j] \in Pages
    BY PageSeqs
  <1>2. /\ front \in Seq(Pages) /\ Len(front) = i - 1
        /\ \A j \in 1 .. i - 1 : front[j] = q[j]
    <2>1. /\ front \in Seq(Pages)
          /\ Len(front) = IF 1 <= i - 1 THEN (i - 1) - 1 + 1 ELSE 0
          /\ \A j \in 1 .. (i - 1) - 1 + 1 : front[j] = q[1 + j - 1]
      BY <1>1, SubSeqProperties
    <2>2. QED
      BY <1>1, <2>1
  <1>3. /\ back \in Seq(Pages) /\ Len(back) = Len(q) - i
        /\ \A j \in 1 .. Len(q) - i : back[j] = q[i + j]
    <2>1. /\ back \in Seq(Pages)
          /\ Len(back) = IF i + 1 <= Len(q) THEN Len(q) - (i + 1) + 1 ELSE 0
          /\ \A j \in 1 .. Len(q) - (i + 1) + 1 : back[j] = q[(i + 1) + j - 1]
      BY <1>1, SubSeqProperties
    <2>2. QED
      BY <1>1, <2>1
  <1>4. ToSet(front) \subseteq ToSet(q) /\ ToSet(back) \subseteq ToSet(q)
    <2>1. /\ DOMAIN q = 1 .. Len(q) /\ DOMAIN front = 1 .. i - 1
          /\ DOMAIN back = 1 .. Len(q) - i
      BY <1>2, <1>3, PageSeqs
    <2>2. \A j \in 1 .. i - 1 : j \in 1 .. Len(q)
      BY <1>1
    <2>3. \A j \in 1 .. Len(q) - i : i + j \in 1 .. Len(q)
      BY <1>1
    <2>4. ToSet(front) \subseteq ToSet(q)
      BY <1>2, <2>1, <2>2 DEF ToSet
    <2>5. ToSet(back) \subseteq ToSet(q)
      BY <1>3, <2>1, <2>3 DEF ToSet
    <2>6. QED
      BY <2>4, <2>5
  <1>5. RemoveAt(q, i) = front \o back
    BY DEF RemoveAt
  <1> HIDE DEF front, back
  <1>6. /\ front \o back \in Seq(Pages)
        /\ Len(front \o back) = Len(front) + Len(back)
        /\ ToSet(front \o back) \subseteq ToSet(front) \cup ToSet(back)
    BY <1>2, <1>3, JoinTabs
  <1>7. Len(front) + Len(back) = Len(q) - 1
    BY <1>1, <1>2, <1>3
  <1>8. QED
    BY <1>4, <1>5, <1>6, <1>7

(* The active index after tab i of n was closed.                           *)
LEMMA StaysActive ==
    ASSUME NEW n \in Nat, n # 1, NEW i \in 1 .. n, NEW was \in 1 .. n
    PROVE  NewActive(i, was, n - 1) \in 1 .. n - 1
  BY DEF NewActive

LEMMA RestOfClosing ==
    ASSUME NEW q \in Seq(Pages), q # <<>>, Len(q) # 1
    PROVE  Tail(q) \in Seq(Pages) /\ Tail(q) # <<>>
  <1>1. Tail(q) \in Seq(Pages) /\ Len(Tail(q)) = Len(q) - 1
    BY HeadTailProperties
  <1>2. Len(q) \in Nat /\ Len(q) >= 1
    BY PageSeqs
  <1>3. QED
    BY <1>1, <1>2, PageSeqs

----------------------------------------------------------------------------
(* The steps again, for the tabs.                                          *)

LEMMA InitData == Init => DataInv
  <1> SUFFICES ASSUME Init PROVE DataInv
    OBVIOUS
  <1>1. DataTypes
    <2>1. tabs \in [Ids -> Seq(Pages)] /\ held \in [Tasks -> Seq(Pages)]
      BY PageSeqs DEF Init
    <2>2. calls \in 0 .. MaxCalls /\ nextPage \in 1 .. MaxPages + 1
      BY SessionsConstants DEF Init
    <2>3. QED
      BY <2>1, <2>2 DEF Init, DataTypes
  <1>2. IdsInv /\ TabsInv /\ CallsInv
    BY DEF Init, IdsInv, TabsInv, CallsInv, Opening, Unopened
  <1>3. PagesInv
    BY PageSeqs DEF Init, PagesInv, Fresh
  <1>4. QED
    BY <1>1, <1>2, <1>3 DEF DataInv

(* A call runs on, ends, or begins on a registered session of a free lane. *)
CallsRunOn ==
    \A u \in Tasks : pc'[u] # "idle" =>
        pc[u] # "idle" \/ (LaneFree(u[1]) /\ Session(u) \in registry)

(* A step that opens no session.                                           *)
LEMMA IdsKept ==
    ASSUME BrowserInv, nextId' = nextId, Opening' \subseteq Opening,
           registry' \subseteq registry, CallsRunOn,
           \A s \in Ids : active'[s] = active[s] \/ s \in registry
    PROVE  IdsInv'
  <1> USE DEF BrowserInv, SlotInv, TasksInv, DataInv
  <1>1. \A s \in Ids : Unopened(s)' => Unopened(s)
    BY DEF Unopened
  <1>2. \A t \in Opening : t \in Tasks /\ pc[t] # "idle" /\ Session(t) \in Ids
    BY DEF Opening, NewIsOpening, Tasks, Session
  <1>3. \A s \in Ids : Unopened(s)' => s \notin registry' /\ active'[s] = 1
    BY <1>1 DEF IdsInv
  <1>4. \A u \in Tasks : pc'[u] # "idle" => Session(u) < nextId
    BY SessionsConstants
       DEF CallsRunOn, IdsInv, Unopened, SlotTypes, Ids, Tasks, Session
  <1>5. ASSUME NEW t \in Opening', NEW u \in Tasks, pc'[u] # "idle",
               u[1] = t[1] \/ Session(u) = Session(t)
        PROVE  u = t
    <2>1. t \in Opening /\ ~LaneFree(t[1]) /\ Session(t) \notin registry
      BY <1>2, <1>5 DEF LaneFree, TasksOf, IdsInv, Unopened
    <2>2. pc[u] # "idle"
      BY <1>5, <2>1 DEF CallsRunOn
    <2>3. QED
      BY <1>5, <2>1, <2>2 DEF IdsInv
  <1>6. QED
    BY <1>3, <1>4, <1>5 DEF IdsInv

(* A step that opens no session and no page, and makes no page a tab.      *)
LEMMA Quiet ==
    ASSUME BrowserInv, DataTypes', CallsInv', TabsInv',
           nextId' = nextId, nextPage' = nextPage,
           Opening' \subseteq Opening, registry' \subseteq registry, CallsRunOn,
           \A s \in Ids : active'[s] = active[s] \/ s \in registry,
           \A s \in Ids : ToSet(tabs'[s]) \subseteq ToSet(tabs[s]),
           \A t \in Tasks : Fresh(t)' \subseteq Fresh(t)
    PROVE  DataInv'
  <1>1. IdsInv'
    BY IdsKept
  <1>2. PagesInv'
    BY DEF PagesInv, BrowserInv, DataInv
  <1>3. QED
    BY <1>1, <1>2 DEF DataInv

(* The page a call has opened becomes a tab of session s.                  *)
LEMMA Adopts ==
    ASSUME PagesInv, NEW t \in Tasks, NEW s \in Ids, nextPage' = nextPage,
           ToSet(tabs'[s]) \subseteq ToSet(tabs[s]) \cup Fresh(t),
           \A r \in Ids : r # s => tabs'[r] = tabs[r],
           Fresh(t)' = {}, \A u \in Tasks : Fresh(u)' \subseteq Fresh(u)
    PROVE  PagesInv'
  <1>1. ASSUME NEW p \in ToSet(tabs'[s])
        PROVE  /\ p < nextPage
               /\ \A q \in Ids : p \in ToSet(tabs'[q]) => q = s
               /\ \A u \in Tasks : p \notin Fresh(u)'
    <2>1. CASE p \in ToSet(tabs[s])
      BY <2>1 DEF PagesInv
    <2>2. CASE p \in Fresh(t)
      BY <2>2 DEF PagesInv
    <2>3. QED
      BY <1>1, <2>1, <2>2
  <1>2. ASSUME NEW r \in Ids, r # s, NEW p \in ToSet(tabs[r])
        PROVE  /\ p < nextPage
               /\ \A q \in Ids : p \in ToSet(tabs'[q]) => q = r
               /\ \A u \in Tasks : p \notin Fresh(u)'
    <2>1. p < nextPage /\ \A u \in Tasks : p \notin Fresh(u)
      BY DEF PagesInv
    <2>2. p \notin ToSet(tabs'[s])
      BY <1>2, <2>1 DEF PagesInv
    <2>3. ASSUME NEW q \in Ids, p \in ToSet(tabs'[q]) PROVE q = r
      BY <2>2, <2>3 DEF PagesInv
    <2>4. QED
      BY <2>1, <2>3
  <1>3. \A r \in Ids : \A p \in ToSet(tabs'[r]) :
           /\ p < nextPage
           /\ \A q \in Ids : p \in ToSet(tabs'[q]) => q = r
           /\ \A u \in Tasks : p \notin Fresh(u)'
    BY <1>1, <1>2
  <1>4. QED
    BY <1>3 DEF PagesInv

LEMMA LeavesData ==
    ASSUME BrowserInv, NEW T \in SUBSET Tasks, Leave(T)
    PROVE  /\ held' \in [Tasks -> Seq(Pages)] /\ CallsInv' /\ CallsRunOn
           /\ \A t \in Tasks : Fresh(t)' \subseteq Fresh(t)
           /\ Opening' \subseteq Opening
  <1> USE DEF BrowserInv, DataInv
  <1>1. held' \in [Tasks -> Seq(Pages)]
    BY PageSeqs DEF Leave, DataTypes
  <1>2. CallsInv' /\ CallsRunOn
    BY DEF Leave, CallsInv, CallsRunOn
  <1>3. \A t \in Tasks : Fresh(t)' \subseteq Fresh(t)
    BY DEF Leave, Fresh
  <1>4. Opening' \subseteq Opening
    BY DEF Leave, Opening
  <1>5. QED
    BY <1>1, <1>2, <1>3, <1>4

LEMMA ProceedsData ==
    ASSUME BrowserInv, NEW t \in Tasks, NEW o \in Ops, op[t] # "new",
           pc[t] # "idle" \/ (LaneFree(t[1]) /\ Session(t) \in registry),
           NEW state \in {"working", "tabOpening", "tabClosing", "closing"},
           NEW pages \in Seq(Pages),
           state \in {"tabClosing", "closing"} => pages # <<>>,
           Proceed(t, o, state, pages)
    PROVE  /\ held' \in [Tasks -> Seq(Pages)] /\ CallsInv' /\ CallsRunOn
           /\ \A u \in Tasks : Fresh(u)' \subseteq Fresh(u)
           /\ Opening' \subseteq Opening
           /\ panics' = panics /\ dead' = dead
  <1> USE DEF BrowserInv, DataInv, SlotInv, TasksInv
  <1>1. o # "new" /\ o # "none"
    BY DEF Ops, TabOps
  <1>2. /\ pc' = [pc EXCEPT ![t] = state] /\ op' = [op EXCEPT ![t] = o]
        /\ held' = [held EXCEPT ![t] = pages]
        /\ panics' = panics /\ dead' = dead
    BY DEF Proceed
  <1>3. held' \in [Tasks -> Seq(Pages)]
    BY <1>2 DEF DataTypes
  <1>4. CallsInv'
    BY <1>1, <1>2 DEF CallsInv, SlotTypes, DataTypes
  <1>5. CallsRunOn
    BY <1>2 DEF CallsRunOn, SlotTypes
  <1>6. \A u \in Tasks : Fresh(u)' \subseteq Fresh(u)
    BY <1>2 DEF Fresh, SlotTypes, DataTypes
  <1>7. Opening' \subseteq Opening
    BY <1>1, <1>2 DEF Opening, SlotTypes
  <1>8. QED
    BY <1>2, <1>3, <1>4, <1>5, <1>6, <1>7

(* What a call with the lock does not touch before its next await.         *)
EnterLeaves ==
    /\ idle' \in [Ids -> BOOLEAN] /\ crashed' = crashed
    /\ open' = open /\ nextPage' = nextPage /\ nextId' = nextId
    /\ reaping' = reaping /\ calls' \in 0 .. MaxCalls

LEMMA EntersData ==
    ASSUME BrowserInv, NEW t \in Tasks, NEW o \in Ops, op[t] # "new",
           pc[t] # "idle" \/ (LaneFree(t[1]) /\ Session(t) \in registry),
           Enter(t, o), EnterLeaves
    PROVE  DataInv'
  <1> DEFINE s == Session(t)
  <1> USE DEF EnterLeaves
  <1>1. /\ s \in Ids /\ TasksOf(t[1]) \in SUBSET Tasks /\ {t} \in SUBSET Tasks
        /\ tabs[s] \in Seq(Pages)
    BY DEF Tasks, Session, TasksOf, BrowserInv, DataInv, DataTypes
  <1>2. registry' \subseteq registry
    BY Enters DEF BrowserInv, SlotInv
  <1>3. DataTypes /\ TabsInv
    BY DEF BrowserInv, DataInv
  <1>4. CASE EnterRefused(t, o)
    <2>1. Leave({t}) /\ panics' = panics /\ dead' = dead
      BY <1>4 DEF EnterRefused, Return
    <2>2. registry' = registry /\ tabs' = tabs /\ active' = active /\ blocked' = blocked
      BY <1>4 DEF EnterRefused
    <2>3. /\ held' \in [Tasks -> Seq(Pages)] /\ CallsInv' /\ CallsRunOn
          /\ \A u \in Tasks : Fresh(u)' \subseteq Fresh(u)
          /\ Opening' \subseteq Opening
      BY <1>1, <2>1, LeavesData
    <2>4. DataTypes' /\ TabsInv'
      BY <1>3, <2>1, <2>2, <2>3 DEF DataTypes, TabsInv
    <2>5. QED
      BY <2>2, <2>3, <2>4, Quiet
  <1>5. CASE EnterClose(t, o) /\ s \notin registry
    <2>1. Leave(TasksOf(t[1])) /\ panics' = panics \cup {<<o, s>>}
          /\ dead' = (t[1] = "socket")
      BY <1>5 DEF EnterClose, Panic
    <2>2. registry' = registry /\ tabs' = tabs /\ active' = active /\ blocked' = blocked
      BY <1>5 DEF EnterClose
    <2>3. /\ held' \in [Tasks -> Seq(Pages)] /\ CallsInv' /\ CallsRunOn
          /\ \A u \in Tasks : Fresh(u)' \subseteq Fresh(u)
          /\ Opening' \subseteq Opening
      BY <1>1, <2>1, LeavesData
    <2>4. dead' \in BOOLEAN /\ panics' \subseteq Ops \X Ids
      BY <1>1, <1>3, <2>1 DEF DataTypes
    <2>5. DataTypes' /\ TabsInv'
      BY <1>3, <2>2, <2>3, <2>4 DEF DataTypes, TabsInv
    <2>6. QED
      BY <2>2, <2>3, <2>5, Quiet
  <1>6. ASSUME NEW state \in {"working", "tabOpening", "tabClosing", "closing"},
               NEW pages \in Seq(Pages),
               state \in {"tabClosing", "closing"} => pages # <<>>,
               Proceed(t, o, state, pages),
               tabs' \in [Ids -> Seq(Pages)], active' \in [Ids -> Nat],
               blocked' \in [Ids -> BOOLEAN], TabsInv',
               \A r \in Ids : active'[r] = active[r] \/ r \in registry,
               \A r \in Ids : ToSet(tabs'[r]) \subseteq ToSet(tabs[r])
        PROVE  DataInv'
    <2>1. /\ held' \in [Tasks -> Seq(Pages)] /\ CallsInv' /\ CallsRunOn
          /\ \A u \in Tasks : Fresh(u)' \subseteq Fresh(u)
          /\ Opening' \subseteq Opening /\ panics' = panics /\ dead' = dead
      BY <1>6, ProceedsData
    <2>2. DataTypes'
      BY <1>3, <1>6, <2>1 DEF DataTypes
    <2>3. QED
      BY <1>2, <1>6, <2>1, <2>2, Quiet
  <1>7. ASSUME s \in registry
        PROVE  /\ active[s] \in 1 .. Len(tabs[s]) /\ Len(tabs[s]) \in Nat
               /\ ActivePage(s) \in Pages /\ <<ActivePage(s)>> \in Seq(Pages)
               /\ DOMAIN tabs[s] = 1 .. Len(tabs[s])
    BY <1>1, <1>3, <1>7, PageSeqs DEF TabsInv, ActivePage
  <1>8. CASE ~Refuses(o, s) /\ (EnterNavigate(t, o) \/ EnterAct(t, o))
    <2>1. s \in registry
      BY <1>8 DEF Refuses, EnterNavigate, EnterAct
    <2>2. /\ registry' = registry /\ tabs' = tabs /\ active' = active
          /\ blocked' \in [Ids -> BOOLEAN]
          /\ Proceed(t, o, "working", <<ActivePage(s)>>)
      BY <1>3, <1>8 DEF EnterNavigate, EnterAct, DataTypes
    <2>3. TabsInv'
      BY <1>3, <2>2 DEF TabsInv
    <2>4. QED
      BY <1>3, <1>6, <1>7, <2>1, <2>2, <2>3 DEF DataTypes
  <1>9. CASE EnterTabNew(t, o)
    <2>1. /\ registry' = registry /\ tabs' = tabs /\ active' = active
          /\ blocked' = blocked /\ Proceed(t, o, "tabOpening", <<>>)
      BY <1>9 DEF EnterTabNew
    <2>2. TabsInv'
      BY <1>3, <2>1 DEF TabsInv
    <2>3. QED
      BY <1>3, <1>6, <2>1, <2>2, PageSeqs DEF DataTypes
  <1>10. CASE ~Refuses(o, s) /\ EnterTabSelect(t, o)
    <2>1. s \in registry
      BY <1>10 DEF Refuses, EnterTabSelect
    <2>2. PICK i \in DOMAIN tabs[s] :
              /\ active' = [active EXCEPT ![s] = i]
              /\ Proceed(t, o, "working", <<tabs[s][i]>>)
      BY <1>10 DEF EnterTabSelect
    <2>3. i \in 1 .. Len(tabs[s]) /\ i \in Nat /\ <<tabs[s][i]>> \in Seq(Pages)
      BY <1>1, <1>7, <2>1, <2>2, PageSeqs
    <2>4. registry' = registry /\ tabs' = tabs /\ blocked' = blocked
      BY <1>10 DEF EnterTabSelect
    <2>5. active' \in [Ids -> Nat] /\ \A r \in Ids : r # s => active'[r] = active[r]
      BY <1>1, <1>3, <2>2, <2>3 DEF DataTypes
    <2>6. TabsInv'
      BY <1>1, <1>3, <2>2, <2>3, <2>4 DEF TabsInv, DataTypes
    <2>7. QED
      BY <1>3, <1>6, <2>1, <2>2, <2>3, <2>4, <2>5, <2>6 DEF DataTypes
  <1>11. CASE ~Refuses(o, s) /\ EnterTabClose(t, o)
    <2>1. s \in registry /\ Len(tabs[s]) # 1
      BY <1>11 DEF Refuses, EnterTabClose
    <2>2. PICK i \in DOMAIN tabs[s] :
              /\ tabs' = [tabs EXCEPT ![s] = RemoveAt(@, i)]
              /\ active' = [active EXCEPT ![s] = NewActive(i, @, Len(tabs[s]) - 1)]
              /\ Proceed(t, o, "tabClosing", <<tabs[s][i]>>)
      BY <1>11 DEF EnterTabClose
    <2>3. i \in 1 .. Len(tabs[s]) /\ tabs[s][i] \in Pages
      BY <1>1, <1>7, <2>1, <2>2, PageSeqs
    <2>4. <<tabs[s][i]>> \in Seq(Pages) /\ <<tabs[s][i]>> # <<>>
      BY <2>3, PageSeqs
    <2>5. registry' = registry /\ blocked' = blocked
      BY <1>11 DEF EnterTabClose
    <2>6. /\ tabs' \in [Ids -> Seq(Pages)]
          /\ tabs'[s] = RemoveAt(tabs[s], i) /\ Len(tabs'[s]) = Len(tabs[s]) - 1
          /\ ToSet(tabs'[s]) \subseteq ToSet(tabs[s])
          /\ \A r \in Ids : r # s => tabs'[r] = tabs[r]
      <3>1. /\ RemoveAt(tabs[s], i) \in Seq(Pages)
            /\ Len(RemoveAt(tabs[s], i)) = Len(tabs[s]) - 1
            /\ ToSet(RemoveAt(tabs[s], i)) \subseteq ToSet(tabs[s])
        BY <1>1, <2>3, RemoveTab
      <3>2. QED
        BY <1>1, <1>3, <2>2, <3>1 DEF DataTypes
    <2>7. /\ active' \in [Ids -> Nat] /\ active'[s] \in 1 .. Len(tabs'[s])
          /\ \A r \in Ids : r # s => active'[r] = active[r]
      <3>1. NewActive(i, active[s], Len(tabs[s]) - 1) \in 1 .. Len(tabs[s]) - 1
        BY <1>7, <2>1, <2>3, StaysActive
      <3>2. QED
        BY <1>1, <1>3, <2>2, <2>6, <3>1 DEF DataTypes
    <2>8. TabsInv'
      BY <1>3, <2>1, <2>5, <2>6, <2>7 DEF TabsInv
    <2>9. QED
      BY <1>3, <1>6, <2>1, <2>2, <2>4, <2>5, <2>6, <2>7, <2>8 DEF DataTypes
  <1>12. CASE EnterClose(t, o) /\ s \in registry
    <2>1. /\ registry' = registry \ {s} /\ tabs' = [tabs EXCEPT ![s] = <<>>]
          /\ active' = active /\ blocked' = blocked
          /\ Proceed(t, o, "closing", tabs[s])
      BY <1>12 DEF EnterClose, Removed
    <2>2. tabs[s] # <<>>
      BY <1>7, <1>12, PageSeqs
    <2>3. /\ tabs' \in [Ids -> Seq(Pages)] /\ tabs'[s] = <<>>
          /\ \A r \in Ids : r # s => tabs'[r] = tabs[r]
      BY <1>1, <1>3, <2>1, PageSeqs DEF DataTypes
    <2>4. TabsInv'
      BY <1>3, <2>1, <2>3 DEF TabsInv
    <2>5. \A r \in Ids : ToSet(tabs'[r]) \subseteq ToSet(tabs[r])
      BY <2>3, PageSeqs
    <2>6. QED
      BY <1>1, <1>3, <1>6, <2>1, <2>2, <2>3, <2>4, <2>5 DEF DataTypes
  <1>13. QED
    BY <1>4, <1>5, <1>8, <1>9, <1>10, <1>11, <1>12 DEF Enter

LEMMA NavigateNewData ==
    ASSUME BrowserInv, NEW l \in Lanes, NavigateNew(l)
    PROVE  DataInv'
  <1> DEFINE t == <<l, nextId>>
  <1> USE DEF BrowserInv, DataInv, SlotInv, TasksInv
  <1>1. /\ t \in Tasks /\ pc[t] = "idle" /\ op[t] # "new"
        /\ t[1] = l /\ Session(t) = nextId /\ nextId \in Ids
        /\ \A u \in Tasks : u[1] = l => pc[u] = "idle"
    BY FreeLane DEF NavigateNew, Session, LaneFree, TasksOf
  <1>2. /\ pc' = [pc EXCEPT ![t] = "opening"] /\ op' = [op EXCEPT ![t] = "new"]
        /\ nextId' = nextId + 1 /\ calls' = calls + 1 /\ calls < MaxCalls
        /\ UNCHANGED <<registry, tabs, active, idle, crashed, blocked, held,
                       open, nextPage, reaping, panics, dead>>
    BY DEF NavigateNew, LaneFree, TakeRequest, sessionVars, pageVars
  <1> HIDE DEF t
  <1>3. DataTypes'
    BY <1>2, SessionsConstants DEF DataTypes
  <1>4. TabsInv'
    BY <1>2 DEF TabsInv
  <1>5. CallsInv'
    BY <1>1, <1>2 DEF CallsInv, SlotTypes
  <1>6. \A u \in Tasks : Fresh(u)' = Fresh(u)
    BY <1>1, <1>2 DEF Fresh, SlotTypes
  <1>7. PagesInv'
    BY <1>2, <1>6 DEF PagesInv
  <1>8. Opening' = Opening \cup {t}
    BY <1>1, <1>2 DEF Opening, SlotTypes
  <1>9. \A s \in Ids : Unopened(s)' => Unopened(s)
    BY <1>1, <1>2, <1>8 DEF Unopened, Ids
  <1>10. \A u \in Tasks : pc'[u] # "idle" =>
             Session(u) < nextId' /\ (u # t => pc[u] # "idle" /\ Session(u) < nextId)
    <2>1. \A u \in Tasks : Session(u) \in Ids
      BY DEF Tasks, Session
    <2>2. QED
      BY <1>1, <1>2, <2>1, SessionsConstants DEF IdsInv, Ids, SlotTypes
  <1>11. \A u \in Opening : u \in Tasks /\ pc[u] # "idle" /\ Session(u) < nextId
    BY DEF IdsInv, Opening, NewIsOpening
  <1>12. ASSUME NEW v \in Opening', NEW u \in Tasks, pc'[u] # "idle",
                u[1] = v[1] \/ Session(u) = Session(v)
         PROVE  u = v
    <2>1. CASE v = t
      BY <1>1, <1>10, <1>12, <2>1 DEF Ids
    <2>2. CASE u = t /\ v # t
      BY <1>1, <1>8, <1>11, <1>12, <2>2 DEF Ids
    <2>3. CASE u # t /\ v # t
      BY <1>8, <1>10, <1>12, <2>3 DEF IdsInv
    <2>4. QED
      BY <2>1, <2>2, <2>3
  <1>13. IdsInv'
    BY <1>2, <1>9, <1>10, <1>12 DEF IdsInv
  <1>14. QED
    BY <1>3, <1>4, <1>5, <1>7, <1>13

LEMMA PageOpensData ==
    ASSUME BrowserInv, NEW t \in Tasks, PageOpens(t)
    PROVE  DataInv'
  <1> USE DEF BrowserInv, DataInv, SlotInv, TasksInv
  <1>1. /\ pc[t] \in {"opening", "tabOpening"} /\ nextPage \in Pages
        /\ pc' = [pc EXCEPT ![t] = IF @ = "opening" THEN "loading" ELSE "tabLoading"]
        /\ held' = [held EXCEPT ![t] = <<nextPage>>]
        /\ open' = open \cup {nextPage} /\ nextPage' = nextPage + 1
        /\ UNCHANGED <<registry, tabs, active, idle, crashed, blocked, op,
                       nextId, reaping, calls, panics, dead>>
    BY DEF PageOpens, sessionVars
  <1>2. /\ <<nextPage>> \in Seq(Pages) /\ <<nextPage>> # <<>>
        /\ ToSet(<<nextPage>>) = {nextPage}
    BY <1>1, PageSeqs
  <1>3. DataTypes'
    <2>1. held' \in [Tasks -> Seq(Pages)]
      BY <1>1, <1>2 DEF DataTypes
    <2>2. nextPage' \in 1 .. MaxPages + 1
      BY <1>1, SessionsConstants DEF Pages
    <2>3. QED
      BY <1>1, <2>1, <2>2 DEF DataTypes
  <1>4. TabsInv' /\ Opening' = Opening
    BY <1>1 DEF TabsInv, Opening
  <1>5. CallsInv'
    BY <1>1, <1>2 DEF CallsInv, SlotTypes, DataTypes
  <1>6. \A u \in Tasks : pc'[u] # "idle" <=> pc[u] # "idle"
    BY <1>1 DEF SlotTypes
  <1>7. IdsInv'
    <2>1. \A s \in Ids : Unopened(s)' = Unopened(s)
      BY <1>1, <1>4 DEF Unopened
    <2>2. QED
      BY <1>1, <1>4, <1>6, <2>1 DEF IdsInv
  <1>8. /\ Fresh(t)' = {nextPage}
        /\ \A u \in Tasks : u # t => Fresh(u)' = Fresh(u)
    BY <1>1, <1>2 DEF Fresh, SlotTypes, DataTypes
  <1>9. PagesInv'
    <2>1. \A s \in Ids : \A p \in ToSet(tabs[s]) : p \in Pages /\ p < nextPage
      BY PageSeqs DEF PagesInv, DataTypes
    <2>2. \A u \in Tasks : \A p \in Fresh(u) : p \in Pages /\ p < nextPage
      BY PageSeqs DEF PagesInv, DataTypes, Fresh
    <2>3. \A s \in Ids : \A p \in ToSet(tabs[s]) :
             /\ p < nextPage'
             /\ \A r \in Ids : p \in ToSet(tabs[r]) => r = s
             /\ \A u \in Tasks : p \notin Fresh(u)'
      BY <1>1, <1>8, <2>1 DEF PagesInv, Pages
    <2>4. \A u \in Tasks : \A p \in Fresh(u)' :
             p < nextPage' /\ \A v \in Tasks : p \in Fresh(v)' => v = u
      BY <1>1, <1>8, <2>2 DEF PagesInv, Pages
    <2>5. QED
      BY <1>1, <2>3, <2>4 DEF PagesInv
  <1>10. QED
    BY <1>3, <1>4, <1>5, <1>7, <1>9

LEMMA LoadedData ==
    ASSUME BrowserInv, NEW t \in Tasks, Loaded(t)
    PROVE  DataInv'
  <1> DEFINE s == Session(t)
  <1> USE DEF BrowserInv, DataInv, SlotInv, TasksInv
  <1>1. /\ pc[t] = "loading" /\ t \in Opening /\ s \in Ids
        /\ registry' = registry \cup {s} /\ tabs' = [tabs EXCEPT ![s] = held[t]]
        /\ Leave({t})
        /\ UNCHANGED <<active, idle, crashed, open, nextPage, nextId, reaping,
                       calls, panics, dead>>
    BY DEF Loaded, NewIsOpening, Opening, Tasks, Session, pageVars
  <1>2. blocked' \in [Ids -> BOOLEAN]
    <2>1. PICK b \in {FALSE, "redirect" \in Env} :
              blocked' = [blocked EXCEPT ![s] = b]
      BY DEF Loaded
    <2>2. b \in BOOLEAN
      <3>1. b = FALSE \/ b = ("redirect" \in Env)
        BY <2>1
      <3>2. ("redirect" \in Env) \in BOOLEAN
        OBVIOUS
      <3>3. QED
        BY <3>1, <3>2, Zenon
    <2>3. QED
      BY <2>1, <2>2 DEF DataTypes
  <1>3. held[t] \in Seq(Pages) /\ held[t] # <<>> /\ Fresh(t) = ToSet(held[t])
    BY <1>1 DEF CallsInv, DataTypes, Fresh
  <1>4. /\ held' \in [Tasks -> Seq(Pages)] /\ CallsInv'
        /\ \A u \in Tasks : Fresh(u)' \subseteq Fresh(u)
    BY <1>1, LeavesData
  <1>5. /\ tabs' \in [Ids -> Seq(Pages)] /\ tabs'[s] = held[t]
        /\ \A r \in Ids : r # s => tabs'[r] = tabs[r]
    BY <1>1, <1>3 DEF DataTypes
  <1>6. DataTypes'
    BY <1>1, <1>2, <1>4, <1>5 DEF DataTypes
  <1>7. Opening' = Opening \ {t}
    BY <1>1 DEF Opening, Leave
  <1>8. active[s] = 1 /\ s \notin registry
    BY <1>1 DEF IdsInv, Unopened
  <1>9. TabsInv'
    <2>1. active'[s] \in 1 .. Len(tabs'[s])
      BY <1>1, <1>3, <1>5, <1>8, PageSeqs
    <2>2. QED
      BY <1>1, <1>5, <2>1 DEF TabsInv
  <1>10. \A u \in Tasks : pc'[u] # "idle" => pc[u] # "idle" /\ u # t
    BY <1>1 DEF Leave
  <1>11. ASSUME NEW r \in Ids, Unopened(r)'
         PROVE  Unopened(r) /\ r # s
    <2>1. s < nextId /\ s \in Int /\ nextId \in Int
      BY <1>1 DEF IdsInv, Ids, SlotTypes
    <2>2. \A u \in Opening' : u \in Opening /\ Session(u) # s
      BY <1>1, <1>7 DEF IdsInv, Opening, NewIsOpening
    <2>3. QED
      BY <1>1, <1>11, <2>1, <2>2 DEF Unopened
  <1>12. IdsInv'
    BY <1>1, <1>7, <1>10, <1>11 DEF IdsInv
  <1>13. Fresh(t)' = {}
    BY <1>1 DEF Leave, Fresh
  <1>14. PagesInv'
    BY <1>1, <1>3, <1>4, <1>5, <1>13, Adopts
  <1>15. QED
    BY <1>4, <1>6, <1>9, <1>12, <1>14

(* Calls that end and leave every session's tabs as they are.              *)
LEMMA LeavesQuietly ==
    ASSUME BrowserInv, NEW T \in SUBSET Tasks, Leave(T),
           UNCHANGED <<registry, tabs, active, crashed, blocked, nextPage,
                       nextId, reaping, calls>>,
           idle' \in [Ids -> BOOLEAN], open' \subseteq open,
           panics' \subseteq Ops \X Ids, dead' \in BOOLEAN
    PROVE  DataInv'
  <1>1. /\ held' \in [Tasks -> Seq(Pages)] /\ CallsInv' /\ CallsRunOn
        /\ \A u \in Tasks : Fresh(u)' \subseteq Fresh(u)
        /\ Opening' \subseteq Opening
    BY LeavesData
  <1>2. DataTypes' /\ TabsInv'
    BY <1>1 DEF BrowserInv, DataInv, DataTypes, TabsInv
  <1>3. QED
    BY <1>1, <1>2, Quiet

LEMMA PanicData ==
    ASSUME BrowserInv, NEW t \in Tasks, NEW o \in Ops, Panic(t, o),
           UNCHANGED <<registry, tabs, active, crashed, blocked, nextPage,
                       nextId, reaping, calls, open>>,
           idle' \in [Ids -> BOOLEAN]
    PROVE  DataInv'
  <1>1. /\ Leave(TasksOf(t[1])) /\ TasksOf(t[1]) \in SUBSET Tasks
        /\ panics' = panics \cup {<<o, Session(t)>>} /\ Session(t) \in Ids
        /\ dead' = (t[1] = "socket")
    BY DEF Panic, TasksOf, Tasks, Session
  <1>2. dead' \in BOOLEAN /\ panics' \subseteq Ops \X Ids
    BY <1>1 DEF BrowserInv, DataInv, DataTypes
  <1>3. QED
    BY <1>1, <1>2, LeavesQuietly

LEMMA EndsData ==
    ASSUME BrowserInv, NEW t \in Tasks,
           OpenFails(t) \/ ListenFails(t) \/ LoadFails(t) \/ TabFails(t)
             \/ WorkFails(t)
    PROVE  DataInv'
  <1>1. /\ Leave({t}) /\ open' \subseteq open
        /\ UNCHANGED <<registry, tabs, active, idle, crashed, blocked, nextPage,
                       nextId, reaping, calls, panics, dead>>
    BY DEF OpenFails, ListenFails, LoadFails, TabFails, WorkFails, sessionVars,
           pageVars
  <1>2. /\ idle' \in [Ids -> BOOLEAN] /\ panics' \subseteq Ops \X Ids
        /\ dead' \in BOOLEAN /\ {t} \in SUBSET Tasks
    BY <1>1 DEF BrowserInv, DataInv, DataTypes
  <1>3. QED
    BY <1>1, <1>2, LeavesQuietly

LEMMA WorkDoneData ==
    ASSUME BrowserInv, NEW t \in Tasks, WorkDone(t)
    PROVE  DataInv'
  <1>1. UNCHANGED <<registry, tabs, active, crashed, blocked, nextPage, nextId,
                    reaping, calls, open>>
    BY DEF WorkDone, pageVars
  <1>2. idle' \in [Ids -> BOOLEAN]
    BY DEF WorkDone, BrowserInv, DataInv, DataTypes
  <1>3. CASE Panic(t, op[t]) /\ op[t] \in TabOps
    BY <1>1, <1>2, <1>3, PanicData DEF Ops
  <1>4. CASE Return(t)
    <2>1. /\ Leave({t}) /\ panics' \subseteq Ops \X Ids /\ dead' \in BOOLEAN
          /\ {t} \in SUBSET Tasks
      BY <1>4 DEF Return, BrowserInv, DataInv, DataTypes
    <2>2. QED
      BY <1>1, <1>2, <2>1, LeavesQuietly
  <1>5. QED
    BY <1>3, <1>4 DEF WorkDone

LEMMA TimeoutData ==
    ASSUME BrowserInv, NEW l \in Lanes, Timeout(l)
    PROVE  DataInv'
  <1>1. /\ Leave(TasksOf(l)) /\ TasksOf(l) \in SUBSET Tasks /\ open' = open
        /\ UNCHANGED <<registry, tabs, active, idle, crashed, blocked, nextPage,
                       nextId, reaping, calls, panics, dead>>
    BY DEF Timeout, TasksOf, sessionVars, pageVars
  <1>2. /\ idle' \in [Ids -> BOOLEAN] /\ panics' \subseteq Ops \X Ids
        /\ dead' \in BOOLEAN
    BY <1>1 DEF BrowserInv, DataInv, DataTypes
  <1>3. QED
    BY <1>1, <1>2, LeavesQuietly

(* A call that goes on with the work it has.                               *)
LEMMA GoesOn ==
    ASSUME BrowserInv, NEW t \in Tasks, pc[t] # "idle",
           NEW state \in {"tabGoing", "working", "closing"},
           state = "tabGoing" => pc[t] = "tabLoading",
           state = "closing" => pc[t] = "closing",
           pc[t] \notin {"opening", "loading"},
           pc' = [pc EXCEPT ![t] = state], op' = op,
           NEW rest \in Seq(Pages), state # "working" => rest # <<>>,
           state = "tabGoing" => rest = held[t],
           held' = [held EXCEPT ![t] = rest],
           UNCHANGED <<registry, tabs, active, idle, crashed, blocked, nextPage,
                       nextId, reaping, calls, panics, dead>>,
           open' \subseteq open
    PROVE  DataInv'
  <1> USE DEF BrowserInv, DataInv, SlotInv, TasksInv
  <1>1. DataTypes' /\ TabsInv' /\ Opening' = Opening
    BY DEF DataTypes, TabsInv, Opening
  <1>2. CallsInv' /\ CallsRunOn
    BY DEF CallsInv, CallsRunOn, SlotTypes, DataTypes
  <1>3. \A u \in Tasks : Fresh(u)' \subseteq Fresh(u)
    BY DEF Fresh, SlotTypes, DataTypes
  <1>4. QED
    BY <1>1, <1>2, <1>3, Quiet

LEMMA TabCheckedData ==
    ASSUME BrowserInv, NEW t \in Tasks, TabChecked(t)
    PROVE  DataInv'
  <1>1. /\ pc[t] = "tabLoading" /\ pc' = [pc EXCEPT ![t] = "tabGoing"]
        /\ op' = op /\ held' = held /\ open' = open
        /\ UNCHANGED <<registry, tabs, active, idle, crashed, blocked, nextPage,
                       nextId, reaping, calls, panics, dead>>
    BY DEF TabChecked, sessionVars, pageVars
  <1>2. held[t] \in Seq(Pages) /\ held[t] # <<>> /\ held' = [held EXCEPT ![t] = held[t]]
    BY <1>1 DEF BrowserInv, DataInv, DataTypes, CallsInv
  <1>3. QED
    BY <1>1, <1>2, GoesOn

LEMMA ClosePageData ==
    ASSUME BrowserInv, NEW t \in Tasks, ClosePage(t)
    PROVE  DataInv'
  <1>1. /\ pc[t] \in {"closing", "tabClosing"} /\ open' \subseteq open
        /\ UNCHANGED <<registry, tabs, active, idle, crashed, blocked, nextPage,
                       nextId, reaping, calls, panics, dead>>
    BY DEF ClosePage, sessionVars
  <1>2. held \in [Tasks -> Seq(Pages)] /\ held[t] \in Seq(Pages) /\ held[t] # <<>>
    BY <1>1 DEF BrowserInv, DataInv, DataTypes, CallsInv
  <1>3. CASE Leave({t})
    <2>1. /\ idle' \in [Ids -> BOOLEAN] /\ panics' \subseteq Ops \X Ids
          /\ dead' \in BOOLEAN /\ {t} \in SUBSET Tasks
      BY <1>1 DEF BrowserInv, DataInv, DataTypes
    <2>2. QED
      BY <1>1, <1>3, <2>1, LeavesQuietly
  <1>4. CASE pc' = [pc EXCEPT ![t] = "working"] /\ op' = op /\ held' = held
    <2>1. held' = [held EXCEPT ![t] = held[t]]
      BY <1>2, <1>4
    <2>2. QED
      BY <1>1, <1>2, <1>4, <2>1, GoesOn
  <1>5. CASE /\ pc[t] = "closing" /\ Len(held[t]) # 1
             /\ held' = [held EXCEPT ![t] = Tail(@)] /\ op' = op /\ pc' = pc
    <2>1. /\ Tail(held[t]) \in Seq(Pages) /\ Tail(held[t]) # <<>>
          /\ held' = [held EXCEPT ![t] = Tail(held[t])]
      BY <1>2, <1>5, RestOfClosing
    <2>2. pc' = [pc EXCEPT ![t] = "closing"]
      BY <1>5 DEF BrowserInv, SlotInv, TasksInv, SlotTypes
    <2>3. QED
      BY <1>1, <1>5, <2>1, <2>2, GoesOn
  <1>6. QED
    BY <1>1, <1>3, <1>4, <1>5 DEF ClosePage

LEMMA TabLoadedData ==
    ASSUME BrowserInv, NEW t \in Tasks, TabLoaded(t)
    PROVE  DataInv'
  <1> DEFINE s == Session(t)
  <1> USE DEF BrowserInv, DataInv, SlotInv, TasksInv
  <1>1. /\ pc[t] = "tabGoing" /\ s \in Ids
        /\ UNCHANGED <<registry, idle, crashed, blocked, open, nextPage, nextId,
                       reaping, calls>>
    BY DEF TabLoaded, Tasks, Session, pageVars
  <1>2. CASE s \notin registry
    <2>1. Panic(t, op[t]) /\ tabs' = tabs /\ active' = active
      BY <1>2 DEF TabLoaded
    <2>2. op[t] \in Ops
      BY <1>1 DEF CallsInv, NewIsOpening, SlotTypes
    <2>3. idle' \in [Ids -> BOOLEAN]
      BY <1>1 DEF DataTypes
    <2>4. QED
      BY <1>1, <2>1, <2>2, <2>3, PanicData
  <1>3. CASE s \in registry
    <2>1. /\ tabs' = [tabs EXCEPT ![s] = @ \o held[t]]
          /\ active' = [active EXCEPT ![s] = Len(tabs[s]) + 1]
          /\ pc' = [pc EXCEPT ![t] = "working"]
          /\ UNCHANGED <<op, held, panics, dead>>
      BY <1>3 DEF TabLoaded
    <2>2. /\ tabs[s] \in Seq(Pages) /\ held[t] \in Seq(Pages) /\ held[t] # <<>>
          /\ Fresh(t) = ToSet(held[t])
      BY <1>1 DEF DataTypes, CallsInv, Fresh
    <2>3. /\ tabs[s] \o held[t] \in Seq(Pages)
          /\ Len(tabs[s] \o held[t]) = Len(tabs[s]) + Len(held[t])
          /\ ToSet(tabs[s] \o held[t]) \subseteq ToSet(tabs[s]) \cup Fresh(t)
      BY <2>2, JoinTabs
    <2>4. /\ tabs' \in [Ids -> Seq(Pages)] /\ tabs'[s] = tabs[s] \o held[t]
          /\ \A r \in Ids : r # s => tabs'[r] = tabs[r]
      BY <1>1, <2>1, <2>3 DEF DataTypes
    <2>5. Len(tabs[s]) + 1 \in Nat /\ Len(tabs[s]) + 1 \in 1 .. Len(tabs'[s])
      <3>1. Len(tabs[s]) \in Nat /\ Len(held[t]) \in Nat /\ Len(held[t]) >= 1
        BY <2>2, PageSeqs
      <3>2. Len(tabs'[s]) = Len(tabs[s]) + Len(held[t])
        BY <2>3, <2>4
      <3>3. \A m, n \in Nat : n >= 1 => m + 1 \in Nat /\ m + 1 \in 1 .. m + n
        OBVIOUS
      <3>4. QED
        BY <3>1, <3>2, <3>3
    <2>6. /\ active' \in [Ids -> Nat] /\ active'[s] \in 1 .. Len(tabs'[s])
          /\ \A r \in Ids : r # s => active'[r] = active[r]
      BY <1>1, <2>1, <2>5 DEF DataTypes
    <2>7. DataTypes'
      BY <1>1, <2>1, <2>4, <2>6 DEF DataTypes
    <2>8. TabsInv'
      BY <1>1, <1>3, <2>4, <2>6 DEF TabsInv
    <2>9. CallsInv' /\ CallsRunOn /\ Opening' = Opening
      BY <1>1, <2>1 DEF CallsInv, CallsRunOn, Opening, SlotTypes
    <2>10. IdsInv'
      BY <1>1, <1>3, <2>6, <2>9, IdsKept
    <2>11. Fresh(t)' = {} /\ \A u \in Tasks : Fresh(u)' \subseteq Fresh(u)
      BY <2>1 DEF Fresh, SlotTypes
    <2>12. PagesInv'
      BY <1>1, <2>3, <2>4, <2>11, Adopts
    <2>13. QED
      BY <2>7, <2>8, <2>9, <2>10, <2>12
  <1>4. QED
    BY <1>2, <1>3

LEMMA BeginData ==
    ASSUME BrowserInv, NEW l \in Lanes, NEW s \in Ids, NEW o \in Ops, Begin(l, s, o)
    PROVE  DataInv'
  <1> DEFINE t == <<l, s>>
  <1>1. /\ t \in Tasks /\ t[1] = l /\ Session(t) = s
        /\ pc[t] = "idle" /\ op[t] # "new"
        /\ LaneFree(l) /\ s \in registry
    BY FreeLane DEF Begin, BrowserInv, SlotInv, Session
  <1>2. /\ idle' \in [Ids -> BOOLEAN] /\ calls' \in 0 .. MaxCalls
        /\ UNCHANGED <<crashed, open, nextPage, nextId, reaping>>
    <2>1. calls' = calls + 1 /\ calls < MaxCalls
      BY DEF Begin, TakeRequest, LaneFree
    <2>2. calls' \in 0 .. MaxCalls
      BY <2>1, SessionsConstants DEF BrowserInv, DataInv, DataTypes
    <2>3. QED
      BY <2>2 DEF Begin, pageVars, BrowserInv, DataInv, DataTypes
  <1> HIDE DEF t
  <1>3. CASE Enter(t, o)
    BY <1>1, <1>2, <1>3, EntersData DEF EnterLeaves
  <1>4. CASE ~Enter(t, o)
    <2>1. /\ pc' = [pc EXCEPT ![t] = "waiting"] /\ op' = [op EXCEPT ![t] = o]
          /\ UNCHANGED <<registry, tabs, active, blocked, held, panics, dead>>
      BY <1>4 DEF Begin, t
    <2>2. DataTypes' /\ TabsInv'
      BY <1>2, <2>1 DEF BrowserInv, DataInv, DataTypes, TabsInv
    <2>3. o # "new" /\ o # "none"
      BY DEF Ops, TabOps
    <2>4. CallsInv' /\ CallsRunOn /\ Opening' \subseteq Opening
      BY <1>1, <2>1, <2>3 DEF BrowserInv, SlotInv, TasksInv, SlotTypes, DataInv,
         CallsInv, CallsRunOn, Opening
    <2>5. \A u \in Tasks : Fresh(u)' \subseteq Fresh(u)
      BY <1>1, <2>1 DEF BrowserInv, SlotInv, TasksInv, SlotTypes, Fresh
    <2>6. QED
      BY <1>2, <2>1, <2>2, <2>4, <2>5, Quiet
  <1>5. QED
    BY <1>3, <1>4

LEMMA ResumeData ==
    ASSUME BrowserInv, NEW t \in Tasks, Resume(t)
    PROVE  DataInv'
  <1>1. pc[t] = "waiting" /\ Enter(t, op[t])
    BY DEF Resume, Granted
  <1>2. op[t] # "new" /\ op[t] \in Ops
    BY <1>1 DEF BrowserInv, SlotInv, TasksInv, NewIsOpening, DataInv, CallsInv,
       SlotTypes
  <1>3. EnterLeaves
    BY DEF Resume, EnterLeaves, pageVars, BrowserInv, DataInv, DataTypes
  <1>4. QED
    BY <1>1, <1>2, <1>3, EntersData

LEMMA CloseAllData ==
    ASSUME BrowserInv, NEW l \in Lanes, CloseAll(l)
    PROVE  DataInv'
  <1> DEFINE free == {s \in registry : ~crashed[s] /\ lock[s] = NoTask}
             busy == {s \in registry : ~crashed[s] /\ lock[s] # NoTask}
  <1> USE DEF BrowserInv, DataInv, SlotInv, TasksInv
  <1>1. /\ free \subseteq registry /\ busy \subseteq registry
        /\ free \cap busy = {} /\ registry \subseteq Ids /\ LaneFree(l)
    BY DEF CloseAll, SlotTypes
  <1>2. /\ registry' = busy
        /\ tabs' = [s \in Ids |-> IF s \in busy THEN tabs[s] ELSE <<>>]
        /\ idle' = [s \in Ids |-> idle[s] /\ s \notin free \cup busy]
        /\ pc' = [t \in Tasks |->
                    IF t[1] = l /\ Session(t) \in free THEN "closing"
                    ELSE IF t[1] = l /\ Session(t) \in busy THEN "waiting"
                    ELSE pc[t]]
        /\ op' = [t \in Tasks |->
                    IF t[1] = l /\ Session(t) \in free \cup busy THEN "close"
                    ELSE op[t]]
        /\ held' = [t \in Tasks |->
                      IF t[1] = l /\ Session(t) \in free THEN tabs[Session(t)]
                      ELSE held[t]]
        /\ calls' = calls + 1 /\ calls < MaxCalls
        /\ UNCHANGED <<active, crashed, blocked, open, nextPage, nextId,
                       reaping, panics, dead>>
    BY DEF CloseAll, TakeRequest, LaneFree, pageVars
  <1> HIDE DEF free, busy
  <1>3. \A t \in Tasks : Session(t) \in Ids
    BY DEF Tasks, Session
  <1>4. \A t \in Tasks : t[1] = l => pc[t] = "idle" /\ op[t] # "new"
    BY <1>1 DEF LaneFree, TasksOf, NewIsOpening
  <1>5. /\ tabs' \in [Ids -> Seq(Pages)] /\ held' \in [Tasks -> Seq(Pages)]
        /\ idle' \in [Ids -> BOOLEAN]
    <2>1. tabs' \in [Ids -> Seq(Pages)]
      BY <1>2, PageSeqs DEF DataTypes
    <2>2. held' \in [Tasks -> Seq(Pages)]
      BY <1>2, <1>3 DEF DataTypes
    <2>3. idle' \in [Ids -> BOOLEAN]
      BY <1>2 DEF DataTypes
    <2>4. QED
      BY <2>1, <2>2, <2>3
  <1>6. DataTypes'
    BY <1>2, <1>5, SessionsConstants DEF DataTypes
  <1>7. TabsInv'
    BY <1>1, <1>2 DEF TabsInv
  <1>8. \A s \in registry : tabs[s] # <<>>
    BY <1>1, PageSeqs DEF TabsInv
  <1>9. CallsInv'
    BY <1>1, <1>2, <1>3, <1>8 DEF CallsInv
  <1>10. CallsRunOn
    BY <1>1, <1>2 DEF CallsRunOn
  <1>11. Opening' \subseteq Opening
    BY <1>2 DEF Opening
  <1>12. \A u \in Tasks : Fresh(u)' \subseteq Fresh(u)
    BY <1>2, <1>4 DEF Fresh
  <1>13. \A s \in Ids : ToSet(tabs'[s]) \subseteq ToSet(tabs[s])
    BY <1>2, PageSeqs
  <1>14. QED
    BY <1>1, <1>2, <1>6, <1>7, <1>9, <1>10, <1>11, <1>12, <1>13, Quiet

(* Steps that start, end and move no call.                                 *)
LEMMA NoCall ==
    ASSUME BrowserInv, DataTypes', pc' = pc, op' = op, held' = held,
           registry' \subseteq registry,
           UNCHANGED <<active, nextId, nextPage>>,
           \A s \in Ids : tabs'[s] = IF s \in registry' THEN tabs[s] ELSE <<>>
    PROVE  DataInv'
  <1>1. TabsInv'
    BY DEF BrowserInv, DataInv, TabsInv
  <1>2. CallsInv' /\ CallsRunOn /\ Opening' = Opening
    BY DEF BrowserInv, DataInv, CallsInv, CallsRunOn, Opening
  <1>3. \A u \in Tasks : Fresh(u)' = Fresh(u)
    BY DEF Fresh
  <1>4. \A s \in Ids : ToSet(tabs'[s]) \subseteq ToSet(tabs[s])
    BY PageSeqs
  <1>5. QED
    BY <1>1, <1>2, <1>3, <1>4, Quiet

(* The tabs of sessions that stay, and of sessions that are removed.       *)
LEMMA TouchCrashedData ==
    ASSUME BrowserInv, NEW l \in Lanes, NEW s \in Ids, TouchCrashed(l, s)
    PROVE  DataInv'
  <1> USE DEF BrowserInv, DataInv
  <1>1. /\ registry' = registry \ {s} /\ tabs' = [tabs EXCEPT ![s] = <<>>]
        /\ calls' = calls + 1 /\ calls < MaxCalls
        /\ UNCHANGED <<active, idle, crashed, blocked, pc, op, held, open,
                       nextPage, nextId, reaping, panics, dead>>
    BY DEF TouchCrashed, Removed, TakeRequest, LaneFree, taskVars, pageVars
  <1>2. tabs' \in [Ids -> Seq(Pages)] /\ calls' \in 0 .. MaxCalls
    BY <1>1, PageSeqs, SessionsConstants DEF DataTypes
  <1>3. DataTypes'
    BY <1>1, <1>2 DEF DataTypes
  <1>4. \A r \in Ids : tabs'[r] = IF r \in registry' THEN tabs[r] ELSE <<>>
    BY <1>1 DEF TabsInv, DataTypes
  <1>5. QED
    BY <1>1, <1>3, <1>4, NoCall

LEMMA ReapData ==
    ASSUME BrowserInv, Reap
    PROVE  DataInv'
  <1> DEFINE E == {s \in registry : idle[s] /\ lock[s] = NoTask}
  <1> USE DEF BrowserInv, DataInv
  <1>1. /\ registry' = registry \ E
        /\ reaping' = UNION {ToSet(tabs[s]) : s \in E}
        /\ tabs' = [s \in Ids |-> IF s \in E THEN <<>> ELSE tabs[s]]
        /\ UNCHANGED <<active, idle, crashed, blocked, pc, op, held, open,
                       nextPage, nextId, calls, panics, dead>>
    BY DEF Reap, Evict, taskVars, pageVars
  <1>2. E \subseteq Ids
    BY DEF SlotInv, TasksInv, SlotTypes
  <1> HIDE DEF E
  <1>3. tabs' \in [Ids -> Seq(Pages)]
    BY <1>1, PageSeqs DEF DataTypes
  <1>4. reaping' \subseteq Pages
    <2>1. \A s \in E : ToSet(tabs[s]) \subseteq Pages
      BY <1>2, PageSeqs DEF DataTypes
    <2>2. QED
      BY <1>1, <2>1
  <1>5. DataTypes'
    BY <1>1, <1>3, <1>4 DEF DataTypes
  <1>6. \A r \in Ids : tabs'[r] = IF r \in registry' THEN tabs[r] ELSE <<>>
    BY <1>1 DEF TabsInv
  <1>7. QED
    BY <1>1, <1>5, <1>6, NoCall

LEMMA OutsideData ==
    ASSUME BrowserInv,
           \/ \E p \in Pages : TargetCrash(p)
           \/ \E s \in Ids : Redirect(s) \/ IdlePasses(s)
           \/ ReapClose \/ UNCHANGED vars
    PROVE  DataInv'
  <1> USE DEF BrowserInv, DataInv
  <1>1. /\ UNCHANGED <<registry, tabs, active, pc, op, held, nextId, nextPage,
                       calls, panics, dead>>
        /\ open' \subseteq open /\ reaping' \subseteq reaping
    BY DEF TargetCrash, Redirect, IdlePasses, ReapClose, vars, sessionVars,
           taskVars, pageVars
  <1>2. crashed' \in [Ids -> BOOLEAN]
    <2>1. CASE \E p \in Pages : TargetCrash(p)
      BY <2>1 DEF TargetCrash, DataTypes
    <2>2. CASE crashed' = crashed
      BY <2>2 DEF DataTypes
    <2>3. QED
      BY <2>1, <2>2 DEF Redirect, IdlePasses, ReapClose, vars, sessionVars
  <1>3. idle' \in [Ids -> BOOLEAN] /\ blocked' \in [Ids -> BOOLEAN]
    BY DEF TargetCrash, Redirect, IdlePasses, ReapClose, vars, sessionVars, DataTypes
  <1>4. DataTypes'
    BY <1>1, <1>2, <1>3 DEF DataTypes
  <1>5. \A r \in Ids : tabs'[r] = IF r \in registry' THEN tabs[r] ELSE <<>>
    BY <1>1 DEF TabsInv
  <1>6. QED
    BY <1>1, <1>4, <1>5, NoCall

LEMMA NextData == BrowserInv /\ [Next]_vars => BrowserInv'
  <1> SUFFICES ASSUME BrowserInv, [Next]_vars PROVE BrowserInv'
    OBVIOUS
  <1>1. SlotInv'
    BY NextSlots DEF BrowserInv
  <1>2. ASSUME NEW t \in Tasks, TaskStep(t) PROVE DataInv'
    BY <1>2, PageOpensData, EndsData, LoadedData, ResumeData, TabCheckedData,
       TabLoadedData, WorkDoneData, ClosePageData DEF TaskStep
  <1>3. ASSUME NEW l \in Lanes, LaneStep(l) PROVE DataInv'
    BY <1>3, NavigateNewData, CloseAllData, TimeoutData, TouchCrashedData,
       BeginData DEF LaneStep
  <1>4. DataInv'
    BY <1>2, <1>3, ReapData, OutsideData DEF Next
  <1>5. QED
    BY <1>1, <1>4 DEF BrowserInv

LEMMA BrowserAlways == Spec => []BrowserInv
  <1>1. Init => BrowserInv
    BY InitSlots, InitData DEF BrowserInv
  <1>2. QED
    BY <1>1, NextData, PTL DEF Spec

(* At most one session is being opened on a lane, so `pending` stays small. *)
LEMMA OneOpeningPerLane ==
    ASSUME BrowserInv
    PROVE  pending \in 0 .. Cardinality(Lanes)
  <1> DEFINE lane == [t \in Opening |-> t[1]]
  <1> USE DEF BrowserInv, SlotInv, TasksInv, DataInv
  <1>1. \A t \in Opening : t \in Tasks /\ pc[t] # "idle" /\ t[1] \in Lanes
    BY DEF Opening, NewIsOpening, Tasks
  <1>2. \A t, u \in Opening : t[1] = u[1] => t = u
    BY <1>1 DEF IdsInv
  <1>3. lane \in Injection(Opening, Lanes)
    BY <1>1, <1>2 DEF Injection, IsInjective
  <1>4. IsFiniteSet(Lanes)
    <2>1. IsFiniteSet({"socket"}) /\ IsFiniteSet({"socket"} \cup {"bridge"})
      BY FS_Singleton, FS_AddElement
    <2>2. QED
      BY <2>1 DEF Lanes
  <1>5. Cardinality(Opening) <= Cardinality(Lanes)
    BY <1>3, <1>4, FS_Injection
  <1>6. pending = Cardinality(Opening) /\ Cardinality(Lanes) \in Nat
    BY <1>4, FS_CardinalityType DEF BusyOnlyWhileCalled, Opening
  <1>7. QED
    BY <1>5, <1>6, FiniteOpening

(* The registry, the tabs, the locks and the calls stay within their       *)
(* types, whatever is opened, closed, reaped, dropped or crashes.          *)
THEOREM TypeCorrect == Spec => []TypeOK
  <1>1. BrowserInv => TypeOK
    BY OneOpeningPerLane DEF BrowserInv, SlotInv, TasksInv, SlotTypes, States,
       DataInv, DataTypes, TypeOK
  <1>2. QED
    BY <1>1, BrowserAlways, PTL

(* The active index of every registered session names one of its tabs, so  *)
(* active_page cannot index out of bounds, and no page is a tab of two     *)
(* sessions, in every interleaving of the calls of both lanes.             *)
THEOREM ActiveTabAlways == Spec => []ActiveTabExists
  <1>1. BrowserInv => ActiveTabExists
    <2> SUFFICES ASSUME BrowserInv PROVE ActiveTabExists
      OBVIOUS
    <2>1. registry \subseteq Ids /\ \A s \in Ids : tabs[s] \in Seq(Pages)
      BY DEF BrowserInv, SlotInv, TasksInv, SlotTypes, DataInv, DataTypes
    <2>2. \A s \in registry : active[s] \in DOMAIN tabs[s]
      BY <2>1, PageSeqs DEF BrowserInv, DataInv, TabsInv
    <2>3. \A s, r \in registry :
              ToSet(tabs[r]) \cap ToSet(tabs[s]) # {} => r = s
      BY <2>1 DEF BrowserInv, DataInv, PagesInv
    <2>4. QED
      BY <2>2, <2>3 DEF ActiveTabExists
  <1>2. QED
    BY <1>1, BrowserAlways, PTL

----------------------------------------------------------------------------
(* A call keeps its tab.  Two things are needed: the lock is mutual        *)
(* exclusion on its session, whoever hands it over; and a page that        *)
(* somebody is about to close belongs to nobody.                           *)

(* The states a call is in only with the lock of its session.              *)
UnderLock == {"tabOpening", "tabLoading", "tabGoing", "working", "tabClosing",
              "closing"}

(* The session owns its tabs and what its calls have opened.               *)
Owns(s, p) ==
    \/ p \in ToSet(tabs[s])
    \/ \E t \in Tasks : Session(t) = s /\ p \in Fresh(t)

Closes(t) == IF pc[t] \in {"closing", "tabClosing"} THEN ToSet(held[t]) ELSE {}

Condemned(p) == p \in reaping \/ \E t \in Tasks : p \in Closes(t)

Once(q) == \A i, j \in 1 .. Len(q) : q[i] = q[j] => i = j

OwnersInv ==
    /\ \A p \in Pages : Condemned(p) => p < nextPage /\ \A s \in Ids : ~Owns(s, p)
    /\ \A s \in Ids, p \in Pages : Owns(s, p) => p \in open \/ crashed[s]

(* A call that needs its session still has it, or the session crashed.     *)
TaskInv(t) ==
    LET s == Session(t) IN
    /\ pc[t] \in UnderLock => lock[s] = t
    /\ pc[t] \in {"tabGoing", "working", "tabClosing"} => s \in registry \/ crashed[s]
    /\ pc[t] \in UnderLock \ {"working"} => op[t] \notin {"navigate", "act"}
    /\ pc[t] = "working" /\ op[t] \in {"navigate", "act"} =>
          crashed[s] \/ held[t] = <<ActivePage(s)>>
    /\ pc[t] \in {"loading", "tabLoading", "tabGoing"} => Len(held[t]) = 1

KeepsInv ==
    /\ OwnersInv
    /\ \A s \in Ids : Once(tabs[s])
    /\ \A t \in Tasks : TaskInv(t)
    /\ TabsExpectHolds

CallsKeepInv == BrowserInv /\ KeepsInv

LEMMA OncePages ==
    /\ Once(<<>>)
    /\ \A q \in Seq(Pages) : Len(q) = 1 =>
          Once(q) /\ q[1] \in Pages /\ q = <<q[1]>> /\ ToSet(q) = {q[1]}
  <1>1. Once(<<>>)
    BY PageSeqs DEF Once
  <1>2. ASSUME NEW q \in Seq(Pages), Len(q) = 1
        PROVE  Once(q) /\ q[1] \in Pages /\ q = <<q[1]>> /\ ToSet(q) = {q[1]}
    <2>1. q[1] \in Pages /\ DOMAIN q = 1 .. 1
      <3>1. DOMAIN q = 1 .. Len(q) /\ \A j \in 1 .. Len(q) : q[j] \in Pages
        BY PageSeqs
      <3> QED BY <1>2, <3>1
    <2>2. ToSet(q) = {q[1]}
      BY <2>1 DEF ToSet
    <2>3. Once(q)
      BY <1>2 DEF Once
    <2>4. q = <<q[1]>>
      <3>1. <<q[1]>> \in Seq(Pages) /\ Len(<<q[1]>>) = 1 /\ <<q[1]>>[1] = q[1]
        BY <2>1, PageSeqs
      <3>2. \A j \in 1 .. Len(q) : q[j] = <<q[1]>>[j]
        BY <1>2, <3>1
      <3> QED BY <1>2, <3>1, <3>2, SeqEqual
    <2> QED BY <2>1, <2>2, <2>3, <2>4
  <1> QED BY <1>1, <1>2

(* A new tab that was none leaves every page at one place.                 *)
LEMMA JoinOnce ==
    ASSUME NEW q \in Seq(Pages), Once(q), NEW r \in Seq(Pages), Len(r) = 1,
           r[1] \notin ToSet(q)
    PROVE  Once(q \o r)
  <1>1. /\ Len(q \o r) = Len(q) + 1 /\ Len(q) \in Nat
        /\ \A i \in 1 .. Len(q) + 1 :
              (q \o r)[i] = IF i <= Len(q) THEN q[i] ELSE r[i - Len(q)]
    <2>1. Len(q) \in Nat
      BY LenProperties
    <2>2. /\ Len(q \o r) = Len(q) + Len(r)
          /\ \A i \in 1 .. Len(q) + Len(r) :
                (q \o r)[i] = IF i <= Len(q) THEN q[i] ELSE r[i - Len(q)]
      BY ConcatProperties
    <2> QED BY <2>1, <2>2
  <1>2. \A i \in 1 .. Len(q) : (q \o r)[i] = q[i] /\ q[i] # r[1]
    BY <1>1, PageSeqs DEF ToSet
  <1>3. (q \o r)[Len(q) + 1] = r[1]
    BY <1>1
  <1>4. \A i \in 1 .. Len(q) + 1 : i \in 1 .. Len(q) \/ i = Len(q) + 1
    BY <1>1
  <1> QED BY <1>1, <1>2, <1>3, <1>4 DEF Once

(* A closed tab is a tab no more.                                          *)
LEMMA RemoveOnce ==
    ASSUME NEW q \in Seq(Pages), Once(q), NEW i \in 1 .. Len(q)
    PROVE  Once(RemoveAt(q, i)) /\ q[i] \notin ToSet(RemoveAt(q, i))
  <1> DEFINE left == RemoveAt(q, i)
             front == SubSeq(q, 1, i - 1)
             back == SubSeq(q, i + 1, Len(q))
             at(j) == IF j < i THEN j ELSE j + 1
  <1>1. Len(q) \in Nat /\ i \in Nat /\ 1 <= i /\ i <= Len(q)
    BY PageSeqs
  <1>2. left \in Seq(Pages) /\ Len(left) = Len(q) - 1 /\ DOMAIN left = 1 .. Len(q) - 1
    BY RemoveTab, PageSeqs
  <1>3. /\ front \in Seq(Pages) /\ Len(front) = i - 1
        /\ \A j \in 1 .. i - 1 : front[j] = q[j]
    <2>1. /\ front \in Seq(Pages)
          /\ Len(front) = IF 1 <= i - 1 THEN (i - 1) - 1 + 1 ELSE 0
          /\ \A j \in 1 .. (i - 1) - 1 + 1 : front[j] = q[1 + j - 1]
      BY <1>1, SubSeqProperties
    <2> QED BY <1>1, <2>1
  <1>4. /\ back \in Seq(Pages)
        /\ Len(back) = Len(q) - i
        /\ \A j \in 1 .. Len(q) - i : back[j] = q[i + j]
    <2>1. /\ back \in Seq(Pages)
          /\ Len(back)
                = IF i + 1 <= Len(q) THEN Len(q) - (i + 1) + 1 ELSE 0
          /\ \A j \in 1 .. Len(q) - (i + 1) + 1 :
                back[j] = q[(i + 1) + j - 1]
      BY <1>1, SubSeqProperties
    <2> QED BY <1>1, <2>1
  <1>5. left = front \o back
    BY DEF RemoveAt
  <1> HIDE DEF left, front, back
  <1>6. \A j \in 1 .. Len(q) - 1 : left[j] = q[at(j)]
    <2>1. \A j \in 1 .. (i - 1) + (Len(q) - i) :
             left[j] = IF j <= i - 1 THEN front[j]
                       ELSE back[j - (i - 1)]
      BY <1>3, <1>4, <1>5, ConcatProperties
    <2>2. ASSUME NEW j \in 1 .. Len(q) - 1 PROVE left[j] = q[at(j)]
      <3>1. j \in 1 .. (i - 1) + (Len(q) - i)
        BY <1>1
      <3>2. CASE j < i
        BY <1>1, <1>3, <2>1, <3>1, <3>2
      <3>3. CASE ~(j < i)
        <4>1. j - (i - 1) \in 1 .. Len(q) - i /\ i + (j - (i - 1)) = j + 1
          BY <1>1, <3>3
        <4>2. left[j] = q[i + (j - (i - 1))]
          BY <1>1, <1>4, <2>1, <3>1, <3>3, <4>1
        <4> QED BY <3>3, <4>1, <4>2
      <3> QED BY <3>2, <3>3
    <2> QED BY <2>2
  <1> HIDE DEF left
  <1>7. \A j \in 1 .. Len(q) - 1 : at(j) \in 1 .. Len(q) /\ at(j) # i
    BY <1>1
  <1>8. \A j, k \in 1 .. Len(q) - 1 : at(j) = at(k) => j = k
    BY <1>1
  <1> HIDE DEF at
  <1>9. Once(left)
    <2>1. \A j, k \in 1 .. Len(q) - 1 : left[j] = left[k] => at(j) = at(k)
      BY <1>6, <1>7 DEF Once
    <2> QED BY <1>2, <1>8, <2>1 DEF Once
  <1>10. q[i] \notin ToSet(left)
    <2>1. ASSUME NEW j \in 1 .. Len(q) - 1 PROVE left[j] # q[i]
      <3>1. left[j] = q[at(j)] /\ at(j) \in 1 .. Len(q) /\ at(j) # i
        BY <1>6, <1>7
      <3> QED BY <3>1 DEF Once
    <2>2. ToSet(left) = {left[j] : j \in DOMAIN left}
      BY DEF ToSet
    <2> QED BY <1>2, <2>1, <2>2
  <1> QED BY <1>9, <1>10 DEF left

----------------------------------------------------------------------------
(* Who owns which page.                                                    *)

LEMMA OwnedPages ==
    ASSUME BrowserInv
    PROVE  /\ \A s \in Ids : ToSet(tabs[s]) \subseteq Pages
           /\ \A t \in Tasks : /\ Session(t) \in Ids
                               /\ Fresh(t) \subseteq ToSet(held[t])
                               /\ ToSet(held[t]) \subseteq Pages
                               /\ Closes(t) \subseteq ToSet(held[t])
           /\ \A s \in Ids, p \in Pages : Owns(s, p) =>
                 p < nextPage /\ \A r \in Ids : Owns(r, p) => r = s
  <1>1. \A s \in Ids : ToSet(tabs[s]) \subseteq Pages
    BY PageSeqs DEF BrowserInv, DataInv, DataTypes
  <1>2. \A t \in Tasks : ToSet(held[t]) \subseteq Pages
    BY PageSeqs DEF BrowserInv, DataInv, DataTypes
  <1>3. \A t \in Tasks : Session(t) \in Ids
    BY DEF Tasks, Session
  <1>4. \A t \in Tasks : Fresh(t) \subseteq ToSet(held[t]) /\ Closes(t) \subseteq ToSet(held[t])
    BY DEF Fresh, Closes
  <1>5. ASSUME NEW s \in Ids, NEW p \in Pages, Owns(s, p)
        PROVE  p < nextPage /\ \A r \in Ids : Owns(r, p) => r = s
    <2>1. CASE p \in ToSet(tabs[s])
      BY <2>1 DEF Owns, BrowserInv, DataInv, PagesInv
    <2>2. CASE \E t \in Tasks : Session(t) = s /\ p \in Fresh(t)
      BY <2>2 DEF Owns, BrowserInv, DataInv, PagesInv
    <2> QED BY <1>5, <2>1, <2>2 DEF Owns
  <1> QED BY <1>1, <1>2, <1>3, <1>4, <1>5

(* A step that opens no page: nobody comes to own one, what is given up    *)
(* may be closed, and what is closed was owned by nobody.                  *)
NoNewOwner == \A s \in Ids, p \in Pages : Owns(s, p)' => Owns(s, p)

LEMMA OwnersKept ==
    ASSUME BrowserInv, OwnersInv, nextPage' = nextPage, NoNewOwner,
           \A s \in Ids : crashed[s] => crashed'[s],
           \A s \in Ids, p \in Pages :
               Owns(s, p)' /\ p \in open => p \in open' \/ crashed'[s],
           \A p \in Pages : Condemned(p)' =>
               \/ Condemned(p)
               \/ \E s \in Ids : Owns(s, p) /\ ~Owns(s, p)'
    PROVE  OwnersInv'
  <1>1. ASSUME NEW p \in Pages, Condemned(p)'
        PROVE  p < nextPage' /\ \A s \in Ids : ~Owns(s, p)'
    <2>1. CASE Condemned(p)
      BY <2>1 DEF OwnersInv, NoNewOwner
    <2>2. ASSUME NEW s \in Ids, Owns(s, p), ~Owns(s, p)'
          PROVE  p < nextPage' /\ \A r \in Ids : ~Owns(r, p)'
      BY <2>2, OwnedPages DEF NoNewOwner
    <2> QED BY <1>1, <2>1, <2>2
  <1>2. ASSUME NEW s \in Ids, NEW p \in Pages, Owns(s, p)'
        PROVE  p \in open' \/ crashed'[s]
    BY <1>2 DEF OwnersInv, NoNewOwner
  <1> QED BY <1>1, <1>2 DEF OwnersInv

----------------------------------------------------------------------------
(* What the other calls keep.                                              *)

(* Another call's step: t goes on as before, its lock stays, and so does   *)
(* its session, unless t is not under the lock.                            *)
LEMMA TaskKept ==
    ASSUME NEW t \in Tasks, TaskInv(t),
           pc'[t] = pc[t], op'[t] = op[t], held'[t] = held[t],
           pc[t] \in UnderLock => lock'[Session(t)] = lock[Session(t)],
           crashed[Session(t)] => crashed'[Session(t)],
           \/ pc[t] \notin UnderLock
           \/ crashed[Session(t)]
           \/ /\ Session(t) \in registry <=> Session(t) \in registry'
              /\ tabs'[Session(t)] = tabs[Session(t)]
              /\ active'[Session(t)] = active[Session(t)]
    PROVE  TaskInv(t)'
  BY DEF TaskInv, UnderLock, ActivePage, Session

LEMMA IdleTask ==
    ASSUME NEW t \in Tasks, pc'[t] \in {"idle", "waiting", "opening"}
    PROVE  TaskInv(t)'
  BY DEF TaskInv, UnderLock

(* The calls T end; the sessions stay as they are.                         *)
LEMMA TasksLeave ==
    ASSUME BrowserInv, NEW T \in SUBSET Tasks, Leave(T),
           \A t \in Tasks : TaskInv(t),
           UNCHANGED <<registry, tabs, active, crashed>>
    PROVE  \A t \in Tasks : TaskInv(t)'
  <1> SUFFICES ASSUME NEW t \in Tasks PROVE TaskInv(t)'
    OBVIOUS
  <1>1. CASE t \in T
    BY <1>1, IdleTask DEF Leave
  <1>2. CASE t \notin T
    <2>1. pc'[t] = pc[t] /\ op'[t] = op[t] /\ held'[t] = held[t] /\ Session(t) \in Ids
      BY <1>2, OwnedPages DEF Leave
    <2>2. pc[t] \in UnderLock => lock'[Session(t)] = lock[Session(t)]
      BY <1>2, <2>1 DEF TaskInv, Leave
    <2> QED BY <2>1, <2>2, TaskKept
  <1> QED BY <1>1, <1>2

LEMMA LeaveOwns ==
    ASSUME BrowserInv, NEW T \in SUBSET Tasks, Leave(T), tabs' = tabs,
           reaping' \subseteq reaping
    PROVE  /\ NoNewOwner
           /\ \A p \in Pages : Condemned(p)' => Condemned(p)
           /\ \A s \in Ids, p \in Pages, t \in T : p \in Fresh(t) => ~Owns(s, p)'
  <1>1. \A t \in Tasks : /\ Fresh(t)' = IF t \in T THEN {} ELSE Fresh(t)
                         /\ Closes(t)' = IF t \in T THEN {} ELSE Closes(t)
    <2> SUFFICES ASSUME NEW t \in Tasks
                 PROVE  /\ Fresh(t)' = IF t \in T THEN {} ELSE Fresh(t)
                        /\ Closes(t)' = IF t \in T THEN {} ELSE Closes(t)
      OBVIOUS
    <2>1. CASE t \in T
      BY <2>1, PageSeqs DEF Leave, Fresh, Closes
    <2>2. CASE t \notin T
      BY <2>2 DEF Leave, Fresh, Closes
    <2> QED BY <2>1, <2>2
  <1>2. NoNewOwner /\ \A p \in Pages : Condemned(p)' => Condemned(p)
    BY <1>1 DEF NoNewOwner, Owns, Condemned
  <1>3. ASSUME NEW s \in Ids, NEW p \in Pages, NEW t \in T, p \in Fresh(t)
        PROVE  ~Owns(s, p)'
    <2>1. p \notin ToSet(tabs[s]) /\ \A u \in Tasks : p \in Fresh(u) => u = t
      BY <1>3 DEF BrowserInv, DataInv, PagesInv
    <2> QED BY <1>1, <2>1 DEF Owns
  <1> QED BY <1>2, <1>3

LEMMA LeaveKeeps ==
    ASSUME CallsKeepInv, NEW T \in SUBSET Tasks, Leave(T),
           UNCHANGED <<registry, tabs, active, crashed, nextPage>>,
           reaping' \subseteq reaping, TabsExpectHolds',
           \A p \in open \ open' : Condemned(p) \/ \E t \in T : p \in Fresh(t),
           open \subseteq Pages
    PROVE  KeepsInv'
  <1> USE DEF CallsKeepInv, KeepsInv
  <1>1. \A t \in Tasks : TaskInv(t)'
    BY TasksLeave
  <1>2. OwnersInv'
    <2>1. /\ NoNewOwner
          /\ \A p \in Pages : Condemned(p)' => Condemned(p)
          /\ \A s \in Ids, p \in Pages, t \in T : p \in Fresh(t) => ~Owns(s, p)'
      BY LeaveOwns
    <2>2. \A s \in Ids, p \in Pages : Owns(s, p)' /\ p \in open => p \in open'
      BY <2>1 DEF NoNewOwner, OwnersInv
    <2> QED BY <2>1, <2>2, OwnersKept
  <1> QED BY <1>1, <1>2

----------------------------------------------------------------------------
(* The steps, for the calls.                                               *)

LEMMA InitKeeps == Init => KeepsInv
  <1> SUFFICES ASSUME Init PROVE KeepsInv
    OBVIOUS
  <1>1. \A p \in Pages : ~Condemned(p) /\ \A s \in Ids : ~Owns(s, p)
    BY PageSeqs DEF Init, Owns, Condemned, Fresh, Closes
  <1>2. OwnersInv
    BY <1>1 DEF OwnersInv
  <1>3. \A s \in Ids : Once(tabs[s])
    BY OncePages DEF Init
  <1>4. \A t \in Tasks : TaskInv(t)
    BY DEF Init, TaskInv, UnderLock
  <1>5. TabsExpectHolds
    BY DEF Init, TabsExpectHolds
  <1> QED BY <1>2, <1>3, <1>4, <1>5 DEF KeepsInv

(* Every way a call ends early, and the ends of work and of closing.       *)
LEMMA EndsKeep ==
    ASSUME CallsKeepInv, NEW t \in Tasks,
           OpenFails(t) \/ ListenFails(t) \/ LoadFails(t) \/ TabFails(t)
             \/ WorkFails(t)
    PROVE  KeepsInv'
  <1>1. /\ Leave({t}) /\ {t} \in SUBSET Tasks /\ open \subseteq Pages
        /\ UNCHANGED <<registry, tabs, active, crashed, nextPage, reaping, panics>>
    BY DEF OpenFails, ListenFails, LoadFails, TabFails, WorkFails, sessionVars,
           pageVars, CallsKeepInv, BrowserInv, DataInv, DataTypes
  <1>2. \A p \in open \ open' : p \in Fresh(t)
    BY DEF OpenFails, ListenFails, LoadFails, TabFails, WorkFails, pageVars, Fresh
  <1>3. TabsExpectHolds'
    BY <1>1 DEF TabsExpectHolds, CallsKeepInv, KeepsInv
  <1> QED BY <1>1, <1>2, <1>3, LeaveKeeps

LEMMA WorkDoneKeeps ==
    ASSUME CallsKeepInv, NEW t \in Tasks, WorkDone(t)
    PROVE  KeepsInv'
  <1>1. /\ pc[t] = "working" /\ open \subseteq Pages /\ open' = open
        /\ UNCHANGED <<registry, tabs, active, crashed, nextPage, reaping>>
        /\ {t} \in SUBSET Tasks /\ TasksOf(t[1]) \in SUBSET Tasks
    BY DEF WorkDone, pageVars, CallsKeepInv, BrowserInv, DataInv, DataTypes, TasksOf
  <1>2. Session(t) \in registry \/ crashed[Session(t)]
    BY <1>1 DEF CallsKeepInv, KeepsInv, TaskInv
  <1>3. CASE Panic(t, op[t]) /\ Session(t) \notin registry
    <2>1. panics' = panics \cup {<<op[t], Session(t)>>} /\ Leave(TasksOf(t[1]))
      BY <1>3 DEF Panic
    <2>2. TabsExpectHolds'
      BY <1>1, <1>2, <1>3, <2>1 DEF TabsExpectHolds, CallsKeepInv, KeepsInv
    <2> QED BY <1>1, <2>1, <2>2, LeaveKeeps
  <1>4. CASE Return(t)
    <2>1. Leave({t}) /\ panics' = panics
      BY <1>4 DEF Return
    <2>2. TabsExpectHolds'
      BY <1>1, <2>1 DEF TabsExpectHolds, CallsKeepInv, KeepsInv
    <2> QED BY <1>1, <2>1, <2>2, LeaveKeeps
  <1> QED BY <1>3, <1>4 DEF WorkDone

LEMMA TimeoutKeeps ==
    ASSUME CallsKeepInv, NEW l \in Lanes, Timeout(l)
    PROVE  KeepsInv'
  <1>1. /\ Leave(TasksOf(l)) /\ TasksOf(l) \in SUBSET Tasks /\ open' = open
        /\ open \subseteq Pages
        /\ UNCHANGED <<registry, tabs, active, crashed, nextPage, reaping, panics>>
    BY DEF Timeout, TasksOf, sessionVars, pageVars, CallsKeepInv, BrowserInv,
           DataInv, DataTypes
  <1>2. TabsExpectHolds'
    BY <1>1 DEF TabsExpectHolds, CallsKeepInv, KeepsInv
  <1> QED BY <1>1, <1>2, LeaveKeeps

LEMMA PageOpensKeeps ==
    ASSUME CallsKeepInv, NEW t \in Tasks, PageOpens(t)
    PROVE  KeepsInv'
  <1> USE DEF CallsKeepInv, KeepsInv
  <1>1. /\ pc[t] \in {"opening", "tabOpening"} /\ nextPage \in Pages
        /\ nextPage' = nextPage + 1 /\ nextPage \in Int
        /\ open' = open \cup {nextPage}
        /\ pc' = [pc EXCEPT ![t] = IF @ = "opening" THEN "loading" ELSE "tabLoading"]
        /\ held' = [held EXCEPT ![t] = <<nextPage>>]
        /\ UNCHANGED <<registry, tabs, active, crashed, lock, op, reaping, panics>>
    BY DEF PageOpens, sessionVars, Pages
  <1>2. pc \in [Tasks -> States] /\ held \in [Tasks -> Seq(Pages)] /\ Pages \subseteq Int
    BY DEF BrowserInv, SlotInv, TasksInv, SlotTypes, DataInv, DataTypes, Pages
  <1>3. ToSet(<<nextPage>>) = {nextPage} /\ Len(<<nextPage>>) = 1
    BY <1>1, PageSeqs
  <1>4. \A u \in Tasks : Fresh(u)' = (IF u = t THEN {nextPage} ELSE Fresh(u))
    BY <1>1, <1>2, <1>3 DEF Fresh
  <1>5. \A u \in Tasks : Closes(u)' = Closes(u)
    BY <1>1, <1>2 DEF Closes
  <1>6. \A s \in Ids, p \in Pages : Owns(s, p)' => Owns(s, p) \/ p = nextPage
    BY <1>1, <1>4 DEF Owns
  <1>7. \A p \in Pages : Condemned(p)' = Condemned(p)
    BY <1>1, <1>5 DEF Condemned
  <1>8. OwnersInv'
    <2>1. ASSUME NEW p \in Pages, Condemned(p)'
          PROVE  p < nextPage' /\ \A s \in Ids : ~Owns(s, p)'
      <3>1. p < nextPage /\ \A s \in Ids : ~Owns(s, p)
        BY <1>7, <2>1 DEF OwnersInv
      <3>2. p # nextPage /\ p < nextPage + 1
        BY <1>1, <1>2, <3>1
      <3> QED BY <1>1, <1>6, <3>1, <3>2
    <2>2. \A s \in Ids, p \in Pages : Owns(s, p)' => p \in open' \/ crashed'[s]
      BY <1>1, <1>6 DEF OwnersInv
    <2> QED BY <2>1, <2>2 DEF OwnersInv
  <1>9. ASSUME NEW u \in Tasks PROVE TaskInv(u)'
    <2>1. CASE u = t
      BY <1>1, <1>2, <1>3, <2>1 DEF TaskInv, UnderLock, Session
    <2>2. CASE u # t
      BY <1>1, <1>2, <2>2, TaskKept
    <2> QED BY <2>1, <2>2
  <1>10. TabsExpectHolds' /\ \A s \in Ids : Once(tabs'[s])
    BY <1>1 DEF TabsExpectHolds
  <1> QED BY <1>8, <1>9, <1>10

(* The session is inserted: nobody else has a call on its id.              *)
LEMMA LoadedKeeps ==
    ASSUME CallsKeepInv, NEW t \in Tasks, Loaded(t)
    PROVE  KeepsInv'
  <1> DEFINE s == Session(t)
  <1> USE DEF CallsKeepInv, KeepsInv
  <1>1. /\ pc[t] = "loading" /\ t \in Opening /\ s \in Ids
        /\ tabs' = [tabs EXCEPT ![s] = held[t]] /\ registry' = registry \cup {s}
        /\ Leave({t}) /\ {t} \in SUBSET Tasks
        /\ UNCHANGED <<active, crashed, open, nextPage, reaping, panics>>
    BY DEF Loaded, Opening, BrowserInv, SlotInv, TasksInv, NewIsOpening, Tasks,
           Session, pageVars
  <1>2. /\ tabs \in [Ids -> Seq(Pages)] /\ held[t] \in Seq(Pages) /\ Len(held[t]) = 1
        /\ Fresh(t) = ToSet(held[t])
    BY <1>1 DEF BrowserInv, DataInv, DataTypes, TaskInv, Fresh
  <1>3. tabs'[s] = held[t] /\ \A r \in Ids : r # s => tabs'[r] = tabs[r]
    BY <1>1, <1>2
  <1>4. \A u \in Tasks : /\ Fresh(u)' = IF u = t THEN {} ELSE Fresh(u)
                         /\ Closes(u)' = IF u = t THEN {} ELSE Closes(u)
    BY <1>1, PageSeqs DEF Leave, Fresh, Closes
  <1>5. NoNewOwner
    BY <1>2, <1>3, <1>4 DEF NoNewOwner, Owns
  <1>6. \A p \in Pages : Condemned(p)' => Condemned(p)
    BY <1>1, <1>4 DEF Condemned
  <1>7. OwnersInv'
    BY <1>1, <1>5, <1>6, OwnersKept
  <1>8. \A r \in Ids : Once(tabs'[r])
    BY <1>2, <1>3, OncePages
  <1>9. ASSUME NEW u \in Tasks PROVE TaskInv(u)'
    <2>1. CASE u = t
      BY <1>1, <2>1, IdleTask DEF Leave
    <2>2. CASE u # t /\ Session(u) = s
      <3>1. pc[u] = "idle"
        BY <1>1, <2>2 DEF BrowserInv, DataInv, IdsInv
      <3> QED BY <1>1, <2>2, <3>1, IdleTask DEF Leave
    <2>3. CASE u # t /\ Session(u) # s
      <3>1. pc'[u] = pc[u] /\ op'[u] = op[u] /\ held'[u] = held[u] /\ Session(u) \in Ids
        BY <1>1, <2>3, OwnedPages DEF Leave
      <3>2. pc[u] \in UnderLock => lock'[Session(u)] = lock[Session(u)]
        BY <1>1, <2>3, <3>1 DEF TaskInv, Leave
      <3>3. /\ Session(u) \in registry <=> Session(u) \in registry'
            /\ tabs'[Session(u)] = tabs[Session(u)] /\ active' = active
        BY <1>1, <1>3, <2>3, <3>1
      <3> QED BY <1>1, <3>1, <3>2, <3>3, TaskKept
    <2> QED BY <2>1, <2>2, <2>3
  <1>10. TabsExpectHolds'
    BY <1>1 DEF TabsExpectHolds
  <1> QED BY <1>7, <1>8, <1>9, <1>10

(* The page becomes the last tab of the session whose lock the call holds. *)
LEMMA TabLoadedKeeps ==
    ASSUME CallsKeepInv, NEW t \in Tasks, TabLoaded(t)
    PROVE  KeepsInv'
  <1> DEFINE s == Session(t)
  <1> USE DEF CallsKeepInv, KeepsInv
  <1>1. /\ pc[t] = "tabGoing" /\ s \in Ids /\ open \subseteq Pages
        /\ pc \in [Tasks -> States] /\ TasksOf(t[1]) \in SUBSET Tasks
        /\ UNCHANGED <<registry, crashed, open, nextPage, reaping>>
    BY DEF TabLoaded, Tasks, Session, pageVars, BrowserInv, SlotInv, TasksInv,
           SlotTypes, DataInv, DataTypes, TasksOf
  <1>2. /\ tabs \in [Ids -> Seq(Pages)] /\ active \in [Ids -> Nat]
        /\ tabs[s] \in Seq(Pages) /\ held[t] \in Seq(Pages)
        /\ Len(held[t]) = 1 /\ Fresh(t) = ToSet(held[t])
        /\ op[t] \notin {"navigate", "act"} /\ lock[s] = t
        /\ s \in registry \/ crashed[s]
    BY <1>1 DEF BrowserInv, DataInv, DataTypes, TaskInv, Fresh, UnderLock
  <1>3. CASE s \notin registry
    <2>1. /\ panics' = panics \cup {<<op[t], s>>} /\ Leave(TasksOf(t[1]))
          /\ tabs' = tabs /\ active' = active
      BY <1>3 DEF TabLoaded, Panic
    <2>2. TabsExpectHolds'
      BY <1>1, <1>2, <1>3, <2>1 DEF TabsExpectHolds
    <2> QED BY <1>1, <2>1, <2>2, LeaveKeeps
  <1>4. CASE s \in registry
    <2>1. /\ tabs' = [tabs EXCEPT ![s] = @ \o held[t]]
          /\ active' = [active EXCEPT ![s] = Len(tabs[s]) + 1]
          /\ pc' = [pc EXCEPT ![t] = "working"]
          /\ UNCHANGED <<lock, op, held, panics>>
      BY <1>4 DEF TabLoaded
    <2>2. /\ tabs'[s] = tabs[s] \o held[t]
          /\ \A r \in Ids : r # s => tabs'[r] = tabs[r] /\ active'[r] = active[r]
      BY <1>1, <1>2, <2>1
    <2>3. ToSet(tabs'[s]) \subseteq ToSet(tabs[s]) \cup Fresh(t)
      BY <1>2, <2>2, JoinTabs
    <2>4. \A u \in Tasks : Fresh(u)' = (IF u = t THEN {} ELSE Fresh(u))
      BY <1>1, <2>1 DEF Fresh
    <2>5. \A u \in Tasks : Closes(u)' = Closes(u)
      BY <1>1, <2>1 DEF Closes
    <2>6. NoNewOwner
      BY <2>2, <2>3, <2>4 DEF NoNewOwner, Owns
    <2>7. \A p \in Pages : Condemned(p)' => Condemned(p)
      BY <1>1, <2>5 DEF Condemned
    <2>8. OwnersInv'
      BY <1>1, <2>6, <2>7, OwnersKept
    <2>9. Once(tabs'[s])
      <3>1. held[t][1] \in ToSet(held[t])
        BY <1>2, OncePages
      <3>2. held[t][1] \notin ToSet(tabs[s])
        BY <1>1, <1>2, <3>1 DEF BrowserInv, DataInv, PagesInv
      <3> QED BY <1>1, <1>2, <2>2, <3>2, JoinOnce
    <2>10. ASSUME NEW u \in Tasks PROVE TaskInv(u)'
      <3>1. CASE u = t
        BY <1>1, <1>2, <1>4, <2>1, <3>1 DEF TaskInv, UnderLock, Session
      <3>2. CASE u # t /\ Session(u) = s
        <4>1. pc[u] \notin UnderLock
          BY <1>2, <3>2 DEF TaskInv
        <4> QED BY <1>1, <2>1, <3>2, <4>1, TaskKept
      <3>3. CASE Session(u) # s
        <4>1. u # t /\ Session(u) \in Ids
          BY <3>3, OwnedPages
        <4> QED BY <1>1, <2>1, <2>2, <3>3, <4>1, TaskKept
      <3> QED BY <3>1, <3>2, <3>3
    <2>11. TabsExpectHolds'
      BY <1>1, <2>1 DEF TabsExpectHolds
    <2> QED BY <2>2, <2>8, <2>9, <2>10, <2>11
  <1> QED BY <1>3, <1>4

(* A call that goes on to its next await and touches no session.           *)
LEMMA GoesOnKeeps ==
    ASSUME CallsKeepInv, NEW t \in Tasks, TaskInv(t)',
           \A u \in Tasks : u # t =>
               pc'[u] = pc[u] /\ op'[u] = op[u] /\ held'[u] = held[u],
           lock' = lock,
           UNCHANGED <<registry, tabs, active, crashed, nextPage, reaping, panics>>,
           Fresh(t)' \subseteq Fresh(t), Closes(t)' \subseteq Closes(t),
           \A p \in open \ open' : Condemned(p), open \subseteq Pages
    PROVE  KeepsInv'
  <1> USE DEF CallsKeepInv, KeepsInv
  <1>1. \A u \in Tasks : TaskInv(u)'
    BY TaskKept
  <1>2. \A u \in Tasks : Fresh(u)' \subseteq Fresh(u) /\ Closes(u)' \subseteq Closes(u)
    BY DEF Fresh, Closes
  <1>3. NoNewOwner /\ \A p \in Pages : Condemned(p)' => Condemned(p)
    BY <1>2 DEF NoNewOwner, Owns, Condemned
  <1>4. OwnersInv'
    <2>1. \A s \in Ids, p \in Pages : Owns(s, p)' /\ p \in open => p \in open'
      BY <1>3 DEF NoNewOwner, OwnersInv
    <2> QED BY <1>3, <2>1, OwnersKept
  <1>5. TabsExpectHolds'
    BY DEF TabsExpectHolds
  <1> QED BY <1>1, <1>4, <1>5

LEMMA TabCheckedKeeps ==
    ASSUME CallsKeepInv, NEW t \in Tasks, TabChecked(t)
    PROVE  KeepsInv'
  <1>1. /\ pc[t] = "tabLoading" /\ Session(t) \in registry
        /\ pc' = [pc EXCEPT ![t] = "tabGoing"] /\ pc \in [Tasks -> States]
        /\ UNCHANGED <<registry, tabs, active, crashed, lock, op, held, open,
                       nextPage, reaping, panics>>
        /\ open \subseteq Pages
    BY DEF TabChecked, sessionVars, pageVars, CallsKeepInv, BrowserInv, SlotInv,
           TasksInv, SlotTypes, DataInv, DataTypes
  <1>2. TaskInv(t)
    BY DEF CallsKeepInv, KeepsInv
  <1>3. TaskInv(t)'
    BY <1>1, <1>2 DEF TaskInv, UnderLock, Session
  <1>4. Fresh(t)' \subseteq Fresh(t) /\ Closes(t)' \subseteq Closes(t)
    BY <1>1 DEF Fresh, Closes
  <1> QED BY <1>1, <1>3, <1>4, GoesOnKeeps

LEMMA ClosePageKeeps ==
    ASSUME CallsKeepInv, NEW t \in Tasks, ClosePage(t)
    PROVE  KeepsInv'
  <1>1. /\ pc[t] \in {"closing", "tabClosing"} /\ open' = open \ {Head(held[t])}
        /\ UNCHANGED <<registry, tabs, active, crashed, nextPage, reaping, panics>>
        /\ open \subseteq Pages /\ pc \in [Tasks -> States]
        /\ held \in [Tasks -> Seq(Pages)] /\ held[t] \in Seq(Pages)
        /\ held[t] # <<>>
    BY DEF ClosePage, sessionVars, CallsKeepInv, BrowserInv, SlotInv, TasksInv,
           SlotTypes, DataInv, DataTypes, CallsInv
  <1>2. Head(held[t]) \in Closes(t) /\ TaskInv(t)
    <2>1. Head(held[t]) = held[t][1] /\ 1 \in DOMAIN held[t]
      BY <1>1, PageSeqs
    <2> QED BY <1>1, <2>1 DEF Closes, ToSet, CallsKeepInv, KeepsInv
  <1>3. \A p \in open \ open' : Condemned(p)
    BY <1>1, <1>2 DEF Condemned
  <1>4. CASE Leave({t})
    <2>1. TabsExpectHolds' /\ {t} \in SUBSET Tasks
      BY <1>1 DEF TabsExpectHolds, CallsKeepInv, KeepsInv
    <2> QED BY <1>1, <1>3, <1>4, <2>1, LeaveKeeps
  <1>5. CASE /\ pc[t] = "tabClosing" /\ pc' = [pc EXCEPT ![t] = "working"]
             /\ UNCHANGED <<lock, op, held>>
    <2>1. TaskInv(t)'
      BY <1>1, <1>2, <1>5 DEF TaskInv, UnderLock, Session
    <2>2. Fresh(t)' = {} /\ Closes(t)' = {}
      BY <1>1, <1>5 DEF Fresh, Closes
    <2> QED BY <1>1, <1>3, <1>5, <2>1, <2>2, GoesOnKeeps
  <1>6. CASE /\ pc[t] = "closing" /\ Len(held[t]) # 1
             /\ held' = [held EXCEPT ![t] = Tail(@)]
             /\ UNCHANGED <<lock, op, pc>>
    <2>1. held'[t] = Tail(held[t]) /\ \A u \in Tasks : u # t => held'[u] = held[u]
      BY <1>1, <1>6
    <2>2. TaskInv(t)'
      BY <1>1, <1>2, <1>6 DEF TaskInv, UnderLock, Session
    <2>3. ToSet(Tail(held[t])) \subseteq ToSet(held[t])
      <3>1. /\ Tail(held[t]) \in Seq(Pages) /\ Len(Tail(held[t])) = Len(held[t]) - 1
            /\ \A i \in 1 .. Len(Tail(held[t])) : Tail(held[t])[i] = held[t][i + 1]
        BY <1>1, HeadTailProperties
      <3>2. Len(held[t]) \in Nat /\ DOMAIN held[t] = 1 .. Len(held[t])
            /\ DOMAIN Tail(held[t]) = 1 .. Len(Tail(held[t]))
        BY <1>1, <3>1, PageSeqs
      <3> QED BY <3>1, <3>2 DEF ToSet
    <2>4. Fresh(t)' \subseteq Fresh(t) /\ Closes(t)' \subseteq Closes(t)
      BY <1>6, <2>1, <2>3 DEF Fresh, Closes
    <2> QED BY <1>1, <1>3, <1>6, <2>1, <2>2, <2>4, GoesOnKeeps
  <1> QED BY <1>1, <1>4, <1>5, <1>6 DEF ClosePage

(* A call takes the lock: no other call of the session is under it.        *)
LEMMA ProceedKeeps ==
    ASSUME CallsKeepInv, NEW t \in Tasks, NEW o, NEW s \in Ids, s = Session(t),
           lock[s] \in {NoTask, t}, pc[t] \in {"idle", "waiting"},
           NEW state \in {"working", "tabOpening", "tabClosing", "closing"},
           NEW pages, Proceed(t, o, state, pages),
           \A r \in Ids : r # s => /\ r \in registry <=> r \in registry'
                                   /\ tabs'[r] = tabs[r] /\ active'[r] = active[r],
           ToSet(tabs'[s]) \subseteq ToSet(tabs[s]), Once(tabs'[s]),
           state \in {"tabClosing", "closing"} =>
               ToSet(pages) \subseteq ToSet(tabs[s]) \ ToSet(tabs'[s]),
           state \in {"working", "tabClosing"} => s \in registry',
           state # "working" => o \notin {"navigate", "act"},
           o \in {"navigate", "act"} => pages = <<tabs'[s][active'[s]]>>,
           UNCHANGED <<crashed, open, nextPage, reaping>>
    PROVE  KeepsInv'
  <1> USE DEF CallsKeepInv, KeepsInv
  <1>1. /\ pc \in [Tasks -> States] /\ held \in [Tasks -> Seq(Pages)]
        /\ op \in [Tasks -> Ops \cup {"new", "none"}]
        /\ lock \in [Ids -> Tasks \cup {NoTask}]
        /\ pc' = [pc EXCEPT ![t] = state] /\ op' = [op EXCEPT ![t] = o]
        /\ held' = [held EXCEPT ![t] = pages] /\ lock' = [lock EXCEPT ![s] = t]
        /\ panics' = panics
    BY DEF Proceed, BrowserInv, SlotInv, TasksInv, SlotTypes, DataInv, DataTypes
  <1>2. /\ \A u \in Tasks : Fresh(u)' \subseteq Fresh(u)
        /\ Closes(t)' \subseteq ToSet(tabs[s]) \ ToSet(tabs'[s])
        /\ \A u \in Tasks : u # t => Closes(u)' = Closes(u)
    <2>1. \A u \in Tasks : u # t => Fresh(u)' = Fresh(u) /\ Closes(u)' = Closes(u)
      BY <1>1 DEF Fresh, Closes
    <2>2. Fresh(t)' = {}
      BY <1>1 DEF Fresh
    <2>3. Closes(t)' \subseteq ToSet(tabs[s]) \ ToSet(tabs'[s])
      BY <1>1 DEF Closes
    <2> QED BY <2>1, <2>2, <2>3
  <1>3. NoNewOwner
    BY <1>2 DEF NoNewOwner, Owns
  <1>4. ASSUME NEW p \in Pages, Condemned(p)'
        PROVE  Condemned(p) \/ \E r \in Ids : Owns(r, p) /\ ~Owns(r, p)'
    <2>1. CASE p \in ToSet(tabs[s]) \ ToSet(tabs'[s])
      <3>1. \A u \in Tasks : p \notin Fresh(u)'
        BY <1>2, <2>1 DEF BrowserInv, DataInv, PagesInv
      <3> QED BY <2>1, <3>1 DEF Owns
    <2>2. CASE p \notin ToSet(tabs[s]) \ ToSet(tabs'[s])
      BY <1>2, <1>4, <2>2 DEF Condemned
    <2> QED BY <2>1, <2>2
  <1>5. OwnersInv'
    BY <1>3, <1>4, OwnersKept
  <1>6. \A r \in Ids : Once(tabs'[r])
    BY DEF Once
  <1>7. ASSUME NEW u \in Tasks PROVE TaskInv(u)'
    <2>1. CASE u = t
      BY <1>1, <2>1 DEF TaskInv, UnderLock, Session, ActivePage
    <2>2. CASE u # t /\ Session(u) = s
      <3>1. pc[u] \notin UnderLock
        BY <2>2, NotATask DEF TaskInv
      <3> QED BY <1>1, <2>2, <3>1, TaskKept
    <2>3. CASE Session(u) # s
      <3>1. u # t /\ Session(u) \in Ids
        BY <2>3, OwnedPages
      <3> QED BY <1>1, <2>3, <3>1, TaskKept
    <2> QED BY <2>1, <2>2, <2>3
  <1>8. TabsExpectHolds'
    BY <1>1 DEF TabsExpectHolds
  <1> QED BY <1>5, <1>6, <1>7, <1>8

LEMMA EnterKeeps ==
    ASSUME CallsKeepInv, NEW t \in Tasks, NEW o \in Ops, Enter(t, o),
           lock[Session(t)] \in {NoTask, t}, pc[t] \in {"idle", "waiting"},
           UNCHANGED <<crashed, open, nextPage, reaping>>
    PROVE  KeepsInv'
  <1> DEFINE s == Session(t)
  <1>1. /\ s \in Ids /\ open \subseteq Pages /\ registry \subseteq Ids
        /\ {t} \in SUBSET Tasks /\ TasksOf(t[1]) \in SUBSET Tasks
        /\ tabs \in [Ids -> Seq(Pages)] /\ tabs[s] \in Seq(Pages)
        /\ active \in [Ids -> Nat]
        /\ Once(tabs[s]) /\ TabsInv /\ TabsExpectHolds
    BY DEF CallsKeepInv, BrowserInv, SlotInv, TasksInv, SlotTypes, DataInv,
           DataTypes, Tasks, Session, TasksOf, KeepsInv
  <1>2. CASE EnterRefused(t, o)
    <2>1. /\ Leave({t}) /\ panics' = panics
          /\ UNCHANGED <<registry, tabs, active>>
      BY <1>2 DEF EnterRefused, Return
    <2>2. TabsExpectHolds'
      BY <1>1, <2>1 DEF TabsExpectHolds
    <2> QED BY <1>1, <2>1, <2>2, LeaveKeeps
  <1>3. CASE EnterClose(t, o) /\ s \notin registry
    <2>1. /\ Leave(TasksOf(t[1])) /\ panics' = panics \cup {<<o, s>>}
          /\ UNCHANGED <<registry, tabs, active>> /\ o \notin TabOps
      BY <1>3 DEF EnterClose, Panic, TabOps
    <2>2. TabsExpectHolds'
      BY <1>1, <2>1 DEF TabsExpectHolds
    <2> QED BY <1>1, <2>1, <2>2, LeaveKeeps
  <1>4. CASE ~Refuses(o, s) /\ (EnterNavigate(t, o) \/ EnterAct(t, o))
    <2>1. /\ s \in registry /\ UNCHANGED <<registry, tabs, active>>
          /\ Proceed(t, o, "working", <<tabs'[s][active'[s]]>>)
      BY <1>4 DEF Refuses, EnterNavigate, EnterAct, ActivePage
    <2> QED BY <1>1, <2>1, ProceedKeeps
  <1>5. CASE EnterTabNew(t, o)
    <2>1. /\ UNCHANGED <<registry, tabs, active>> /\ o \notin {"navigate", "act"}
          /\ Proceed(t, o, "tabOpening", <<>>)
      BY <1>5 DEF EnterTabNew
    <2> QED BY <1>1, <2>1, ProceedKeeps
  <1>6. CASE ~Refuses(o, s) /\ EnterTabSelect(t, o)
    <2>1. PICK i \in DOMAIN tabs[s] :
              /\ active' = [active EXCEPT ![s] = i]
              /\ Proceed(t, o, "working", <<tabs[s][i]>>)
      BY <1>6 DEF EnterTabSelect
    <2>2. /\ s \in registry /\ UNCHANGED <<registry, tabs>>
          /\ o \notin {"navigate", "act"}
          /\ \A r \in Ids : r # s => active'[r] = active[r]
      BY <1>1, <1>6, <2>1 DEF Refuses, EnterTabSelect
    <2> QED BY <1>1, <2>1, <2>2, ProceedKeeps
  <1>7. CASE ~Refuses(o, s) /\ EnterTabClose(t, o)
    <2>1. PICK i \in DOMAIN tabs[s] :
              /\ tabs' = [tabs EXCEPT ![s] = RemoveAt(@, i)]
              /\ active' = [active EXCEPT ![s] = NewActive(i, @, Len(tabs[s]) - 1)]
              /\ Proceed(t, o, "tabClosing", <<tabs[s][i]>>)
      BY <1>7 DEF EnterTabClose
    <2>2. /\ s \in registry /\ registry' = registry
          /\ o \notin {"navigate", "act"}
          /\ \A r \in Ids : r # s => active'[r] = active[r] /\ tabs'[r] = tabs[r]
      BY <1>1, <1>7, <2>1 DEF Refuses, EnterTabClose
    <2>3. i \in 1 .. Len(tabs[s]) /\ tabs[s][i] \in ToSet(tabs[s])
          /\ ToSet(<<tabs[s][i]>>) = {tabs[s][i]}
      BY <1>1, PageSeqs DEF ToSet
    <2>4. /\ tabs'[s] = RemoveAt(tabs[s], i) /\ Once(tabs'[s])
          /\ ToSet(tabs'[s]) \subseteq ToSet(tabs[s])
          /\ tabs[s][i] \notin ToSet(tabs'[s])
      <3>1. /\ Once(RemoveAt(tabs[s], i)) /\ tabs[s][i] \notin ToSet(RemoveAt(tabs[s], i))
            /\ ToSet(RemoveAt(tabs[s], i)) \subseteq ToSet(tabs[s])
        BY <1>1, <2>3, RemoveOnce, RemoveTab
      <3>2. tabs'[s] = RemoveAt(tabs[s], i)
        BY <1>1, <2>1
      <3> QED BY <3>1, <3>2
    <2>5. PICK pages : pages = <<tabs[s][i]>>
      OBVIOUS
    <2>6. /\ Proceed(t, o, "tabClosing", pages)
          /\ ToSet(tabs'[s]) \subseteq ToSet(tabs[s]) /\ Once(tabs'[s])
          /\ ToSet(pages) \subseteq ToSet(tabs[s]) \ ToSet(tabs'[s])
      BY <2>1, <2>3, <2>4, <2>5
    <2>7. /\ \A r \in Ids : r # s => /\ r \in registry <=> r \in registry'
                                    /\ tabs'[r] = tabs[r] /\ active'[r] = active[r]
          /\ s \in registry'
      BY <2>2
    <2> QED BY <1>1, <2>2, <2>6, <2>7, ProceedKeeps
  <1>8. CASE EnterClose(t, o) /\ s \in registry
    <2>1. /\ registry' = registry \ {s} /\ tabs' = [tabs EXCEPT ![s] = <<>>]
          /\ active' = active /\ Proceed(t, o, "closing", tabs[s])
          /\ o \notin {"navigate", "act"}
      BY <1>8 DEF EnterClose, Removed
    <2>2. /\ tabs'[s] = <<>> /\ Once(tabs'[s]) /\ ToSet(tabs'[s]) = {}
          /\ \A r \in Ids : r # s => /\ tabs'[r] = tabs[r]
                                     /\ r \in registry <=> r \in registry'
      BY <1>1, <2>1, PageSeqs, OncePages
    <2> QED BY <1>1, <2>1, <2>2, ProceedKeeps
  <1> QED BY <1>2, <1>3, <1>4, <1>5, <1>6, <1>7, <1>8 DEF Enter

LEMMA BeginKeeps ==
    ASSUME CallsKeepInv, NEW l \in Lanes, NEW s \in Ids, NEW o \in Ops, Begin(l, s, o)
    PROVE  KeepsInv'
  <1> DEFINE t == <<l, s>>
  <1>1. /\ t \in Tasks /\ Session(t) = s /\ pc[t] = "idle"
        /\ UNCHANGED <<crashed, open, nextPage, reaping>> /\ open \subseteq Pages
        /\ pc \in [Tasks -> States] /\ op \in [Tasks -> Ops \cup {"new", "none"}]
    BY FreeLane DEF Begin, CallsKeepInv, BrowserInv, SlotInv, TasksInv, SlotTypes,
       pageVars, DataInv, DataTypes
  <1>2. CASE lock[s] = NoTask
    <2>1. Enter(t, o)
      BY <1>2 DEF Begin
    <2> QED BY <1>1, <1>2, <2>1, EnterKeeps
  <1>3. CASE lock[s] # NoTask
    <2>1. /\ pc' = [pc EXCEPT ![t] = "waiting"] /\ op' = [op EXCEPT ![t] = o]
          /\ UNCHANGED <<registry, tabs, active, lock, held, panics>>
      BY <1>3 DEF Begin
    <2> HIDE DEF t
    <2>2. TaskInv(t)'
      BY <1>1, <2>1, IdleTask
    <2>3. Fresh(t)' = {} /\ Closes(t)' = {}
      BY <1>1, <2>1 DEF Fresh, Closes
    <2> QED BY <1>1, <2>1, <2>2, <2>3, GoesOnKeeps
  <1> QED BY <1>2, <1>3

LEMMA ResumeKeeps ==
    ASSUME CallsKeepInv, NEW t \in Tasks, Resume(t)
    PROVE  KeepsInv'
  <1>1. /\ pc[t] = "waiting" /\ lock[Session(t)] = t /\ Enter(t, op[t])
        /\ UNCHANGED <<crashed, open, nextPage, reaping>>
    BY DEF Resume, Granted, pageVars
  <1>2. op[t] \in Ops
    BY <1>1 DEF CallsKeepInv, BrowserInv, SlotInv, TasksInv, NewIsOpening, DataInv,
       CallsInv, SlotTypes
  <1> QED BY <1>1, <1>2, EnterKeeps

LEMMA NavigateNewKeeps ==
    ASSUME CallsKeepInv, NEW l \in Lanes, NavigateNew(l)
    PROVE  KeepsInv'
  <1>1. PICK t \in Tasks :
        /\ pc[t] = "idle"
        /\ pc \in [Tasks -> States] /\ op \in [Tasks -> Ops \cup {"new", "none"}]
        /\ pc' = [pc EXCEPT ![t] = "opening"] /\ op' = [op EXCEPT ![t] = "new"]
        /\ UNCHANGED <<registry, tabs, active, crashed, lock, held, open, nextPage,
                       reaping, panics>>
        /\ open \subseteq Pages
    BY FreeLane DEF NavigateNew, sessionVars, pageVars, CallsKeepInv, BrowserInv,
       SlotInv, TasksInv, SlotTypes, DataInv, DataTypes
  <1>2. TaskInv(t)'
    BY <1>1, IdleTask
  <1>3. Fresh(t)' = {} /\ Closes(t)' = {}
    BY <1>1 DEF Fresh, Closes
  <1> QED BY <1>1, <1>2, <1>3, GoesOnKeeps

(* The free sessions go, with their lock; whoever holds one stays.         *)
LEMMA CloseAllKeeps ==
    ASSUME CallsKeepInv, NEW l \in Lanes, CloseAll(l)
    PROVE  KeepsInv'
  <1> DEFINE free == {s \in registry : ~crashed[s] /\ lock[s] = NoTask}
             busy == {s \in registry : ~crashed[s] /\ lock[s] # NoTask}
  <1> USE DEF CallsKeepInv, KeepsInv
  <1>1. /\ free \subseteq registry /\ busy \subseteq registry
        /\ free \cap busy = {} /\ registry \subseteq Ids /\ LaneFree(l)
        /\ \A s \in free : lock[s] = NoTask
        /\ \A s \in registry : s \in free \/ s \in busy \/ crashed[s]
    BY DEF CloseAll, BrowserInv, SlotInv, TasksInv, SlotTypes, DataInv, DataTypes
  <1>2. /\ registry' = busy
        /\ tabs' = [s \in Ids |-> IF s \in busy THEN tabs[s] ELSE <<>>]
        /\ lock' = [s \in Ids |-> IF s \in free THEN <<l, s>> ELSE lock[s]]
        /\ pc' = [t \in Tasks |->
                    IF t[1] = l /\ Session(t) \in free THEN "closing"
                    ELSE IF t[1] = l /\ Session(t) \in busy THEN "waiting"
                    ELSE pc[t]]
        /\ op' = [t \in Tasks |->
                    IF t[1] = l /\ Session(t) \in free \cup busy THEN "close"
                    ELSE op[t]]
        /\ held' = [t \in Tasks |->
                      IF t[1] = l /\ Session(t) \in free THEN tabs[Session(t)]
                      ELSE held[t]]
        /\ UNCHANGED <<active, crashed, open, nextPage, reaping, panics>>
    BY DEF CloseAll, pageVars
  <1> HIDE DEF free, busy
  <1>3. /\ \A t \in Tasks : Session(t) \in Ids /\ t = <<t[1], Session(t)>>
        /\ \A t \in Tasks : t[1] = l => pc[t] = "idle"
    BY <1>1 DEF Tasks, Session, LaneFree, TasksOf
  <1>4. \A u \in Tasks :
            IF u[1] = l /\ Session(u) \in free
            THEN Fresh(u)' = {} /\ Closes(u)' = ToSet(tabs[Session(u)])
            ELSE Fresh(u)' \subseteq Fresh(u) /\ Closes(u)' \subseteq Closes(u)
    BY <1>2, <1>3 DEF Fresh, Closes
  <1>5. \A s \in Ids : ToSet(tabs'[s]) = IF s \in busy THEN ToSet(tabs[s]) ELSE {}
    BY <1>2, PageSeqs
  <1>6. NoNewOwner
    BY <1>4, <1>5 DEF NoNewOwner, Owns
  <1>7. ASSUME NEW p \in Pages, Condemned(p)'
        PROVE  Condemned(p) \/ \E s \in Ids : Owns(s, p) /\ ~Owns(s, p)'
    <2>1. CASE \E s \in free : p \in ToSet(tabs[s])
      <3>1. PICK s \in free : p \in ToSet(tabs[s])
        BY <2>1
      <3>2. \A u \in Tasks : p \notin Fresh(u)'
        BY <1>1, <1>4, <3>1 DEF BrowserInv, DataInv, PagesInv
      <3>3. p \notin ToSet(tabs'[s])
        BY <1>1, <1>5, <3>1
      <3> QED BY <1>1, <3>1, <3>2, <3>3 DEF Owns
    <2>2. CASE \A s \in free : p \notin ToSet(tabs[s])
      BY <1>2, <1>4, <1>7, <2>2 DEF Condemned
    <2> QED BY <2>1, <2>2
  <1>8. OwnersInv'
    BY <1>2, <1>6, <1>7, OwnersKept
  <1>9. \A s \in Ids : Once(tabs'[s])
    BY <1>2, OncePages
  <1>10. ASSUME NEW u \in Tasks PROVE TaskInv(u)'
    <2>1. CASE u[1] = l /\ Session(u) \in free
      BY <1>2, <1>3, <2>1 DEF TaskInv, UnderLock, Session
    <2>2. CASE u[1] = l /\ Session(u) \in busy
      <3>1. Session(u) \notin free
        BY <1>1, <2>2
      <3>2. pc'[u] = "waiting"
        BY <1>2, <2>2, <3>1
      <3> QED BY <3>2, IdleTask
    <2>3. CASE u[1] = l /\ Session(u) \notin free \cup busy
      BY <1>2, <1>3, <2>3, IdleTask
    <2>4. CASE u[1] # l
      <3>1. pc'[u] = pc[u] /\ op'[u] = op[u] /\ held'[u] = held[u] /\ Session(u) \in Ids
        BY <1>2, <1>3, <2>4
      <3>2. CASE Session(u) \in free
        <4>1. pc[u] \notin UnderLock
          BY <1>1, <3>2, NotATask DEF TaskInv
        <4> QED BY <1>2, <3>1, <4>1, TaskKept
      <3>3. CASE Session(u) \notin free
        <4>1. lock'[Session(u)] = lock[Session(u)]
          BY <1>2, <3>1, <3>3
        <4>2. CASE crashed[Session(u)]
          BY <1>2, <3>1, <4>1, <4>2, TaskKept
        <4>3. CASE ~crashed[Session(u)]
          <5>1. Session(u) \in registry <=> Session(u) \in busy
            BY <1>1, <3>3, <4>3
          <5>2. tabs'[Session(u)] = tabs[Session(u)]
            BY <1>2, <3>1, <5>1 DEF BrowserInv, DataInv, TabsInv
          <5> QED BY <1>2, <3>1, <4>1, <5>1, <5>2, TaskKept
        <4> QED BY <4>2, <4>3
      <3> QED BY <3>2, <3>3
    <2> QED BY <2>1, <2>2, <2>3, <2>4
  <1>11. TabsExpectHolds'
    BY <1>2 DEF TabsExpectHolds
  <1> QED BY <1>8, <1>9, <1>10, <1>11

(* Sessions are removed that crashed or whose lock is free, and the reaper *)
(* is left with nothing but their pages.                                   *)
LEMMA RemovalKeeps ==
    ASSUME CallsKeepInv, NEW E \in SUBSET Ids,
           \A s \in E : crashed[s] \/ lock[s] = NoTask,
           registry' = registry \ E,
           tabs' = [s \in Ids |-> IF s \in E THEN <<>> ELSE tabs[s]],
           \A p \in reaping' : p \in reaping \/ \E s \in E : p \in ToSet(tabs[s]),
           UNCHANGED <<active, crashed, lock, pc, op, held, open, nextPage, panics>>
    PROVE  KeepsInv'
  <1> USE DEF CallsKeepInv, KeepsInv
  <1>1. \A u \in Tasks : Fresh(u)' = Fresh(u) /\ Closes(u)' = Closes(u)
    BY DEF Fresh, Closes
  <1>2. \A s \in Ids : ToSet(tabs'[s]) = IF s \in E THEN {} ELSE ToSet(tabs[s])
    BY PageSeqs
  <1>3. NoNewOwner
    BY <1>1, <1>2 DEF NoNewOwner, Owns
  <1>4. ASSUME NEW p \in Pages, Condemned(p)'
        PROVE  Condemned(p) \/ \E s \in Ids : Owns(s, p) /\ ~Owns(s, p)'
    <2>1. CASE \E s \in E : p \in ToSet(tabs[s])
      <3>1. PICK s \in E : p \in ToSet(tabs[s])
        BY <2>1
      <3>2. p \notin ToSet(tabs'[s]) /\ \A u \in Tasks : p \notin Fresh(u)'
        BY <1>1, <1>2, <3>1 DEF BrowserInv, DataInv, PagesInv
      <3> QED BY <3>1, <3>2 DEF Owns
    <2>2. CASE \A s \in E : p \notin ToSet(tabs[s])
      BY <1>1, <1>4, <2>2 DEF Condemned
    <2> QED BY <2>1, <2>2
  <1>5. OwnersInv'
    BY <1>3, <1>4, OwnersKept
  <1>6. \A s \in Ids : Once(tabs'[s])
    BY OncePages
  <1>7. ASSUME NEW u \in Tasks PROVE TaskInv(u)'
    <2>1. Session(u) \in Ids
      BY OwnedPages
    <2>2. CASE Session(u) \in E /\ ~crashed[Session(u)]
      <3>1. pc[u] \notin UnderLock
        BY <2>2, NotATask DEF TaskInv
      <3> QED BY <3>1, TaskKept
    <2>3. CASE crashed[Session(u)]
      BY <2>3, TaskKept
    <2>4. CASE Session(u) \notin E
      <3>1. /\ Session(u) \in registry <=> Session(u) \in registry'
            /\ tabs'[Session(u)] = tabs[Session(u)]
        BY <2>1, <2>4
      <3> QED BY <3>1, TaskKept
    <2> QED BY <2>2, <2>3, <2>4
  <1>8. TabsExpectHolds'
    BY DEF TabsExpectHolds
  <1> QED BY <1>5, <1>6, <1>7, <1>8

LEMMA TouchCrashedKeeps ==
    ASSUME CallsKeepInv, NEW l \in Lanes, NEW s \in Ids, TouchCrashed(l, s)
    PROVE  KeepsInv'
  <1>1. /\ registry' = registry \ {s} /\ tabs' = [tabs EXCEPT ![s] = <<>>]
        /\ tabs \in [Ids -> Seq(Pages)] /\ crashed[s] /\ reaping' = reaping
        /\ UNCHANGED <<active, crashed, lock, pc, op, held, open, nextPage, panics>>
    BY DEF TouchCrashed, Removed, taskVars, pageVars, CallsKeepInv, BrowserInv,
           DataInv, DataTypes
  <1>2. tabs' = [r \in Ids |-> IF r \in {s} THEN <<>> ELSE tabs[r]]
    BY <1>1
  <1>3. {s} \in SUBSET Ids /\ \A r \in {s} : crashed[r] \/ lock[r] = NoTask
    BY <1>1
  <1> QED BY <1>1, <1>2, <1>3, RemovalKeeps

LEMMA ReapKeeps ==
    ASSUME CallsKeepInv, Reap
    PROVE  KeepsInv'
  <1> DEFINE E == {s \in registry : idle[s] /\ lock[s] = NoTask}
  <1>1. /\ registry' = registry \ E
        /\ reaping' = UNION {ToSet(tabs[s]) : s \in E}
        /\ tabs' = [s \in Ids |-> IF s \in E THEN <<>> ELSE tabs[s]]
        /\ UNCHANGED <<active, crashed, lock, pc, op, held, open, nextPage, panics>>
    BY DEF Reap, Evict, taskVars, pageVars
  <1>2. E \in SUBSET Ids /\ \A s \in E : crashed[s] \/ lock[s] = NoTask
    BY DEF CallsKeepInv, BrowserInv, SlotInv, TasksInv, SlotTypes
  <1> HIDE DEF E
  <1>3. \A p \in reaping' : p \in reaping \/ \E s \in E : p \in ToSet(tabs[s])
    BY <1>1
  <1> QED BY <1>1, <1>2, <1>3, RemovalKeeps

(* A crash takes a page away and says so; the reaper closes what it has.   *)
LEMMA OutsideKeeps ==
    ASSUME CallsKeepInv,
           \/ \E p \in Pages : TargetCrash(p)
           \/ \E s \in Ids : Redirect(s) \/ IdlePasses(s)
           \/ ReapClose \/ UNCHANGED vars
    PROVE  KeepsInv'
  <1> USE DEF CallsKeepInv, KeepsInv
  <1>1. /\ UNCHANGED <<registry, tabs, active, lock, pc, op, held, nextPage, panics>>
        /\ open' \subseteq open /\ reaping' \subseteq reaping
    BY DEF TargetCrash, Redirect, IdlePasses, ReapClose, vars, sessionVars,
           taskVars, pageVars
  <1>2. \A u \in Tasks : Fresh(u)' = Fresh(u) /\ Closes(u)' = Closes(u)
    BY <1>1 DEF Fresh, Closes
  <1>3. \A s \in Ids, p \in Pages : Owns(s, p)' <=> Owns(s, p)
    BY <1>1, <1>2 DEF Owns
  <1>4. \A p \in Pages : Condemned(p)' => Condemned(p)
    BY <1>1, <1>2 DEF Condemned
  <1>5. /\ \A s \in Ids : crashed[s] => crashed'[s]
        /\ \A s \in Ids, p \in Pages :
              Owns(s, p) /\ p \in open => p \in open' \/ crashed'[s]
    <2>1. CASE \E p \in Pages : TargetCrash(p)
      <3>1. PICK p \in Pages : TargetCrash(p)
        BY <2>1
      <3>2. /\ open' = open \ {p}
            /\ \A s \in Ids : crashed'[s] = (\/ crashed[s] \/ p \in ToSet(tabs[s])
                  \/ \E t \in Tasks : Session(t) = s /\ p \in ToSet(held[t]))
        BY <3>1 DEF TargetCrash
      <3>3. \A s \in Ids : Owns(s, p) => crashed'[s]
        BY <3>2, OwnedPages DEF Owns
      <3> QED BY <3>2, <3>3
    <2>2. CASE ReapClose
      <3>1. crashed' = crashed /\ \A p \in open : p \in open' \/ Condemned(p)
        BY <2>2 DEF ReapClose, sessionVars, Condemned
      <3> QED BY <3>1 DEF OwnersInv
    <2>3. CASE crashed' = crashed /\ open' = open
      BY <2>3
    <2> QED BY <2>1, <2>2, <2>3 DEF Redirect, IdlePasses, vars, sessionVars, pageVars
  <1>6. OwnersInv'
    BY <1>1, <1>3, <1>4, <1>5, OwnersKept DEF NoNewOwner
  <1>7. \A u \in Tasks : TaskInv(u)'
    BY <1>1, <1>5, OwnedPages, TaskKept
  <1>8. TabsExpectHolds'
    BY <1>1, <1>5 DEF TabsExpectHolds, BrowserInv, DataInv, DataTypes
  <1> QED BY <1>1, <1>6, <1>7, <1>8

LEMMA NextKeeps == CallsKeepInv /\ [Next]_vars => CallsKeepInv'
  <1> SUFFICES ASSUME CallsKeepInv, [Next]_vars PROVE CallsKeepInv'
    OBVIOUS
  <1>1. BrowserInv'
    BY NextData DEF CallsKeepInv
  <1>2. ASSUME NEW t \in Tasks, TaskStep(t) PROVE KeepsInv'
    BY <1>2, PageOpensKeeps, EndsKeep, LoadedKeeps, ResumeKeeps, TabCheckedKeeps,
       TabLoadedKeeps, WorkDoneKeeps, ClosePageKeeps DEF TaskStep
  <1>3. ASSUME NEW l \in Lanes, LaneStep(l) PROVE KeepsInv'
    BY <1>3, NavigateNewKeeps, CloseAllKeeps, TimeoutKeeps, TouchCrashedKeeps,
       BeginKeeps DEF LaneStep
  <1>4. KeepsInv'
    BY <1>2, <1>3, ReapKeeps, OutsideKeeps DEF Next
  <1> QED BY <1>1, <1>4 DEF CallsKeepInv

LEMMA KeepsAlways == Spec => []CallsKeepInv
  <1>1. Init => CallsKeepInv
    BY InitSlots, InitData, InitKeeps DEF CallsKeepInv, BrowserInv
  <1> QED BY <1>1, NextKeeps, PTL DEF Spec

(* Whatever the other lane, the reaper and the clock do, the page a call   *)
(* drives is the active tab of a registered session and open, unless the   *)
(* target crashed (the guard of session_lock, held across every await).    *)
THEOREM EveryCallKeepsItsTab == Spec => []CallKeepsItsTab
  <1>1. CallsKeepInv => CallKeepsItsTab
    <2> SUFFICES ASSUME CallsKeepInv, NEW t \in Tasks, pc[t] = "working",
                        op[t] \in {"navigate", "act"}, ~crashed[Session(t)]
                 PROVE  /\ Session(t) \in registry
                        /\ held[t] = <<ActivePage(Session(t))>>
                        /\ ActivePage(Session(t)) \in open
      BY DEF CallKeepsItsTab
    <2> DEFINE s == Session(t)
    <2>1. s \in registry /\ held[t] = <<ActivePage(s)>>
      BY DEF CallsKeepInv, KeepsInv, TaskInv
    <2>2. s \in Ids /\ tabs[s] \in Seq(Pages) /\ active[s] \in 1 .. Len(tabs[s])
      BY <2>1, OwnedPages DEF CallsKeepInv, BrowserInv, DataInv, DataTypes, TabsInv
    <2>3. ActivePage(s) \in Pages /\ ActivePage(s) \in ToSet(tabs[s])
      BY <2>2, PageSeqs DEF ActivePage, ToSet
    <2>4. ActivePage(s) \in open
      BY <2>2, <2>3 DEF CallsKeepInv, KeepsInv, OwnersInv, Owns
    <2> QED BY <2>1, <2>4
  <1> QED BY <1>1, KeepsAlways, PTL

(* The expects in `tabs` fail only after a crash: the lock held since the  *)
(* session was confirmed present keeps it there.                           *)
THEOREM TabsNeverPanicUnlessCrashed == Spec => []TabsExpectHolds
  <1>1. CallsKeepInv => TabsExpectHolds
    BY DEF CallsKeepInv, KeepsInv
  <1> QED BY <1>1, KeepsAlways, PTL

=============================================================================
