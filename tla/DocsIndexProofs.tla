-------------------------- MODULE DocsIndexProofs --------------------------
(***************************************************************************)
(* Proofs about DocsIndex, for any set of sources and any number of calls, *)
(* failures, timeouts, restarts and models: its types, that the source     *)
(* locks admit one writer and are always released, that a search never     *)
(* compares vectors of two models, and what searches and the manifest      *)
(* promise after a run has reported success.  Searches need no lock: this  *)
(* rests on chunks.jsonl being written before meta.json by every run.      *)
(***************************************************************************)
EXTENDS DocsIndex, SequenceTheorems, TLAPS

(* No chunks, or chunks embedded with the running binary's model.          *)
Current(v) == v = 0 \/ madeWith[v] = model

MetaVouchesForChunks ==
    \A s \in Sources :
        disk.meta[s] # 0 /\ madeWith[disk.meta[s]] = model =>
            Current(disk.chunks[s])

(* Whatever can still reach a file or a ranking is current: the version an *)
(* operation will write or has read, and the chunks behind a meta.json     *)
(* that is about to be written or has just been read.                      *)
OperationsCurrent ==
    \A l \in Lanes :
        /\ pc[l] \in {"preparing", "diffing", "writingChunks", "ranking"}
              => Current(job[l].ver)
        /\ pc[l] \in {"writingMeta", "loading"}
              => Current(disk.chunks[job[l].src])

LateCurrent ==
    \A w \in late :
        /\ w.at = "writingChunks" => Current(w.job.ver)
        /\ w.at = "writingMeta" => Current(disk.chunks[w.job.src])

ModelInv == MetaVouchesForChunks /\ OperationsCurrent /\ LateCurrent

IndInv == TypeOK /\ OneMutator /\ ModelInv

----------------------------------------------------------------------------
(* Lemmas about the operators the actions are built from.                  *)

(* A run's number and model are on record from its start, and earlier ones *)
(* stay as they are.                                                       *)
LEMMA Recorded ==
    ASSUME TypeOK, madeWith' = Append(madeWith, model), model' = model
    PROVE  /\ Len(madeWith) \in Nat
           /\ Len(madeWith') = Len(madeWith) + 1
           /\ madeWith' \in Seq(1 .. model')
           /\ madeWith'[Len(madeWith) + 1] = model
           /\ \A v \in 1 .. Len(madeWith) : madeWith'[v] = madeWith[v]
           /\ Version \subseteq Version' /\ Job \subseteq Job'
           /\ Entries \subseteq Entries'
  <1>1. /\ Len(madeWith) \in Nat /\ Len(madeWith') = Len(madeWith) + 1
        /\ madeWith' \in Seq(1 .. model')
        /\ madeWith'[Len(madeWith) + 1] = model
        /\ \A v \in 1 .. Len(madeWith) : madeWith'[v] = madeWith[v]
    BY AppendProperties, LenProperties DEF TypeOK
  <1>2. Version \subseteq Version'
    BY <1>1 DEF Version
  <1>3. Entries \subseteq Entries'
    BY <1>2 DEF Entries
  <1>4. SUBSET Entries \subseteq SUBSET (Entries')
    BY <1>3
  <1>5. Job \subseteq Job'
    BY <1>2, <1>4 DEF Job
  <1>6. QED
    BY <1>1, <1>2, <1>3, <1>5

(* Every write keeps the files well typed.                                 *)
LEMMA LandedType ==
    ASSUME TypeOK, NEW p \in Writing, NEW j \in Job
    PROVE  Landed(p, j) \in [chunks : [Sources -> Version],
                             meta : [Sources -> Version],
                             listed : SUBSET Entries]
  <1>1. /\ j.src \in Sources /\ j.ver \in Version /\ j.list \subseteq Entries
        /\ 0 \in Version
    BY LenProperties DEF Job, TypeOK, Version
  <1>2. Revised(j) \subseteq Entries
    BY <1>1 DEF Revised, Entries
  <1>3. QED
    BY <1>1, <1>2 DEF Landed, Writing, TypeOK

(* What each write changes.                                                *)
LEMMA LandedEffect ==
    ASSUME TypeOK, NEW p \in Writing, NEW j \in Job, disk' = Landed(p, j),
           NEW s \in Sources
    PROVE  /\ \/ disk'.chunks[s] = disk.chunks[s]
              \/ p = "writingChunks" /\ disk'.chunks[s] = j.ver
              \/ disk'.chunks[s] = 0
           /\ p = "writingChunks" => disk'.chunks[j.src] = j.ver
           /\ \/ disk'.meta[s] = disk.meta[s]
              \/ p = "writingMeta" /\ s = j.src
              \/ disk'.meta[s] = 0
           /\ p = "writingMeta" => disk'.chunks = disk.chunks
  BY DEF Landed, Writing, TypeOK, Job

(* Ending an operation on one lane.                                        *)
LEMMA EndTypes ==
    ASSUME TypeOK, OneMutator, NEW l \in Lanes, End(l)
    PROVE  /\ pc' \in [Lanes -> Phases]
           /\ job' \in [Lanes -> Job] /\ locks' \subseteq Sources
           /\ \A m \in Lanes : (pc'[m] = "idle") <=> (job'[m].kind = "none")
           /\ OneMutator'
           /\ pc'[l] = "idle"
           /\ \A m \in Lanes : m # l => pc'[m] = pc[m] /\ job'[m] = job[m]
  <1>1. NoJob(job[l].src) \in Job /\ NoJob(job[l].src).kind = "none"
    BY LenProperties DEF NoJob, JobOf, Job, Kinds, TypeOK, Version
  <1>2. /\ pc' = [pc EXCEPT ![l] = "idle"]
        /\ job' = [job EXCEPT ![l] = NoJob(job[l].src)]
    BY DEF End, Go
  <1>3. \A m \in Lanes : job[m].src \in Sources
    BY DEF TypeOK, Job
  <1>4. /\ pc' \in [Lanes -> Phases] /\ job' \in [Lanes -> Job]
        /\ \A m \in Lanes : (pc'[m] = "idle") <=> (job'[m].kind = "none")
        /\ pc'[l] = "idle" /\ job'[l].kind = "none"
        /\ \A m \in Lanes : m # l => pc'[m] = pc[m] /\ job'[m] = job[m]
    BY <1>1, <1>2 DEF TypeOK, Phases
  <1>5. OneMutator'
    <2>1. \A m \in Lanes : job'[m].kind \in Mutators
                              <=> m # l /\ job[m].kind \in Mutators
      BY <1>4 DEF Mutators
    <2>2. CASE job[l].kind \in Mutators
      <3>1. locks' = locks \ {job[l].src}
        BY <2>2 DEF End
      <3>2. \A m \in Lanes : job[m].kind \in Mutators /\ m # l =>
                job[m].src # job[l].src
        BY <2>2 DEF OneMutator
      <3>3. QED
        BY <1>4, <2>1, <3>1, <3>2 DEF OneMutator
    <2>3. CASE job[l].kind \notin Mutators
      <3>1. locks' = locks
        BY <2>3 DEF End
      <3>2. QED
        BY <1>4, <2>1, <2>3, <3>1 DEF OneMutator
    <2>4. QED
      BY <2>2, <2>3
  <1>6. locks' \subseteq Sources
    BY DEF End, TypeOK
  <1>7. QED
    BY <1>4, <1>5, <1>6

(* Beginning one, on a lane that is idle.                                  *)
LEMMA BeginTypes ==
    ASSUME TypeOK, NEW l \in Lanes, NEW s \in Sources,
           NEW kind \in Kinds \ {"none"}, NEW p \in Phases \ {"idle"},
           Begin(l, s, kind, p), Job \subseteq Job',
           kind = "index" => Len(madeWith) + 1 \in Version'
    PROVE  /\ pc' \in [Lanes -> Phases] /\ job' \in [Lanes -> Job']
           /\ \A m \in Lanes : (pc'[m] = "idle") <=> (job'[m].kind = "none")
           /\ job[l].kind = "none"
           /\ pc'[l] = p /\ job'[l].kind = kind /\ job'[l].src = s
           /\ kind = "index" => job'[l].ver = Len(madeWith) + 1
           /\ \A m \in Lanes : m # l => pc'[m] = pc[m] /\ job'[m] = job[m]
  <1> DEFINE ver  == IF kind = "index" THEN Len(madeWith) + 1 ELSE 0
             owed == IF kind = "search" THEN promised[s] ELSE 0
             j    == JobOf(kind, s, ver, owed)
  <1>1. /\ pc' = [pc EXCEPT ![l] = p] /\ job' = [job EXCEPT ![l] = j]
        /\ pc[l] = "idle"
    BY DEF Begin, Go
  <1>2. j = [kind |-> kind, src |-> s, ver |-> ver, list |-> {},
             owed |-> owed]
    BY DEF JobOf
  <1>3. owed \in Version /\ 0 \in Version
    BY LenProperties DEF TypeOK, Version
  <1>4. owed \in Version' /\ 0 \in Version' /\ {} \in SUBSET (Entries')
    <2>1. JobOf("none", s, 0, owed) \in Job'
      BY <1>3 DEF JobOf, Job, Kinds
    <2>2. QED
      BY <2>1 DEF JobOf, Job
  <1>5. ver \in Version'
    BY <1>4
  <1>6. j \in Job'
    BY <1>2, <1>4, <1>5 DEF Job
  <1>7. QED
    BY <1>1, <1>2, <1>6 DEF TypeOK, Phases

(* A lock that is taken by its new holder alone.                           *)
LEMMA AcquireExclusive ==
    ASSUME TypeOK, OneMutator, NEW l \in Lanes, NEW s \in Sources, Acquire(s),
           job[l].kind = "none", job'[l].kind \in Mutators, job'[l].src = s,
           \A m \in Lanes : m # l => job'[m] = job[m]
    PROVE  OneMutator' /\ locks' \subseteq Sources /\ stray' \subseteq Sources
  <1>1. s \notin locks /\ locks' = locks \cup {s}
    BY DEF Acquire
  <1>2. \A m \in Lanes : m # l /\ job[m].kind \in Mutators => job[m].src # s
    BY <1>1 DEF OneMutator
  <1>3. locks' = {job'[m].src : m \in {n \in Lanes : job'[n].kind \in Mutators}}
    BY <1>1 DEF OneMutator, Mutators
  <1>4. QED
    <2>1. \A n, m \in Lanes : job'[n].kind \in Mutators /\ n # m
            /\ job'[m].kind \in Mutators => job'[n].src # job'[m].src
      BY <1>2 DEF OneMutator
    <2>2. OneMutator'
      BY <1>3, <2>1 DEF OneMutator
    <2>3. locks' \subseteq Sources /\ stray' \subseteq Sources
      BY <1>1 DEF Acquire, TypeOK
    <2>4. QED
      BY <2>2, <2>3

LEMMA InitInv == Init => IndInv
  <1> SUFFICES ASSUME Init PROVE IndInv
    OBVIOUS
  <1>1. /\ Len(madeWith) = 0 /\ madeWith \in Seq(1 .. model)
        /\ 0 \in Version
    BY DEF Init, Version
  <1>2. PICK s \in Sources : job = [l \in Lanes |-> NoJob(s)]
    BY DEF Init
  <1>3. NoJob(s) \in Job /\ NoJob(s).kind = "none"
    BY <1>1 DEF NoJob, JobOf, Job, Kinds
  <1>4. TypeOK
    <2>1. /\ calls \in Len(madeWith) .. MaxCalls /\ model \in 1 .. MaxModel
          /\ madeWith \in Seq(1 .. model)
      BY <1>1, DocsConstants DEF Init
    <2>2. /\ disk \in [chunks : [Sources -> Version],
                       meta : [Sources -> Version], listed : SUBSET Entries]
          /\ promised \in [Sources -> Version]
          /\ erased \in [Sources -> Version]
      BY <1>1 DEF Init
    <2>3. /\ pc \in [Lanes -> Phases] /\ job \in [Lanes -> Job]
          /\ \A l \in Lanes : (pc[l] = "idle") <=> (job[l].kind = "none")
      BY <1>2, <1>3 DEF Init, Phases
    <2>4. QED
      BY <2>1, <2>2, <2>3 DEF Init, TypeOK
  <1>5. OneMutator
    BY <1>2, <1>3 DEF Init, OneMutator, Mutators
  <1>6. ModelInv
    BY DEF Init, ModelInv, MetaVouchesForChunks, OperationsCurrent, LateCurrent
  <1>7. QED
    BY <1>4, <1>5, <1>6 DEF IndInv

----------------------------------------------------------------------------
(* Steps that begin an operation.                                          *)

LEMMA BeginSteps ==
    ASSUME IndInv, NEW l \in Lanes, NEW s \in Sources,
           IndexBegin(l, s) \/ RemoveBegin(l, s) \/ SearchBegin(l, s)
    PROVE  IndInv'
  <1>0. TypeOK /\ OneMutator
    BY DEF IndInv
  <1>1. CASE IndexBegin(l, s)
    <2>1. /\ Begin(l, s, "index", "preparing") /\ Acquire(s)
          /\ madeWith' = Append(madeWith, model) /\ model' = model
          /\ UNCHANGED <<disk, late, promised, erased, clobbered>>
          /\ gone' = gone \ {s} /\ calls' = calls + 1 /\ calls < MaxCalls
      BY <1>1 DEF IndexBegin, Begin
    <2>2. /\ Len(madeWith) \in Nat
          /\ Len(madeWith') = Len(madeWith) + 1
          /\ madeWith' \in Seq(1 .. model')
          /\ madeWith'[Len(madeWith) + 1] = model
          /\ \A v \in 1 .. Len(madeWith) : madeWith'[v] = madeWith[v]
          /\ Version \subseteq Version' /\ Job \subseteq Job'
          /\ Entries \subseteq Entries'
      BY <1>0, <2>1, Recorded
    <2>3. Len(madeWith) + 1 \in Version'
      BY <2>2 DEF Version
    <2>4. /\ pc' \in [Lanes -> Phases] /\ job' \in [Lanes -> Job']
          /\ \A m \in Lanes : (pc'[m] = "idle") <=> (job'[m].kind = "none")
          /\ job[l].kind = "none"
          /\ pc'[l] = "preparing" /\ job'[l].kind = "index"
          /\ job'[l].src = s /\ job'[l].ver = Len(madeWith) + 1
          /\ \A m \in Lanes : m # l => pc'[m] = pc[m] /\ job'[m] = job[m]
      BY <1>0, <2>1, <2>2, <2>3, BeginTypes
         DEF Kinds, Mutators, Phases, Writing
    <2>5. OneMutator' /\ locks' \subseteq Sources /\ stray' \subseteq Sources
      BY <1>0, <2>1, <2>4, AcquireExclusive DEF Mutators
    <2>6. TypeOK'
      <3>1. disk' \in [chunks : [Sources -> Version'],
                       meta : [Sources -> Version'],
                       listed : SUBSET (Entries')]
        BY <1>0, <2>1, <2>2 DEF TypeOK
      <3>2. late' \subseteq [at : Writing, job : Job']
        BY <1>0, <2>1, <2>2 DEF TypeOK
      <3>3. /\ promised' \in [Sources -> Version']
            /\ erased' \in [Sources -> Version']
        BY <1>0, <2>1, <2>2 DEF TypeOK
      <3>4. calls' \in Len(madeWith') .. MaxCalls
        BY <1>0, <2>1, <2>2, DocsConstants DEF TypeOK
      <3>5. QED
        BY <1>0, <2>1, <2>2, <2>4, <2>5, <3>1, <3>2, <3>3, <3>4 DEF TypeOK
    <2>7. \A v \in Version : Current(v) => Current(v)'
      BY <2>1, <2>2 DEF Current, Version
    <2>8. /\ \A t \in Sources : disk.chunks[t] \in Version
                                   /\ disk.meta[t] \in Version
          /\ \A m \in Lanes : job[m] \in Job
          /\ \A w \in late : w.job \in Job
      BY <1>0 DEF TypeOK
    <2>9. ModelInv'
      <3>1. MetaVouchesForChunks'
        BY <2>1, <2>2, <2>7, <2>8
           DEF IndInv, ModelInv, MetaVouchesForChunks, Version
      <3>2. OperationsCurrent'
        <4>1. madeWith'[job'[l].ver] = model'
          BY <2>1, <2>2, <2>4
        <4>2. /\ pc'[l] = "preparing" /\ disk' = disk
              /\ \A m \in Lanes : m # l => pc'[m] = pc[m] /\ job'[m] = job[m]
          BY <2>1, <2>4
        <4>3. \A m \in Lanes : job[m].src \in Sources /\ job[m].ver \in Version
          BY <2>8 DEF Job
        <4>4. ASSUME NEW m \in Lanes, m # l
              PROVE  /\ pc'[m] \in {"preparing", "diffing", "writingChunks",
                                   "ranking"} => Current(job[m].ver)'
                     /\ pc'[m] \in {"writingMeta", "loading"}
                           => Current(disk.chunks[job[m].src])'
          <5>1. (pc'[m] = pc[m]) /\ (job'[m] = job[m])
            BY <4>2, <4>4
          <5>2. /\ pc[m] \in {"preparing", "diffing", "writingChunks",
                              "ranking"} => Current(job[m].ver)
                /\ pc[m] \in {"writingMeta", "loading"}
                      => Current(disk.chunks[job[m].src])
            BY DEF IndInv, ModelInv, OperationsCurrent
          <5>3. /\ job[m].ver \in Version
                /\ disk.chunks[job[m].src] \in Version
            BY <2>8, <4>3
          <5>4. /\ Current(job[m].ver) => Current(job[m].ver)'
                /\ Current(disk.chunks[job[m].src])
                      => Current(disk.chunks[job[m].src])'
            BY <2>7, <4>2, <5>1, <5>3 DEF Current
          <5>5. QED
            BY <5>1, <5>2, <5>4
        <4>5. QED
          BY <4>1, <4>2, <4>4 DEF OperationsCurrent, Current
      <3>3. LateCurrent'
        BY <2>1, <2>7, <2>8 DEF IndInv, ModelInv, LateCurrent, Job
      <3>4. QED
        BY <3>1, <3>2, <3>3 DEF ModelInv
    <2>10. QED
      BY <2>5, <2>6, <2>9 DEF IndInv
  <1>2. CASE RemoveBegin(l, s)
    <2>1. /\ Begin(l, s, "remove", "checking") /\ Acquire(s)
          /\ UNCHANGED <<disk, late, model, madeWith, promised, erased, gone,
                         clobbered>>
          /\ calls' = calls + 1 /\ calls < MaxCalls
      BY <1>2 DEF RemoveBegin, Begin
    <2>2. /\ Version' = Version /\ Job' = Job /\ Entries' = Entries
          /\ \A v : Current(v)' = Current(v)
      BY <2>1 DEF Version, Job, Entries, Current
    <2>3. /\ pc' \in [Lanes -> Phases] /\ job' \in [Lanes -> Job']
          /\ \A m \in Lanes : (pc'[m] = "idle") <=> (job'[m].kind = "none")
          /\ job[l].kind = "none"
          /\ pc'[l] = "checking" /\ job'[l].kind = "remove"
          /\ job'[l].src = s
          /\ \A m \in Lanes : m # l => pc'[m] = pc[m] /\ job'[m] = job[m]
      BY <1>0, <2>1, <2>2, BeginTypes DEF Kinds, Phases, Writing, Mutators
    <2>4. OneMutator' /\ locks' \subseteq Sources /\ stray' \subseteq Sources
      BY <1>0, <2>1, <2>3, AcquireExclusive DEF Mutators
    <2>5. calls' \in Len(madeWith') .. MaxCalls
      BY <1>0, <2>1, DocsConstants, LenProperties DEF TypeOK
    <2>6. TypeOK'
      BY <1>0, <2>1, <2>2, <2>3, <2>4, <2>5 DEF TypeOK
    <2>7. ModelInv'
      BY <2>1, <2>2, <2>3 DEF IndInv, ModelInv, MetaVouchesForChunks,
           OperationsCurrent, LateCurrent
    <2>8. QED
      BY <2>4, <2>6, <2>7 DEF IndInv
  <1>3. CASE SearchBegin(l, s)
    <2>1. /\ Begin(l, s, "search", "searching")
          /\ UNCHANGED <<disk, locks, late, model, madeWith, ghosts>>
          /\ calls' = calls + 1 /\ calls < MaxCalls
      BY <1>3 DEF SearchBegin, Begin
    <2>2. /\ Version' = Version /\ Job' = Job /\ Entries' = Entries
          /\ \A v : Current(v)' = Current(v)
      BY <2>1 DEF Version, Job, Entries, Current
    <2>3. /\ pc' \in [Lanes -> Phases] /\ job' \in [Lanes -> Job']
          /\ \A m \in Lanes : (pc'[m] = "idle") <=> (job'[m].kind = "none")
          /\ job[l].kind = "none"
          /\ pc'[l] = "searching" /\ job'[l].kind = "search"
          /\ \A m \in Lanes : m # l => pc'[m] = pc[m] /\ job'[m] = job[m]
      BY <1>0, <2>1, <2>2, BeginTypes
         DEF Kinds, Mutators, Phases, Writing
    <2>4. OneMutator'
      BY <1>0, <2>1, <2>3 DEF OneMutator, Mutators
    <2>5. calls' \in Len(madeWith') .. MaxCalls
      BY <1>0, <2>1, DocsConstants, LenProperties DEF TypeOK
    <2>6. TypeOK'
      BY <1>0, <2>1, <2>2, <2>3, <2>5 DEF TypeOK, ghosts
    <2>7. ModelInv'
      BY <2>1, <2>2, <2>3 DEF IndInv, ModelInv, MetaVouchesForChunks,
           OperationsCurrent, LateCurrent
    <2>8. QED
      BY <2>4, <2>6, <2>7 DEF IndInv
  <1>4. QED
    BY <1>1, <1>2, <1>3

----------------------------------------------------------------------------
(* Steps that end an operation, and steps that only move it on.            *)

LEMMA SameRuns ==
    ASSUME UNCHANGED <<madeWith, model>>
    PROVE  /\ Version' = Version /\ Job' = Job /\ Entries' = Entries
           /\ \A v : Current(v)' = Current(v)
  BY DEF Version, Job, Entries, Current

(* An operation that goes on without having read or written a version, or  *)
(* ends, leaves ModelInv alone.                                            *)
LEMMA ModelKept ==
    ASSUME ModelInv, UNCHANGED <<madeWith, model>>,
           disk'.chunks = disk.chunks, disk'.meta = disk.meta,
           \A w \in late' : w \in late \/ \E m \in Lanes :
               w.at = pc[m] /\ w.job = job[m],
           \A m \in Lanes :
               \/ pc'[m] \notin {"preparing", "diffing", "writingChunks",
                                 "writingMeta", "loading", "ranking"}
               \/ /\ pc'[m] = pc[m]
                  /\ job'[m].ver = job[m].ver /\ job'[m].src = job[m].src
    PROVE  ModelInv'
  <1>1. \A v : Current(v)' = Current(v)
    BY SameRuns
  <1>2. MetaVouchesForChunks'
    BY <1>1 DEF ModelInv, MetaVouchesForChunks
  <1>3. OperationsCurrent'
    BY <1>1 DEF ModelInv, OperationsCurrent
  <1>4. LateCurrent'
    BY <1>1 DEF ModelInv, OperationsCurrent, LateCurrent
  <1>5. QED
    BY <1>2, <1>3, <1>4 DEF ModelInv

LEMMA EndSteps ==
    ASSUME IndInv, NEW l \in Lanes, End(l), UNCHANGED <<model, madeWith, calls>>,
           disk' \in [chunks : [Sources -> Version],
                      meta : [Sources -> Version], listed : SUBSET Entries],
           disk'.chunks = disk.chunks, disk'.meta = disk.meta,
           \/ late' = late
           \/ /\ pc[l] \in Writing
              /\ late' = late \cup {[at |-> pc[l], job |-> job[l]]},
           promised' \in [Sources -> Version], UNCHANGED <<erased, stray>>,
           gone' \subseteq Sources, clobbered' \in BOOLEAN
    PROVE  IndInv'
  <1>1. TypeOK /\ OneMutator /\ ModelInv
    BY DEF IndInv
  <1>2. /\ pc' \in [Lanes -> Phases]
        /\ job' \in [Lanes -> Job] /\ locks' \subseteq Sources
        /\ \A m \in Lanes : (pc'[m] = "idle") <=> (job'[m].kind = "none")
        /\ OneMutator'
        /\ pc'[l] = "idle"
        /\ \A m \in Lanes : m # l => pc'[m] = pc[m] /\ job'[m] = job[m]
    BY <1>1, EndTypes
  <1>3. Version' = Version /\ Job' = Job /\ Entries' = Entries
    BY SameRuns
  <1>4. late' \subseteq [at : Writing, job : Job]
    BY <1>1 DEF TypeOK
  <1>5. TypeOK'
    BY <1>1, <1>2, <1>3, <1>4 DEF TypeOK
  <1>6. \A w \in late' : w \in late \/ \E m \in Lanes :
            w.at = pc[m] /\ w.job = job[m]
    OBVIOUS
  <1>7. ModelInv'
    BY <1>1, <1>2, <1>6, ModelKept
  <1>8. QED
    BY <1>2, <1>5, <1>7 DEF IndInv

LEMMA Endings ==
    ASSUME IndInv, NEW l \in Lanes,
           Answer(l) \/ Fail(l) \/ Timeout(l) \/ ListWritten(l)
    PROVE  IndInv'
  <1>1. TypeOK
    BY DEF IndInv
  <1>2. /\ disk \in [chunks : [Sources -> Version],
                     meta : [Sources -> Version], listed : SUBSET Entries]
        /\ promised \in [Sources -> Version] /\ gone \subseteq Sources
        /\ clobbered \in BOOLEAN /\ job[l] \in Job
        /\ 0 \in Version /\ job[l].src \in Sources /\ job[l].ver \in Version
    BY <1>1, LenProperties DEF TypeOK, Job, Version
  <1>3. CASE Answer(l)
    BY <1>2, <1>3, EndSteps DEF Answer, ghosts
  <1>4. CASE Fail(l)
    BY <1>2, <1>4, EndSteps DEF Fail, ghosts
  <1>5. CASE Timeout(l)
    BY <1>2, <1>5, EndSteps DEF Timeout, ghosts
  <1>6. CASE ListWritten(l)
    <2>1. /\ pc[l] = "writingList" /\ disk' = Landed("writingList", job[l])
          /\ clobbered' = (clobbered \/ Overwrites("writingList", job[l]))
          /\ End(l) /\ UNCHANGED <<late, model, madeWith, calls, erased, stray>>
      BY <1>6 DEF ListWritten
    <2>2. disk' \in [chunks : [Sources -> Version],
                     meta : [Sources -> Version], listed : SUBSET Entries]
      BY <1>1, <1>2, <2>1, LandedType DEF Writing
    <2>3. disk'.chunks = disk.chunks /\ disk'.meta = disk.meta
      BY <1>2, <2>1 DEF Landed
    <2>4. promised' \in [Sources -> Version] /\ gone' \subseteq Sources
      BY <1>2, <1>6 DEF ListWritten
    <2>5. clobbered' \in BOOLEAN
      BY <1>2, <2>1 DEF Overwrites
    <2>6. QED
      BY <2>1, <2>2, <2>3, <2>4, <2>5, EndSteps
  <1>7. QED
    BY <1>3, <1>4, <1>5, <1>6

(* An operation that goes on keeps its kind, its source and the lock.      *)
LEMMA MoveTypes ==
    ASSUME TypeOK, OneMutator, NEW l \in Lanes, NEW p \in Phases \ {"idle"},
           Go(l, p), pc[l] # "idle", UNCHANGED <<locks, model, madeWith, calls>>,
           job' \in [Lanes -> Job],
           \A m \in Lanes : job'[m].kind = job[m].kind /\ job'[m].src = job[m].src,
           disk' \in [chunks : [Sources -> Version],
                      meta : [Sources -> Version], listed : SUBSET Entries],
           late' \subseteq late, promised' \in [Sources -> Version],
           erased' \in [Sources -> Version], UNCHANGED <<gone, clobbered, stray>>
    PROVE  /\ TypeOK' /\ OneMutator'
           /\ pc'[l] = p /\ \A m \in Lanes : m # l => pc'[m] = pc[m]
  <1>1. /\ pc' \in [Lanes -> Phases] /\ pc'[l] = p
        /\ \A m \in Lanes : m # l => pc'[m] = pc[m]
    BY DEF Go, TypeOK
  <1>2. \A m \in Lanes : (pc'[m] = "idle") <=> (job'[m].kind = "none")
    BY <1>1 DEF TypeOK
  <1>3. Version' = Version /\ Job' = Job /\ Entries' = Entries
    BY SameRuns
  <1>4. TypeOK'
    BY <1>1, <1>2, <1>3 DEF TypeOK
  <1>5. OneMutator'
    BY DEF OneMutator
  <1>6. QED
    BY <1>1, <1>4, <1>5

(* The shape of the state that the proofs of the steps use.                *)
LEMMA Shape ==
    ASSUME TypeOK, NEW l \in Lanes
    PROVE  /\ disk \in [chunks : [Sources -> Version],
                        meta : [Sources -> Version], listed : SUBSET Entries]
           /\ job \in [Lanes -> Job]
           /\ promised \in [Sources -> Version]
           /\ erased \in [Sources -> Version]
           /\ job[l].src \in Sources /\ job[l].ver \in Version
           /\ 0 \in Version /\ Len(madeWith) \in Version
           /\ Len(madeWith) \in Nat
           /\ disk.chunks[job[l].src] \in Version
           /\ disk.meta[job[l].src] \in Version
  BY LenProperties DEF TypeOK, Job, Version

LEMMA PrepareStep ==
    ASSUME IndInv, NEW l \in Lanes, Prepare(l)
    PROVE  IndInv'
  <1>1. TypeOK /\ OneMutator /\ ModelInv
    BY DEF IndInv
  <1>2. PICK p \in {"diffing", "writingChunks"} : Go(l, p)
    BY DEF Prepare, After
  <1>3. /\ pc[l] \in {"preparing", "diffing"}
        /\ UNCHANGED <<disk, locks, job, late, model, madeWith, calls, ghosts>>
    BY DEF Prepare
  <1>4. /\ TypeOK' /\ OneMutator'
        /\ pc'[l] = p /\ \A m \in Lanes : m # l => pc'[m] = pc[m]
    BY <1>1, <1>2, <1>3, Shape, MoveTypes DEF Phases, Writing, ghosts
  <1>5. ModelInv'
    <2>1. \A v : Current(v)' = Current(v)
      BY <1>3, SameRuns
    <2>2. QED
      BY <1>1, <1>2, <1>3, <1>4, <2>1 DEF ModelInv, MetaVouchesForChunks,
         OperationsCurrent, LateCurrent
  <1>6. QED
    BY <1>4, <1>5 DEF IndInv

(* A write that lands, now or late, keeps ModelInv for everything that     *)
(* stays where it is.                                                      *)
LEMMA LandingKeeps ==
    ASSUME TypeOK, ModelInv, NEW p \in Writing, NEW j \in Job,
           disk' = Landed(p, j), UNCHANGED <<job, model, madeWith>>,
           p = "writingChunks" => Current(j.ver),
           p = "writingMeta" => Current(disk.chunks[j.src])
    PROVE  /\ MetaVouchesForChunks'
           /\ \A s \in Sources : Current(disk.chunks[s]) =>
                                     Current(disk.chunks[s])'
           /\ p = "writingChunks" => Current(disk.chunks[j.src])'
           /\ late' \subseteq late => LateCurrent'
  <1>1. \A v : Current(v)' = Current(v)
    BY SameRuns
  <1>2. \A s \in Sources :
           /\ \/ disk'.chunks[s] = disk.chunks[s]
              \/ p = "writingChunks" /\ disk'.chunks[s] = j.ver
              \/ disk'.chunks[s] = 0
           /\ p = "writingChunks" => disk'.chunks[j.src] = j.ver
           /\ \/ disk'.meta[s] = disk.meta[s]
              \/ p = "writingMeta" /\ s = j.src
              \/ disk'.meta[s] = 0
           /\ p = "writingMeta" => disk'.chunks = disk.chunks
    BY LandedEffect
  <1>3. Current(0) /\ j.src \in Sources
    BY DEF Current, Job
  <1>4. \A s \in Sources : Current(disk.chunks[s]) => Current(disk'.chunks[s])
    BY <1>2, <1>3
  <1>5. p = "writingChunks" => Current(disk'.chunks[j.src])
    BY <1>2, <1>3
  <1>6. ASSUME NEW s \in Sources, disk'.meta[s] # 0,
               madeWith[disk'.meta[s]] = model
        PROVE  Current(disk'.chunks[s])
    <2>1. CASE disk'.meta[s] = disk.meta[s]
      BY <1>4, <1>6, <2>1 DEF ModelInv, MetaVouchesForChunks
    <2>2. CASE p = "writingMeta" /\ s = j.src
      BY <1>2, <1>3, <2>2
    <2>3. QED
      BY <1>2, <1>6, <2>1, <2>2
  <1>7. MetaVouchesForChunks'
    BY <1>1, <1>6 DEF MetaVouchesForChunks
  <1>8. late' \subseteq late => LateCurrent'
    <2>1. \A w \in late : w.job.src \in Sources
      BY DEF TypeOK, Job
    <2>2. QED
      BY <1>1, <1>4, <2>1 DEF ModelInv, LateCurrent
  <1>9. QED
    BY <1>1, <1>4, <1>5, <1>7, <1>8

LEMMA WriteStep ==
    ASSUME IndInv, NEW l \in Lanes, Write(l)
    PROVE  IndInv'
  <1>1. TypeOK /\ OneMutator /\ ModelInv
    BY DEF IndInv
  <1> DEFINE p == After[pc[l]]
  <1>2. /\ pc[l] \in Writing \ {"writingList"} /\ Go(l, p)
        /\ disk' = Landed(pc[l], job[l])
        /\ UNCHANGED <<locks, job, late, model, madeWith, calls, ghosts>>
    BY DEF Write
  <1>3. /\ pc[l] = "writingChunks" /\ p = "writingMeta"
        \/ p \in {"deletingMeta", "readingList"}
    BY <1>2 DEF Writing, After
  <1>4. job[l] \in Job
    BY <1>1 DEF TypeOK
  <1>5. disk' \in [chunks : [Sources -> Version],
                   meta : [Sources -> Version], listed : SUBSET Entries]
    BY <1>1, <1>2, <1>4, LandedType
  <1>6. /\ TypeOK' /\ OneMutator'
        /\ pc'[l] = p /\ \A m \in Lanes : m # l => pc'[m] = pc[m]
    <2>1. p \in Phases \ {"idle"} /\ pc[l] # "idle"
      BY <1>2, <1>3 DEF Phases, Writing
    <2>2. QED
      BY <1>1, <1>2, <1>5, <2>1, Shape, MoveTypes DEF ghosts
  <1>7. /\ pc[l] = "writingChunks" => Current(job[l].ver)
        /\ pc[l] = "writingMeta" => Current(disk.chunks[job[l].src])
    BY <1>1 DEF ModelInv, OperationsCurrent
  <1>8. /\ MetaVouchesForChunks' /\ LateCurrent'
        /\ \A s \in Sources : Current(disk.chunks[s]) =>
                                  Current(disk.chunks[s])'
        /\ pc[l] = "writingChunks" => Current(disk.chunks[job[l].src])'
    BY <1>1, <1>2, <1>4, <1>7, LandingKeeps
  <1>9. OperationsCurrent'
    <2>1. \A v : Current(v)' = Current(v)
      BY <1>2, SameRuns
    <2>2. \A m \in Lanes : job[m].src \in Sources
      BY <1>1 DEF TypeOK, Job
    <2>3. QED
      BY <1>1, <1>2, <1>3, <1>6, <1>8, <2>1, <2>2
         DEF ModelInv, OperationsCurrent
  <1>10. QED
    BY <1>6, <1>8, <1>9 DEF IndInv, ModelInv

LEMMA LateStep ==
    ASSUME IndInv, LateLands
    PROVE  IndInv'
  <1>1. TypeOK /\ OneMutator /\ ModelInv
    BY DEF IndInv
  <1>2. PICK w \in late :
           /\ disk' = Landed(w.at, w.job)
           /\ clobbered' = (clobbered \/ Overwrites(w.at, w.job))
           /\ late' = late \ {w}
           /\ UNCHANGED <<locks, pc, job, model, madeWith, calls, promised,
                          erased, gone, stray>>
    BY DEF LateLands
  <1>3. w.at \in Writing /\ w.job \in Job
    BY <1>1 DEF TypeOK
  <1>4. disk' \in [chunks : [Sources -> Version],
                   meta : [Sources -> Version], listed : SUBSET Entries]
    BY <1>1, <1>2, <1>3, LandedType
  <1>5. TypeOK' /\ OneMutator'
    <2>1. Version' = Version /\ Job' = Job /\ Entries' = Entries
      BY <1>2, SameRuns
    <2>2. clobbered' \in BOOLEAN
      BY <1>1, <1>2 DEF TypeOK, Overwrites
    <2>3. QED
      BY <1>1, <1>2, <1>4, <2>1, <2>2 DEF TypeOK, OneMutator
  <1>6. /\ w.at = "writingChunks" => Current(w.job.ver)
        /\ w.at = "writingMeta" => Current(disk.chunks[w.job.src])
    BY <1>1 DEF ModelInv, LateCurrent
  <1>7. /\ MetaVouchesForChunks' /\ LateCurrent'
        /\ \A s \in Sources : Current(disk.chunks[s]) =>
                                  Current(disk.chunks[s])'
    BY <1>1, <1>2, <1>3, <1>6, LandingKeeps
  <1>8. OperationsCurrent'
    <2>1. \A v : Current(v)' = Current(v)
      BY <1>2, SameRuns
    <2>2. \A m \in Lanes : job[m].src \in Sources
      BY <1>1 DEF TypeOK, Job
    <2>3. QED
      BY <1>1, <1>2, <1>7, <2>1, <2>2 DEF ModelInv, OperationsCurrent
  <1>9. QED
    BY <1>5, <1>7, <1>8 DEF IndInv, ModelInv

LEMMA ListReadStep ==
    ASSUME IndInv, NEW l \in Lanes, ListRead(l)
    PROVE  IndInv'
  <1>1. TypeOK /\ OneMutator /\ ModelInv
    BY DEF IndInv
  <1>2. /\ pc[l] = "readingList" /\ Go(l, "writingList")
        /\ job' = [job EXCEPT ![l].list = disk.listed]
        /\ UNCHANGED <<disk, locks, late, model, madeWith, calls, ghosts>>
    BY DEF ListRead, After
  <1>3. /\ job' \in [Lanes -> Job]
        /\ \A m \in Lanes : /\ job'[m].kind = job[m].kind
                            /\ job'[m].src = job[m].src
                            /\ job'[m].ver = job[m].ver
    BY <1>1, <1>2, Shape DEF Job
  <1>4. /\ TypeOK' /\ OneMutator'
        /\ pc'[l] = "writingList" /\ \A m \in Lanes : m # l => pc'[m] = pc[m]
    BY <1>1, <1>2, <1>3, Shape, MoveTypes DEF Phases, Writing, ghosts
  <1>5. ModelInv'
    BY <1>1, <1>2, <1>3, <1>4, ModelKept
  <1>6. QED
    BY <1>4, <1>5 DEF IndInv

LEMMA CheckedStep ==
    ASSUME IndInv, NEW l \in Lanes, Checked(l)
    PROVE  IndInv'
  <1>1. TypeOK /\ OneMutator /\ ModelInv
    BY DEF IndInv
  <1>2. PICK p \in {"unknown", "deletingChunks"} : Go(l, p)
    BY DEF Checked
  <1>3. /\ pc[l] = "checking"
        /\ UNCHANGED <<disk, locks, late, model, madeWith, calls, gone,
                       clobbered, stray>>
    BY DEF Checked
  <1>4. /\ job' \in [Lanes -> Job]
        /\ \A m \in Lanes : /\ job'[m].kind = job[m].kind
                            /\ job'[m].src = job[m].src
                            /\ job'[m].ver = job[m].ver
    <2>1. CASE UNCHANGED job
      BY <1>1, <2>1, Shape
    <2>2. CASE job' = [m \in Lanes |-> IF job[m].src = job[l].src
                                       THEN [job[m] EXCEPT !.owed = 0]
                                       ELSE job[m]]
      <3>1. job \in [Lanes -> Job] /\ 0 \in Version
        BY <1>1, Shape
      <3>2. ASSUME NEW m \in Lanes
            PROVE  /\ job'[m] \in Job
                   /\ job'[m].kind = job[m].kind /\ job'[m].src = job[m].src
                   /\ job'[m].ver = job[m].ver
        <4>1. PICK j \in Job : j = job[m]
          BY <3>1
        <4>2. job'[m] = j \/ job'[m] = [j EXCEPT !.owed = 0]
          BY <2>2, <4>1
        <4>3. PICK k : k = [j EXCEPT !.owed = 0]
          OBVIOUS
        <4>4. k \in Job /\ k.kind = j.kind /\ k.src = j.src /\ k.ver = j.ver
          BY <3>1, <4>3 DEF Job
        <4> QED
          BY <4>1, <4>2, <4>3, <4>4
      <3> QED
        BY <2>2, <3>2
    <2>3. QED
      BY <2>1, <2>2 DEF Checked
  <1>5. promised' \in [Sources -> Version] /\ erased' \in [Sources -> Version]
    BY <1>1, Shape DEF Checked
  <1>6. /\ TypeOK' /\ OneMutator'
        /\ pc'[l] = p /\ \A m \in Lanes : m # l => pc'[m] = pc[m]
    BY <1>1, <1>2, <1>3, <1>4, <1>5, Shape, MoveTypes DEF Phases, Writing
  <1>7. ModelInv'
    BY <1>1, <1>2, <1>3, <1>4, <1>6, ModelKept
  <1>8. QED
    BY <1>6, <1>7 DEF IndInv

(* The guard on the model, and ModelInv, make the chunks current that are  *)
(* read next.                                                              *)
LEMMA MetaReadStep ==
    ASSUME IndInv, NEW l \in Lanes, MetaRead(l)
    PROVE  IndInv'
  <1>1. TypeOK /\ OneMutator /\ ModelInv
    BY DEF IndInv
  <1>2. /\ pc[l] = "searching"
        /\ UNCHANGED <<disk, late, model, madeWith, calls, ghosts>>
    BY DEF MetaRead
  <1>3. CASE End(l)
    BY <1>1, <1>2, <1>3, Shape, EndSteps DEF ghosts, TypeOK
  <1>4. CASE Go(l, "unknown") /\ UNCHANGED <<job, locks>>
    <2>1. /\ TypeOK' /\ OneMutator'
          /\ pc'[l] = "unknown" /\ \A m \in Lanes : m # l => pc'[m] = pc[m]
      BY <1>1, <1>2, <1>4, Shape, MoveTypes DEF Phases, Writing, ghosts
    <2>2. ModelInv'
      BY <1>1, <1>2, <1>4, <2>1, ModelKept
    <2>3. QED
      BY <2>1, <2>2 DEF IndInv
  <1>5. CASE /\ disk.meta[job[l].src] # 0
             /\ madeWith[disk.meta[job[l].src]] = model
             /\ Go(l, "loading") /\ UNCHANGED <<job, locks>>
    <2>1. /\ TypeOK' /\ OneMutator'
          /\ pc'[l] = "loading" /\ \A m \in Lanes : m # l => pc'[m] = pc[m]
      BY <1>1, <1>2, <1>5, Shape, MoveTypes DEF Phases, Writing, ghosts
    <2>2. Current(disk.chunks[job[l].src])
      BY <1>1, <1>5, Shape DEF ModelInv, MetaVouchesForChunks
    <2>3. \A v : Current(v)' = Current(v)
      BY <1>2, SameRuns
    <2>4. ModelInv'
      BY <1>1, <1>2, <1>5, <2>1, <2>2, <2>3 DEF ModelInv,
         MetaVouchesForChunks, OperationsCurrent, LateCurrent
    <2>5. QED
      BY <2>1, <2>4 DEF IndInv
  <1>6. QED
    BY <1>3, <1>4, <1>5 DEF MetaRead

LEMMA ChunksReadStep ==
    ASSUME IndInv, NEW l \in Lanes, ChunksRead(l)
    PROVE  IndInv'
  <1>1. TypeOK /\ OneMutator /\ ModelInv
    BY DEF IndInv
  <1>2. /\ pc[l] = "loading" /\ Go(l, "ranking")
        /\ job' = [job EXCEPT ![l].ver = disk.chunks[job[l].src]]
        /\ UNCHANGED <<disk, locks, late, model, madeWith, calls, ghosts>>
    BY DEF ChunksRead
  <1>3. /\ job' \in [Lanes -> Job]
        /\ \A m \in Lanes : /\ job'[m].kind = job[m].kind
                            /\ job'[m].src = job[m].src
        /\ job'[l].ver = disk.chunks[job[l].src]
        /\ \A m \in Lanes : m # l => job'[m] = job[m]
    BY <1>1, <1>2, Shape DEF Job
  <1>4. /\ TypeOK' /\ OneMutator'
        /\ pc'[l] = "ranking" /\ \A m \in Lanes : m # l => pc'[m] = pc[m]
    BY <1>1, <1>2, <1>3, Shape, MoveTypes DEF Phases, Writing, ghosts
  <1>5. Current(disk.chunks[job[l].src])
    BY <1>1, <1>2 DEF ModelInv, OperationsCurrent
  <1>6. \A v : Current(v)' = Current(v)
    BY <1>2, SameRuns
  <1>7. ModelInv'
    BY <1>1, <1>2, <1>3, <1>4, <1>5, <1>6 DEF ModelInv,
       MetaVouchesForChunks, OperationsCurrent, LateCurrent
  <1>8. QED
    BY <1>4, <1>7 DEF IndInv

(* A new binary's model is newer than that of every file, so that no       *)
(* meta.json vouches for anything until the source is indexed again.       *)
LEMMA RestartStep ==
    ASSUME IndInv, Restart
    PROVE  IndInv'
  <1>1. TypeOK /\ OneMutator /\ ModelInv
    BY DEF IndInv
  <1>2. /\ model' \in model .. MaxModel /\ locks' = {} /\ late' = {}
        /\ pc' = [l \in Lanes |-> "idle"]
        /\ job' = [l \in Lanes |-> NoJob(job[l].src)]
        /\ UNCHANGED <<disk, madeWith, calls, ghosts>>
    BY DEF Restart
  <1>3. Version' = Version /\ Job' = Job /\ Entries' = Entries
    BY <1>2 DEF Version, Job, Entries
  <1>4. /\ job' \in [Lanes -> Job]
        /\ \A l \in Lanes : job'[l].kind = "none" /\ pc'[l] = "idle"
    BY <1>1, <1>2, Shape DEF NoJob, JobOf, Job, Kinds
  <1>5. /\ model \in Int /\ model' \in Int /\ model' >= model
        /\ model' \in 1 .. MaxModel
        /\ \A v \in 1 .. Len(madeWith) : madeWith[v] \in 1 .. model
    BY <1>1, <1>2, DocsConstants, ElementOfSeq DEF TypeOK
  <1>6. madeWith' \in Seq(1 .. model')
    <2>1. 1 .. model \subseteq 1 .. model'
      BY <1>5
    <2>2. QED
      BY <1>1, <1>2, <2>1, SeqDef DEF TypeOK
  <1>7. TypeOK'
    BY <1>1, <1>2, <1>3, <1>4, <1>5, <1>6 DEF TypeOK, ghosts, Phases
  <1>8. OneMutator'
    BY <1>2, <1>4 DEF OneMutator, Mutators
  <1>9. MetaVouchesForChunks'
    <2>1. CASE model' = model
      BY <1>1, <1>2, <2>1 DEF ModelInv, MetaVouchesForChunks, Current
    <2>2. CASE model' # model
      <3>1. \A s \in Sources : disk.meta[s] # 0 =>
                disk.meta[s] \in 1 .. Len(madeWith)
        BY <1>1 DEF TypeOK, Version
      <3>2. \A s \in Sources : disk.meta[s] # 0 =>
                madeWith[disk.meta[s]] # model'
        BY <1>5, <2>2, <3>1
      <3>3. QED
        BY <1>2, <3>2 DEF MetaVouchesForChunks
    <2>3. QED
      BY <2>1, <2>2
  <1>10. OperationsCurrent' /\ LateCurrent'
    BY <1>2, <1>4 DEF OperationsCurrent, LateCurrent
  <1>11. QED
    BY <1>7, <1>8, <1>9, <1>10 DEF IndInv, ModelInv

----------------------------------------------------------------------------

LEMMA NextInv == IndInv /\ [Next]_vars => IndInv'
  <1> SUFFICES ASSUME IndInv, [Next]_vars PROVE IndInv'
    OBVIOUS
  <1>1. CASE UNCHANGED vars
    <2>1. UNCHANGED <<model, madeWith>> /\ UNCHANGED vars
      BY <1>1 DEF vars
    <2>2. /\ Version' = Version /\ Job' = Job /\ Entries' = Entries
          /\ \A v : Current(v)' = Current(v)
      BY <2>1, SameRuns
    <2>3. TypeOK' /\ OneMutator'
      BY <2>1, <2>2 DEF IndInv, TypeOK, OneMutator, vars, ghosts
    <2>4. ModelInv'
      BY <2>1, <2>2 DEF IndInv, ModelInv, MetaVouchesForChunks,
         OperationsCurrent, LateCurrent, vars
    <2>5. QED
      BY <2>3, <2>4 DEF IndInv
  <1>2. ASSUME NEW l \in Lanes, Step(l)
        PROVE  IndInv'
    BY <1>2, BeginSteps, Endings, PrepareStep, WriteStep, ListReadStep,
       CheckedStep, MetaReadStep, ChunksReadStep DEF Step
  <1>3. QED
    BY <1>1, <1>2, LateStep, RestartStep DEF Next

(* In every reachable state the whole inductive invariant holds.           *)
THEOREM Invariance == Spec => []IndInv
  BY InitInv, NextInv, PTL DEF Spec

(* Versions on disk, in memory and under way are versions of runs that     *)
(* were begun, and their models are those of binaries that have run.       *)
THEOREM TypeCorrect == Spec => []TypeOK
  <1>1. IndInv => TypeOK
    BY DEF IndInv
  <1>2. QED
    BY <1>1, Invariance, PTL

(* SourceLocks admits one writer per source and is released on every exit, *)
(* the dropped future of a timeout and the restart of the daemon included. *)
THEOREM LocksExclude == Spec => []OneMutator
  <1>1. IndInv => OneMutator
    BY DEF IndInv
  <1>2. QED
    BY <1>1, Invariance, PTL

(* A search ranks only vectors of the model that embeds its query, without *)
(* a lock and whatever was cut short between the writes of the two files.  *)
THEOREM SearchComparesOneModel == Spec => []SearchModelMatches
  <1>1. IndInv => SearchModelMatches
    BY DEF IndInv, ModelInv, OperationsCurrent, Current, SearchModelMatches
  <1>2. QED
    BY <1>1, Invariance, PTL

----------------------------------------------------------------------------
(* What searches and the manifest promise.  It rests on who may still      *)
(* change a source's files: a running index or removal, or one write of a  *)
(* dropped one, and never both unless a write was under way when the next  *)
(* began (stray).                                                          *)

(* An entry of sources.json, or of a copy somebody may still write back.   *)
Claims(s, v) ==
    \/ <<s, v>> \in disk.listed
    \/ \E l \in Lanes : <<s, v>> \in job[l].list
    \/ \E w \in late : <<s, v>> \in w.job.list

Newest(s, n) == \A v \in Nat : Claims(s, v) => v <= n

(* The awaits in which an operation of each kind can be.                   *)
Fits(p, kind) ==
    /\ p \in {"preparing", "diffing", "writingChunks", "writingMeta"}
          => kind = "index"
    /\ p \in {"checking", "deletingChunks", "deletingMeta"} => kind = "remove"
    /\ p \in {"readingList", "writingList"} => kind \in Mutators
    /\ p \in {"searching", "loading", "ranking"} => kind = "search"

PhasesFit ==
    /\ \A l \in Lanes : Fits(pc[l], job[l].kind)
    /\ \A w \in late : Fits(w.at, w.job.kind)

(* What operation or late write j, at p, relies on and may put in place.   *)
Sound(p, j) ==
    j.src \notin stray =>
        /\ j.kind = "index" =>
              /\ promised[j.src] <= j.ver /\ j.src \notin gone
              /\ Newest(j.src, j.ver)
              /\ p \in {"writingMeta", "readingList", "writingList"}
                    => disk.chunks[j.src] >= j.ver
              /\ p \in {"readingList", "writingList"}
                    => disk.meta[j.src] >= j.ver
        /\ j.kind = "remove" /\ p \notin {"checking", "unknown"} =>
              promised[j.src] = 0 /\ Newest(j.src, erased[j.src])

WritersSound ==
    /\ \A l \in Lanes : Sound(pc[l], job[l])
    /\ \A w \in late : Sound(w.at, w.job)

(* A write that outlived its call is the only one that can still reach     *)
(* the source's files.                                                     *)
LateAlone ==
    \A w \in late : w.job.src \notin stray =>
        /\ w.job.src \notin locks
        /\ \A x \in late : x.job.src = w.job.src => x = w

Kept(s) ==
    s \notin stray =>
        /\ promised[s] <= disk.chunks[s] /\ promised[s] <= disk.meta[s]
        /\ \A v \in Nat : Claims(s, v) /\ v > erased[s] =>
              disk.chunks[s] >= v /\ disk.meta[s] >= v

FilesKeepPromise == \A s \in Sources : Kept(s)

Owed(p, j) ==
    j.kind = "search" /\ j.src \notin stray =>
        /\ j.owed <= promised[j.src] \/ p \in {"ranking", "unknown"}
        /\ p = "ranking" => j.ver >= j.owed
        /\ p = "unknown" => j.owed = 0

SearchesOwed == \A l \in Lanes : Owed(pc[l], job[l])

FreshInv == /\ PhasesFit /\ WritersSound /\ LateAlone /\ FilesKeepPromise
            /\ SearchesOwed /\ ManifestAgrees

DocsInv == IndInv /\ FreshInv

----------------------------------------------------------------------------
(* Steps that leave a source's files and promises alone.                   *)

Quiet(s) ==
    /\ promised'[s] = promised[s] /\ erased'[s] = erased[s]
    /\ disk'.chunks[s] = disk.chunks[s] /\ disk'.meta[s] = disk.meta[s]
    /\ s \in stray => s \in stray'
    /\ s \in gone' => s \in gone
    /\ \A v \in Nat : Claims(s, v)' => Claims(s, v)

LEMMA QuietSound ==
    ASSUME NEW p, NEW j, Quiet(j.src), Sound(p, j)
    PROVE  Sound(p, j)'
  BY DEF Quiet, Sound, Newest

LEMMA QuietKept ==
    ASSUME NEW s, Quiet(s), Kept(s)
    PROVE  Kept(s)'
  BY DEF Quiet, Kept

(* What a job relies on does not depend on the list it has read or on      *)
(* what it owes.                                                           *)
LEMMA SameSound ==
    ASSUME NEW p, NEW j, NEW k, j.kind = k.kind, j.src = k.src, j.ver = k.ver,
           Sound(p, j)
    PROVE  Sound(p, k)
  BY DEF Sound

LEMMA SameOwed ==
    ASSUME NEW p, NEW j, Owed(p, j), j.src \in stray => j.src \in stray',
           promised[j.src] \in Nat, promised'[j.src] \in Nat, j.owed \in Nat,
           promised'[j.src] >= promised[j.src]
    PROVE  Owed(p, j)'
  BY DEF Owed

(* Entries spread only by being read from sources.json and by outliving    *)
(* the call that read them.                                                *)
LEMMA ClaimsShrink ==
    ASSUME disk'.listed \subseteq disk.listed,
           \A l \in Lanes : \A e \in job'[l].list :
               e \in job[l].list \/ e \in disk.listed,
           \A w \in late' : w \in late \/ \E l \in Lanes : w.job = job[l],
           NEW s, NEW v, Claims(s, v)'
    PROVE  Claims(s, v)
  BY DEF Claims

(* The numbers in the state.                                               *)
LEMMA Numbers ==
    ASSUME TypeOK
    PROVE  /\ Len(madeWith) \in Nat /\ 0 \in Version
           /\ \A s \in Sources :
                 /\ promised[s] \in Nat /\ erased[s] \in Nat
                 /\ disk.chunks[s] \in Nat /\ disk.meta[s] \in Nat
                 /\ promised[s] <= Len(madeWith)
                 /\ Newest(s, Len(madeWith))
           /\ \A l \in Lanes : /\ job[l] \in Job /\ job[l].src \in Sources
                               /\ job[l].ver \in Nat /\ job[l].owed \in Nat
                               /\ job[l].list \subseteq Entries
           /\ \A w \in late : /\ w.at \in Writing
                              /\ w.job \in Job /\ w.job.src \in Sources
                              /\ w.job.ver \in Nat
                              /\ w.job.list \subseteq Entries
  <1>1. /\ Len(madeWith) \in Nat
        /\ \A v : v \in Version <=> v \in Nat /\ v <= Len(madeWith)
    BY LenProperties DEF TypeOK, Version
  <1>2. \A j \in Job : /\ j.src \in Sources /\ j.ver \in Version
                       /\ j.owed \in Version /\ j.list \subseteq Entries
    BY DEF Job
  <1>3. /\ \A l \in Lanes : job[l] \in Job
        /\ \A w \in late : w.at \in Writing /\ w.job \in Job
        /\ disk.listed \subseteq Entries
    BY DEF TypeOK
  <1>4. \A s \in Sources : promised[s] \in Version /\ erased[s] \in Version
                /\ disk.chunks[s] \in Version /\ disk.meta[s] \in Version
    BY DEF TypeOK
  <1>5. \A s, v : Claims(s, v) => v \in Version
    <2>1. \A s, v : <<s, v>> \in Entries => v \in Version
      BY DEF Entries
    <2>2. QED
      BY <1>2, <1>3, <2>1 DEF Claims
  <1>6. QED
    BY <1>1, <1>2, <1>3, <1>4, <1>5 DEF Newest

(* Each source's entry in the manifest, now and after a step.              *)
LEMMA ListedEntries ==
    ASSUME TypeOK, TypeOK', NEW s
    PROVE  /\ Listed(s) = {v \in Nat : <<s, v>> \in disk.listed}
           /\ Listed(s)' = {v \in Nat : <<s, v>> \in disk'.listed}
  <1>1. Version \subseteq Nat /\ Version' \subseteq Nat
    BY LenProperties DEF TypeOK, Version
  <1>2. /\ \A v : <<s, v>> \in disk.listed => v \in Version
        /\ \A v : <<s, v>> \in disk'.listed => v \in Version'
    BY DEF TypeOK, Entries
  <1>3. QED
    BY <1>1, <1>2 DEF Listed

LEMMA ManifestKept ==
    ASSUME TypeOK, TypeOK', ManifestAgrees, stray \subseteq stray',
           gone' \subseteq gone, disk'.listed = disk.listed,
           clobbered' = clobbered,
           \A s \in Sources : promised'[s] = promised[s] \/ promised'[s] = 0
    PROVE  ManifestAgrees'
  <1>1. \A s : Listed(s)' = Listed(s)
    BY ListedEntries
  <1>2. \A s, v : Listed(s) = {v} => v \in Version'
    BY <1>1 DEF Listed
  <1>3. QED
    BY <1>1, <1>2 DEF ManifestAgrees

(* A step of one lane that writes nothing.                                 *)
QuietMove(l, p, j) ==
    /\ disk' = disk /\ promised' = promised /\ erased' = erased
    /\ clobbered' = clobbered /\ stray \subseteq stray' /\ gone' \subseteq gone
    /\ \A m \in Lanes : m # l => pc'[m] = pc[m] /\ job'[m] = job[m]
    /\ pc'[l] = p /\ job'[l] = j
    /\ \A e \in j.list : e \in job[l].list \/ e \in disk.listed
    /\ \A w \in late' : w \in late \/ (w.at = pc[l] /\ w.job = job[l])

LEMMA QuietStep ==
    ASSUME DocsInv, TypeOK', LateAlone', NEW l \in Lanes, NEW p, NEW j,
           QuietMove(l, p, j), Fits(p, j.kind), Owed(p, j),
           Sound(p, j) \/ Sound(p, j)'
    PROVE  FreshInv'
  <1>0. /\ disk' = disk /\ promised' = promised /\ erased' = erased
        /\ clobbered' = clobbered /\ stray \subseteq stray' /\ gone' \subseteq gone
        /\ \A m \in Lanes : m # l => pc'[m] = pc[m] /\ job'[m] = job[m]
        /\ pc'[l] = p /\ job'[l] = j
        /\ \A e \in j.list : e \in job[l].list \/ e \in disk.listed
        /\ \A w \in late' : w \in late \/ (w.at = pc[l] /\ w.job = job[l])
    BY DEF QuietMove
  <1>1. TypeOK /\ FreshInv
    BY DEF DocsInv, IndInv
  <1>2. \A s, v : Claims(s, v)' => Claims(s, v)
    <2>1. \A m \in Lanes : \A e \in job'[m].list :
              e \in job[m].list \/ e \in disk.listed
      BY <1>0
    <2>2. \A w \in late' : w \in late \/ \E m \in Lanes : w.job = job[m]
      BY <1>0
    <2>3. disk'.listed \subseteq disk.listed
      BY <1>0
    <2>4. QED
      BY <2>1, <2>2, <2>3, ClaimsShrink
  <1>3. \A s : Quiet(s)
    BY <1>0, <1>2 DEF Quiet
  <1>4. FilesKeepPromise'
    BY <1>1, <1>3, QuietKept DEF FreshInv, FilesKeepPromise
  <1>5. WritersSound'
    <2>1. \A q, k : Sound(q, k) => Sound(q, k)'
      BY <1>3, QuietSound
    <2>2. \A m \in Lanes : Sound(pc[m], job[m])'
      <3>1. Sound(pc[l], job[l])'
        BY <1>0, <2>1
      <3>2. ASSUME NEW m \in Lanes, m # l
            PROVE  Sound(pc[m], job[m])'
        <4>1. Sound(pc[m], job[m])
          BY <1>1 DEF FreshInv, WritersSound
        <4>2. pc'[m] = pc[m] /\ job'[m] = job[m]
          BY <1>0, <3>2
        <4>3. QED
          BY <2>1, <4>1, <4>2
      <3>3. QED
        BY <3>1, <3>2
    <2>3. \A w \in late' : Sound(w.at, w.job)
      BY <1>0, <1>1 DEF FreshInv, WritersSound
    <2>4. QED
      BY <2>1, <2>2, <2>3 DEF WritersSound
  <1>6. PhasesFit'
    BY <1>0, <1>1 DEF FreshInv, PhasesFit
  <1>7. SearchesOwed'
    <2>1. \A q, k : Owed(q, k) => Owed(q, k)'
      BY <1>0 DEF Owed
    <2>2. \A m \in Lanes : Owed(pc'[m], job'[m])
      BY <1>0, <1>1 DEF FreshInv, SearchesOwed
    <2>3. QED
      BY <2>1, <2>2 DEF SearchesOwed
  <1>8. ManifestAgrees'
    BY <1>0, <1>1, ManifestKept DEF FreshInv
  <1>9. QED
    BY <1>4, <1>5, <1>6, <1>7, <1>8 DEF FreshInv

(* Nothing is relied on by what is no writer.                              *)
LEMMA Harmless ==
    ASSUME NEW p, NEW j, j.kind \notin Mutators
    PROVE  Sound(p, j)
  BY DEF Sound, Mutators

(* A begun operation.                                                      *)
LEMMA BeginFresh ==
    ASSUME DocsInv, TypeOK', NEW l \in Lanes, NEW s \in Sources,
           IndexBegin(l, s) \/ RemoveBegin(l, s) \/ SearchBegin(l, s)
    PROVE  FreshInv'
  <1>1. TypeOK /\ FreshInv
    BY DEF DocsInv, IndInv
  <1>2. ASSUME Acquire(s), late' = late
        PROVE  LateAlone' /\ stray \subseteq stray'
    <2>1. stray \subseteq stray' /\ locks' = locks \cup {s}
      BY <1>2 DEF Acquire
    <2>2. \A w \in late : w.job.src = s => s \in stray'
      BY <1>2 DEF Acquire
    <2>3. QED
      BY <1>1, <1>2, <2>1, <2>2 DEF FreshInv, LateAlone
  <1>3. ASSUME NEW p, NEW j, Go(l, p), job' = [job EXCEPT ![l] = j]
        PROVE  /\ pc'[l] = p /\ job'[l] = j
               /\ \A m \in Lanes : m # l => pc'[m] = pc[m] /\ job'[m] = job[m]
    BY <1>1, <1>3 DEF TypeOK, Go
  <1>4. CASE IndexBegin(l, s)
    <2>0. PICK ver, j : ver = Len(madeWith) + 1 /\ j = JobOf("index", s, ver, 0)
      OBVIOUS
    <2>1. /\ Go(l, "preparing") /\ job' = [job EXCEPT ![l] = j] /\ Acquire(s)
          /\ gone' = gone \ {s}
          /\ UNCHANGED <<disk, late, promised, erased, clobbered>>
      BY <2>0, <1>4 DEF IndexBegin, Begin
    <2>2. /\ pc'[l] = "preparing" /\ job'[l] = j
          /\ \A m \in Lanes : m # l => pc'[m] = pc[m] /\ job'[m] = job[m]
      BY <1>3, <2>1
    <2>3. /\ j.kind = "index" /\ j.src = s /\ j.ver = ver /\ j.list = {}
          /\ Fits("preparing", j.kind) /\ Owed("preparing", j)
      BY <2>0 DEF JobOf, Fits, Owed
    <2>4. Sound("preparing", j)'
      <3>1. \A t, v : Claims(t, v)' => Claims(t, v)
        BY <2>1, <2>2, <2>3, ClaimsShrink
      <3>2. \A v \in Nat : Claims(s, v) => v <= Len(madeWith)
        BY <1>1, Numbers DEF Newest
      <3>3. Newest(s, ver)'
        BY <1>1, <2>0, <3>1, <3>2, Numbers DEF Newest
      <3>4. promised'[s] <= j.ver /\ s \notin gone'
        BY <1>1, <2>0, <2>1, <2>3, Numbers
      <3>5. QED
        BY <2>2, <2>3, <3>3, <3>4 DEF Sound
    <2>5. QuietMove(l, "preparing", j)
      BY <1>2, <2>1, <2>2, <2>3, <2>4 DEF QuietMove
    <2>6. QED
      BY <1>2, <2>1, <2>2, <2>3, <2>4, <2>5, QuietStep
  <1>5. CASE RemoveBegin(l, s)
    <2>0. PICK j : j = JobOf("remove", s, 0, 0)
      OBVIOUS
    <2>1. /\ Go(l, "checking") /\ job' = [job EXCEPT ![l] = j] /\ Acquire(s)
          /\ UNCHANGED <<disk, late, promised, erased, gone, clobbered>>
      BY <2>0, <1>5 DEF RemoveBegin, Begin
    <2>2. /\ pc'[l] = "checking" /\ job'[l] = j
          /\ \A m \in Lanes : m # l => pc'[m] = pc[m] /\ job'[m] = job[m]
      BY <1>3, <2>1
    <2>3. /\ j.list = {} /\ Fits("checking", j.kind) /\ Owed("checking", j)
          /\ Sound("checking", j)
      BY <2>0 DEF JobOf, Fits, Owed, Sound, Mutators
    <2>4. QuietMove(l, "checking", j)
      BY <1>2, <2>1, <2>2, <2>3 DEF QuietMove
    <2>5. QED
      BY <1>2, <2>1, <2>2, <2>3, <2>4, QuietStep
  <1>6. CASE SearchBegin(l, s)
    <2>0. PICK j : j = JobOf("search", s, 0, promised[s])
      OBVIOUS
    <2>1. /\ Go(l, "searching") /\ job' = [job EXCEPT ![l] = j]
          /\ UNCHANGED <<disk, locks, late, ghosts>>
      BY <2>0, <1>6 DEF SearchBegin, Begin
    <2>2. /\ pc'[l] = "searching" /\ job'[l] = j
          /\ \A m \in Lanes : m # l => pc'[m] = pc[m] /\ job'[m] = job[m]
      BY <1>3, <2>1
    <2>3. /\ j.list = {} /\ Fits("searching", j.kind) /\ Owed("searching", j)
          /\ Sound("searching", j)
      BY <2>0, <1>1, Numbers DEF JobOf, Fits, Owed, Sound, Mutators
    <2>4. LateAlone'
      BY <1>1, <2>1 DEF FreshInv, LateAlone, ghosts
    <2>5. QuietMove(l, "searching", j)
      BY <2>1, <2>2, <2>3, <2>4 DEF ghosts, QuietMove
    <2>6. QED
      BY <2>1, <2>2, <2>3, <2>4, <2>5, QuietStep
  <1>7. QED
    BY <1>4, <1>5, <1>6

(* An operation that ends with nothing written: its lock is released only  *)
(* if it is a writer's, and a write it leaves behind is then alone.        *)
LEMMA EndFresh ==
    ASSUME DocsInv, TypeOK', NEW l \in Lanes, End(l),
           UNCHANGED <<disk, ghosts>>,
           \/ late' = late
           \/ /\ pc[l] \in Writing
              /\ late' = late \cup {[at |-> pc[l], job |-> job[l]]}
    PROVE  FreshInv'
  <1>1. TypeOK /\ OneMutator /\ FreshInv
    BY DEF DocsInv, IndInv
  <1> DEFINE w == [at |-> pc[l], job |-> job[l]]
  <1>0. PICK j : j = NoJob(job[l].src)
    OBVIOUS
  <1>2. /\ pc'[l] = "idle" /\ job'[l] = j
        /\ \A m \in Lanes : m # l => pc'[m] = pc[m] /\ job'[m] = job[m]
    BY <1>0, <1>1 DEF End, Go, TypeOK
  <1>3. /\ j.list = {} /\ Fits("idle", j.kind) /\ Owed("idle", j)
        /\ Sound("idle", j)
    BY <1>0 DEF NoJob, JobOf, Fits, Owed, Sound, Mutators
  <1>4. LateAlone'
    <2>1. locks' \subseteq locks /\ stray' = stray
      BY DEF End, ghosts
    <2>2. CASE late' = late
      BY <1>1, <2>1, <2>2 DEF FreshInv, LateAlone
    <2>3. CASE pc[l] \in Writing /\ late' = late \cup {w}
      <3>1. job[l].kind \in Mutators
        BY <1>1, <2>3 DEF FreshInv, PhasesFit, Fits, Writing, Mutators
      <3>2. job[l].src \in locks /\ locks' = locks \ {job[l].src}
        BY <1>1, <3>1 DEF OneMutator, End
      <3>3. \A x \in late : x.job.src = job[l].src => job[l].src \in stray
        BY <1>1, <3>2 DEF FreshInv, LateAlone
      <3>4. QED
        BY <1>1, <2>1, <2>3, <3>2, <3>3 DEF FreshInv, LateAlone
    <2>4. QED
      BY <2>2, <2>3
  <1>5. QuietMove(l, "idle", j)
    BY <1>2, <1>3 DEF QuietMove, ghosts
  <1>6. QED
    BY <1>3, <1>4, <1>5, QuietStep

(* One that goes on without writing.                                       *)
LEMMA MoveFresh ==
    ASSUME DocsInv, TypeOK', NEW l \in Lanes,
           Prepare(l) \/ ListRead(l) \/ ChunksRead(l)
    PROVE  FreshInv'
  <1>1. /\ TypeOK /\ FreshInv
        /\ Sound(pc[l], job[l]) /\ Owed(pc[l], job[l])
        /\ Fits(pc[l], job[l].kind)
    BY DEF DocsInv, IndInv, FreshInv, WritersSound, SearchesOwed, PhasesFit
  <1>2. UNCHANGED <<disk, locks, late, ghosts>>
    BY DEF Prepare, ListRead, ChunksRead
  <1>3. LateAlone'
    BY <1>1, <1>2 DEF FreshInv, LateAlone, ghosts
  <1>4. CASE Prepare(l)
    <2>0. PICK j : j = job[l]
      OBVIOUS
    <2>1. PICK p \in {"diffing", "writingChunks"} : Go(l, p) /\ job' = job
      BY <1>4 DEF Prepare, After
    <2>2. pc[l] \in {"preparing", "diffing"} /\ job[l].kind = "index"
      BY <1>1, <1>4 DEF Prepare, Fits
    <2>3. /\ pc'[l] = p /\ job'[l] = j
          /\ \A m \in Lanes : m # l => pc'[m] = pc[m] /\ job'[m] = job[m]
      BY <1>1, <2>0, <2>1 DEF Go, TypeOK
    <2>4. Fits(p, j.kind) /\ Sound(p, j) /\ Owed(p, j)
      BY <1>1, <2>0, <2>1, <2>2 DEF Fits, Sound, Owed
    <2>5. QuietMove(l, p, j)
      BY <1>2, <2>0, <1>3, <2>3, <2>4 DEF ghosts, QuietMove
    <2>6. QED
      BY <1>2, <1>3, <2>3, <2>4, <2>5, QuietStep
  <1>5. CASE ListRead(l)
    <2>0. PICK j : j = [job[l] EXCEPT !.list = disk.listed]
      OBVIOUS
    <2>1. /\ pc[l] = "readingList" /\ Go(l, "writingList")
          /\ job' = [job EXCEPT ![l].list = disk.listed]
      BY <1>5 DEF ListRead, After
    <2>2. /\ pc'[l] = "writingList" /\ job'[l] = j
          /\ \A m \in Lanes : m # l => pc'[m] = pc[m] /\ job'[m] = job[m]
      BY <2>0, <1>1, <2>1 DEF Go, TypeOK
    <2>3. /\ j.kind = job[l].kind /\ j.src = job[l].src
          /\ j.ver = job[l].ver /\ j.owed = job[l].owed /\ j.list = disk.listed
      BY <2>0, <1>1, Numbers DEF Job
    <2>4. /\ Fits("writingList", j.kind) /\ Sound("writingList", j)
          /\ Owed("writingList", j)
      BY <1>1, <2>1, <2>3 DEF Fits, Sound, Owed, Mutators
    <2>5. \A e \in j.list : e \in job[l].list \/ e \in disk.listed
      BY <2>3
    <2>6. QuietMove(l, "writingList", j)
      BY <1>2, <1>3, <2>2, <2>4, <2>5 DEF ghosts, QuietMove
    <2>7. QED
      BY <1>2, <1>3, <2>2, <2>4, <2>5, <2>6, QuietStep
  <1>6. CASE ChunksRead(l)
    <2>0. PICK s, j : s = job[l].src /\ j = [job[l] EXCEPT !.ver = disk.chunks[s]]
      OBVIOUS
    <2>1. /\ pc[l] = "loading" /\ Go(l, "ranking")
          /\ job' = [job EXCEPT ![l].ver = disk.chunks[s]]
      BY <2>0, <1>6 DEF ChunksRead
    <2>2. /\ pc'[l] = "ranking" /\ job'[l] = j
          /\ \A m \in Lanes : m # l => pc'[m] = pc[m] /\ job'[m] = job[m]
      BY <2>0, <1>1, <2>1 DEF Go, TypeOK
    <2>3. /\ j.kind = "search" /\ j.src = s /\ j.owed = job[l].owed
          /\ j.ver = disk.chunks[s] /\ j.list = job[l].list
      BY <2>0, <1>1, <2>1, Numbers DEF Job, Fits
    <2>4. s \notin stray => /\ promised[s] <= disk.chunks[s]
                            /\ j.owed <= promised[s]
      BY <1>1, <2>0, <2>1, <2>3, Numbers
         DEF FreshInv, FilesKeepPromise, Kept, Owed
    <2>5. /\ Fits("ranking", j.kind) /\ Owed("ranking", j)
          /\ Sound("ranking", j)
      <3>1. s \notin stray => j.ver >= j.owed
        BY <1>1, <2>0, <2>3, <2>4, Numbers
      <3>2. QED
        BY <2>3, <3>1, Harmless DEF Fits, Owed, Mutators
    <2>6. QuietMove(l, "ranking", j)
      BY <1>2, <1>3, <2>0, <2>2, <2>3, <2>5 DEF ghosts, QuietMove
    <2>7. QED
      BY <1>2, <1>3, <2>0, <2>2, <2>3, <2>5, <2>6, QuietStep
  <1>7. QED
    BY <1>4, <1>5, <1>6

(* A search of a source without meta.json was owed nothing.                *)
LEMMA MetaReadFresh ==
    ASSUME DocsInv, TypeOK', NEW l \in Lanes, MetaRead(l)
    PROVE  FreshInv'
  <1>1. /\ TypeOK /\ FreshInv /\ Owed("searching", job[l])
        /\ pc[l] = "searching" /\ job[l].kind = "search"
    BY DEF MetaRead, DocsInv, IndInv, FreshInv, SearchesOwed, PhasesFit, Fits
  <1>2. UNCHANGED <<disk, late, ghosts>>
    BY DEF MetaRead
  <1>3. CASE End(l)
    BY <1>2, <1>3, EndFresh
  <1>4. ASSUME NEW p \in {"unknown", "loading"}, Go(l, p),
               UNCHANGED <<job, locks>>,
               p = "unknown" => disk.meta[job[l].src] = 0
        PROVE  FreshInv'
    <2>0. PICK j : j = job[l]
      OBVIOUS
    <2>1. /\ pc'[l] = p /\ job'[l] = j
          /\ \A m \in Lanes : m # l => pc'[m] = pc[m] /\ job'[m] = job[m]
      BY <1>1, <1>4, <2>0 DEF Go, TypeOK
    <2>2. Owed(p, j)
      <3>1. job[l].src \notin stray =>
                /\ promised[job[l].src] <= disk.meta[job[l].src]
                /\ job[l].owed <= promised[job[l].src]
        BY <1>1, Numbers DEF FreshInv, FilesKeepPromise, Kept, Owed
      <3>2. job[l].src \notin stray /\ p = "unknown" => job[l].owed = 0
        BY <1>1, <1>4, <3>1, Numbers
      <3>3. QED
        BY <1>1, <2>0, <3>1, <3>2 DEF Owed
    <2>3. Fits(p, j.kind) /\ Sound(p, j)
      BY <1>1, <2>0, Harmless DEF Fits, Mutators
    <2>4. LateAlone'
      BY <1>1, <1>2, <1>4 DEF FreshInv, LateAlone, ghosts
    <2>5. QuietMove(l, p, j)
      BY <1>2, <2>0, <2>1, <2>2, <2>3, <2>4 DEF ghosts, QuietMove
    <2>6. QED
      BY <1>2, <2>1, <2>2, <2>3, <2>4, <2>5, QuietStep
  <1>5. QED
    BY <1>3, <1>4 DEF MetaRead

----------------------------------------------------------------------------
(* Steps that write.                                                       *)

(* At most one writer can reach the files of a source that is not stray.   *)
LEMMA Alone ==
    ASSUME DocsInv, NEW s \in Sources, s \notin stray
    PROVE  /\ \A l, m \in Lanes :
                 job[l].kind \in Mutators /\ job[l].src = s
                 /\ job[m].kind \in Mutators /\ job[m].src = s => l = m
           /\ \A l \in Lanes : \A w \in late :
                 job[l].kind \in Mutators /\ job[l].src = s => w.job.src # s
           /\ \A w, x \in late : w.job.src = s /\ x.job.src = s => w = x
  <1>1. OneMutator /\ LateAlone
    BY DEF DocsInv, IndInv, FreshInv
  <1>2. \A l, m \in Lanes :
            job[l].kind \in Mutators /\ job[l].src = s
            /\ job[m].kind \in Mutators /\ job[m].src = s => l = m
    BY <1>1 DEF OneMutator
  <1>3. \A l \in Lanes : job[l].kind \in Mutators => job[l].src \in locks
    BY <1>1 DEF OneMutator
  <1>4. QED
    BY <1>1, <1>2, <1>3 DEF LateAlone

(* What a landing write of j, at p, may do besides.                        *)
Landing(p, j) ==
    /\ disk' = Landed(p, j) /\ erased' = erased /\ stray' = stray
    /\ \/ promised' = promised
       \/ /\ p = "writingList" /\ j.kind = "index"
          /\ promised' = [promised EXCEPT ![j.src] = j.ver]
    /\ \/ gone' = gone
       \/ /\ p = "writingList" /\ j.kind = "remove"
          /\ gone' = gone \cup {j.src}
    /\ clobbered' = (clobbered \/ Overwrites(p, j))
    /\ \A l \in Lanes : \A e \in job'[l].list : e \in job[l].list
    /\ late' \subseteq late
    /\ \A s, v : <<s, v>> \in j.list => Claims(s, v)

LEMMA LandingClaims ==
    ASSUME NEW p \in Writing, NEW j \in Job, Landing(p, j), NEW s, NEW v,
           Claims(s, v)'
    PROVE  Claims(s, v) \/ (/\ p = "writingList" /\ j.kind = "index"
                            /\ s = j.src /\ v = j.ver)
  <1>1. \/ <<s, v>> \in disk'.listed
        \/ \E l \in Lanes : <<s, v>> \in job[l].list
        \/ \E w \in late : <<s, v>> \in w.job.list
    BY DEF Claims, Landing
  <1>2. CASE <<s, v>> \in disk'.listed
    <2>1. CASE p = "writingList"
      <3>1. <<s, v>> \in Revised(j)
        BY <1>2, <2>1 DEF Landing, Landed
      <3>2. <<s, v>> \in j.list \/ (j.kind = "index" /\ <<s, v>> = <<j.src, j.ver>>)
        BY <3>1 DEF Revised
      <3>3. QED
        BY <2>1, <3>2 DEF Landing
    <2>2. CASE p # "writingList"
      <3>1. disk'.listed = disk.listed
        BY <2>2 DEF Landing, Landed
      <3>2. QED
        BY <1>2, <3>1 DEF Claims
    <2>3. QED
      BY <2>1, <2>2
  <1>3. QED
    BY <1>1, <1>2 DEF Claims

LEMMA LandingElsewhere ==
    ASSUME TypeOK, NEW p \in Writing, NEW j \in Job, Landing(p, j),
           NEW s \in Sources, s # j.src
    PROVE  Quiet(s)
  <1>1. /\ disk'.chunks[s] = disk.chunks[s] /\ disk'.meta[s] = disk.meta[s]
        /\ promised'[s] = promised[s] /\ erased'[s] = erased[s]
    BY DEF Landing, Landed, TypeOK
  <1>2. (s \in stray => s \in stray') /\ (s \in gone' => s \in gone)
    BY DEF Landing
  <1>3. \A v \in Nat : Claims(s, v)' => Claims(s, v)
    BY LandingClaims
  <1>4. QED
    BY <1>1, <1>2, <1>3 DEF Quiet

(* An index run's file is at least as new as anything said about it; a     *)
(* removal's deletions come when nothing is said any more.                 *)
LEMMA LandingHere ==
    ASSUME DocsInv, NEW p \in Writing, NEW j \in Job, Landing(p, j),
           Sound(p, j), Fits(p, j.kind)
    PROVE  Kept(j.src)'
  <1>1. TypeOK /\ Kept(j.src) /\ j.src \in Sources
    BY DEF DocsInv, IndInv, FreshInv, FilesKeepPromise, Job
  <1>2. PICK s, ver : s = j.src /\ ver = j.ver
    OBVIOUS
  <1>3. s \in Sources /\ ver \in Nat
    <2>1. Version \subseteq Nat
      BY <1>1, LenProperties DEF TypeOK, Version
    <2>2. QED
      BY <1>1, <1>2, <2>1 DEF Job
  <1>4. /\ disk'.chunks[s] = IF p = "writingChunks" THEN ver
                             ELSE IF p = "deletingChunks" THEN 0 ELSE disk.chunks[s]
        /\ disk'.meta[s] = IF p = "writingMeta" THEN ver
                           ELSE IF p = "deletingMeta" THEN 0 ELSE disk.meta[s]
        /\ erased'[s] = erased[s] /\ (s \in stray' <=> s \in stray)
    BY <1>1, <1>2, <1>3 DEF Landing, Landed, TypeOK
  <1>5. \A v \in Nat : Claims(s, v)' =>
            Claims(s, v) \/ (p = "writingList" /\ j.kind = "index" /\ v = ver)
    BY <1>2, LandingClaims
  <1>6. /\ promised[s] \in Nat /\ erased[s] \in Nat
        /\ disk.chunks[s] \in Nat /\ disk.meta[s] \in Nat
    BY <1>1, <1>3, Numbers
  <1>7. CASE j.kind = "index" /\ s \notin stray
    <2>1. /\ promised[s] <= ver /\ \A v \in Nat : Claims(s, v) => v <= ver
          /\ p \in {"writingMeta", "writingList"} => disk.chunks[s] >= ver
          /\ p = "writingList" => disk.meta[s] >= ver
      BY <1>2, <1>7 DEF Sound, Newest
    <2>2. promised'[s] = promised[s] \/ (p = "writingList" /\ promised'[s] = ver)
      BY <1>1, <1>2, <1>3 DEF Landing, TypeOK
    <2>3. p \in {"writingChunks", "writingMeta", "writingList"}
      BY <1>7 DEF Fits, Writing
    <2>4. /\ promised[s] <= disk.chunks[s] /\ promised[s] <= disk.meta[s]
          /\ \A v \in Nat : Claims(s, v) /\ v > erased[s] =>
                disk.chunks[s] >= v /\ disk.meta[s] >= v
      BY <1>1, <1>2, <1>7 DEF Kept
    <2>5. promised'[s] <= disk'.chunks[s] /\ promised'[s] <= disk'.meta[s]
      BY <1>3, <1>4, <1>6, <2>1, <2>2, <2>3, <2>4
    <2>6. \A v \in Nat : Claims(s, v)' /\ v > erased'[s] =>
              disk'.chunks[s] >= v /\ disk'.meta[s] >= v
      BY <1>3, <1>4, <1>5, <1>6, <2>1, <2>3, <2>4
    <2>7. QED
      BY <1>2, <2>5, <2>6 DEF Kept
  <1>8. CASE j.kind = "remove" /\ s \notin stray
    <2>1. promised[s] = 0 /\ \A v \in Nat : Claims(s, v) => v <= erased[s]
      BY <1>2, <1>8 DEF Sound, Newest, Writing
    <2>2. promised'[s] = 0
      BY <1>8, <2>1 DEF Landing
    <2>3. \A v \in Nat : Claims(s, v)' => v <= erased[s]
      BY <1>5, <1>8, <2>1
    <2>4. disk'.chunks[s] >= 0 /\ disk'.meta[s] >= 0
      BY <1>4, <1>6, <1>8 DEF Fits
    <2>5. QED
      BY <1>2, <1>4, <1>6, <2>2, <2>3, <2>4 DEF Kept
  <1>9. CASE s \in stray
    BY <1>2, <1>4, <1>9 DEF Kept
  <1>10. j.kind \in Mutators
    BY DEF Fits, Writing, Mutators
  <1>11. QED
    BY <1>7, <1>8, <1>9, <1>10 DEF Mutators

LEMMA LandingManifest ==
    ASSUME TypeOK, TypeOK', ManifestAgrees, NEW p \in Writing, NEW j \in Job,
           Landing(p, j), Sound(p, j), Fits(p, j.kind)
    PROVE  ManifestAgrees'
  <1>1. CASE p # "writingList"
    <2>1. disk'.listed = disk.listed /\ clobbered' = clobbered
      BY <1>1 DEF Landing, Landed, Overwrites, TypeOK
    <2>2. promised' = promised /\ gone' = gone /\ stray' = stray
      BY <1>1 DEF Landing
    <2>3. QED
      BY <2>1, <2>2, ManifestKept
  <1>2. CASE p = "writingList"
    <2> SUFFICES ASSUME ~clobbered', NEW s \in Sources \ stray'
                 PROVE  /\ promised'[s] # 0 => \E v \in Version' :
                               v >= promised'[s] /\ Listed(s)' = {v}
                        /\ s \in gone' => Listed(s)' = {}
      BY DEF ManifestAgrees
    <2>1. /\ ~clobbered /\ j.list = disk.listed /\ disk'.listed = Revised(j)
          /\ s \notin stray
      BY <1>2 DEF Landing, Landed, Overwrites
    <2>2. /\ Listed(s) = {v \in Nat : <<s, v>> \in disk.listed}
          /\ Listed(s)' = {v \in Nat : <<s, v>> \in disk'.listed}
      BY ListedEntries
    <2>3. CASE s # j.src
      <3>1. \A v \in Nat : <<s, v>> \in disk'.listed <=> <<s, v>> \in disk.listed
        BY <2>1, <2>3 DEF Revised
      <3>2. Listed(s)' = Listed(s)
        BY <2>2, <3>1
      <3>3. promised'[s] = promised[s] /\ (s \in gone' => s \in gone)
        BY <2>3 DEF Landing, TypeOK
      <3>4. \A v : Listed(s) = {v} => v \in Version'
        BY <3>2 DEF Listed
      <3>5. QED
        BY <2>1, <3>2, <3>3, <3>4 DEF ManifestAgrees
    <2>4. CASE s = j.src /\ j.kind = "index"
      <3>1. promised[s] <= j.ver /\ s \notin gone
        BY <2>1, <2>4 DEF Sound
      <3>2. j.ver \in Nat /\ j.ver \in Version
        BY LenProperties DEF Job, Version, TypeOK
      <3>3. \A v \in Nat : <<s, v>> \in disk'.listed <=> v = j.ver
        BY <2>1, <2>4, <3>2 DEF Revised
      <3>4. Listed(s)' = {j.ver}
        BY <2>2, <3>2, <3>3
      <3>5. (promised'[s] = promised[s] \/ promised'[s] = j.ver) /\ gone' = gone
        BY <2>4 DEF Landing, TypeOK
      <3>6. j.ver \in Version'
        BY <3>4 DEF Listed
      <3>7. j.ver >= promised'[s]
        BY <3>1, <3>2, <3>5, Numbers
      <3>8. QED
        BY <3>1, <3>4, <3>5, <3>6, <3>7
    <2>5. CASE s = j.src /\ j.kind = "remove"
      <3>1. promised'[s] = 0
        BY <1>2, <2>1, <2>5 DEF Sound, Landing
      <3>2. \A v \in Nat : <<s, v>> \notin disk'.listed
        BY <2>1, <2>5 DEF Revised
      <3>3. QED
        BY <2>2, <3>1, <3>2
    <2>6. QED
      BY <1>2, <2>3, <2>4, <2>5 DEF Fits, Mutators
  <1>3. QED
    BY <1>1, <1>2

(* What everybody else relies on outlives the write.                       *)
LEMMA LandingOthers ==
    ASSUME DocsInv, NEW p \in Writing, NEW j \in Job, Landing(p, j),
           NEW q, NEW k, k.src \in Sources, Sound(q, k),
           k.src = j.src /\ k.kind \in Mutators => j.src \in stray
    PROVE  Sound(q, k)'
  <1>1. TypeOK /\ stray' = stray
    BY DEF DocsInv, IndInv, Landing
  <1>2. CASE k.src # j.src
    BY <1>1, <1>2, LandingElsewhere, QuietSound
  <1>3. CASE k.src \in stray
    BY <1>1, <1>3 DEF Sound
  <1>4. CASE k.kind \notin Mutators
    BY <1>4 DEF Sound, Mutators
  <1>5. QED
    BY <1>2, <1>3, <1>4

LEMMA LandingOwed ==
    ASSUME DocsInv, NEW p \in Writing, NEW j \in Job, Landing(p, j),
           Sound(p, j), NEW q, NEW k, k.src \in Sources, k.owed \in Nat,
           Owed(q, k)
    PROVE  Owed(q, k)'
  <1>1. TypeOK /\ stray' = stray
    BY DEF DocsInv, IndInv, Landing
  <1>2. CASE k.src \in stray
    BY <1>1, <1>2 DEF Owed
  <1>3. CASE k.src \notin stray
    <2>1. /\ promised[k.src] \in Nat /\ j.ver \in Nat
          /\ \/ promised'[k.src] = promised[k.src]
             \/ j.kind = "index" /\ k.src = j.src /\ promised'[k.src] = j.ver
      <3>1. promised \in [Sources -> Version] /\ promised[k.src] \in Nat
        BY <1>1, Numbers DEF TypeOK
      <3>2. j.ver \in Nat
        BY <1>1, Numbers DEF Job, Version
      <3>3. \/ promised'[k.src] = promised[k.src]
            \/ j.kind = "index" /\ k.src = j.src /\ promised'[k.src] = j.ver
        BY <3>1 DEF Landing
      <3>4. QED
        BY <3>1, <3>2, <3>3
    <2>2. promised'[k.src] \in Nat /\ promised'[k.src] >= promised[k.src]
      BY <1>3, <2>1 DEF Sound
    <2>3. QED
      BY <1>1, <2>1, <2>2, SameOwed
  <1>4. QED
    BY <1>2, <1>3

LEMMA LandingFiles ==
    ASSUME DocsInv, NEW p \in Writing, NEW j \in Job, Landing(p, j),
           Sound(p, j), Fits(p, j.kind)
    PROVE  FilesKeepPromise'
  <1>1. TypeOK /\ FilesKeepPromise
    BY DEF DocsInv, IndInv, FreshInv
  <1>2. ASSUME NEW s \in Sources
        PROVE  Kept(s)'
    <2>1. CASE s = j.src
      <3>1. Kept(j.src)'
        BY LandingHere
      <3>2. QED
        BY <2>1, <3>1
    <2>2. CASE s # j.src
      BY <1>1, <2>2, LandingElsewhere, QuietKept DEF FilesKeepPromise
    <2>3. QED
      BY <2>1, <2>2
  <1>3. QED
    BY <1>2 DEF FilesKeepPromise

LEMMA WriteFresh ==
    ASSUME DocsInv, TypeOK', NEW l \in Lanes, Write(l)
    PROVE  FreshInv'
  <1>1. TypeOK /\ FreshInv
    BY DEF DocsInv, IndInv
  <1>2. PICK p, j : p = pc[l] /\ j = job[l]
    OBVIOUS
  <1>3. /\ p \in Writing \ {"writingList"} /\ Go(l, After[p])
        /\ disk' = Landed(p, j)
        /\ UNCHANGED <<locks, job, late, ghosts>>
    BY <1>2 DEF Write
  <1>4. /\ j \in Job /\ j.src \in Sources
        /\ Sound(p, j) /\ Fits(p, j.kind) /\ Owed(p, j)
        /\ j.kind \in Mutators
    BY <1>1, <1>2, <1>3, Numbers
       DEF FreshInv, WritersSound, PhasesFit, SearchesOwed, Fits, Writing, Mutators
  <1>5. Landing(p, j)
    BY <1>1, <1>2, <1>3 DEF Landing, Overwrites, ghosts, Claims, TypeOK
  <1>6. FilesKeepPromise' /\ ManifestAgrees'
    BY <1>1, <1>3, <1>4, <1>5, LandingFiles, LandingManifest DEF FreshInv
  <1>7. LateAlone'
    BY <1>1, <1>3 DEF FreshInv, LateAlone, ghosts
  <1>8. \A m \in Lanes : pc'[m] = IF m = l THEN After[p] ELSE pc[m]
    BY <1>1, <1>3 DEF Go, TypeOK
  <1>9. \/ p = "writingChunks" /\ After[p] = "writingMeta"
        \/ p = "writingMeta" /\ After[p] = "readingList"
        \/ p = "deletingChunks" /\ After[p] = "deletingMeta"
        \/ p = "deletingMeta" /\ After[p] = "readingList"
    BY <1>3 DEF Writing, After
  <1>10. PhasesFit'
    <2>1. Fits(After[p], j.kind)
      BY <1>4, <1>9 DEF Fits, Mutators
    <2>2. QED
      BY <1>1, <1>2, <1>3, <1>8, <2>1 DEF FreshInv, PhasesFit
  <1>11. SearchesOwed'
    <2>1. ASSUME NEW m \in Lanes
          PROVE  Owed(pc[m], job[m])'
      <3>1. PICK q, k : q = pc[m] /\ k = job[m]
        OBVIOUS
      <3>2. Owed(q, k) /\ k.src \in Sources /\ k.owed \in Nat
        BY <1>1, <3>1, Numbers DEF FreshInv, SearchesOwed
      <3>3. Owed(q, k)'
        BY <1>3, <1>4, <1>5, <3>2, LandingOwed
      <3>4. CASE m # l
        BY <1>3, <1>8, <3>1, <3>3, <3>4
      <3>5. CASE m = l
        BY <1>2, <1>3, <1>4, <3>5 DEF Owed, Mutators
      <3>6. QED
        BY <3>4, <3>5
    <2>2. QED
      BY <2>1 DEF SearchesOwed
  <1>12. Sound(After[p], j)'
    <2>1. \A v \in Nat : Claims(j.src, v)' => Claims(j.src, v)
      BY <1>3, <1>4, <1>5, LandingClaims
    <2>2. PICK s, ver : s = j.src /\ ver = j.ver
      OBVIOUS
    <2>3. /\ disk'.chunks[s] = IF p = "writingChunks" THEN ver
                               ELSE IF p = "deletingChunks" THEN 0 ELSE disk.chunks[s]
          /\ disk'.meta[s] = IF p = "writingMeta" THEN ver
                             ELSE IF p = "deletingMeta" THEN 0 ELSE disk.meta[s]
          /\ promised' = promised /\ erased' = erased /\ gone' = gone
          /\ stray' = stray
      BY <1>1, <1>3, <1>4, <2>2 DEF Landed, TypeOK, ghosts
    <2>4. ver \in Nat
      BY <1>1, <1>2, <2>2, Numbers
    <2>5. (p \in {"writingChunks", "writingMeta"} => j.kind = "index")
          /\ (p \in {"deletingChunks", "deletingMeta"} => j.kind = "remove")
      BY <1>4 DEF Fits
    <2>6. CASE j.kind = "index"
      <3>1. s \notin stray => /\ Newest(s, ver)' /\ promised[s] <= ver
                              /\ s \notin gone
                              /\ p = "writingMeta" => disk.chunks[s] >= ver
        BY <1>4, <2>1, <2>2, <2>6 DEF Sound, Newest
      <3>2. QED
        BY <1>9, <2>2, <2>3, <2>4, <2>5, <2>6, <3>1 DEF Sound
    <2>7. CASE j.kind = "remove"
      <3>1. s \notin stray => promised[s] = 0 /\ Newest(s, erased[s])
        BY <1>9, <1>4, <2>2, <2>5, <2>7 DEF Sound
      <3>2. s \notin stray => promised'[s] = 0 /\ Newest(s, erased[s])'
        BY <2>1, <2>2, <2>3, <3>1 DEF Newest
      <3>3. QED
        BY <2>2, <2>3, <2>7, <3>2 DEF Sound
    <2>8. QED
      BY <1>4, <2>6, <2>7 DEF Mutators
  <1>13. WritersSound'
    <2>1. \A m \in Lanes : m # l /\ job[m].src = j.src /\ job[m].kind \in Mutators
              => j.src \in stray
      BY <1>2, <1>4, Alone
    <2>2. ASSUME NEW m \in Lanes
          PROVE  Sound(pc[m], job[m])'
      <3>1. CASE m = l
        BY <1>2, <1>3, <1>8, <1>12, <3>1
      <3>2. CASE m # l
        <4>1. PICK q, k : q = pc[m] /\ k = job[m]
          OBVIOUS
        <4>2. Sound(q, k) /\ k.src \in Sources
          BY <1>1, <4>1, Numbers DEF FreshInv, WritersSound
        <4>3. Sound(q, k)'
          BY <1>3, <1>4, <1>5, <2>1, <3>2, <4>1, <4>2, LandingOthers
        <4>4. QED
          BY <1>3, <1>8, <3>2, <4>1, <4>3
      <3>3. QED
        BY <3>1, <3>2
    <2>3. ASSUME NEW w \in late
          PROVE  Sound(w.at, w.job)'
      <3>1. Sound(w.at, w.job) /\ w.job.src \in Sources
        BY <1>1, Numbers DEF FreshInv, WritersSound
      <3>2. w.job.src = j.src => j.src \in stray
        BY <1>2, <1>4, Alone
      <3>3. QED
        BY <1>3, <1>4, <1>5, <3>1, <3>2, LandingOthers
    <2>4. QED
      BY <1>3, <2>2, <2>3 DEF WritersSound
  <1>14. QED
    BY <1>6, <1>7, <1>10, <1>11, <1>13 DEF FreshInv

LEMMA ListWrittenFresh ==
    ASSUME DocsInv, TypeOK', NEW l \in Lanes, ListWritten(l)
    PROVE  FreshInv'
  <1>1. TypeOK /\ OneMutator /\ FreshInv
    BY DEF DocsInv, IndInv
  <1>2. PICK j : j = job[l]
    OBVIOUS
  <1>3. /\ pc[l] = "writingList" /\ disk' = Landed("writingList", j)
        /\ clobbered' = (clobbered \/ Overwrites("writingList", j))
        /\ \/ /\ j.kind = "index"
              /\ promised' = [promised EXCEPT ![j.src] = j.ver]
              /\ gone' = gone
           \/ /\ j.kind = "remove"
              /\ gone' = gone \cup {j.src}
              /\ promised' = promised
        /\ End(l) /\ UNCHANGED <<late, erased, stray>>
    BY <1>2 DEF ListWritten
  <1>4. /\ j \in Job /\ j.src \in Sources /\ "writingList" \in Writing
        /\ Sound("writingList", j) /\ Fits("writingList", j.kind)
        /\ j.kind \in Mutators
    BY <1>1, <1>2, <1>3, Numbers
       DEF FreshInv, WritersSound, PhasesFit, Fits, Writing, Mutators
  <1>5. /\ pc'[l] = "idle" /\ job'[l] = NoJob(j.src) /\ locks' \subseteq locks
        /\ \A m \in Lanes : m # l => pc'[m] = pc[m] /\ job'[m] = job[m]
    BY <1>1, <1>2, <1>3 DEF End, Go, TypeOK
  <1>6. /\ NoJob(j.src).kind = "none" /\ NoJob(j.src).list = {}
    BY DEF NoJob, JobOf
  <1>7. Landing("writingList", j)
    <2>1. \A m \in Lanes : \A e \in job'[m].list : e \in job[m].list
      BY <1>5, <1>6
    <2>2. \A s, v : <<s, v>> \in j.list => Claims(s, v)
      BY <1>2 DEF Claims
    <2>3. QED
      BY <1>3, <2>1, <2>2 DEF Landing
  <1>8. FilesKeepPromise' /\ ManifestAgrees'
    BY <1>1, <1>4, <1>7, LandingFiles, LandingManifest DEF FreshInv
  <1>9. LateAlone'
    BY <1>1, <1>3, <1>5 DEF FreshInv, LateAlone
  <1>10. PhasesFit'
    BY <1>1, <1>3, <1>5, <1>6 DEF FreshInv, PhasesFit, Fits
  <1>11. SearchesOwed'
    <2>1. ASSUME NEW m \in Lanes, m # l
          PROVE  Owed(pc[m], job[m])'
      <3>1. PICK q, k : q = pc[m] /\ k = job[m]
        OBVIOUS
      <3>2. Owed(q, k) /\ k.src \in Sources /\ k.owed \in Nat
        BY <1>1, <3>1, Numbers DEF FreshInv, SearchesOwed
      <3>3. Owed(q, k)'
        BY <1>4, <1>7, <3>2, LandingOwed
      <3>4. QED
        BY <1>5, <2>1, <3>1, <3>3
    <2>2. Owed(pc[l], job[l])'
      BY <1>5, <1>6 DEF Owed
    <2>3. QED
      BY <2>1, <2>2 DEF SearchesOwed
  <1>12. WritersSound'
    <2>1. ASSUME NEW m \in Lanes
          PROVE  Sound(pc[m], job[m])'
      <3>1. CASE m = l
        BY <1>5, <1>6, <3>1 DEF Sound
      <3>2. CASE m # l
        <4>1. PICK q, k : q = pc[m] /\ k = job[m]
          OBVIOUS
        <4>2. Sound(q, k) /\ k.src \in Sources
          BY <1>1, <4>1, Numbers DEF FreshInv, WritersSound
        <4>3. k.src = j.src /\ k.kind \in Mutators => j.src \in stray
          BY <1>2, <1>4, <3>2, <4>1, Alone
        <4>4. Sound(q, k)'
          BY <1>4, <1>7, <4>2, <4>3, LandingOthers
        <4>5. QED
          BY <1>5, <3>2, <4>1, <4>4
      <3>3. QED
        BY <3>1, <3>2
    <2>2. ASSUME NEW w \in late
          PROVE  Sound(w.at, w.job)'
      <3>1. Sound(w.at, w.job) /\ w.job.src \in Sources
        BY <1>1, Numbers DEF FreshInv, WritersSound
      <3>2. w.job.src = j.src => j.src \in stray
        BY <1>2, <1>4, Alone
      <3>3. QED
        BY <1>4, <1>7, <3>1, <3>2, LandingOthers
    <2>3. QED
      BY <1>3, <2>1, <2>2 DEF WritersSound
  <1>13. QED
    BY <1>8, <1>9, <1>10, <1>11, <1>12 DEF FreshInv

LEMMA LateFresh ==
    ASSUME DocsInv, TypeOK', LateLands
    PROVE  FreshInv'
  <1>1. TypeOK /\ FreshInv
    BY DEF DocsInv, IndInv
  <1>2. PICK w \in late :
           /\ disk' = Landed(w.at, w.job)
           /\ clobbered' = (clobbered \/ Overwrites(w.at, w.job))
           /\ late' = late \ {w}
           /\ UNCHANGED <<locks, pc, job, promised, erased, gone, stray>>
    BY DEF LateLands
  <1>3. PICK p, j : p = w.at /\ j = w.job
    OBVIOUS
  <1>4. /\ p \in Writing /\ j \in Job /\ j.src \in Sources
        /\ Sound(p, j) /\ Fits(p, j.kind)
    BY <1>1, <1>3, Numbers DEF FreshInv, WritersSound, PhasesFit
  <1>5. Landing(p, j)
    BY <1>2, <1>3 DEF Landing, Claims
  <1>6. FilesKeepPromise' /\ ManifestAgrees'
    BY <1>1, <1>4, <1>5, LandingFiles, LandingManifest DEF FreshInv
  <1>7. LateAlone' /\ PhasesFit'
    BY <1>1, <1>2 DEF FreshInv, LateAlone, PhasesFit
  <1>8. SearchesOwed'
    <2>1. ASSUME NEW m \in Lanes
          PROVE  Owed(pc[m], job[m])'
      <3>1. PICK q, k : q = pc[m] /\ k = job[m]
        OBVIOUS
      <3>2. Owed(q, k) /\ k.src \in Sources /\ k.owed \in Nat
        BY <1>1, <3>1, Numbers DEF FreshInv, SearchesOwed
      <3>3. Owed(q, k)'
        BY <1>4, <1>5, <3>2, LandingOwed
      <3>4. QED
        BY <1>2, <3>1, <3>3
    <2>2. QED
      BY <2>1 DEF SearchesOwed
  <1>9. WritersSound'
    <2>1. ASSUME NEW m \in Lanes
          PROVE  Sound(pc[m], job[m])'
      <3>1. PICK q, k : q = pc[m] /\ k = job[m]
        OBVIOUS
      <3>2. Sound(q, k) /\ k.src \in Sources
        BY <1>1, <3>1, Numbers DEF FreshInv, WritersSound
      <3>3. k.src = j.src /\ k.kind \in Mutators => j.src \in stray
        BY <1>3, <1>4, <3>1, Alone
      <3>4. Sound(q, k)'
        BY <1>4, <1>5, <3>2, <3>3, LandingOthers
      <3>5. QED
        BY <1>2, <3>1, <3>4
    <2>2. ASSUME NEW x \in late, x # w
          PROVE  Sound(x.at, x.job)'
      <3>1. Sound(x.at, x.job) /\ x.job.src \in Sources
        BY <1>1, Numbers DEF FreshInv, WritersSound
      <3>2. x.job.src = j.src => j.src \in stray
        BY <1>3, <1>4, <2>2, Alone
      <3>3. QED
        BY <1>4, <1>5, <3>1, <3>2, LandingOthers
    <2>3. QED
      BY <1>2, <2>1, <2>2 DEF WritersSound
  <1>10. QED
    BY <1>6, <1>7, <1>8, <1>9 DEF FreshInv

----------------------------------------------------------------------------
(* The two other steps, and the theorems.                                  *)

(* From the moment a removal sets out to delete, nothing is promised.      *)
LEMMA CheckedFresh ==
    ASSUME DocsInv, TypeOK', NEW l \in Lanes, Checked(l)
    PROVE  FreshInv'
  <1>1. TypeOK /\ FreshInv
    BY DEF DocsInv, IndInv
  <1>2. PICK s : s = job[l].src
    OBVIOUS
  <1>3. /\ pc[l] = "checking" /\ job[l].kind = "remove" /\ s \in Sources
        /\ UNCHANGED <<disk, locks, late, madeWith, gone, clobbered, stray>>
    BY <1>1, <1>2, Numbers DEF Checked, FreshInv, PhasesFit, Fits
  <1>4. LateAlone'
    BY <1>1, <1>3 DEF FreshInv, LateAlone
  <1>5. CASE Go(l, "unknown") /\ UNCHANGED <<job, promised, erased>>
    <2>1. PICK j : j = job[l]
      OBVIOUS
    <2>2. /\ pc'[l] = "unknown" /\ job'[l] = j
          /\ \A m \in Lanes : m # l => pc'[m] = pc[m] /\ job'[m] = job[m]
      BY <1>1, <1>5, <2>1 DEF Go, TypeOK
    <2>3. Fits("unknown", j.kind) /\ Owed("unknown", j) /\ Sound("unknown", j)
      BY <1>3, <2>1 DEF Fits, Owed, Sound
    <2>4. QuietMove(l, "unknown", j)
      BY <1>3, <1>5, <2>1, <2>2 DEF QuietMove
    <2>5. QED
      BY <1>4, <2>3, <2>4, QuietStep
  <1>6. CASE /\ Go(l, "deletingChunks")
             /\ promised' = [promised EXCEPT ![s] = 0]
             /\ erased' = [erased EXCEPT ![s] = Len(madeWith)]
             /\ job' = [m \in Lanes |-> IF job[m].src = s
                                        THEN [job[m] EXCEPT !.owed = 0]
                                        ELSE job[m]]
    <2>1. \A m \in Lanes : pc'[m] = IF m = l THEN "deletingChunks" ELSE pc[m]
      BY <1>1, <1>6 DEF Go, TypeOK
    <2>2. \A m \in Lanes :
             /\ job'[m].kind = job[m].kind /\ job'[m].src = job[m].src
             /\ job'[m].ver = job[m].ver /\ job'[m].list = job[m].list
             /\ job'[m].owed = IF job[m].src = s THEN 0 ELSE job[m].owed
      BY <1>1, <1>6, Numbers DEF Job
    <2>3. /\ promised'[s] = 0 /\ erased'[s] = Len(madeWith)
          /\ \A t \in Sources : t # s => /\ promised'[t] = promised[t]
                                         /\ erased'[t] = erased[t]
      BY <1>1, <1>3, <1>6 DEF TypeOK
    <2>4. \A t, v : Claims(t, v)' => Claims(t, v)
      BY <1>3, <2>2, ClaimsShrink
    <2>5. \A t \in Sources : t # s => Quiet(t)
      BY <1>3, <2>3, <2>4 DEF Quiet
    <2>6. Newest(s, Len(madeWith))'
      <3>1. \A v \in Nat : Claims(s, v) => v <= Len(madeWith)
        BY <1>1, <1>3, Numbers DEF Newest
      <3>2. Len(madeWith') = Len(madeWith)
        BY <1>3
      <3>3. QED
        BY <2>4, <3>1, <3>2 DEF Newest
    <2>7. FilesKeepPromise'
      <3>1. ASSUME NEW t \in Sources, t # s
            PROVE  Kept(t)'
        BY <1>1, <2>5, <3>1, QuietKept DEF FreshInv, FilesKeepPromise
      <3>2. \A v \in Nat : Claims(s, v)' => v <= erased'[s]
        BY <1>3, <2>3, <2>6 DEF Newest
      <3>3. disk'.chunks[s] >= 0 /\ disk'.meta[s] >= 0 /\ erased'[s] \in Nat
        BY <1>1, <1>3, <2>3, Numbers
      <3>4. Kept(s)'
        BY <2>3, <3>2, <3>3 DEF Kept
      <3>5. QED
        BY <3>1, <3>4 DEF FilesKeepPromise
    <2>8. PhasesFit'
      BY <1>1, <1>3, <2>1, <2>2 DEF FreshInv, PhasesFit, Fits
    <2>9. SearchesOwed'
      <3>1. ASSUME NEW m \in Lanes
            PROVE  Owed(pc[m], job[m])'
        <4>1. /\ Owed(pc[m], job[m]) /\ job[m].src \in Sources
              /\ job[m].ver \in Nat /\ job[m].owed \in Nat
              /\ job[m].kind = "search" => m # l
          BY <1>1, <1>3, Numbers DEF FreshInv, SearchesOwed
        <4>2. CASE job[m].src = s
          BY <1>3, <2>1, <2>2, <2>3, <4>1, <4>2 DEF Owed
        <4>3. CASE job[m].src # s
          BY <1>3, <2>1, <2>2, <2>3, <4>1, <4>3 DEF Owed
        <4>4. QED
          BY <4>2, <4>3
      <3>2. QED
        BY <3>1 DEF SearchesOwed
    <2>10. ManifestAgrees'
      <3>1. \A t \in Sources : promised'[t] = promised[t] \/ promised'[t] = 0
        BY <2>3
      <3>2. QED
        BY <1>1, <1>3, <3>1, ManifestKept DEF FreshInv
    <2>11. WritersSound'
      <3>1. ASSUME NEW m \in Lanes
            PROVE  Sound(pc[m], job[m])'
        <4>1. Sound(pc[m], job[m]) /\ job[m].src \in Sources
          BY <1>1, Numbers DEF FreshInv, WritersSound
        <4>2. CASE m = l
          BY <1>2, <1>3, <2>2, <2>3, <2>6, <4>2 DEF Sound, Newest
        <4>3. CASE m # l /\ job[m].src = s /\ job[m].kind \in Mutators
          <5>1. s \in stray
            BY <1>2, <1>3, <4>3, Alone DEF Mutators
          <5>2. QED
            BY <1>3, <2>2, <4>3, <5>1 DEF Sound
        <4>4. CASE job[m].kind \notin Mutators
          BY <2>2, <4>4 DEF Sound, Mutators
        <4>5. CASE m # l /\ job[m].src # s
          <5>1. PICK q, j : q = pc[m] /\ j = job[m]
            OBVIOUS
          <5>2. Sound(q, j)'
            BY <2>5, <4>1, <4>5, <5>1, QuietSound
          <5>3. PICK k : k = job'[m]
            OBVIOUS
          <5>4. j.kind = k.kind /\ j.src = k.src /\ j.ver = k.ver
            BY <2>2, <5>1, <5>3
          <5>5. Sound(q, k)'
            BY <5>2, <5>4 DEF Sound
          <5>6. QED
            BY <2>1, <4>5, <5>1, <5>3, <5>5
        <4>6. QED
          BY <4>2, <4>3, <4>4, <4>5
      <3>2. ASSUME NEW w \in late
            PROVE  Sound(w.at, w.job)'
        <4>1. Sound(w.at, w.job) /\ w.job.src \in Sources
          BY <1>1, Numbers DEF FreshInv, WritersSound
        <4>2. CASE w.job.src # s
          BY <2>5, <4>1, <4>2, QuietSound
        <4>3. CASE w.job.src = s
          <5>1. s \in stray
            BY <1>2, <1>3, <4>3, Alone DEF Mutators
          <5>2. QED
            BY <1>3, <4>3, <5>1 DEF Sound
        <4>4. QED
          BY <4>2, <4>3
      <3>3. QED
        BY <1>3, <3>1, <3>2 DEF WritersSound
    <2>12. QED
      BY <1>4, <2>7, <2>8, <2>9, <2>10, <2>11 DEF FreshInv
  <1>7. QED
    BY <1>2, <1>5, <1>6 DEF Checked

(* Only the files survive a restart, and they keep their promises.         *)
LEMMA RestartFresh ==
    ASSUME DocsInv, TypeOK', Restart
    PROVE  FreshInv'
  <1>1. TypeOK /\ FreshInv
    BY DEF DocsInv, IndInv
  <1>2. /\ late' = {} /\ UNCHANGED <<disk, ghosts>>
        /\ \A l \in Lanes : /\ pc'[l] = "idle" /\ job'[l].kind = "none"
                            /\ job'[l].list = {}
    BY DEF Restart, NoJob, JobOf
  <1>3. \A s, v : Claims(s, v)' => Claims(s, v)
    BY <1>2, ClaimsShrink
  <1>4. \A s : Quiet(s)
    BY <1>2, <1>3 DEF Quiet, ghosts
  <1>5. FilesKeepPromise'
    BY <1>1, <1>4, QuietKept DEF FreshInv, FilesKeepPromise
  <1>6. PhasesFit' /\ WritersSound' /\ LateAlone' /\ SearchesOwed'
    BY <1>2 DEF PhasesFit, Fits, WritersSound, Sound, LateAlone, SearchesOwed,
                Owed
  <1>7. ManifestAgrees'
    BY <1>1, <1>2, ManifestKept DEF FreshInv, ghosts
  <1>8. QED
    BY <1>5, <1>6, <1>7 DEF FreshInv

LEMMA FreshInit == Init => DocsInv
  <1> SUFFICES ASSUME Init PROVE DocsInv
    OBVIOUS
  <1>1. PICK s \in Sources : job = [l \in Lanes |-> NoJob(s)]
    BY DEF Init
  <1>2. /\ \A l \in Lanes : /\ pc[l] = "idle" /\ job[l].kind = "none"
                            /\ job[l].list = {}
        /\ late = {} /\ disk.listed = {}
    BY <1>1 DEF Init, NoJob, JobOf
  <1>3. /\ \A t, v : ~Claims(t, v)
        /\ \A t \in Sources : /\ disk.chunks[t] = 0 /\ disk.meta[t] = 0
                              /\ promised[t] = 0 /\ t \notin gone
    BY <1>2 DEF Claims, Init
  <1>4. FilesKeepPromise
    BY <1>3 DEF FilesKeepPromise, Kept
  <1>5. ManifestAgrees
    BY <1>3 DEF ManifestAgrees
  <1>6. PhasesFit /\ WritersSound /\ LateAlone /\ SearchesOwed
    BY <1>2 DEF PhasesFit, Fits, WritersSound, Sound, LateAlone, SearchesOwed,
                Owed
  <1>7. QED
    BY <1>4, <1>5, <1>6, InitInv DEF DocsInv, FreshInv

LEMMA FreshNext == DocsInv /\ [Next]_vars => DocsInv'
  <1> SUFFICES ASSUME DocsInv, [Next]_vars PROVE DocsInv'
    OBVIOUS
  <1>1. IndInv' /\ TypeOK'
    BY NextInv DEF DocsInv, IndInv
  <1>2. CASE UNCHANGED vars
    <2>1. FreshInv' = FreshInv
      BY <1>2 DEF vars, ghosts, FreshInv, PhasesFit, WritersSound, LateAlone,
         FilesKeepPromise, SearchesOwed, ManifestAgrees, Sound, Kept, Owed,
         Newest, Claims, Listed, Version
    <2>2. QED
      BY <1>1, <2>1 DEF DocsInv
  <1>3. ASSUME NEW l \in Lanes, Step(l)
        PROVE  FreshInv'
    <2>1. CASE Answer(l) \/ Fail(l) \/ Timeout(l)
      <3>1. /\ End(l) /\ UNCHANGED <<disk, ghosts>>
            /\ \/ late' = late
               \/ /\ pc[l] \in Writing
                  /\ late' = late \cup {[at |-> pc[l], job |-> job[l]]}
        BY <2>1 DEF Answer, Fail, Timeout
      <3>2. QED
        BY <1>1, <3>1, EndFresh
    <2>2. QED
      BY <1>1, <1>3, <2>1, BeginFresh, MoveFresh, MetaReadFresh, WriteFresh,
         ListWrittenFresh, CheckedFresh DEF Step
  <1>4. QED
    BY <1>1, <1>2, <1>3, LateFresh, RestartFresh DEF Next, DocsInv

LEMMA FreshInvariance == Spec => []DocsInv
  BY FreshInit, FreshNext, PTL DEF Spec

(* A search begun after an index run reported success ranks that run's     *)
(* chunks or a later run's, although it takes no lock.                     *)
THEOREM SearchesAreFresh == Spec => []SearchIsFresh
  <1>1. DocsInv => SearchIsFresh
    BY DEF DocsInv, FreshInv, SearchesOwed, Owed, SearchIsFresh
  <1>2. QED
    BY <1>1, FreshInvariance, PTL

(* An entry of sources.json can be searched at its version or a later one, *)
(* whatever failed or crashed, until a removal of its source begins.       *)
THEOREM ListedStaysSearchable == Spec => []ListedIsSearchable
  <1>1. DocsInv => ListedIsSearchable
    <2> SUFFICES ASSUME DocsInv, NEW s \in Sources, NEW v \in Listed(s),
                        s \notin stray, v > erased[s]
                 PROVE  disk.chunks[s] >= v /\ disk.meta[s] >= v
      BY DEF ListedIsSearchable
    <2>1. Kept(s) /\ Claims(s, v) /\ v \in Nat
      BY LenProperties DEF DocsInv, IndInv, TypeOK, FreshInv,
         FilesKeepPromise, Claims, Listed, Version
    <2>2. QED
      BY <2>1 DEF Kept
  <1>2. QED
    BY <1>1, FreshInvariance, PTL

(* As long as no manifest write has overwritten another's, sources.json    *)
(* agrees with what index and remove have reported.                        *)
THEOREM ManifestStaysTrue == Spec => []ManifestAgrees
  <1>1. DocsInv => ManifestAgrees
    BY DEF DocsInv, FreshInv
  <1>2. QED
    BY <1>1, FreshInvariance, PTL
=============================================================================
