----------------------------- MODULE DocsIndex -----------------------------
(***************************************************************************)
(* The documentation index (core/tools/docs.rs over native/fs.rs): three   *)
(* files per update, two of them the source's own and the third shared by  *)
(* all sources; a lock per source for the operations that write, none for  *)
(* searches; and everything that can cut an operation short.               *)
(*                                                                         *)
(* A version stands for the output of one indexing run, 0 for no file.     *)
(* One action is what an operation does up to its next await.  A call on   *)
(* a source that is locked is refused before it does anything, and         *)
(* list_indexed_sources only reads: neither is a step of this module.      *)
(***************************************************************************)
EXTENDS Integers, Sequences

CONSTANTS
    Sources,    \* SourceIds
    MaxCalls,   \* bound: calls made, on both lanes together
    MaxModel,   \* bound: embedding models of successive binaries
    Env         \* which outside events may happen, see EnvKinds

EnvKinds == {"fail", "timeout", "crash"}

ASSUME DocsConstants ==
    /\ MaxCalls \in Nat /\ MaxModel \in Nat \ {0}
    /\ Env \subseteq EnvKinds

Lanes == {"socket", "bridge"}

VARIABLES
    disk,       \* chunks.jsonl and meta.json of each source, sources.json
    locks,      \* SourceLocks::active
    pc,         \* the await each lane's operation is in
    job,        \* that operation: what it does, and its local variables
    late,       \* writes whose call was dropped but which are still to land
    model,      \* EMBEDDING_MODEL_ID of the running binary
    madeWith,   \* the model each version was embedded with
    calls,      \* calls made
    promised,   \* ghost: the last version of a source reported as indexed
    erased,     \* ghost: versions a removal set out to delete
    gone,       \* ghost: sources reported as removed, not indexed since
    clobbered,  \* ghost: sources.json was replaced by one built on another
    stray       \* ghost: sources with a write still to land at a new start

ghosts == <<promised, erased, gone, clobbered, stray>>
vars   == <<disk, locks, pc, job, late, model, madeWith, calls, ghosts>>

Version  == 0 .. Len(madeWith)
Writing  == {"writingChunks", "writingMeta", "deletingChunks",
             "deletingMeta", "writingList"}
Mutators == {"index", "remove"}
Entries  == Sources \X Version

JobOf(kind, s, ver, owed) ==
    [kind |-> kind, src |-> s, ver |-> ver, list |-> {}, owed |-> owed]
NoJob(s) == JobOf("none", s, 0, 0)

Kinds    == Mutators \cup {"none", "search"}
Phases   == Writing \cup {"idle", "preparing", "diffing", "checking",
                          "readingList", "unknown", "searching", "loading",
                          "ranking"}
Job      == [kind : Kinds, src : Sources, ver : Version,
             list : SUBSET Entries, owed : Version]

TypeOK ==
    /\ disk \in [chunks : [Sources -> Version], meta : [Sources -> Version],
                 listed : SUBSET Entries]
    /\ locks \subseteq Sources /\ gone \subseteq Sources
    /\ stray \subseteq Sources
    /\ pc \in [Lanes -> Phases] /\ job \in [Lanes -> Job]
    /\ \A l \in Lanes : (pc[l] = "idle") <=> (job[l].kind = "none")
    /\ late \subseteq [at : Writing, job : Job]
    /\ model \in 1 .. MaxModel
    /\ madeWith \in Seq(1 .. model)
    /\ calls \in Len(madeWith) .. MaxCalls
    /\ promised \in [Sources -> Version] /\ erased \in [Sources -> Version]
    /\ clobbered \in BOOLEAN

Init ==
    /\ disk = [chunks |-> [s \in Sources |-> 0],
               meta   |-> [s \in Sources |-> 0], listed |-> {}]
    /\ locks = {} /\ late = {}
    /\ pc = [l \in Lanes |-> "idle"]
    /\ \E s \in Sources : job = [l \in Lanes |-> NoJob(s)]
    /\ model = 1 /\ madeWith = <<>> /\ calls = 0
    /\ promised = [s \in Sources |-> 0] /\ erased = [s \in Sources |-> 0]
    /\ gone = {} /\ clobbered = FALSE /\ stray = {}

Listed(s) == {v \in Version : <<s, v>> \in disk.listed}

----------------------------------------------------------------------------
(* What operations have in common.                                         *)

Go(l, p) == pc' = [pc EXCEPT ![l] = p]

(* Mutant: meta.json is written before chunks.jsonl.                       *)
AfterMetaFirst ==
    [preparing |-> "diffing", diffing |-> "writingMeta",
     writingMeta |-> "writingChunks", writingChunks |-> "readingList",
     deletingChunks |-> "deletingMeta", deletingMeta |-> "readingList",
     readingList |-> "writingList"]

(* Where an operation goes when the await it is in has succeeded.          *)
After == [preparing      |-> "diffing",
          diffing        |-> "writingChunks",
          writingChunks  |-> "writingMeta",
          writingMeta    |-> "readingList",
          deletingChunks |-> "deletingMeta",
          deletingMeta   |-> "readingList",
          readingList    |-> "writingList"]

(* Mutant: the entry is appended without dropping the source's older one.  *)
RevisedAppends(j) ==
    IF j.kind = "index" THEN j.list \cup {<<j.src, j.ver>>}
                        ELSE {e \in j.list : e[1] # j.src}

(* The manifest an operation writes back: the one it read, without the     *)
(* source, and with its new entry if it was indexed.                       *)
Revised(j) ==
    {e \in j.list : e[1] # j.src}
        \cup IF j.kind = "index" THEN {<<j.src, j.ver>>} ELSE {}

(* The files after the write that is due at p; a rename replaces a file    *)
(* as a whole.                                                             *)
Landed(p, j) ==
    LET Put(file, writing, deleting) ==
            [file EXCEPT ![j.src] = IF p = writing THEN j.ver
                                    ELSE IF p = deleting THEN 0 ELSE @]
    IN  [chunks |-> Put(disk.chunks, "writingChunks", "deletingChunks"),
         meta   |-> Put(disk.meta, "writingMeta", "deletingMeta"),
         listed |-> IF p = "writingList" THEN Revised(j) ELSE disk.listed]

(* A manifest write loses what was written since its operation read it.    *)
Overwrites(p, j) == p = "writingList" /\ j.list # disk.listed

(* The operation returns or its future is dropped, and its guard with it.  *)
End(l) ==
    /\ Go(l, "idle")
    /\ job' = [job EXCEPT ![l] = NoJob(job[l].src)]
    /\ locks' = IF job[l].kind \in Mutators THEN locks \ {job[l].src}
                                            ELSE locks

Begin(l, s, kind, p) ==
    /\ pc[l] = "idle" /\ calls < MaxCalls
    /\ calls' = calls + 1
    /\ Go(l, p)
    /\ job' = [job EXCEPT ![l] =
                  JobOf(kind, s,
                        IF kind = "index" THEN Len(madeWith) + 1 ELSE 0,
                        IF kind = "search" THEN promised[s] ELSE 0)]

(* Mutant: the lock is taken whether or not it is held.                    *)
AcquireAnyway(s) ==
    /\ locks' = locks \cup {s}
    /\ stray' = IF \E w \in late : w.job.src = s THEN stray \cup {s}
                                                 ELSE stray

(* try_acquire, before any file is touched.                                *)
Acquire(s) ==
    /\ s \notin locks
    /\ locks' = locks \cup {s}
    /\ stray' = IF \E w \in late : w.job.src = s THEN stray \cup {s}
                                                 ELSE stray

----------------------------------------------------------------------------
(* index_source                                                            *)

IndexBegin(l, s) ==
    /\ Begin(l, s, "index", "preparing")
    /\ Acquire(s)
    /\ madeWith' = Append(madeWith, model)
    /\ gone' = gone \ {s}
    /\ UNCHANGED <<disk, late, model, promised, erased, clobbered>>

(* Crawling, chunking and embedding; then the read of the old meta.json    *)
(* for pages_removed: nothing is written yet.                              *)
Prepare(l) ==
    /\ pc[l] \in {"preparing", "diffing"}
    /\ Go(l, After[pc[l]])
    /\ UNCHANGED <<disk, locks, job, late, model, madeWith, calls, ghosts>>

(* Mutant: the result of the write is not looked at.                       *)
WriteUnchecked(l) ==
    /\ pc[l] \in Writing \ {"writingList"}
    /\ disk' \in {disk, Landed(pc[l], job[l])}
    /\ Go(l, After[pc[l]])
    /\ UNCHANGED <<locks, job, late, model, madeWith, calls, ghosts>>

(* write_file or delete_file of one of the source's own files returns.     *)
Write(l) ==
    /\ pc[l] \in Writing \ {"writingList"}
    /\ disk' = Landed(pc[l], job[l])
    /\ Go(l, After[pc[l]])
    /\ UNCHANGED <<locks, job, late, model, madeWith, calls, ghosts>>

ListRead(l) ==
    /\ pc[l] = "readingList"
    /\ job' = [job EXCEPT ![l].list = disk.listed]
    /\ Go(l, After[pc[l]])
    /\ UNCHANGED <<disk, locks, late, model, madeWith, calls, ghosts>>

(* The last write, and the successful return of index or remove.           *)
ListWritten(l) ==
    LET s == job[l].src IN
    /\ pc[l] = "writingList"
    /\ disk' = Landed(pc[l], job[l])
    /\ clobbered' = (clobbered \/ Overwrites(pc[l], job[l]))
    /\ \/ /\ job[l].kind = "index"
          /\ promised' = [promised EXCEPT ![s] = job[l].ver]
          /\ gone' = gone
       \/ /\ job[l].kind = "remove"
          /\ gone' = gone \cup {s}
          /\ promised' = promised
    /\ End(l)
    /\ UNCHANGED <<late, model, madeWith, calls, erased, stray>>

----------------------------------------------------------------------------
(* remove_indexed_source                                                   *)

RemoveBegin(l, s) ==
    /\ Begin(l, s, "remove", "checking")
    /\ Acquire(s)
    /\ UNCHANGED <<disk, late, model, madeWith, promised, erased, gone,
                   clobbered>>

(* A source without meta.json is unknown; otherwise nothing that was       *)
(* promised about it counts any more, for searches under way either.       *)
Checked(l) ==
    LET s == job[l].src IN
    /\ pc[l] = "checking"
    /\ \/ /\ disk.meta[s] = 0
          /\ Go(l, "unknown")
          /\ UNCHANGED <<job, promised, erased>>
       \/ /\ disk.meta[s] # 0
          /\ Go(l, "deletingChunks")
          /\ promised' = [promised EXCEPT ![s] = 0]
          /\ erased' = [erased EXCEPT ![s] = Len(madeWith)]
          /\ job' = [m \in Lanes |-> IF job[m].src = s
                                     THEN [job[m] EXCEPT !.owed = 0]
                                     ELSE job[m]]
    /\ UNCHANGED <<disk, locks, late, model, madeWith, calls, gone,
                   clobbered, stray>>

----------------------------------------------------------------------------
(* search_docs: no lock, two files read one after the other.               *)

SearchBegin(l, s) ==
    /\ Begin(l, s, "search", "searching")
    /\ UNCHANGED <<disk, locks, late, model, madeWith, ghosts>>

MetaRead(l) ==
    LET v == disk.meta[job[l].src] IN
    /\ pc[l] = "searching"
    /\ \/ v = 0 /\ Go(l, "unknown") /\ UNCHANGED <<job, locks>>
       \/ v # 0 /\ madeWith[v] # model /\ End(l)
       \/ v # 0 /\ madeWith[v] = model /\ Go(l, "loading")
                /\ UNCHANGED <<job, locks>>
    /\ UNCHANGED <<disk, late, model, madeWith, calls, ghosts>>

ChunksRead(l) ==
    /\ pc[l] = "loading"
    /\ job' = [job EXCEPT ![l].ver = disk.chunks[job[l].src]]
    /\ Go(l, "ranking")
    /\ UNCHANGED <<disk, locks, late, model, madeWith, calls, ghosts>>

(* The ranked chunks, or the error that names the sources there are.       *)
Answer(l) ==
    /\ pc[l] \in {"ranking", "unknown"}
    /\ End(l)
    /\ UNCHANGED <<disk, late, model, madeWith, calls, ghosts>>

----------------------------------------------------------------------------
(* What cuts an operation short.                                           *)

(* Network, embedder or file system: the ? of some await.                  *)
Fail(l) ==
    /\ "fail" \in Env /\ pc[l] \notin {"idle", "unknown"}
    /\ End(l)
    /\ UNCHANGED <<disk, late, model, madeWith, calls, ghosts>>

(* Mutant: the lock is released by the last statement of the operation,    *)
(* not by a guard.                                                         *)
TimeoutKeepsLock(l) ==
    /\ pc[l] # "idle"
    /\ Go(l, "idle")
    /\ job' = [job EXCEPT ![l] = NoJob(job[l].src)]
    /\ UNCHANGED <<disk, locks, late, model, madeWith, calls, ghosts>>

(* Daemon::handle_request drops the future at REQUEST_TIMEOUT.  A rename   *)
(* or a deletion that the blocking pool already has is not stopped by it.  *)
Timeout(l) ==
    /\ "timeout" \in Env /\ pc[l] # "idle"
    /\ \/ late' = late
       \/ /\ pc[l] \in Writing
          /\ late' = late \cup {[at |-> pc[l], job |-> job[l]]}
    /\ End(l)
    /\ UNCHANGED <<disk, model, madeWith, calls, ghosts>>

LateLands ==
    \E w \in late :
       /\ disk' = Landed(w.at, w.job)
       /\ clobbered' = (clobbered \/ Overwrites(w.at, w.job))
       /\ late' = late \ {w}
       /\ UNCHANGED <<locks, pc, job, model, madeWith, calls, promised,
                      erased, gone, stray>>

(* The daemon dies and is started again, perhaps as a newer binary that    *)
(* embeds with another model.  Only the files survive.                     *)
Restart ==
    /\ "crash" \in Env
    /\ model' \in model .. MaxModel
    /\ locks' = {} /\ late' = {}
    /\ pc' = [l \in Lanes |-> "idle"]
    /\ job' = [l \in Lanes |-> NoJob(job[l].src)]
    /\ UNCHANGED <<disk, madeWith, calls, ghosts>>

----------------------------------------------------------------------------

Step(l) ==
    \/ \E s \in Sources : IndexBegin(l, s) \/ RemoveBegin(l, s)
                             \/ SearchBegin(l, s)
    \/ Prepare(l) \/ Write(l) \/ ListRead(l) \/ ListWritten(l)
    \/ Checked(l) \/ MetaRead(l) \/ ChunksRead(l) \/ Answer(l)
    \/ Fail(l) \/ Timeout(l)

Next == LateLands \/ Restart \/ \E l \in Lanes : Step(l)

Spec == Init /\ [][Next]_vars

----------------------------------------------------------------------------
(* Properties                                                              *)

(* At most one operation that writes works on a source, on whichever lane, *)
(* and a source is locked exactly while there is one: every way out of     *)
(* index_source and remove_indexed_source releases, a dropped future       *)
(* included, so that no source becomes unusable until the next restart.    *)
OneMutator ==
    /\ locks = {job[l].src : l \in {m \in Lanes : job[m].kind \in Mutators}}
    /\ \A l, m \in Lanes : job[l].kind \in Mutators /\ l # m
          /\ job[m].kind \in Mutators => job[l].src # job[m].src

(* search_docs takes no lock.  All the same, a search that started after   *)
(* an index_docs reported success ranks the chunks of that run or of a     *)
(* later one, and is not told that the source is unknown, whatever run     *)
(* is under way, failed, timed out or was cut off by a crash, unless a     *)
(* removal has begun.                                                      *)
SearchIsFresh ==
    \A l \in Lanes : job[l].kind = "search" /\ job[l].src \notin stray =>
        /\ pc[l] = "ranking" => job[l].ver >= job[l].owed
        /\ pc[l] = "unknown" => job[l].owed = 0

(* The chunks that search_docs ranks were embedded with the model that     *)
(* embeds its query, although the model is only recorded in the other      *)
(* file and crashes may separate the two: chunks.jsonl is written first.   *)
SearchModelMatches ==
    \A l \in Lanes : pc[l] = "ranking" /\ job[l].ver # 0 =>
        madeWith[job[l].ver] = model

(* What list_indexed_sources reports can be searched: an entry of          *)
(* sources.json has both files on disk, at its version or a later one,     *)
(* whatever failed or crashed, until a removal of the source begins.       *)
ListedIsSearchable ==
    \A s \in Sources : \A v \in Listed(s) :
        s \notin stray /\ v > erased[s] =>
            disk.chunks[s] >= v /\ disk.meta[s] >= v

(* As long as no manifest write has overwritten another operation's, a     *)
(* source reported as indexed has exactly one entry, of that run or a      *)
(* later one, and a source reported as removed has none.                   *)
ManifestAgrees ==
    ~clobbered => \A s \in Sources \ stray :
        /\ promised[s] # 0 =>
              \E v \in Version : v >= promised[s] /\ Listed(s) = {v}
        /\ s \in gone => Listed(s) = {}
=============================================================================
