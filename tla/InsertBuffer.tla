---------------------------- MODULE InsertBuffer ----------------------------
(***************************************************************************)
(* The insert buffer of one pod and the flusher that drains it to Parquet  *)
(* objects, with crashes and restarts at every step.                       *)
(*                                                                         *)
(* A row is acknowledged into the active segment, becomes durable when the *)
(* storage engine flushes its parts (or when the segment is sealed), is    *)
(* written to an object named after its segment and slice, and leaves the  *)
(* pod's disk once its segment is committed.  The flusher's own record is  *)
(* a state file with a mirror and an append-only file of "stored" marks.   *)
(*                                                                         *)
(* Time is left out: a committed segment may be reaped, and a segment with *)
(* a marker may be compacted, at any moment.  ReadHandoff adds the clock.  *)
(***************************************************************************)
EXTENDS Integers, FiniteSets

CONSTANTS
    Rows,        \* the rows clients send, numbered in time order
    Tenants,     \* the tenants they belong to
    TenantOf,    \* the tenant of each row
    Dropped,     \* rows whose stream the flush row filter leaves out
    GroupSizes,  \* rows per group that insert.target_file_size can give
    MaxSeq,      \* bound: segments a behaviour may create
    MaxMerges    \* bound: compactions a behaviour may run

ASSUME ConstantsAssumption ==
    /\ Rows \subseteq Nat
    /\ IsFiniteSet(Rows)
    /\ TenantOf \in [Rows -> Tenants]
    /\ Dropped \subseteq Rows
    /\ GroupSizes \subseteq Nat \ {0}
    /\ MaxSeq \in Nat \ {0}
    /\ MaxMerges \in Nat

VARIABLES
    \* The buffer directory.
    dirs,       \* seq -> "none" | "live" | "doomed" (partly removed, or empty)
    flushed,    \* seq -> rows in fsynced parts
    stMain,     \* buffer_flush_state.json
    stPrev,     \* its .prev mirror
    mainOK,     \* FALSE: the main file cannot be read
    marksFile,  \* the .stored file: <<seq, group>> marks
    savedMan,   \* the manifest snapshot's tracked keys
    savedRet,   \* ... and its retired keys
    \* The process.
    pc,         \* the flusher's control state; "down" without a process
    maxRows,    \* rows per group of this process's configuration
    nextSeq,    \* Segments.nextSeq
    active,     \* the active segment
    list,       \* the live segments
    content,    \* seq -> rows the segment holds (in memory or on disk)
    committed,  \* segments of list with a commit time
    held,       \* committed segments restored at start, not yet released
    state,      \* BufferFlusher.state
    marks,      \* BufferFlusher.marks: groups of marksFor that are stored
    marksFor,   \* the segment the marks belong to, 0 for none
    head,       \* ask the bucket whether an unmarked object exists
    todo,       \* groups this drain attempt has still to visit
    failed,     \* a group of this attempt failed
    grp,        \* the group whose object was just stored
    man,        \* keys the manifest tracks
    ret,        \* keys the manifest has retired
    \* The bucket.
    store,      \* objects: [key, rows]
    markers,    \* segments with a commit marker
    \* History.
    acked,      \* rows acknowledged so far
    puts,       \* every object content a PUT ever stored: [key, rows]
    early,      \* segments merged before their commit was recorded
    merges      \* compactions so far

diskVars   == <<dirs, flushed, stMain, stPrev, mainOK, marksFile, savedMan, savedRet>>
segVars    == <<nextSeq, active, list, content, committed, held>>
drainVars  == <<state, marks, marksFor, head, todo, failed, grp>>
manVars    == <<man, ret>>
bucketVars == <<store, markers>>
histVars   == <<acked, puts, early, merges>>
vars == <<diskVars, pc, maxRows, segVars, drainVars, manVars, bucketVars, histVars>>

-----------------------------------------------------------------------------
(* The data. *)

Seqs   == 1..MaxSeq
Group  == Tenants \X Nat
NoGroup == <<>>
Key    == (0..MaxSeq) \X Tenants \X Nat
Object == [key : Key, rows : SUBSET Rows]

\* flushState: the newest committed segment, the one being drained (0 for
\* none) and the rows per group its drain was planned with.
FlushState == [through : 0..MaxSeq, draining : 0..MaxSeq, plan : Nat]

EmptyState == [through |-> 0, draining |-> 0, plan |-> 0]

\* Mutant: slices are numbered from minus one.
MutSliceOf(p, S, r) ==
    (Cardinality({x \in S : TenantOf[x] = TenantOf[r] /\ x < r}) \div p) - 1

\* The plan cuts a tenant's rows, in time order, into groups of p rows.
SliceOf(p, S, r) ==
    Cardinality({x \in S : TenantOf[x] = TenantOf[r] /\ x < r}) \div p

GroupOf(p, S, r) == <<TenantOf[r], SliceOf(p, S, r)>>

Groups(p, S) == {GroupOf(p, S, r) : r \in S}

\* The rows of group g that the flush row filter keeps.
KeptRows(p, S, g) == {r \in S \ Dropped : GroupOf(p, S, r) = g}

KeyOf(s, g) == <<s, g[1], g[2]>>

Exists(k) == \E o \in store : o.key = k

Upload(k, R) ==
    {o \in store : o.key # k} \cup {[key |-> k, rows |-> R]}

StoredRows == UNION {o.rows : o \in store}

Sealed == list \ {active}

Pending == Sealed \ committed

OldestPending(s) == s \in Pending /\ \A x \in Pending : s <= x

-----------------------------------------------------------------------------
(* Ingest. *)

\* Segments.MustAddRows: the rows go to the active segment, whatever the
\* flusher is doing.
AddRow(r) ==
    /\ pc # "down"
    /\ r \notin acked
    /\ content' = [content EXCEPT ![active] = @ \cup {r}]
    /\ acked' = acked \cup {r}
    /\ UNCHANGED <<diskVars, pc, maxRows, nextSeq, active, list, committed, held,
                   drainVars, manVars, bucketVars, puts, early, merges>>

\* The storage engine writes the active segment's in-memory parts to disk.
PersistParts ==
    /\ pc # "down"
    /\ flushed[active] # content[active]
    /\ flushed' = [flushed EXCEPT ![active] = content[active]]
    /\ UNCHANGED <<dirs, stMain, stPrev, mainOK, marksFile, savedMan, savedRet,
                   pc, maxRows, segVars, drainVars, manVars, bucketVars, histVars>>

-----------------------------------------------------------------------------
(* Sealing. *)

\* Segments.Seal, first half: the writes move to a new segment.
SealSwap ==
    /\ pc = "idle"
    /\ content[active] # {}
    /\ nextSeq <= MaxSeq
    /\ pc' = "sealing"
    /\ dirs' = [dirs EXCEPT ![nextSeq] = "live"]
    /\ active' = nextSeq
    /\ list' = list \cup {nextSeq}
    /\ nextSeq' = nextSeq + 1
    /\ UNCHANGED <<flushed, stMain, stPrev, mainOK, marksFile, savedMan, savedRet,
                   maxRows, content, committed, held, drainVars, manVars,
                   bucketVars, histVars>>

\* Mutant: the sealed segment is not closed, so its rows stay in memory.
MutSealReopen ==
    /\ pc = "sealing"
    /\ pc' = "idle"
    /\ UNCHANGED <<diskVars, maxRows, segVars, drainVars, manVars, bucketVars, histVars>>

\* Segments.Seal, second half: the sealed segment is closed, which makes every
\* row of it durable, and reopened.
SealReopen ==
    /\ pc = "sealing"
    /\ pc' = "idle"
    /\ flushed' = [s \in Seqs |-> IF s \in Sealed THEN content[s] ELSE flushed[s]]
    /\ UNCHANGED <<dirs, stMain, stPrev, mainOK, marksFile, savedMan, savedRet,
                   maxRows, segVars, drainVars, manVars, bucketVars, histVars>>

-----------------------------------------------------------------------------
(* The state file: the mirror is replaced first, then the main file.  A    *)
(* write that reports an error may have replaced neither, the mirror       *)
(* alone, or both.                                                         *)

WriteState(st) ==
    /\ stPrev' = st
    /\ stMain' = st
    /\ mainOK' = TRUE

\* Mutant: the main file is replaced before the mirror.
MutWriteStateError(st) ==
    \/ UNCHANGED <<stPrev, stMain, mainOK>>
    \/ stMain' = st /\ mainOK' = TRUE /\ UNCHANGED stPrev
    \/ WriteState(st)

WriteStateError(st) ==
    \/ UNCHANGED <<stPrev, stMain, mainOK>>
    \/ stPrev' = st /\ UNCHANGED <<stMain, mainOK>>
    \/ WriteState(st)

\* os.Remove of the marks file: its error is ignored and nothing syncs it.
RemoveMarks == marksFile' \in {{}, marksFile}

-----------------------------------------------------------------------------
(* One drain attempt. *)

StartAttempt(s, p) ==
    /\ pc' = "draining"
    /\ todo' = Groups(p, content[s])
    /\ failed' = FALSE
    /\ grp' = NoGroup

Intent(s) == [through |-> state.through, draining |-> s, plan |-> maxRows]

\* The first upload of the segment in any process is recorded durably before
\* it happens.
BeginDrain(s) ==
    /\ pc = "idle"
    /\ OldestPending(s)
    /\ state.draining # s
    /\ WriteState(Intent(s))
    /\ state' = Intent(s)
    /\ RemoveMarks
    /\ marksFor' = s
    /\ marks' = {}
    /\ head' = FALSE
    /\ StartAttempt(s, maxRows)
    /\ UNCHANGED <<dirs, flushed, savedMan, savedRet, maxRows, segVars, manVars,
                   bucketVars, histVars>>

\* The intent cannot be written: the attempt ends before anything is uploaded.
BeginDrainError(s) ==
    /\ pc = "idle"
    /\ OldestPending(s)
    /\ state.draining # s
    /\ WriteStateError(Intent(s))
    /\ UNCHANGED <<dirs, flushed, marksFile, savedMan, savedRet, pc, maxRows,
                   segVars, drainVars, manVars, bucketVars, histVars>>

Cur == state.draining

\* Mutant: a resumed drain is planned with the current configuration.
MutPlanRows == maxRows

\* The groups of a segment are numbered by the plan its drain started with.
PlanRows == state.plan

\* A drain this or a previous process began goes on.  A new process trusts the
\* marks of the file and asks HEAD for the rest.
ResumeDrain(s) ==
    /\ pc = "idle"
    /\ OldestPending(s)
    /\ state.draining = s
    /\ marksFor' = s
    /\ marks' = IF marksFor = s THEN marks
                                ELSE {m[2] : m \in {x \in marksFile : x[1] = s}}
    /\ head' = IF marksFor = s THEN head ELSE TRUE
    /\ StartAttempt(s, PlanRows)
    /\ UNCHANGED <<diskVars, maxRows, segVars, state, manVars, bucketVars, histVars>>

CurRows(g) == KeptRows(PlanRows, content[Cur], g)
CurKey(g) == KeyOf(Cur, g)

\* A tenant's groups are visited in slice order.
NextGroup(g) ==
    /\ pc = "draining"
    /\ g \in todo
    /\ \A h \in todo : h[1] = g[1] => g[2] <= h[2]

\* Nothing to upload: the group is marked, its key is retired or tracked, the
\* bucket has the object (resumed drains only), or the filter keeps no row.
Settled(g) ==
    \/ g \in marks
    \/ CurKey(g) \in ret \cup man
    \/ head /\ Exists(CurKey(g))
    \/ CurRows(g) = {}

SettleGroup(g) ==
    /\ NextGroup(g)
    /\ Settled(g)
    /\ todo' = todo \ {g}
    /\ UNCHANGED <<diskVars, pc, maxRows, segVars, state, marks, marksFor, head,
                   failed, grp, manVars, bucketVars, histVars>>

PutObject(g) ==
    /\ store' = Upload(CurKey(g), CurRows(g))
    /\ puts' = puts \cup {[key |-> CurKey(g), rows |-> CurRows(g)]}

\* The PUT succeeds; the mark and the manifest entry follow.
UploadGroup(g) ==
    /\ NextGroup(g)
    /\ ~Settled(g)
    /\ PutObject(g)
    /\ grp' = g
    /\ pc' = "stored"
    /\ UNCHANGED <<diskVars, maxRows, segVars, state, marks, marksFor, head, todo,
                   failed, manVars, markers, acked, early, merges>>

\* Mutant: the error of a group is logged and forgotten.
MutGroupError(g) ==
    /\ NextGroup(g)
    /\ g \notin marks
    /\ CurKey(g) \notin ret \cup man
    /\ todo' = {h \in todo : h[1] # g[1]}
    /\ UNCHANGED <<diskVars, pc, maxRows, segVars, state, marks, marksFor, head, grp,
                   failed, manVars, bucketVars, histVars>>

\* HEAD, collecting the rows or the PUT fails (a PUT that timed out may have
\* stored the object all the same): the tenant's other groups wait for the next
\* attempt, the other tenants go on.
GroupError(g) ==
    /\ NextGroup(g)
    /\ g \notin marks
    /\ CurKey(g) \notin ret \cup man
    /\ \/ UNCHANGED <<store, puts>>
       \/ ~Settled(g) /\ PutObject(g)
    /\ todo' = {h \in todo : h[1] # g[1]}
    /\ failed' = TRUE
    /\ UNCHANGED <<diskVars, pc, maxRows, segVars, state, marks, marksFor, head, grp,
                   manVars, markers, acked, early, merges>>

\* markStored: the mark is in memory at once; its append to the file may fail.
MarkStored ==
    /\ pc = "stored"
    /\ pc' = "marked"
    /\ marks' = marks \cup {grp}
    /\ \/ marksFile' = marksFile \cup {<<Cur, grp>>}
       \/ UNCHANGED marksFile
    /\ UNCHANGED <<dirs, flushed, stMain, stPrev, mainOK, savedMan, savedRet, maxRows,
                   segVars, state, marksFor, head, todo, failed, grp, manVars,
                   bucketVars, histVars>>

\* AddFileUnlessRetired, and the attempt moves to the next group.
CommitFile ==
    /\ pc = "marked"
    /\ pc' = "draining"
    /\ man' = IF CurKey(grp) \in ret THEN man ELSE man \cup {CurKey(grp)}
    /\ todo' = todo \ {grp}
    /\ grp' = NoGroup
    /\ UNCHANGED <<diskVars, maxRows, segVars, state, marks, marksFor, head, failed,
                   ret, bucketVars, histVars>>

\* Some group failed: the segment waits for the next attempt.
EndFailedAttempt ==
    /\ pc = "draining"
    /\ todo = {}
    /\ failed
    /\ pc' = "idle"
    /\ failed' = FALSE
    /\ UNCHANGED <<diskVars, maxRows, segVars, state, marks, marksFor, head, todo, grp,
                   manVars, bucketVars, histVars>>

\* putSegmentMarker, once every group is settled.
PutMarker ==
    /\ pc = "draining"
    /\ todo = {}
    /\ ~failed
    /\ pc' = "commit"
    /\ markers' = markers \cup {Cur}
    /\ UNCHANGED <<diskVars, maxRows, segVars, drainVars, manVars, store, histVars>>

\* Mutant: the segment is committed without its marker.
MutPutMarkerError ==
    /\ pc = "draining"
    /\ todo = {}
    /\ ~failed
    /\ pc' = "commit"
    /\ UNCHANGED <<diskVars, maxRows, segVars, drainVars, manVars, bucketVars, histVars>>

\* The marker's PUT fails; it may have been stored all the same.
PutMarkerError ==
    /\ pc = "draining"
    /\ todo = {}
    /\ ~failed
    /\ pc' = "idle"
    /\ markers' \in {markers, markers \cup {Cur}}
    /\ UNCHANGED <<diskVars, maxRows, segVars, drainVars, manVars, store, histVars>>

CommitState == [through |-> Cur, draining |-> 0, plan |-> 0]

\* The commit is recorded, the marks are dropped and the segment is committed.
RecordCommit ==
    /\ pc = "commit"
    /\ pc' = "idle"
    /\ WriteState(CommitState)
    /\ state' = CommitState
    /\ RemoveMarks
    /\ marks' = {}
    /\ marksFor' = 0
    /\ head' = FALSE
    /\ committed' = committed \cup {Cur}
    /\ UNCHANGED <<dirs, flushed, savedMan, savedRet, maxRows, nextSeq, active, list,
                   content, held, todo, failed, grp, manVars, bucketVars, histVars>>

RecordCommitError ==
    /\ pc = "commit"
    /\ pc' = "idle"
    /\ WriteStateError(CommitState)
    /\ UNCHANGED <<dirs, flushed, marksFile, savedMan, savedRet, maxRows, segVars,
                   drainVars, manVars, bucketVars, histVars>>

-----------------------------------------------------------------------------
(* Reaping, the manifest, and compaction. *)

\* Segments.Reap, under its lock: the committed segments whose grace has passed,
\* unless they are held, leave the live list.  Any of them may have passed it.
Reap(R) ==
    /\ pc # "down"
    /\ R # {}
    /\ R \subseteq committed \ held
    /\ list' = list \ R
    /\ committed' = committed \ R
    /\ UNCHANGED <<diskVars, pc, maxRows, nextSeq, active, content, held, drainVars,
                   manVars, bucketVars, histVars>>

\* Reap removes the directory of a retired segment no snapshot holds: the removal
\* begins (fs.MustRemoveDir deletes some of its files), then ends.
RemoveDir(s) ==
    /\ pc # "down"
    /\ s \notin list
    /\ \/ dirs[s] = "live" /\ dirs' = [dirs EXCEPT ![s] = "doomed"]
       \/ dirs[s] = "doomed" /\ dirs' = [dirs EXCEPT ![s] = "none"]
    /\ UNCHANGED <<flushed, stMain, stPrev, mainOK, marksFile, savedMan, savedRet, pc,
                   maxRows, segVars, drainVars, manVars, bucketVars, histVars>>

\* Mutant: the restored segments are never released.
MutRefresh(R) ==
    /\ pc # "down"
    /\ R = {}
    /\ man' = {o.key : o \in store} \ ret
    /\ UNCHANGED <<diskVars, pc, maxRows, segVars, drainVars, ret, bucketVars, histVars>>

\* A complete S3 refresh: the manifest tracks what the bucket holds, less what it
\* retired; ManifestRefreshed releases the restored segments and reaps at once.
Refresh(R) ==
    /\ pc # "down"
    /\ man' = {o.key : o \in store} \ ret
    /\ held' = {}
    /\ R \subseteq IF held = {} THEN {} ELSE committed
    /\ list' = list \ R
    /\ committed' = committed \ R
    /\ UNCHANGED <<diskVars, pc, maxRows, nextSeq, active, content, drainVars, ret,
                   bucketVars, histVars>>

\* The periodic manifest snapshot.
SaveManifest ==
    /\ pc # "down"
    /\ <<savedMan, savedRet>> # <<man, ret>>
    /\ savedMan' = man
    /\ savedRet' = ret
    /\ UNCHANGED <<dirs, flushed, stMain, stPrev, mainOK, marksFile, pc, maxRows,
                   segVars, drainVars, manVars, bucketVars, histVars>>

\* The state a restart would read now.
Loadable == IF mainOK THEN stMain ELSE stPrev

\* The pod regards s as committed, and will after a restart.
Recorded(s) == s <= Loadable.through /\ (pc = "down" \/ s <= state.through)

KeysOf(t) == {k \in {o.key : o \in store} : k[2] = t}

\* A merge takes at least two objects of tenant t; the segment guard lets an
\* object of a segment in only once the segment's marker is in the bucket.
Mergeable(K) ==
    /\ merges < MaxMerges
    /\ Cardinality(K) > 1
    /\ \A k \in K : k[1] # 0 => k[1] \in markers

MergedKey(t) == <<0, t, merges>>

\* The output is stored and the sources are deleted.
Merge(t, K) ==
    LET src == {o \in store : o.key \in K}
    IN  /\ store' = (store \ src)
              \cup {[key |-> MergedKey(t), rows |-> UNION {o.rows : o \in src}]}
        /\ early' = early \cup {k[1] : k \in {l \in K : l[1] # 0 /\ ~Recorded(l[1])}}
        /\ merges' = merges + 1

\* This pod compacts: the output replaces the sources in its manifest.
CompactHere(t, K) ==
    /\ pc # "down"
    /\ K \subseteq man
    /\ Mergeable(K)
    /\ Merge(t, K)
    /\ man' = (man \ K) \cup {MergedKey(t)}
    /\ ret' = ret \cup K
    /\ UNCHANGED <<diskVars, pc, maxRows, segVars, drainVars, markers, acked, puts>>

\* Another pod compacts: this pod learns it from its next refresh.
CompactElsewhere(t, K) ==
    /\ Mergeable(K)
    /\ Merge(t, K)
    /\ UNCHANGED <<diskVars, pc, maxRows, segVars, drainVars, manVars, markers,
                   acked, puts>>

-----------------------------------------------------------------------------
(* Crash, shutdown and restart. *)

Down ==
    /\ pc' = "down"
    /\ marks' = {}
    /\ marksFor' = 0
    /\ head' = FALSE
    /\ todo' = {}
    /\ failed' = FALSE
    /\ list' = {}
    /\ committed' = {}
    /\ held' = {}
    /\ man' = {}
    /\ ret' = {}
    /\ maxRows' = 0
    /\ state' = EmptyState
    /\ grp' = NoGroup
    /\ nextSeq' = 1
    /\ active' = 0
    /\ UNCHANGED <<stMain, stPrev, marksFile, bucketVars, histVars>>

\* kill -9: rows that are in no part are gone.  The crash may come while a new
\* segment's directory is being created, and may leave the main state file
\* unreadable.
Crash ==
    /\ pc # "down"
    /\ Down
    /\ content' = flushed
    /\ mainOK' \in {mainOK, FALSE}
    /\ \/ dirs' = dirs
       \/ /\ pc = "idle"
          /\ content[active] # {}
          /\ nextSeq <= MaxSeq
          /\ dirs' = [dirs EXCEPT ![nextSeq] = "doomed"]
    /\ UNCHANGED <<flushed, savedMan, savedRet>>

\* SIGTERM: the flusher stops after its current step, every segment is closed (its
\* rows are written to disk) and the manifest snapshot is saved, unless that takes
\* longer than its timeout.
Shutdown ==
    /\ pc \in {"idle", "draining"}
    /\ Down
    /\ flushed' = content
    /\ \/ savedMan' = man /\ savedRet' = ret
       \/ UNCHANGED <<savedMan, savedRet>>
    /\ UNCHANGED <<content, dirs, mainOK>>

OnDisk == {s \in Seqs : dirs[s] # "none"}
LiveDirs == {s \in Seqs : dirs[s] = "live"}

\* Mutant: the first free seq is taken.
MutFreshSeq(q) == q \notin OnDisk /\ 1..(q - 1) \subseteq OnDisk

\* OpenSegments takes the next seq past every directory, doomed ones included.
FreshSeq(q) == q \in 1..(MaxSeq + 1) /\ (\A s \in OnDisk : s < q)
                 /\ (q = 1 \/ q - 1 \in OnDisk)

SwapDirs(new) ==
    [s \in Seqs |-> IF s \in new THEN "live"
                    ELSE IF dirs[s] = "doomed" THEN "none" ELSE dirs[s]]

\* Mutant: one segment too many is taken for committed.
MutRestoreCommitted == {s \in LiveDirs : s <= Loadable.through + 1}

\* Mutant: no segment is taken for committed.
MutForgetCommitted == {}

\* CommitThroughAt: the segments a restart learns are committed.
RestoreCommitted == {s \in LiveDirs : s <= Loadable.through}

\* OpenSegments, the manifest snapshot and BufferFlusher.load: every directory
\* found is sealed, a new active segment takes the writes, and the segments the
\* state calls committed are held.  The configuration may have changed.
Restart(q, p) ==
    /\ pc = "down"
    /\ FreshSeq(q)
    /\ q <= MaxSeq
    /\ pc' = "idle"
    /\ maxRows' = p
    /\ dirs' = SwapDirs({q})
    /\ list' = LiveDirs \cup {q}
    /\ active' = q
    /\ nextSeq' = q + 1
    /\ state' = Loadable
    /\ committed' = RestoreCommitted
    /\ held' = committed'
    /\ man' = savedMan
    /\ ret' = savedRet
    /\ UNCHANGED <<flushed, stMain, stPrev, mainOK, marksFile, savedMan, savedRet,
                   content, marks, marksFor, head, todo, failed, grp, bucketVars,
                   histVars>>

\* The restart is killed after it removed the doomed directories, before or
\* while it creates the new segment's.
RestartKilled(q) ==
    /\ pc = "down"
    /\ FreshSeq(q)
    /\ dirs' \in {SwapDirs({})} \cup IF q <= MaxSeq
                                     THEN {[SwapDirs({}) EXCEPT ![q] = "doomed"]} ELSE {}
    /\ dirs' # dirs
    /\ UNCHANGED <<flushed, stMain, stPrev, mainOK, marksFile, savedMan, savedRet, pc,
                   maxRows, segVars, drainVars, manVars, bucketVars, histVars>>

-----------------------------------------------------------------------------
Init ==
    /\ dirs = [s \in Seqs |-> IF s = 1 THEN "live" ELSE "none"]
    /\ flushed = [s \in Seqs |-> {}]
    /\ stMain = EmptyState
    /\ stPrev = EmptyState
    /\ mainOK = TRUE
    /\ marksFile = {}
    /\ savedMan = {}
    /\ savedRet = {}
    /\ pc = "idle"
    /\ maxRows \in GroupSizes
    /\ nextSeq = 2
    /\ active = 1
    /\ list = {1}
    /\ content = [s \in Seqs |-> {}]
    /\ committed = {}
    /\ held = {}
    /\ state = EmptyState
    /\ marks = {}
    /\ marksFor = 0
    /\ head = FALSE
    /\ todo = {}
    /\ failed = FALSE
    /\ grp = NoGroup
    /\ man = {}
    /\ ret = {}
    /\ store = {}
    /\ markers = {}
    /\ acked = {}
    /\ puts = {}
    /\ early = {}
    /\ merges = 0

DrainStep ==
    \/ \E s \in Seqs : BeginDrain(s) \/ BeginDrainError(s) \/ ResumeDrain(s)
    \/ \E g \in todo : SettleGroup(g) \/ UploadGroup(g) \/ GroupError(g)
    \/ MarkStored \/ CommitFile \/ EndFailedAttempt
    \/ PutMarker \/ PutMarkerError \/ RecordCommit \/ RecordCommitError

Next ==
    \/ \E r \in Rows : AddRow(r)
    \/ PersistParts
    \/ SealSwap \/ SealReopen
    \/ DrainStep
    \/ \E R \in SUBSET committed : Reap(R) \/ Refresh(R)
    \/ \E s \in Seqs : RemoveDir(s)
    \/ SaveManifest
    \/ \E t \in Tenants : \E K \in SUBSET KeysOf(t) :
         CompactHere(t, K) \/ CompactElsewhere(t, K)
    \/ Crash \/ Shutdown
    \/ \E q \in 1..(MaxSeq + 1) :
         RestartKilled(q) \/ \E p \in GroupSizes : Restart(q, p)

Spec == Init /\ [][Next]_vars

\* A failed call to the object store or the disk, or a killed restart.
Fault ==
    \/ \E s \in Seqs : BeginDrainError(s)
    \/ \E g \in todo : GroupError(g)
    \/ PutMarkerError
    \/ RecordCommitError
    \/ \E q \in 1..(MaxSeq + 1) : RestartKilled(q)

\* Outages end; the process is restarted; the flusher ticks for ever and retries a
\* failed attempt after a bounded backoff; the reap loop and the manifest refresh
\* run periodically.
Fairness ==
    /\ <>[][~Fault]_vars
    /\ WF_vars(SealReopen \/ DrainStep \/ \E q \in Seqs, p \in GroupSizes : Restart(q, p))
    /\ WF_vars(\E R \in SUBSET committed : Reap(R))
    /\ WF_vars(held # {} /\ \E R \in SUBSET committed : Refresh(R))
    /\ WF_vars(\E s \in Seqs : RemoveDir(s))

FairSpec == Spec /\ Fairness

-----------------------------------------------------------------------------
(* Properties. *)

\* The shape of the state.
TypeOK ==
    /\ dirs \in [Seqs -> {"none", "live", "doomed"}]
    /\ flushed \in [Seqs -> SUBSET Rows]
    /\ stMain \in FlushState
    /\ stPrev \in FlushState
    /\ mainOK \in BOOLEAN
    /\ marksFile \subseteq Seqs \X Group
    /\ savedMan \subseteq Key
    /\ savedRet \subseteq Key
    /\ pc \in {"down", "idle", "sealing", "draining", "stored", "marked", "commit"}
    /\ maxRows \in Nat
    /\ nextSeq \in 1..(MaxSeq + 1)
    /\ active \in 0..MaxSeq
    /\ list \subseteq Seqs
    /\ content \in [Seqs -> SUBSET Rows]
    /\ committed \subseteq Seqs
    /\ held \subseteq Seqs
    /\ state \in FlushState
    /\ marks \subseteq Group
    /\ marksFor \in 0..MaxSeq
    /\ head \in BOOLEAN
    /\ todo \subseteq Group
    /\ failed \in BOOLEAN
    /\ grp \in Group \cup {NoGroup}
    /\ man \subseteq Key
    /\ ret \subseteq Key
    /\ store \subseteq Object
    /\ markers \subseteq Seqs
    /\ acked \subseteq Rows
    /\ puts \subseteq Object
    /\ early \subseteq Seqs
    /\ merges \in Nat

KeptOf(s) == content[s] \ Dropped

AllStored(s) == KeptOf(s) \subseteq StoredRows

\* No row the filter keeps leaves the pod's disk before it is in the bucket: a
\* segment directory being removed, or gone, holds no row that is not stored.
\* Whatever crash, failed write or compaction came before.
NoRowLost == \A s \in Seqs : dirs[s] # "live" => AllStored(s)

\* "No key is uploaded twice with different content": whichever process uploads a
\* group, under whichever configuration, the object has the same rows.
KeyContentStable == \A a, b \in puts : a.key = b.key => a.rows = b.rows

\* A row is in one object of the bucket, except rows of a segment whose objects
\* were merged before its commit was recorded.
StoredOnce ==
    \A a, b \in store : a # b =>
        \A s \in Seqs \ early : a.rows \cap b.rows \cap content[s] = {}

\* A marker in the bucket means every object of the segment is in the bucket.
MarkerMeansComplete == \A s \in markers : AllStored(s)

\* "A segment committed here always has its marker": neither state file, nor the
\* process, calls a segment committed that compaction may not be told about.
CommittedHasMarker ==
    \A st \in {Loadable, stPrev} \cup (IF pc = "down" THEN {} ELSE {state}) :
        \A s \in LiveDirs : s <= st.through => s \in markers

\* A new segment never takes a seq a state file calls committed: a restart would
\* take its rows for written and remove them.
ActiveNotCommitted ==
    pc # "down" => \A st \in {Loadable, stPrev, state} : active > st.through

\* A commit, once a restart would read it, is never forgotten: not by a failed
\* write, and not by falling back to the mirror.
CommitNeverForgotten == [][Loadable'.through >= Loadable.through]_vars

\* A behaviour that used up its segment numbers cannot restart once more.
Exhausted == pc = "down" /\ dirs[MaxSeq] # "none"

\* Every segment that no longer takes writes is written to the bucket, committed
\* and removed from the disk, however many attempts, crashes and restarts it takes.
EventuallyRemoved ==
    \A s \in Seqs : (dirs[s] = "live" /\ s # active) ~> (dirs[s] = "none" \/ Exhausted)

\* The drain implements the abstract log: the buffer holds the rows of the segment
\* directories that are not being removed, the bucket the rows of its objects.
Log == INSTANCE DurableLog WITH
    accepted <- acked,
    buffered <- UNION {content[s] : s \in LiveDirs},
    durable  <- UNION {flushed[s] : s \in LiveDirs},
    cold     <- StoredRows

\* Every step of the pod and of the compactors is a step of the abstract log, or
\* changes none of its variables.
ImplementsLog == Log!Spec

-----------------------------------------------------------------------------
(* The inductive invariant behind NoRowLost, KeyContentStable,             *)
(* MarkerMeansComplete, CommittedHasMarker and ActiveNotCommitted.         *)

Up == pc # "down"

\* The records that can still decide what happens: the process's, if there is
\* one, and the copies a restart could read.
Records == {stPrev} \cup (IF mainOK THEN {stMain} ELSE {})
                    \cup (IF Up THEN {state} ELSE {})

\* y is what the flusher writes next after x: the commit of what x drains, or the
\* intent to drain something.
Succ(x, y) ==
    \/ x.draining # 0 /\ y = [through |-> x.draining, draining |-> 0, plan |-> 0]
    \/ x.draining = 0 /\ y.through = x.through /\ y.draining # 0

\* The copies are the process's record or one step ahead of it, the mirror ahead
\* of the main file.
SyncInv ==
    /\ mainOK => stPrev = stMain \/ Succ(stMain, stPrev)
    /\ Up => stPrev = state \/ Succ(state, stPrev)
    /\ Up /\ mainOK /\ stMain # state =>
         /\ Succ(state, stMain)
         /\ stPrev = stMain
         /\ state.draining = 0 => stMain.plan = maxRows

\* Segments are drained in order: what a record drains is on the disk, and every
\* older segment on the disk is committed.
RecordsInv ==
    \A st \in Records : st.draining # 0 =>
        /\ st.through < st.draining
        /\ st.plan # 0
        /\ dirs[st.draining] = "live"
        /\ \A s \in LiveDirs : s < st.draining => s <= st.through

HasPut(k) == \E p \in puts : p.key = k

Touched(s) ==
    \/ s \in markers
    \/ \E st \in Records : s = st.draining \/ s <= st.through

\* The active segment is newer than everything a record or a marker names.
DirInv ==
    /\ Up => /\ maxRows # 0
             /\ active \in list
             /\ nextSeq = active + 1
             /\ list \subseteq LiveDirs
             /\ \A s \in LiveDirs : s <= active
             /\ \A s \in LiveDirs \ list : s <= state.through
             /\ committed = {s \in list : s <= state.through}
             /\ \A s \in Seqs : Touched(s) => s < active
    /\ ~Up => \E a \in LiveDirs : \A s \in Seqs : Touched(s) => s < a

\* What is sealed and reopened is durable, and so is what is uploaded.
FlushInv ==
    /\ \A s \in Seqs : flushed[s] \subseteq content[s]
    /\ ~Up => flushed = content
    /\ Up /\ pc # "sealing" => \A s \in Sealed : flushed[s] = content[s]
    /\ \A s \in Seqs : Touched(s) \/ s \notin LiveDirs => flushed[s] = content[s]

GroupOfKey(k) == <<k[2], k[3]>>

\* Everything uploaded is still in the bucket, under its key or merged, and was cut
\* by the plan of each record that still drains its segment.
PutsInv ==
    /\ \A p \in puts : p.key[1] # 0 /\ p.rows \subseteq StoredRows
    /\ \A o \in store : o.key[1] # 0 => o \in puts
    /\ \A p \in puts : \A st \in Records :
         \/ p.key[1] <= st.through
         \/ /\ p.key[1] = st.draining
            /\ p.rows = KeptRows(st.plan, content[p.key[1]], GroupOfKey(p.key))

\* Whatever lets a group be skipped was uploaded.
MarksInv ==
    /\ \A m \in marksFile : HasPut(KeyOf(m[1], m[2]))
    /\ \A g \in marks : HasPut(KeyOf(marksFor, g))
    /\ \A k \in man \cup ret \cup savedMan \cup savedRet : k[1] # 0 => HasPut(k)

\* A record calls a segment committed only when its rows are in the bucket, and
\* its marker too if it is still on the disk.
ThroughInv ==
    \A st \in Records : \A s \in Seqs : s <= st.through =>
        /\ AllStored(s)
        /\ s \in LiveDirs => s \in markers

\* The groups an attempt has passed without a failure are in the bucket.
DrainInv ==
    pc \in {"draining", "stored", "marked", "commit"} =>
        /\ Cur # 0
        /\ marksFor = Cur
        /\ ~failed => \A g \in Groups(PlanRows, content[Cur]) \ todo : CurRows(g) \subseteq StoredRows
        /\ pc \in {"stored", "marked"} => grp # NoGroup /\ HasPut(CurKey(grp))
        /\ pc = "commit" => todo = {} /\ ~failed /\ Cur \in markers

\* All of it: what every step of the pod, the flusher and the compactors keeps.
IInv ==
    /\ TypeOK
    /\ SyncInv
    /\ RecordsInv
    /\ DirInv
    /\ FlushInv
    /\ KeyContentStable
    /\ PutsInv
    /\ MarksInv
    /\ NoRowLost
    /\ MarkerMeansComplete
    /\ ThroughInv
    /\ DrainInv

=============================================================================
