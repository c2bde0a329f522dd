------------------------- MODULE InsertBufferProofs -------------------------
(***************************************************************************)
(* IInv holds in every reachable state of InsertBuffer, and with it the    *)
(* invariants it implies; a row is in one object of the bucket, and the    *)
(* buffer implements DurableLog.  First what the proofs share, then one    *)
(* lemma per step: the drain, reaping and compaction, crash and restart,   *)
(* ingest and the start of a drain; then the theorems about IInv; last,    *)
(* what becomes of a row, and the refinement.  A leaf is Zenon's unless it *)
(* names SMT.                                                              *)
(***************************************************************************)
EXTENDS InsertBuffer, TLAPS, FiniteSetTheorems

USE Zenon

\* A group holds rows of the flusher's input.
LEMMA KeptRowsType ==
    ASSUME NEW p, NEW S \in SUBSET Rows, NEW g
    PROVE  KeptRows(p, S, g) \in SUBSET Rows
  BY DEF KeptRows

\* A segment is stored once the kept rows of each of its groups are.
LEMMA GroupsCover ==
    ASSUME NEW p, NEW S, NEW X,
           \A g \in Groups(p, S) : KeptRows(p, S, g) \subseteq X
    PROVE  S \ Dropped \subseteq X
  BY DEF Groups, KeptRows

\* Uploading a group again under its key loses no row.
LEMMA UploadKeeps ==
    ASSUME NEW k, NEW R, store' = Upload(k, R),
           \A o \in store : o.key = k => o.rows \subseteq R
    PROVE  /\ StoredRows \subseteq StoredRows'
           /\ R \subseteq StoredRows'
<1>1. R \subseteq StoredRows'
  BY ZenonT(60) DEF StoredRows, Upload
<1>2. ASSUME NEW o \in store, NEW r \in o.rows PROVE r \in StoredRows'
  <2>1. CASE o.key = k
    BY <1>1, <1>2, <2>1
  <2>2. CASE o.key # k
    BY <1>2, <2>2 DEF StoredRows, Upload
  <2> QED BY <2>1, <2>2
<1> QED BY <1>1, <1>2 DEF StoredRows

\* A merge loses no row.
LEMMA MergeKeeps ==
    ASSUME NEW t, NEW K, Merge(t, K)
    PROVE  StoredRows \subseteq StoredRows'
<1> DEFINE src == {o \in store : o.key \in K}
           out == [key |-> MergedKey(t), rows |-> UNION {o.rows : o \in src}]
<1>1. store' = (store \ src) \cup {out}
  BY DEF Merge
<1>2. SUFFICES ASSUME NEW o \in store, NEW r \in o.rows PROVE \E q \in store' : r \in q.rows
  BY SMT DEF StoredRows
<1>3. CASE o \in src
  <2>1. r \in out.rows BY <1>2, <1>3
  <2>2. out \in store' BY <1>1
  <2> QED BY <2>1, <2>2
<1>4. CASE o \notin src
  BY <1>1, <1>2, <1>4
<1> QED BY <1>3, <1>4

\* Nothing said of the records changes while they and the markers stay.
LEMMA SameRecords ==
    ASSUME UNCHANGED <<stMain, stPrev, mainOK, state, markers>>, Up' = Up
    PROVE  Records' = Records /\ \A s : Touched(s)' = Touched(s)
  BY DEF Records, Touched

\* What a step that leaves the records, the directories, the rows and the bucket
\* alone preserves.
LEMMA SameData ==
    ASSUME IInv, Up' = Up,
           UNCHANGED <<stMain, stPrev, mainOK, state, markers, dirs, content, store, puts>>
    PROVE  /\ Records' = Records /\ \A s : Touched(s)' = Touched(s)
           /\ LiveDirs' = LiveDirs /\ StoredRows' = StoredRows
           /\ RecordsInv' /\ KeyContentStable' /\ PutsInv'
           /\ NoRowLost' /\ MarkerMeansComplete' /\ ThroughInv'
<1>1. /\ Records' = Records /\ \A s : Touched(s)' = Touched(s)
      /\ LiveDirs' = LiveDirs /\ StoredRows' = StoredRows
  BY SameRecords DEF LiveDirs, StoredRows
<1>2. \A s : AllStored(s)' = AllStored(s)
  BY <1>1 DEF AllStored, KeptOf
<1>3. RecordsInv' /\ KeyContentStable' /\ PutsInv'
  BY <1>1 DEF IInv, RecordsInv, KeyContentStable, PutsInv
<1>4. NoRowLost' /\ MarkerMeansComplete' /\ ThroughInv'
  BY <1>1, <1>2 DEF IInv, NoRowLost, MarkerMeansComplete, ThroughInv
<1> QED BY <1>1, <1>3, <1>4

\* The fields of a record of the flusher are numbers in range.
LEMMA RecordTypes ==
    ASSUME IInv
    PROVE  \A st \in Records : /\ st \in FlushState
                               /\ st.through \in Nat /\ st.through <= MaxSeq
                               /\ st.draining \in Nat /\ st.draining <= MaxSeq
                               /\ st.plan \in Nat
  BY ConstantsAssumption, SMT DEF IInv, TypeOK, Records, FlushState

\* Where the numbers of segments lie.
LEMMA SeqBounds ==
    /\ MaxSeq \in Nat /\ 0 \in 0..MaxSeq /\ 1 \in 1..(MaxSeq + 1) /\ 0 \notin Seqs
    /\ \A s \in Seqs : s \in Nat /\ s \in 0..MaxSeq /\ s + 1 \in 1..(MaxSeq + 1)
    /\ \A n \in Nat : n <= MaxSeq => n = 0 \/ n \in Seqs
  BY ConstantsAssumption, SMT DEF Seqs

\* The record of a fresh start.
LEMMA EmptyStateType == EmptyState \in FlushState
  BY SeqBounds DEF EmptyState, FlushState

\* The active segment is not committed.
LEMMA ActiveIsPending ==
    ASSUME IInv, Up
    PROVE  active \notin committed
<1>1. active \in list /\ list \subseteq LiveDirs
  BY DEF IInv, DirInv
<1>2. active \in Seqs
  BY <1>1 DEF LiveDirs
<1>3. committed = {s \in list : s <= state.through}
  BY DEF IInv, DirInv
<1>4. Touched(active) => active < active
  BY <1>2 DEF IInv, DirInv
<1>5. active <= state.through => Touched(active)
  BY DEF Touched, Records
<1>6. ~(active < active)
  BY <1>2, SMT DEF Seqs
<1>7. QED
  BY <1>3, <1>4, <1>5, <1>6

\* When st joins the records, this is what has to be known of it.
GoodRecord(st) ==
    /\ st.draining # 0 =>
         /\ st.through < st.draining
         /\ st.plan # 0
         /\ dirs[st.draining] = "live"
         /\ \A s \in LiveDirs : s < st.draining => s <= st.through
    /\ \A p \in puts :
         \/ p.key[1] <= st.through
         \/ /\ p.key[1] = st.draining
            /\ p.rows = KeptRows(st.plan, content[p.key[1]], GroupOfKey(p.key))
    /\ \A s \in Seqs : s <= st.through => AllStored(s) /\ (s \in LiveDirs => s \in markers)
    /\ \A s \in Seqs : s = st.draining \/ s <= st.through =>
         s < active /\ flushed[s] = content[s]

\* A good record may join the records.
LEMMA NewRecord ==
    ASSUME IInv, Up, Up', NEW st, GoodRecord(st), Records' \subseteq Records \cup {st},
           UNCHANGED <<dirs, flushed, content, store, puts, markers, active>>
    PROVE  /\ LiveDirs' = LiveDirs /\ StoredRows' = StoredRows
           /\ \A s : AllStored(s)' = AllStored(s)
           /\ RecordsInv' /\ KeyContentStable' /\ PutsInv'
           /\ NoRowLost' /\ MarkerMeansComplete' /\ ThroughInv'
           /\ \A s \in Seqs : Touched(s)' => s < active /\ flushed[s] = content[s]
<1>1. LiveDirs' = LiveDirs /\ StoredRows' = StoredRows
  BY DEF LiveDirs, StoredRows
<1>2. \A s : AllStored(s)' = AllStored(s)
  BY <1>1 DEF AllStored, KeptOf
<1>3. RecordsInv' /\ KeyContentStable'
  BY <1>1 DEF IInv, GoodRecord, RecordsInv, KeyContentStable
<1>4. PutsInv'
  BY <1>1 DEF IInv, GoodRecord, PutsInv
<1>5. NoRowLost' /\ MarkerMeansComplete' /\ ThroughInv'
  BY <1>1, <1>2 DEF IInv, GoodRecord, NoRowLost, MarkerMeansComplete, ThroughInv
<1>6. \A s \in Seqs : Touched(s)' => s < active /\ flushed[s] = content[s]
  BY DEF IInv, GoodRecord, Touched, DirInv, FlushInv
<1> QED BY <1>1, <1>2, <1>3, <1>4, <1>5, <1>6

\* A segment is taken up only when nothing else is being drained.
LEMMA IntentFacts ==
    ASSUME IInv, pc = "idle", NEW s \in Seqs, OldestPending(s), state.draining # s
    PROVE  /\ state.draining = 0
           /\ s \in list /\ dirs[s] = "live" /\ s < active /\ state.through < s
           /\ Intent(s) = [through |-> state.through, draining |-> s, plan |-> maxRows]
           /\ Intent(s) \in FlushState
           /\ Succ(state, Intent(s))
           /\ GoodRecord(Intent(s))
<1> USE DEF IInv
<1>1. Up /\ state \in Records /\ state \in FlushState
  BY DEF Up, Records, TypeOK
<1>2. /\ s \in list /\ s # active /\ s \notin committed /\ s \in LiveDirs
      /\ s <= active /\ active \in Seqs /\ maxRows # 0 /\ maxRows \in Nat
  BY <1>1 DEF OldestPending, Pending, Sealed, DirInv, TypeOK
<1>3. s < active /\ state.through < s /\ state.through \in Nat
  BY <1>1, <1>2, SMT DEF DirInv, Seqs, FlushState
<1>4. \A x \in LiveDirs : x < s => x <= state.through
  BY <1>1, <1>2, <1>3, SMT DEF OldestPending, Pending, Sealed, DirInv, Seqs, LiveDirs
<1>5. state.draining = 0
  <2> DEFINE d == state.draining
  <2>1. SUFFICES ASSUME d # 0 PROVE FALSE
    OBVIOUS
  <2>2. d \in Seqs /\ d \in LiveDirs /\ state.through < d
    BY <1>1, <2>1, SMT DEF RecordsInv, FlushState, Seqs, LiveDirs
  <2>3. d < active
    BY <1>1, <2>2 DEF DirInv, Touched, Seqs
  <2>4. d \in Pending
    BY <1>1, <1>2, <1>3, <2>2, <2>3, SMT DEF Pending, Sealed, DirInv, Seqs
  <2>5. s < d
    BY <2>2, <2>4, SMT DEF OldestPending, Seqs
  <2> QED BY <1>1, <1>2, <1>3, <2>1, <2>5, SMT DEF RecordsInv, Seqs
<1>6. Intent(s) = [through |-> state.through, draining |-> s, plan |-> maxRows]
  BY DEF Intent
<1>7. Intent(s) \in FlushState /\ Succ(state, Intent(s))
  BY <1>1, <1>2, <1>5, <1>6, SMT DEF FlushState, Succ, Seqs
<1>8. GoodRecord(Intent(s))
  <2> DEFINE st == Intent(s)
  <2>1. /\ st.through < st.draining /\ st.plan # 0 /\ dirs[st.draining] = "live"
        /\ \A x \in LiveDirs : x < st.draining => x <= st.through
    BY <1>2, <1>3, <1>4, <1>6, SMT DEF LiveDirs
  <2>2. \A p \in puts : p.key[1] <= st.through
    BY <1>1, <1>5, <1>6, SMT DEF PutsInv
  <2>3. \A x \in Seqs : x <= st.through => AllStored(x) /\ (x \in LiveDirs => x \in markers)
    BY <1>1, <1>6, SMT DEF ThroughInv
  <2>4. \A x \in Seqs : x <= state.through => x < active /\ flushed[x] = content[x]
    BY <1>1 DEF Touched, DirInv, FlushInv
  <2>5. flushed[s] = content[s]
    BY <1>1, <1>2 DEF FlushInv, Sealed, Up
  <2> QED BY <1>3, <1>6, <2>1, <2>2, <2>3, <2>4, <2>5, SMT DEF GoodRecord
<1> QED BY <1>2, <1>3, <1>5, <1>6, <1>7, <1>8 DEF LiveDirs

\* A failed write of st leaves each copy as it was or makes it st, the mirror first.
LEMMA WriteErrorFacts ==
    ASSUME NEW st, WriteStateError(st)
    PROVE  \/ stPrev' = stPrev /\ stMain' = stMain /\ mainOK' = mainOK
           \/ stPrev' = st /\ stMain' = stMain /\ mainOK' = mainOK
           \/ stPrev' = st /\ stMain' = st /\ mainOK' = TRUE
  BY DEF WriteStateError, WriteState

\* What a failed write of the process's next record preserves.
LEMMA WriteErrorStep ==
    ASSUME IInv, NEW st, WriteStateError(st), st \in FlushState, Succ(state, st),
           GoodRecord(st), Up, Up',
           state.draining = 0 => st.plan = maxRows,
           state.draining = 0 /\ mainOK /\ stMain # state => stMain = st,
           UNCHANGED <<dirs, flushed, marksFile, savedMan, savedRet, maxRows, nextSeq,
                       active, list, content, committed, held, state, marks, marksFor,
                       head, todo, failed, grp, man, ret, store, markers, acked, puts,
                       early, merges>>,
           pc' \in {pc, "idle"}, pc # "sealing"
    PROVE  IInv'
<1> USE DEF IInv
<1>1. Records' \subseteq Records \cup {st}
  BY WriteErrorFacts DEF Records
<1>2. /\ LiveDirs' = LiveDirs /\ StoredRows' = StoredRows
      /\ RecordsInv' /\ KeyContentStable' /\ PutsInv'
      /\ NoRowLost' /\ MarkerMeansComplete' /\ ThroughInv'
      /\ \A x \in Seqs : Touched(x)' => x < active /\ flushed[x] = content[x]
  BY <1>1, NewRecord
<1>3. TypeOK'
  <2>1. /\ stPrev \in FlushState /\ stMain \in FlushState
        /\ mainOK \in BOOLEAN /\ head' \in BOOLEAN /\ failed' \in BOOLEAN
    BY DEF TypeOK
  <2>2. stPrev' \in FlushState /\ stMain' \in FlushState /\ mainOK' \in BOOLEAN
    BY <2>1 DEF WriteStateError, WriteState
  <2> QED BY <2>1, <2>2 DEF TypeOK
<1>4. SyncInv'
  <2>1. state.draining # 0 =>
          st = [through |-> state.draining, draining |-> 0, plan |-> 0]
    BY DEF Succ
  <2>2. mainOK /\ stMain # state => stMain = st
    BY <2>1 DEF SyncInv, Succ
  <2>3. mainOK => stMain = state \/ stMain = st
    BY <2>2
  <2>4. stPrev = state \/ stPrev = st \/ (mainOK => stMain = state)
    BY <2>3 DEF SyncInv
  <2>5. CASE stPrev' = stPrev /\ stMain' = stMain /\ mainOK' = mainOK
    BY <2>5 DEF SyncInv, Up
  <2>6. CASE stPrev' = st /\ stMain' = stMain /\ mainOK' = mainOK
    BY <2>3, <2>6 DEF SyncInv
  <2>7. CASE stPrev' = st /\ stMain' = st /\ mainOK' = TRUE
    BY <2>7 DEF SyncInv
  <2> QED BY <2>5, <2>6, <2>7, WriteErrorFacts
<1>5. DirInv'
  BY <1>2 DEF DirInv
<1>6. FlushInv'
  BY <1>2 DEF FlushInv, Sealed
<1>7. MarksInv'
  BY DEF MarksInv, HasPut
<1>8. DrainInv'
  BY <1>2 DEF DrainInv, Cur, PlanRows, CurRows, CurKey, HasPut
<1> QED BY <1>2, <1>3, <1>4, <1>5, <1>6, <1>7, <1>8

Draining == pc \in {"draining", "stored", "marked", "commit"}

\* What the process drains.
LEMMA CurFacts ==
    ASSUME IInv, Draining
    PROVE  /\ Up /\ state \in Records /\ Cur \in Seqs /\ state.through < Cur
           /\ dirs[Cur] = "live" /\ Cur < active /\ Cur \in list
           /\ PlanRows \in Nat /\ PlanRows # 0 /\ content[Cur] \in SUBSET Rows
           /\ \A x \in LiveDirs : x < Cur => x <= state.through
<1> USE DEF IInv
<1>1. Up /\ state \in Records /\ Cur # 0
  BY DEF Draining, Up, Records, DrainInv
<1>2. Cur \in Seqs /\ state.through \in Nat /\ PlanRows \in Nat
  BY <1>1, SMT DEF Cur, PlanRows, TypeOK, FlushState, Seqs
<1>3. /\ state.through < Cur /\ dirs[Cur] = "live" /\ PlanRows # 0
      /\ \A x \in LiveDirs : x < Cur => x <= state.through
  BY <1>1 DEF RecordsInv, Cur, PlanRows
<1>4. Cur < active
  BY <1>1, <1>2 DEF DirInv, Touched, Cur
<1>5. Cur \in list
  BY <1>1, <1>2, <1>3, SMT DEF DirInv, LiveDirs, Seqs
<1> QED BY <1>1, <1>2, <1>3, <1>4, <1>5 DEF TypeOK

\* An object of the segment being drained has the rows the plan gives its group.
LEMMA CurPuts ==
    ASSUME IInv, Draining, NEW g \in Group, NEW p \in puts, p.key = CurKey(g)
    PROVE  p.rows = CurRows(g)
<1>1. p.key[1] = Cur /\ GroupOfKey(p.key) = g
  <2>1. g = <<g[1], g[2]>>
    BY SMT DEF Group
  <2> QED BY <2>1, SMT DEF CurKey, KeyOf, GroupOfKey
<1>2. ~(p.key[1] <= state.through)
  <2>1. state.through \in Nat /\ Cur \in Nat /\ state.through < Cur
    BY CurFacts, RecordTypes, SMT DEF Seqs
  <2> QED BY <1>1, <2>1, SMT
<1> QED BY <1>1, <1>2, CurFacts DEF IInv, PutsInv, CurRows, PlanRows, Cur

\* An attempt that passed every group without a failure has stored the segment.
LEMMA CurStored ==
    ASSUME IInv, Draining, todo = {}, ~failed
    PROVE  AllStored(Cur)
<1>1. \A g \in Groups(PlanRows, content[Cur]) : KeptRows(PlanRows, content[Cur], g) \subseteq StoredRows
  BY DEF IInv, DrainInv, Draining, CurRows
<1> QED BY <1>1, GroupsCover DEF AllStored, KeptOf

\* What a restart reads is one of the records.
LEMMA LoadableRecord ==
    Loadable \in Records
BY DEF Loadable, Records

\* What a restart would read is never behind the process's record, nor further
\* ahead than the commit it is about to write.
LEMMA LoadableThrough ==
    ASSUME IInv, Up
    PROVE  /\ Loadable.through \in Nat /\ state.through \in Nat /\ state.draining \in Nat
           /\ state.draining = 0 => Loadable.through = state.through
           /\ state.draining # 0 => Loadable.through <= state.draining
<1>1. Loadable \in Records /\ state \in Records
  BY LoadableRecord DEF Records
<1>2. Loadable.through \in Nat /\ state.through \in Nat /\ state.draining \in Nat
  BY <1>1, RecordTypes DEF IInv
<1>3. Loadable = state \/ Succ(state, Loadable)
  BY DEF IInv, SyncInv, Loadable
<1>4. state.draining # 0 => state.through < state.draining
  BY <1>1 DEF IInv, RecordsInv
<1> QED BY <1>2, <1>3, <1>4, SMT DEF Succ

-----------------------------------------------------------------------------
(* The drain, reaping and compaction. *)

\* A group that was uploaded is in the bucket.
LEMMA HasPutStored ==
    ASSUME IInv, Draining, NEW g \in Group, HasPut(CurKey(g))
    PROVE  CurRows(g) \subseteq StoredRows
  BY CurPuts DEF HasPut, IInv, PutsInv

\* A group the attempt skips is in the bucket.
LEMMA SettledStored ==
    ASSUME IInv, Draining, NEW g \in Group, Settled(g)
    PROVE  CurRows(g) \subseteq StoredRows
<1>1. CurKey(g)[1] = Cur /\ Cur # 0
  BY CurFacts, SMT DEF CurKey, KeyOf, Seqs
<1>2. CASE g \in marks
  BY <1>2, HasPutStored DEF IInv, MarksInv, DrainInv, Draining, CurKey
<1>3. CASE CurKey(g) \in ret \cup man
  BY <1>1, <1>3, HasPutStored DEF IInv, MarksInv
<1>4. CASE Exists(CurKey(g))
  BY <1>1, <1>4, HasPutStored DEF IInv, PutsInv, Exists, HasPut
<1>5. CASE CurRows(g) = {}
  BY <1>5
<1> QED BY <1>2, <1>3, <1>4, <1>5 DEF Settled

\* writeGroup passes a group that needs no upload.
LEMMA SettleGroupStep ==
    ASSUME IInv, NEW g \in todo, SettleGroup(g)
    PROVE  IInv'
<1> USE DEF IInv, SettleGroup, NextGroup, diskVars, segVars, manVars, bucketVars, histVars
<1>1. Up' = Up /\ Draining /\ g \in Group
  BY DEF Up, Draining, TypeOK
<1>2. TypeOK'
  BY DEF TypeOK
<1>3. SyncInv' /\ DirInv' /\ FlushInv' /\ MarksInv'
  BY SameData, <1>1 DEF SyncInv, DirInv, FlushInv, Sealed, MarksInv, HasPut
<1>4. CurRows(g) \subseteq StoredRows
  BY <1>1, SettledStored
<1>5. DrainInv'
  BY SameData, <1>1, <1>4 DEF DrainInv, Cur, PlanRows, CurRows, CurKey, HasPut
<1> QED
  BY SameData, <1>1, <1>2, <1>3, <1>5

\* Nothing uploaded is lost by an upload of the segment being drained.
LEMMA PutObjectStep ==
    ASSUME IInv, Draining, NEW g \in Group, PutObject(g), Up',
           UNCHANGED <<stMain, stPrev, mainOK, state, markers, dirs, content>>
    PROVE  /\ Records' = Records /\ (\A s : Touched(s)' = Touched(s)) /\ LiveDirs' = LiveDirs
           /\ StoredRows \subseteq StoredRows'
           /\ store' \subseteq Object /\ puts' \subseteq Object
           /\ puts \subseteq puts' /\ HasPut(CurKey(g))'
           /\ RecordsInv' /\ KeyContentStable' /\ PutsInv'
           /\ NoRowLost' /\ MarkerMeansComplete' /\ ThroughInv'
<1> DEFINE k == CurKey(g)
           R == CurRows(g)
           new == [key |-> k, rows |-> R]
<1>1. store' = Upload(k, R) /\ puts' = puts \cup {new}
  BY DEF PutObject
<1>2. Records' = Records /\ (\A s : Touched(s)' = Touched(s)) /\ LiveDirs' = LiveDirs
  BY SameRecords, CurFacts DEF LiveDirs
<1>3. k[1] = Cur /\ Cur \in Seqs /\ Cur # 0 /\ GroupOfKey(k) = g /\ k \in Key
  <2>1. g = <<g[1], g[2]>> /\ g[1] \in Tenants /\ g[2] \in Nat
    BY SMT DEF Group
  <2>2. Cur \in Seqs /\ Cur # 0 /\ Cur \in 0..MaxSeq
    BY CurFacts, SMT DEF Seqs
  <2> QED BY <2>1, <2>2 DEF CurKey, KeyOf, GroupOfKey, Key
<1>4. new \in Object
  BY <1>3, CurFacts, KeptRowsType DEF Object, CurRows
<1>5. \A p \in puts : p.key = k => p.rows = R
  BY CurPuts
<1>6. \A o \in store : o.key = k => o.rows \subseteq R
  BY <1>3, <1>5 DEF IInv, PutsInv
<1>7. StoredRows \subseteq StoredRows' /\ R \subseteq StoredRows'
  BY <1>1, <1>6, UploadKeeps
<1>8. store' \subseteq Object /\ puts' \subseteq Object /\ puts \subseteq puts' /\ HasPut(k)'
  <2>1. \A o \in store' : o \in store \/ o = new
    BY <1>1 DEF Upload
  <2>2. store \subseteq Object /\ puts \subseteq Object
    BY DEF IInv, TypeOK
  <2>3. new \in puts' /\ new.key = k /\ k' = k
    BY <1>1 DEF CurKey, Cur
  <2> QED BY <1>1, <1>4, <2>1, <2>2, <2>3 DEF HasPut
<1>9. RecordsInv'
  BY <1>2 DEF IInv, RecordsInv
<1>10. KeyContentStable'
  BY <1>1, <1>5, SMT DEF IInv, KeyContentStable
<1>11. PutsInv'
  <2>1. \A p \in puts' : p.key[1] # 0 /\ p.rows \subseteq StoredRows'
    BY <1>1, <1>3, <1>7, SMT DEF IInv, PutsInv
  <2>2. \A o \in store' : o.key[1] # 0 => o \in puts'
    BY <1>1 DEF IInv, PutsInv, Upload
  <2>3. ASSUME NEW st \in Records
        PROVE  \/ k[1] <= st.through
               \/ k[1] = st.draining /\ R = KeptRows(st.plan, content[k[1]], GroupOfKey(k))
    <3>1. st = state \/ Succ(state, st)
      <4>1. Up /\ (st = stPrev \/ (mainOK /\ st = stMain) \/ st = state)
        BY CurFacts DEF Records
      <4>2. /\ stPrev = state \/ Succ(state, stPrev)
            /\ mainOK /\ stMain # state => Succ(state, stMain)
        BY <4>1 DEF IInv, SyncInv
      <4>3. CASE st = stPrev
        BY ONLY <4>2, <4>3
      <4>4. CASE mainOK /\ st = stMain
        BY ONLY <4>2, <4>4
      <4> QED BY <4>1, <4>3, <4>4
    <3>2. CASE st = state
      BY <1>3, <3>2 DEF CurRows, PlanRows, Cur
    <3>3. CASE Succ(state, st)
      BY <1>3, <3>3, SMT DEF Succ, Cur, Seqs
    <3> QED BY <3>1, <3>2, <3>3
  <2> QED BY <1>1, <1>2, <2>1, <2>2, <2>3, SMT DEF IInv, PutsInv
<1>12. \A s : AllStored(s) => AllStored(s)'
  BY <1>7 DEF AllStored, KeptOf
<1>13. NoRowLost' /\ MarkerMeansComplete' /\ ThroughInv'
  BY <1>2, <1>12 DEF IInv, NoRowLost, MarkerMeansComplete, ThroughInv
<1> QED
  BY <1>2, <1>7, <1>8, <1>9, <1>10, <1>11, <1>13

\* uploadLogGroup stores a group.
LEMMA UploadGroupStep ==
    ASSUME IInv, NEW g \in todo, UploadGroup(g)
    PROVE  IInv'
<1> USE DEF IInv, UploadGroup, NextGroup, diskVars, segVars, manVars
<1>1. Up /\ Up' /\ Draining /\ g \in Group
  BY DEF Up, Draining, TypeOK
<1>2. /\ Records' = Records /\ (\A s : Touched(s)' = Touched(s)) /\ LiveDirs' = LiveDirs
      /\ StoredRows \subseteq StoredRows'
      /\ store' \subseteq Object /\ puts' \subseteq Object
      /\ puts \subseteq puts' /\ HasPut(CurKey(g))'
      /\ RecordsInv' /\ KeyContentStable' /\ PutsInv'
      /\ NoRowLost' /\ MarkerMeansComplete' /\ ThroughInv'
  BY <1>1, PutObjectStep
<1>3. TypeOK'
  BY <1>1, <1>2 DEF TypeOK
<1>4. SyncInv' /\ DirInv' /\ FlushInv'
  BY <1>1, <1>2 DEF SyncInv, DirInv, FlushInv, Sealed
<1>5. MarksInv'
  BY <1>2 DEF MarksInv, HasPut
<1>6. DrainInv'
  <2>1. g # NoGroup
    BY <1>1, SMT DEF Group, NoGroup
  <2> QED BY <1>1, <1>2, <2>1 DEF DrainInv, Draining, Cur, PlanRows, CurRows, CurKey
<1> QED
  BY <1>2, <1>3, <1>4, <1>5, <1>6

\* A group fails, stored or not.
LEMMA GroupErrorStep ==
    ASSUME IInv, NEW g \in todo, GroupError(g)
    PROVE  IInv'
<1> USE DEF IInv, GroupError, NextGroup, diskVars, segVars, manVars
<1>1. Up /\ Up' /\ Draining /\ g \in Group
  BY DEF Up, Draining, TypeOK
<1>2. /\ Records' = Records /\ (\A s : Touched(s)' = Touched(s)) /\ LiveDirs' = LiveDirs
      /\ StoredRows \subseteq StoredRows'
      /\ store' \subseteq Object /\ puts' \subseteq Object /\ puts \subseteq puts'
      /\ RecordsInv' /\ KeyContentStable' /\ PutsInv'
      /\ NoRowLost' /\ MarkerMeansComplete' /\ ThroughInv'
  <2>1. CASE UNCHANGED <<store, puts>>
    BY <1>1, <2>1, SameData DEF TypeOK
  <2>2. CASE PutObject(g)
    BY <1>1, <2>2, PutObjectStep
  <2> QED BY <2>1, <2>2
<1>3. TypeOK'
  BY <1>1, <1>2 DEF TypeOK
<1>4. SyncInv' /\ DirInv' /\ FlushInv'
  BY <1>1, <1>2 DEF SyncInv, DirInv, FlushInv, Sealed
<1>5. MarksInv'
  BY <1>2 DEF MarksInv, HasPut
<1>6. DrainInv'
  BY <1>1, <1>2 DEF DrainInv, Cur
<1> QED
  BY <1>2, <1>3, <1>4, <1>5, <1>6

\* markStored marks only what was uploaded.
LEMMA MarkStoredStep ==
    ASSUME IInv, MarkStored
    PROVE  IInv'
<1> USE DEF IInv, MarkStored, segVars, manVars, bucketVars, histVars
<1>1. Up /\ Up' /\ Draining
  BY DEF Up, Draining
<1>2. grp \in Group /\ HasPut(KeyOf(Cur, grp)) /\ marksFor = Cur /\ Cur \in Seqs
  <2>1. grp # NoGroup /\ HasPut(KeyOf(Cur, grp)) /\ marksFor = Cur
    BY DEF DrainInv, CurKey
  <2>2. grp \in Group
    BY <2>1 DEF TypeOK
  <2> QED BY <1>1, <2>1, <2>2, CurFacts
<1>3. marksFile' \subseteq marksFile \cup {<<Cur, grp>>}
  OBVIOUS
<1>4. TypeOK'
  <2>1. marksFile' \subseteq Seqs \X Group /\ marks' \subseteq Group
    BY <1>2, <1>3, SMT DEF TypeOK
  <2> QED BY <2>1 DEF TypeOK
<1>5. SyncInv' /\ DirInv' /\ FlushInv'
  BY SameData, <1>1 DEF SyncInv, DirInv, FlushInv, Sealed
<1>6. MarksInv'
  <2>1. \A m \in marksFile : HasPut(KeyOf(m[1], m[2]))
    BY DEF MarksInv
  <2>2. \A m \in marksFile' : HasPut(KeyOf(m[1], m[2]))
    BY ONLY <1>2, <1>3, <2>1, SMT
  <2>3. \A g \in marks' : HasPut(KeyOf(marksFor', g))
    BY <1>2 DEF MarksInv
  <2> QED BY <2>2, <2>3 DEF MarksInv, HasPut
<1>7. DrainInv'
  BY SameData, <1>1 DEF DrainInv, Cur, PlanRows, CurRows, CurKey, HasPut
<1> QED
  BY SameData, <1>1, <1>4, <1>5, <1>6, <1>7

\* The manifest gains only what was uploaded.
LEMMA CommitFileStep ==
    ASSUME IInv, CommitFile
    PROVE  IInv'
<1> USE DEF IInv, CommitFile, diskVars, segVars, bucketVars, histVars
<1>1. Up /\ Up' /\ Draining
  BY DEF Up, Draining
<1>2. grp \in Group /\ HasPut(CurKey(grp)) /\ Cur \in 0..MaxSeq
  <2>1. grp # NoGroup /\ HasPut(CurKey(grp))
    BY DEF DrainInv
  <2>2. grp \in Group
    BY <2>1 DEF TypeOK
  <2> QED BY <1>1, <2>1, <2>2, CurFacts, SeqBounds
<1>3. CurRows(grp) \subseteq StoredRows
  BY <1>1, <1>2, HasPutStored
<1>4. man' \subseteq man \cup {CurKey(grp)} /\ CurKey(grp) \in Key
  BY <1>2 DEF CurKey, KeyOf, Key, Group
<1>5. TypeOK'
  <2>1. man' \subseteq Key
    BY <1>4 DEF TypeOK
  <2> QED BY <2>1 DEF TypeOK
<1>6. SyncInv' /\ DirInv' /\ FlushInv'
  BY SameData, <1>1 DEF SyncInv, DirInv, FlushInv, Sealed
<1>7. MarksInv'
  BY <1>2, <1>4 DEF MarksInv, HasPut
<1>8. DrainInv'
  BY SameData, <1>1, <1>3 DEF DrainInv, Cur, PlanRows, CurRows, CurKey, HasPut
<1> QED
  BY SameData, <1>1, <1>5, <1>6, <1>7, <1>8

\* A failed attempt leaves everything for the next one.
LEMMA EndFailedAttemptStep ==
    ASSUME IInv, EndFailedAttempt
    PROVE  IInv'
<1> USE DEF IInv, EndFailedAttempt, diskVars, segVars, manVars, bucketVars, histVars
<1>1. Up /\ Up'
  BY DEF Up
<1>2. TypeOK'
  BY DEF TypeOK
<1>3. SyncInv' /\ DirInv' /\ FlushInv' /\ MarksInv' /\ DrainInv'
  BY SameData, <1>1 DEF SyncInv, DirInv, FlushInv, Sealed, MarksInv, HasPut, DrainInv
<1> QED
  BY SameData, <1>1, <1>2, <1>3

\* A marker may be stored once every group is.
LEMMA MarkerStep ==
    ASSUME IInv, pc = "draining", todo = {}, ~failed,
           markers' \in {markers, markers \cup {Cur}},
           pc' \in {"commit", "idle"}, pc' = "commit" => Cur \in markers',
           UNCHANGED <<diskVars, maxRows, segVars, drainVars, manVars, store, histVars>>
    PROVE  IInv'
<1> USE DEF IInv, diskVars, segVars, drainVars, manVars, histVars
<1>1. Up /\ Up' /\ Draining
  BY DEF Up, Draining
<1>2. state \in Records /\ Cur \in Seqs /\ AllStored(Cur) /\ Touched(Cur)
  BY <1>1, CurFacts, CurStored DEF Touched, Cur
<1>3. Records' = Records /\ LiveDirs' = LiveDirs /\ StoredRows' = StoredRows
  BY <1>1 DEF Records, LiveDirs, StoredRows
<1>4. \A s : Touched(s)' = Touched(s)
  BY <1>2, <1>3 DEF Touched
<1>5. \A s : AllStored(s)' = AllStored(s)
  BY <1>3 DEF AllStored, KeptOf
<1>6. TypeOK'
  BY <1>2 DEF TypeOK
<1>7. SyncInv' /\ RecordsInv' /\ DirInv' /\ FlushInv'
  BY <1>1, <1>3, <1>4 DEF SyncInv, RecordsInv, DirInv, FlushInv, Sealed
<1>8. KeyContentStable' /\ PutsInv' /\ MarksInv'
  BY <1>3 DEF KeyContentStable, PutsInv, MarksInv, HasPut
<1>9. NoRowLost' /\ MarkerMeansComplete' /\ ThroughInv'
  BY <1>2, <1>3, <1>5 DEF NoRowLost, MarkerMeansComplete, ThroughInv
<1>10. DrainInv'
  BY <1>3 DEF DrainInv, Cur, PlanRows, CurRows
<1> QED BY <1>6, <1>7, <1>8, <1>9, <1>10

\* putSegmentMarker, stored or failed.
LEMMA PutMarkerStep ==
    ASSUME IInv, PutMarker \/ PutMarkerError
    PROVE  IInv'
  BY MarkerStep DEF PutMarker, PutMarkerError

\* Once the marker is there, everything up to the segment may be called committed.
LEMMA CommitFacts ==
    ASSUME IInv, pc = "commit"
    PROVE  /\ CommitState \in FlushState
           /\ Succ(state, CommitState)
           /\ GoodRecord(CommitState)
<1> USE DEF IInv
<1>1. Draining /\ todo = {} /\ ~failed /\ Cur \in markers
  BY DEF Draining, DrainInv
<1>2. /\ Up /\ state \in Records /\ Cur \in Seqs /\ state.through < Cur /\ Cur < active
      /\ AllStored(Cur) /\ state.through \in Nat
      /\ \A x \in LiveDirs : x < Cur => x <= state.through
  BY <1>1, CurFacts, CurStored, RecordTypes
<1>3. CommitState \in FlushState /\ Succ(state, CommitState)
  <2>1. Cur \in 0..MaxSeq /\ 0 \in 0..MaxSeq /\ Cur # 0
    BY <1>2, ConstantsAssumption, SMT DEF Seqs
  <2>2. CommitState \in FlushState
    BY <2>1 DEF CommitState, FlushState
  <2> QED BY <2>1, <2>2 DEF CommitState, Succ, Cur
<1>4. \A p \in puts : p.key[1] <= Cur
  <2>1. SUFFICES ASSUME NEW p \in puts PROVE p.key[1] <= Cur
    OBVIOUS
  <2>2. p.key[1] <= state.through \/ p.key[1] = state.draining
    BY <1>2 DEF PutsInv
  <2>3. p.key[1] \in 0..MaxSeq
    BY DEF TypeOK, Object, Key
  <2> QED BY <1>2, <2>2, <2>3, SMT DEF Cur, Seqs
<1>5. ASSUME NEW x \in Seqs, x <= Cur
      PROVE  /\ AllStored(x) /\ (x \in LiveDirs => x \in markers)
             /\ x < active /\ flushed[x] = content[x]
  <2>1. x < active
    BY <1>2, <1>5, SMT DEF Seqs, TypeOK
  <2>2. CASE x = Cur
    BY <1>1, <1>2, <2>1, <2>2 DEF FlushInv, Touched
  <2>3. CASE x <= state.through
    BY <1>2, <2>1, <2>3 DEF ThroughInv, FlushInv, Touched
  <2>4. CASE x # Cur /\ ~(x <= state.through)
    <3>1. x < Cur
      BY <1>2, <1>5, <2>4, SMT DEF Seqs
    <3>2. x \notin LiveDirs
      BY <1>2, <2>4, <3>1
    <3> QED BY <2>1, <3>2 DEF NoRowLost, LiveDirs, FlushInv
  <2> QED BY <2>2, <2>3, <2>4
<1>6. CommitState.through = Cur /\ CommitState.draining = 0
  BY DEF CommitState
<1>7. \A x \in Seqs : x # 0
  BY SMT DEF Seqs
<1> QED BY <1>3, <1>4, <1>5, <1>6, <1>7 DEF GoodRecord

\* drainAttempt records the commit.
LEMMA RecordCommitStep ==
    ASSUME IInv, RecordCommit
    PROVE  IInv'
<1> DEFINE st == CommitState
<1> USE DEF IInv
<1>1. /\ pc = "commit" /\ pc' = "idle"
      /\ stPrev' = st /\ stMain' = st /\ mainOK' = TRUE /\ state' = st
      /\ marksFile' \in {{}, marksFile} /\ marksFor' = 0 /\ marks' = {} /\ head' = FALSE
      /\ committed' = committed \cup {Cur}
      /\ UNCHANGED <<dirs, flushed, savedMan, savedRet, maxRows, nextSeq, active, list,
                     content, held, todo, failed, grp, man, ret, store, markers, acked,
                     puts, early, merges>>
  BY DEF RecordCommit, WriteState, RemoveMarks, manVars, bucketVars, histVars
<1>2. Up /\ Up' /\ Draining
  BY <1>1 DEF Up, Draining
<1>3. Records' = {st}
  BY <1>1, <1>2 DEF Records
<1>4. st \in FlushState /\ GoodRecord(st) /\ st.through = Cur /\ st.draining = 0
  BY <1>1, CommitFacts DEF CommitState
<1>5. /\ LiveDirs' = LiveDirs /\ StoredRows' = StoredRows
      /\ RecordsInv' /\ KeyContentStable' /\ PutsInv'
      /\ NoRowLost' /\ MarkerMeansComplete' /\ ThroughInv'
      /\ \A x \in Seqs : Touched(x)' => x < active /\ flushed[x] = content[x]
  BY <1>1, <1>2, <1>3, <1>4, NewRecord
<1>6. /\ Cur \in Seqs /\ Cur \in list /\ state.through < Cur /\ state.through \in Nat
      /\ \A x \in LiveDirs : x < Cur => x <= state.through
  BY <1>2, CurFacts, RecordTypes
<1>7. TypeOK'
  <2>1. marksFile' \subseteq Seqs \X Group /\ 0 \in 0..MaxSeq /\ committed' \subseteq Seqs
    BY <1>1, <1>6, SeqBounds DEF TypeOK
  <2> QED BY <1>1, <1>4, <2>1 DEF TypeOK
<1>8. SyncInv'
  BY <1>1 DEF SyncInv
<1>9. DirInv'
  <2>1. list \subseteq LiveDirs /\ list \subseteq Seqs
    BY <1>2 DEF DirInv, TypeOK
  <2>2. \A x \in list : x <= Cur <=> x <= state.through \/ x = Cur
    BY <1>6, <2>1, SMT DEF Seqs
  <2>3. committed = {x \in list : x <= state.through}
    BY <1>2 DEF DirInv
  <2>4. committed' = {x \in list : x <= Cur}
    BY <1>1, <1>6, <2>2, <2>3
  <2>5. \A x \in LiveDirs \ list : x <= Cur
    BY <1>2, <1>6, SMT DEF DirInv, LiveDirs, Seqs
  <2> QED BY <1>1, <1>2, <1>4, <1>5, <2>4, <2>5 DEF DirInv
<1>10. FlushInv'
  BY <1>1, <1>2, <1>5 DEF FlushInv, Sealed
<1>11. MarksInv' /\ DrainInv'
  BY <1>1 DEF MarksInv, HasPut, DrainInv
<1> QED
  BY <1>5, <1>7, <1>8, <1>9, <1>10, <1>11

\* drainAttempt cannot record the commit; a copy may have it all the same.
LEMMA RecordCommitErrorStep ==
    ASSUME IInv, RecordCommitError
    PROVE  IInv'
<1>1. /\ pc = "commit" /\ WriteStateError(CommitState) /\ pc' = "idle"
      /\ UNCHANGED <<dirs, flushed, marksFile, savedMan, savedRet, maxRows, nextSeq,
                     active, list, content, committed, held, state, marks, marksFor,
                     head, todo, failed, grp, man, ret, store, markers, acked, puts,
                     early, merges>>
  BY DEF RecordCommitError, segVars, drainVars, manVars, bucketVars, histVars
<1>2. Up /\ Up' /\ state.draining # 0
  BY <1>1 DEF Up, IInv, DrainInv, Cur
<1>3. CommitState \in FlushState /\ GoodRecord(CommitState) /\ Succ(state, CommitState)
  BY <1>1, CommitFacts
<1> QED BY <1>1, <1>2, <1>3, WriteErrorStep

\* Segments.Reap takes only committed segments off the list.
LEMMA ReapStep ==
    ASSUME IInv, NEW R, Reap(R)
    PROVE  IInv'
<1> USE DEF IInv, Reap, diskVars, drainVars, manVars, bucketVars, histVars
<1>1. Up /\ Up'
  BY DEF Up
<1>2. TypeOK'
  BY DEF TypeOK
<1>3. SyncInv' /\ MarksInv' /\ DrainInv'
  BY SameData, <1>1 DEF SyncInv, MarksInv, HasPut, DrainInv, Cur, PlanRows, CurRows, CurKey
<1>4. DirInv'
  <2>1. active \notin R
    BY <1>1, ActiveIsPending
  <2> QED BY SameData, <1>1, <2>1 DEF DirInv
<1>5. FlushInv'
  BY SameData, <1>1 DEF FlushInv, Sealed
<1> QED BY SameData, <1>1, <1>2, <1>3, <1>4, <1>5

\* A complete listing tracks only what was uploaded or merged.
LEMMA RefreshStep ==
    ASSUME IInv, NEW R, Refresh(R)
    PROVE  IInv'
<1> USE DEF IInv, Refresh, diskVars, drainVars, bucketVars, histVars
<1>1. Up /\ Up' /\ R \subseteq committed
  BY DEF Up
<1>2. TypeOK'
  <2>1. man' \subseteq Key
    BY DEF TypeOK, Object
  <2> QED BY <2>1 DEF TypeOK
<1>3. SyncInv' /\ DrainInv'
  BY SameData, <1>1 DEF SyncInv, DrainInv, Cur, PlanRows, CurRows, CurKey, HasPut
<1>4. MarksInv'
  <2>1. ASSUME NEW k \in man', k[1] # 0
        PROVE  HasPut(k)
    BY <2>1 DEF HasPut, PutsInv
  <2>2. \A k \in ret \cup savedMan \cup savedRet : k[1] # 0 => HasPut(k)
    BY DEF MarksInv
  <2>3. \A k \in (man \cup ret \cup savedMan \cup savedRet)' : k[1] # 0 => HasPut(k)
    BY <2>1, <2>2
  <2> QED BY <2>3 DEF MarksInv, HasPut
<1>5. DirInv'
  <2>1. active \notin R
    BY <1>1, ActiveIsPending
  <2> QED BY SameData, <1>1, <2>1 DEF DirInv
<1>6. FlushInv'
  BY SameData, <1>1 DEF FlushInv, Sealed
<1> QED BY SameData, <1>1, <1>2, <1>3, <1>4, <1>5, <1>6

\* The manifest snapshot holds only what the manifest holds.
LEMMA SaveManifestStep ==
    ASSUME IInv, SaveManifest
    PROVE  IInv'
<1> USE DEF IInv, SaveManifest, segVars, drainVars, manVars, bucketVars, histVars
<1>1. Up /\ Up'
  BY DEF Up
<1>2. TypeOK'
  BY DEF TypeOK
<1>3. SyncInv' /\ DirInv' /\ FlushInv'
  BY SameData, <1>1 DEF SyncInv, DirInv, FlushInv, Sealed
<1>4. MarksInv' /\ DrainInv'
  BY SameData, <1>1 DEF MarksInv, HasPut, DrainInv, Cur, PlanRows, CurRows, CurKey
<1> QED BY SameData, <1>1, <1>2, <1>3, <1>4

\* A directory is removed only after its segment was committed.
LEMMA RemoveDirStep ==
    ASSUME IInv, NEW s \in Seqs, RemoveDir(s)
    PROVE  IInv'
<1> USE DEF IInv, RemoveDir, segVars, drainVars, manVars, bucketVars, histVars
<1>1. Up /\ Up' /\ state \in Records
  BY DEF Up, Records
<1>2. Records' = Records /\ (\A x : Touched(x)' = Touched(x)) /\ StoredRows' = StoredRows
  BY SameRecords, <1>1 DEF StoredRows
<1>3. \A x : AllStored(x)' = AllStored(x)
  BY <1>2 DEF AllStored, KeptOf
<1>4. dirs'[s] # "live" /\ LiveDirs' = LiveDirs \ {s}
      /\ dirs' \in [Seqs -> {"none", "live", "doomed"}]
      /\ \A x \in Seqs : x # s => dirs'[x] = dirs[x]
  BY DEF LiveDirs, TypeOK
<1>5. s \in LiveDirs => s <= state.through
  BY <1>1 DEF DirInv
<1>6. AllStored(s) /\ flushed[s] = content[s]
  <2>1. CASE s \in LiveDirs
    BY <1>1, <1>5, <2>1 DEF ThroughInv, FlushInv, Touched
  <2>2. CASE s \notin LiveDirs
    BY <2>2 DEF NoRowLost, FlushInv, LiveDirs
  <2> QED BY <2>1, <2>2
<1>7. TypeOK'
  BY <1>4 DEF TypeOK
<1>8. SyncInv' /\ KeyContentStable' /\ PutsInv' /\ MarksInv'
  <2>1. SyncInv' /\ KeyContentStable'
    BY <1>1 DEF SyncInv, KeyContentStable
  <2>2. PutsInv'
    BY <1>2 DEF PutsInv
  <2>3. MarksInv'
    BY DEF MarksInv, HasPut
  <2> QED BY <2>1, <2>2, <2>3
<1>9. RecordsInv'
  <2>1. ASSUME NEW st \in Records, st.draining # 0 PROVE st.draining # s /\ st.draining \in Seqs
    <3>1. /\ st.draining \in Seqs /\ st.draining \in LiveDirs /\ st.through < st.draining
          /\ st.through \in Nat /\ state.through \in Nat
      <4>1. st.draining \in Seqs /\ st.through \in Nat /\ state \in Records
        BY <1>1, <2>1, RecordTypes, SeqBounds DEF Records
      <4>2. st.through < st.draining /\ dirs[st.draining] = "live"
        BY <2>1 DEF RecordsInv
      <4>3. state.through \in Nat
        BY <4>1, RecordTypes
      <4> QED BY <4>1, <4>2, <4>3 DEF LiveDirs
    <3>2. st = state \/ Succ(state, st)
      <4>1. st = stPrev \/ (mainOK /\ st = stMain) \/ st = state
        BY <1>1 DEF Records
      <4>2. /\ stPrev = state \/ Succ(state, stPrev)
            /\ mainOK /\ stMain # state => Succ(state, stMain)
        BY <1>1 DEF SyncInv
      <4>3. CASE st = stPrev
        BY ONLY <4>2, <4>3
      <4>4. CASE mainOK /\ st = stMain
        BY ONLY <4>2, <4>4
      <4> QED BY <4>1, <4>3, <4>4
    <3>3. state.through <= st.through
      BY ONLY <2>1, <3>1, <3>2, SMT DEF Succ
    <3> QED BY <1>5, <3>1, <3>3, SMT DEF Seqs
  <2> QED BY <1>2, <1>4, <2>1 DEF RecordsInv
<1>10. DirInv'
  BY <1>1, <1>2, <1>4 DEF DirInv
<1>11. FlushInv'
  BY <1>1, <1>2, <1>4, <1>6 DEF FlushInv, Sealed
<1>12. NoRowLost' /\ MarkerMeansComplete' /\ ThroughInv'
  BY <1>2, <1>3, <1>4, <1>6 DEF NoRowLost, MarkerMeansComplete, ThroughInv
<1>13. DrainInv'
  BY <1>2 DEF DrainInv, Cur, PlanRows, CurRows, CurKey, HasPut
<1> QED
  BY <1>7, <1>8, <1>9, <1>10, <1>11, <1>12, <1>13

\* An object holds acknowledged rows.
LEMMA ObjectRows ==
    \A o \in Object : o.rows \subseteq Rows
BY DEF Object

\* The counter of merges stays a number.
LEMMA NextNat ==
    \A n \in Nat : n + 1 \in Nat
BY SMT

\* A key of a flushed group names its segment.
LEMMA KeySegment ==
    \A k \in Key : k[1] # 0 => k[1] \in Seqs
BY ConstantsAssumption, SMT DEF Key, Seqs

\* What a merge preserves, wherever it runs.
LEMMA MergeStep ==
    ASSUME IInv, NEW t \in Tenants, NEW K \in SUBSET KeysOf(t), Merge(t, K),
           man' \cup ret' \subseteq man \cup ret \cup {MergedKey(t)},
           man' \subseteq Key, ret' \subseteq Key,
           UNCHANGED <<diskVars, pc, maxRows, segVars, drainVars, markers, acked, puts>>
    PROVE  IInv'
<1> USE DEF IInv, diskVars, segVars, drainVars
<1> DEFINE src == {o \in store : o.key \in K}
           out == [key |-> MergedKey(t), rows |-> UNION {o.rows : o \in src}]
<1>1. /\ store' = (store \ src) \cup {out} /\ merges' = merges + 1
      /\ early' = early \cup {k[1] : k \in {l \in K : l[1] # 0 /\ ~Recorded(l[1])}}
  BY DEF Merge
<1>2. Up' = Up
  BY DEF Up
<1>3. Records' = Records /\ (\A x : Touched(x)' = Touched(x)) /\ LiveDirs' = LiveDirs
  BY SameRecords, <1>2 DEF LiveDirs
<1>4. StoredRows \subseteq StoredRows'
  BY MergeKeeps
<1>5. \A x : AllStored(x) => AllStored(x)'
  BY <1>4 DEF AllStored, KeptOf
<1>6. MergedKey(t) \in Key /\ out.key[1] = 0
  <2>1. 0 \in 0..MaxSeq /\ merges \in Nat
    BY SeqBounds DEF TypeOK
  <2>2. MergedKey(t) \in Key /\ MergedKey(t)[1] = 0
    <3> HIDE DEF src, out
    <3> QED BY <2>1, SMTT(30) DEF MergedKey, Key
  <2> QED BY <2>2
<1>7. TypeOK'
  <2>1. out \in Object
    <3>1. store \subseteq Object
      BY DEF TypeOK
    <3>2. \A o \in Object : o.rows \subseteq Rows
      BY ObjectRows
    <3>3. UNION {o.rows : o \in src} \subseteq Rows
      BY <3>1, <3>2
    <3> QED BY <1>6, <3>3 DEF Object
  <2>2. merges' \in Nat /\ store \subseteq Object
    BY <1>1, NextNat DEF TypeOK
  <2>3. \A k \in K : k \in Key
    <3>1. store \subseteq Object /\ \A k \in K : \E o \in store : k = o.key
      BY DEF TypeOK, KeysOf
    <3>2. \A o \in Object : o.key \in Key
      BY ONLY Zenon DEF Object
    <3> QED BY <3>1, <3>2
  <2>4. early' \subseteq Seqs
    <3>1. early \subseteq Seqs
      BY DEF TypeOK
    <3>2. \A k \in {l \in K : l[1] # 0 /\ ~Recorded(l[1])} : k[1] \in Seqs
      BY <2>3, KeySegment
    <3> HIDE DEF src, out
    <3> QED BY <1>1, <3>1, <3>2
  <2>5. store' \subseteq Object
    <3> HIDE DEF src, out
    <3> QED BY <1>1, <2>1, <2>2
  <2> QED BY <2>2, <2>4, <2>5 DEF TypeOK
<1>8. SyncInv' /\ RecordsInv' /\ DirInv' /\ FlushInv' /\ KeyContentStable'
  BY <1>2, <1>3 DEF SyncInv, RecordsInv, DirInv, FlushInv, Sealed, KeyContentStable
<1>9. PutsInv'
  BY <1>1, <1>3, <1>4, <1>6 DEF PutsInv
<1>10. MarksInv'
  BY <1>6 DEF MarksInv, HasPut
<1>11. NoRowLost' /\ MarkerMeansComplete' /\ ThroughInv'
  BY <1>3, <1>5 DEF NoRowLost, MarkerMeansComplete, ThroughInv
<1>12. DrainInv'
  BY <1>4 DEF DrainInv, Cur, PlanRows, CurRows, CurKey, HasPut
<1> QED BY <1>7, <1>8, <1>9, <1>10, <1>11, <1>12

\* compactGroup, in this pod or another.
LEMMA CompactStep ==
    ASSUME IInv, NEW t \in Tenants, NEW K \in SUBSET KeysOf(t),
           CompactHere(t, K) \/ CompactElsewhere(t, K)
    PROVE  IInv'
<1>1. man \subseteq Key /\ ret \subseteq Key /\ MergedKey(t) \in Key
  <2>1. man \subseteq Key /\ ret \subseteq Key /\ merges \in Nat
    BY DEF IInv, TypeOK
  <2>2. MergedKey(t) \in Key
    BY ONLY <2>1, SeqBounds, t \in Tenants DEF MergedKey, Key
  <2> QED BY <2>1, <2>2
<1>2. CASE CompactHere(t, K)
  BY <1>1, <1>2, MergeStep DEF CompactHere
<1>3. CASE CompactElsewhere(t, K)
  BY <1>1, <1>3, MergeStep DEF CompactElsewhere, manVars
<1> QED BY <1>2, <1>3

-----------------------------------------------------------------------------
(* Crash, shutdown and restart. *)

\* What is left on the disk when the process ends satisfies the invariant: the
\* rows that are lost are of segments nothing names yet.
LEMMA DownStep ==
    ASSUME IInv, Up, Down,
           content' = flushed', content' \in [Seqs -> SUBSET Rows],
           \A s \in Seqs : /\ content'[s] \subseteq content[s]
                           /\ Touched(s) \/ s \notin LiveDirs => content'[s] = content[s],
           LiveDirs' = LiveDirs, dirs' \in [Seqs -> {"none", "live", "doomed"}],
           mainOK' \in BOOLEAN, mainOK' => mainOK,
           savedMan' \in {savedMan, man}, savedRet' \in {savedRet, ret}
    PROVE  IInv'
<1> USE DEF IInv, Down, bucketVars, histVars
<1>1. ~Up'
  BY DEF Up
<1>2. Records' \subseteq Records
  BY <1>1 DEF Records
<1>3. \A s : Touched(s)' => Touched(s)
  BY <1>2 DEF Touched
<1>4. StoredRows' = StoredRows
  BY DEF StoredRows
<1>5. \A s \in Seqs : AllStored(s) => AllStored(s)'
  BY <1>4 DEF AllStored, KeptOf
<1>6. TypeOK'
  <2>1. head' \in BOOLEAN /\ failed' \in BOOLEAN
    OBVIOUS
  <2>2. state' \in FlushState /\ nextSeq' \in 1..(MaxSeq + 1) /\ active' \in 0..MaxSeq
        /\ marksFor' \in 0..MaxSeq /\ maxRows' \in Nat
    BY SeqBounds, EmptyStateType
  <2>3. savedMan' \subseteq Key /\ savedRet' \subseteq Key
    BY DEF TypeOK
  <2>4. grp' \in Group \cup {NoGroup}
    OBVIOUS
  <2> QED BY <2>1, <2>2, <2>3, <2>4 DEF TypeOK
<1>7. SyncInv'
  BY <1>1 DEF SyncInv
<1>8. \A s \in Seqs : s \in LiveDirs <=> dirs[s] = "live"
  BY DEF LiveDirs
<1>9. \A s \in Seqs : s \in LiveDirs <=> dirs'[s] = "live"
  BY DEF LiveDirs
<1>10. \A st \in Records : st.draining # 0 => st.draining \in Seqs
  BY RecordTypes, SeqBounds
<1>11. RecordsInv'
  BY <1>2, <1>8, <1>9, <1>10 DEF RecordsInv
<1>12. DirInv'
  <2>1. active \in LiveDirs /\ \A s \in Seqs : Touched(s) => s < active
    BY DEF DirInv
  <2> QED BY <1>1, <1>3, <2>1 DEF DirInv
<1>13. FlushInv' /\ KeyContentStable'
  BY <1>1 DEF FlushInv, KeyContentStable
<1>14. PutsInv'
  <2>1. ASSUME NEW p \in puts, NEW st \in Records, ~(p.key[1] <= st.through)
        PROVE  p.key[1] = st.draining
               /\ p.rows = KeptRows(st.plan, content'[p.key[1]], GroupOfKey(p.key))
    <3>1. p.key[1] = st.draining
          /\ p.rows = KeptRows(st.plan, content[p.key[1]], GroupOfKey(p.key))
      BY <2>1 DEF PutsInv
    <3>2. p.key[1] \in Seqs
      BY <1>10, <3>1 DEF PutsInv
    <3>3. content'[p.key[1]] = content[p.key[1]]
      BY <3>1, <3>2 DEF Touched
    <3> QED BY <3>1, <3>3
  <2> QED BY <1>2, <1>4, <2>1 DEF PutsInv
<1>15. MarksInv'
  BY DEF MarksInv, HasPut
<1>16. NoRowLost' /\ MarkerMeansComplete' /\ ThroughInv'
  <2>1. NoRowLost'
    BY <1>5, <1>8, <1>9 DEF NoRowLost
  <2>2. MarkerMeansComplete'
    BY <1>5 DEF MarkerMeansComplete, TypeOK
  <2>3. ThroughInv'
    BY <1>2, <1>5 DEF ThroughInv
  <2> QED BY <2>1, <2>2, <2>3
<1>17. DrainInv'
  BY DEF DrainInv
<1> QED
  BY <1>6, <1>7, <1>11, <1>12, <1>13, <1>14, <1>15, <1>16, <1>17

\* kill -9 at any moment.
LEMMA CrashStep ==
    ASSUME IInv, Crash
    PROVE  IInv'
<1> USE DEF IInv, Crash
<1>1. Up
  BY DEF Up
<1>2. mainOK' \in BOOLEAN /\ (mainOK' => mainOK)
  <2>1. mainOK \in BOOLEAN /\ (mainOK' = mainOK \/ mainOK' = FALSE)
    BY DEF TypeOK
  <2>2. CASE mainOK' = mainOK
    BY <2>1, <2>2
  <2>3. CASE mainOK' = FALSE
    BY <2>3
  <2> QED BY <2>1, <2>2, <2>3
<1>3. dirs' \in [Seqs -> {"none", "live", "doomed"}] /\ LiveDirs' = LiveDirs
  <2>1. CASE dirs' = dirs
    BY <2>1 DEF TypeOK, LiveDirs
  <2>2. CASE nextSeq <= MaxSeq /\ dirs' = [dirs EXCEPT ![nextSeq] = "doomed"]
    <3>1. nextSeq \notin LiveDirs
      <4>1. /\ nextSeq = active + 1 /\ active \in 0..MaxSeq
            /\ \A s \in LiveDirs : s <= active
        BY <1>1 DEF DirInv, TypeOK
      <4> QED BY ONLY <4>1, SeqBounds, SMT
    <3> QED BY <2>2, <3>1 DEF TypeOK, LiveDirs
  <2> QED BY <2>1, <2>2
<1>4. content' = flushed' /\ content' \in [Seqs -> SUBSET Rows]
  BY DEF TypeOK
<1>5. \A s \in Seqs : /\ content'[s] \subseteq content[s]
                      /\ Touched(s) \/ s \notin LiveDirs => content'[s] = content[s]
  BY DEF FlushInv
<1> QED BY <1>1, <1>2, <1>3, <1>4, <1>5, DownStep

\* SIGTERM between two steps of the flusher.
LEMMA ShutdownStep ==
    ASSUME IInv, Shutdown
    PROVE  IInv'
<1> USE DEF IInv, Shutdown
<1>1. Up
  BY DEF Up
<1>2. mainOK' \in BOOLEAN /\ (mainOK' => mainOK)
  BY DEF TypeOK
<1>3. dirs' \in [Seqs -> {"none", "live", "doomed"}] /\ LiveDirs' = LiveDirs
  BY DEF TypeOK, LiveDirs
<1>4. content' = flushed' /\ content' \in [Seqs -> SUBSET Rows] /\ content' = content
  BY DEF TypeOK
<1> QED BY <1>1, <1>2, <1>3, <1>4, DownStep

\* OpenSegments and BufferFlusher.load.
LEMMA RestartStep ==
    ASSUME IInv, NEW q \in 1..(MaxSeq + 1), NEW p \in GroupSizes, Restart(q, p)
    PROVE  IInv'
<1> USE DEF IInv, Restart, bucketVars, histVars
<1>1. ~Up /\ Up'
  BY DEF Up
<1>2. Records' \subseteq Records
  BY <1>1, LoadableRecord DEF Records
<1>3. \A s : Touched(s)' => Touched(s)
  BY <1>2 DEF Touched
<1>4. q \in Seqs /\ (\A s \in LiveDirs : s < q) /\ q \notin LiveDirs
  <2>1. FreshSeq(q) /\ q <= MaxSeq
    OBVIOUS
  <2>2. LiveDirs \subseteq OnDisk /\ LiveDirs \subseteq Seqs
    BY ONLY DEF LiveDirs, OnDisk
  <2>3. (\A s \in LiveDirs : s < q) /\ q \in 1..(MaxSeq + 1)
    BY <2>1, <2>2 DEF FreshSeq
  <2> QED BY ONLY <2>1, <2>2, <2>3, SeqBounds, SMT DEF Seqs
<1>5. dirs' \in [Seqs -> {"none", "live", "doomed"}]
      /\ \A s \in Seqs : dirs'[s] = "live" <=> s \in LiveDirs \cup {q}
  BY <1>4 DEF SwapDirs, TypeOK, LiveDirs
<1>6. LiveDirs' = LiveDirs \cup {q}
  BY <1>4, <1>5 DEF LiveDirs
<1>7. \A s : AllStored(s)' = AllStored(s)
  BY DEF AllStored, KeptOf, StoredRows
<1>8. \A s \in Seqs : Touched(s) => s < q
  <2>1. PICK a \in LiveDirs : \A s \in Seqs : Touched(s) => s < a
    BY <1>1 DEF DirInv
  <2>2. a \in Nat /\ a < q
    BY <1>4, SMT DEF LiveDirs, Seqs
  <2> QED BY <1>4, <2>1, <2>2, SMT DEF Seqs
<1>9. Loadable \in FlushState
  BY DEF Loadable, TypeOK
<1>10. TypeOK'
  <2>1. committed' \subseteq Seqs /\ list' \subseteq Seqs /\ held' \subseteq Seqs
    BY <1>4 DEF RestoreCommitted, LiveDirs
  <2>2. nextSeq' \in 1..(MaxSeq + 1) /\ active' \in 0..MaxSeq /\ maxRows' \in Nat
    BY <1>4, ConstantsAssumption, SMT DEF Seqs
  <2>3. mainOK' \in BOOLEAN /\ head' \in BOOLEAN /\ failed' \in BOOLEAN
    BY DEF TypeOK
  <2> QED BY <1>5, <1>9, <2>1, <2>2, <2>3 DEF TypeOK
<1>11. SyncInv'
  <2>1. mainOK' = mainOK
    OBVIOUS
  <2>2. CASE mainOK
    BY <2>2 DEF SyncInv, Loadable
  <2>3. CASE ~mainOK
    BY <2>3 DEF SyncInv, Loadable
  <2> QED BY <2>2, <2>3
<1>12. RecordsInv'
  <2>1. ASSUME NEW st \in Records, st.draining # 0
        PROVE  st.draining \in Seqs /\ st.draining < q
    <3>1. st.draining \in Seqs
      BY <2>1, RecordTypes, SMT DEF Seqs
    <3> QED BY <1>8, <2>1, <3>1 DEF Touched
  <2>2. ASSUME NEW st \in Records, st.draining # 0, NEW s \in LiveDirs', s < st.draining
        PROVE  s <= st.through
    <3>1. ~(q < st.draining)
      BY ONLY <1>4, <2>1, <2>2, SMT DEF Seqs
    <3> QED BY <1>6, <2>2, <3>1 DEF RecordsInv
  <2>3. ASSUME NEW st \in Records, st.draining # 0 PROVE dirs'[st.draining] = "live"
    BY <1>5, <2>1, <2>3 DEF RecordsInv, LiveDirs
  <2> QED BY <1>2, <2>2, <2>3 DEF RecordsInv
<1>13. DirInv'
  <2>1. maxRows' # 0
    BY ConstantsAssumption
  <2>2. \A s \in LiveDirs' : s <= q
    <3>1. LiveDirs \subseteq Seqs
      BY DEF LiveDirs
    <3> QED BY ONLY <1>4, <1>6, <3>1, SMT DEF Seqs
  <2>3. Loadable.through < q
    <3>1. Loadable.through \in 0..MaxSeq
      BY <1>9 DEF FlushState
    <3>2. CASE Loadable.through = 0
      BY <1>4, <3>2, SMT DEF Seqs
    <3>3. CASE Loadable.through # 0
      <4>1. Loadable.through \in Seqs
        BY ONLY <3>1, <3>3, SeqBounds, SMT DEF Seqs
      <4>2. Loadable.through <= Loadable.through
        BY ONLY <4>1, SeqBounds, SMT
      <4> QED BY <1>8, <4>1, <4>2, LoadableRecord DEF Touched
    <3> QED BY <3>2, <3>3
  <2>4. committed' = {s \in list' : s <= state'.through}
    <3>1. list' = LiveDirs \cup {q} /\ state' = Loadable /\ committed' = RestoreCommitted
      OBVIOUS
    <3>2. Loadable.through \in 0..MaxSeq
      BY <1>9 DEF FlushState
    <3>3. ~(q <= Loadable.through)
      BY ONLY <1>4, <2>3, <3>2, SeqBounds, SMT
    <3> QED BY <3>1, <3>3 DEF RestoreCommitted
  <2> QED BY <1>1, <1>3, <1>4, <1>6, <1>8, <2>1, <2>2, <2>4 DEF DirInv
<1>14. FlushInv' /\ KeyContentStable'
  BY <1>1 DEF FlushInv, KeyContentStable
<1>15. PutsInv' /\ MarksInv'
  BY <1>2 DEF PutsInv, MarksInv, HasPut, StoredRows
<1>16. NoRowLost'
  BY <1>5, <1>7 DEF NoRowLost, LiveDirs
<1>17. MarkerMeansComplete'
  BY <1>7 DEF MarkerMeansComplete
<1>18. ThroughInv'
  <2>1. \A st \in Records : \A s \in Seqs : s <= st.through => s # q
    <3>1. ~(q < q)
      BY ONLY <1>4, SeqBounds, SMT
    <3> QED BY <1>8, <3>1 DEF Touched
  <2> QED BY <1>2, <1>6, <1>7, <2>1 DEF ThroughInv
<1>19. DrainInv'
  BY DEF DrainInv
<1> QED
  BY <1>10, <1>11, <1>12, <1>13, <1>14, <1>15, <1>16, <1>17, <1>18, <1>19

\* A restart killed before it opened its segment.
LEMMA RestartKilledStep ==
    ASSUME IInv, NEW q \in 1..(MaxSeq + 1), RestartKilled(q)
    PROVE  IInv'
<1> USE DEF IInv, RestartKilled, segVars, drainVars, manVars, bucketVars, histVars
<1>1. ~Up /\ ~Up' /\ Up' = Up
  BY DEF Up
<1>2. Records' = Records /\ (\A x : Touched(x)' = Touched(x)) /\ StoredRows' = StoredRows
  BY SameRecords, <1>1 DEF StoredRows
<1>3. q \notin LiveDirs
  <2>1. FreshSeq(q)
    OBVIOUS
  <2>2. LiveDirs \subseteq OnDisk /\ LiveDirs \subseteq Seqs
    BY ONLY DEF LiveDirs, OnDisk
  <2>3. \A s \in LiveDirs : s < q
    BY <2>1, <2>2 DEF FreshSeq
  <2> QED BY ONLY <2>2, <2>3, SeqBounds, SMT
<1>4. dirs' \in [Seqs -> {"none", "live", "doomed"}]
      /\ \A s \in Seqs : dirs'[s] = "live" <=> dirs[s] = "live"
  <2>1. CASE dirs' = SwapDirs({})
    BY <2>1 DEF SwapDirs, TypeOK
  <2>2. CASE q <= MaxSeq /\ dirs' = [SwapDirs({}) EXCEPT ![q] = "doomed"]
    BY <1>3, <2>2 DEF SwapDirs, TypeOK, LiveDirs
  <2> QED BY <2>1, <2>2
<1>5. LiveDirs' = LiveDirs
  BY <1>4 DEF LiveDirs
<1>6. \A x : AllStored(x)' = AllStored(x)
  BY <1>2 DEF AllStored, KeptOf
<1>7. TypeOK'
  BY <1>4 DEF TypeOK
<1>8. SyncInv' /\ DirInv' /\ FlushInv' /\ KeyContentStable' /\ PutsInv' /\ MarksInv'
  <2>1. SyncInv' /\ DirInv' /\ FlushInv'
    BY <1>1, <1>2, <1>5 DEF SyncInv, DirInv, FlushInv
  <2>2. KeyContentStable' /\ PutsInv' /\ MarksInv'
    BY <1>1, <1>2, <1>5 DEF KeyContentStable, PutsInv, MarksInv, HasPut
  <2> QED BY <2>1, <2>2
<1>9. RecordsInv'
  <2>1. \A st \in Records : st.draining # 0 => st.draining \in Seqs
    BY RecordTypes, SeqBounds
  <2> QED BY <1>2, <1>4, <1>5, <2>1 DEF RecordsInv
<1>10. NoRowLost' /\ MarkerMeansComplete' /\ ThroughInv'
  BY <1>2, <1>4, <1>5, <1>6 DEF NoRowLost, MarkerMeansComplete, ThroughInv
<1>11. DrainInv'
  BY <1>1 DEF DrainInv, Up
<1> QED
  BY <1>7, <1>8, <1>9, <1>10, <1>11

\* A write of a record that is not behind what a restart would read, failed or
\* not, does not take a commit back.
LEMMA WriteKeeps ==
    ASSUME IInv, NEW st, WriteState(st) \/ WriteStateError(st),
           Loadable.through \in Nat, st.through \in Nat, Loadable.through <= st.through
    PROVE  Loadable'.through >= Loadable.through
<1>1. Loadable' = Loadable \/ Loadable' = st
  <2>1. CASE UNCHANGED <<stPrev, stMain, mainOK>>
    BY <2>1 DEF Loadable
  <2>2. CASE stPrev' = st /\ UNCHANGED <<stMain, mainOK>>
    BY <2>2 DEF Loadable
  <2>3. CASE WriteState(st)
    BY <2>3 DEF WriteState, Loadable
  <2> QED BY <2>1, <2>2, <2>3 DEF WriteStateError
<1> QED BY <1>1, SMT

\* No step makes a restart read an older commit.
LEMMA CommitKept ==
    ASSUME IInv, [Next]_vars
    PROVE  Loadable'.through >= Loadable.through
<1> USE DEF diskVars, segVars, drainVars, manVars, bucketVars, histVars
<1>1. Loadable.through \in Nat
  BY LoadableRecord, RecordTypes DEF IInv
<1>2. ASSUME UNCHANGED <<stMain, stPrev, mainOK>> PROVE Loadable'.through >= Loadable.through
  <2>1. Loadable' = Loadable
    BY <1>2 DEF Loadable
  <2> QED BY <1>1, <2>1, SMT
<1>3. ASSUME NEW s \in Seqs, BeginDrain(s) \/ BeginDrainError(s)
      PROVE  Loadable'.through >= Loadable.through
  <2>1. Up /\ (WriteState(Intent(s)) \/ WriteStateError(Intent(s)))
    BY <1>3 DEF BeginDrain, BeginDrainError, Up
  <2>2. state.draining = 0
    BY <1>3, IntentFacts DEF BeginDrain, BeginDrainError
  <2>3. Intent(s).through = state.through
    BY DEF Intent
  <2> QED BY <2>1, <2>2, <2>3, LoadableThrough, WriteKeeps, SMT
<1>4. ASSUME RecordCommit \/ RecordCommitError
      PROVE  Loadable'.through >= Loadable.through
  <2>1. Up /\ (WriteState(CommitState) \/ WriteStateError(CommitState)) /\ state.draining # 0
    BY <1>4 DEF RecordCommit, RecordCommitError, Up, IInv, DrainInv, Cur
  <2>2. CommitState.through = state.draining
    BY DEF CommitState, Cur
  <2> QED BY <2>1, <2>2, LoadableThrough, WriteKeeps
<1>5. ASSUME Crash PROVE Loadable'.through >= Loadable.through
  <2>1. CASE mainOK /\ Loadable' # Loadable
    <3>1. Loadable = stMain /\ Loadable' = stPrev
      BY <1>5, <2>1 DEF Crash, Down, Loadable
    <3>2. stMain \in Records /\ stPrev \in Records
      BY <2>1 DEF Records
    <3>3. stMain.through \in Nat /\ stPrev.through \in Nat /\ stMain.draining \in Nat
      BY <3>2, RecordTypes DEF IInv
    <3>4. stPrev = stMain \/ Succ(stMain, stPrev)
      BY <2>1 DEF IInv, SyncInv
    <3>5. stMain.draining # 0 => stMain.through < stMain.draining
      BY <3>2 DEF IInv, RecordsInv
    <3> QED BY <3>1, <3>3, <3>4, <3>5, SMT DEF Succ
  <2>2. CASE ~mainOK
    <3>1. stPrev' = stPrev /\ mainOK' \in {mainOK, FALSE}
      BY <1>5 DEF Crash, Down
    <3>2. ~mainOK'
      BY <2>2, <3>1
    <3>3. Loadable' = Loadable
      BY <2>2, <3>1, <3>2 DEF Loadable
    <3> QED BY <1>1, <3>3, SMT
  <2>3. CASE Loadable' = Loadable
    BY <1>1, <2>3, SMT
  <2> QED BY <2>1, <2>2, <2>3
<1>6. CASE UNCHANGED vars
  BY <1>2, <1>6 DEF vars
<1>7. CASE (\E r \in Rows : AddRow(r)) \/ PersistParts \/ SealSwap \/ SealReopen
  BY <1>2, <1>7 DEF AddRow, PersistParts, SealSwap, SealReopen
<1>8. CASE DrainStep
  <2>1. CASE \E s \in Seqs : ResumeDrain(s)
    BY <1>2, <2>1 DEF ResumeDrain
  <2>2. CASE \E g \in todo : SettleGroup(g) \/ UploadGroup(g) \/ GroupError(g)
    BY <1>2, <2>2 DEF SettleGroup, UploadGroup, GroupError
  <2>3. CASE MarkStored \/ CommitFile \/ EndFailedAttempt \/ PutMarker \/ PutMarkerError
    BY <1>2, <2>3 DEF MarkStored, CommitFile, EndFailedAttempt, PutMarker, PutMarkerError
  <2> QED BY <1>3, <1>4, <1>8, <2>1, <2>2, <2>3 DEF DrainStep
<1>9. CASE \E R \in SUBSET committed : Reap(R) \/ Refresh(R)
  BY <1>2, <1>9 DEF Reap, Refresh
<1>10. CASE (\E s \in Seqs : RemoveDir(s)) \/ SaveManifest
  BY <1>2, <1>10 DEF RemoveDir, SaveManifest
<1>11. CASE \E t \in Tenants : \E K \in SUBSET KeysOf(t) :
              CompactHere(t, K) \/ CompactElsewhere(t, K)
  BY <1>2, <1>11 DEF CompactHere, CompactElsewhere
<1>12. CASE Shutdown
  BY <1>2, <1>12 DEF Shutdown, Down
<1>13. CASE \E q \in 1..(MaxSeq + 1) :
              RestartKilled(q) \/ \E p \in GroupSizes : Restart(q, p)
  BY <1>2, <1>13 DEF RestartKilled, Restart
<1> QED
  BY <1>5, <1>6, <1>7, <1>8, <1>9, <1>10, <1>11, <1>12, <1>13 DEF Next

-----------------------------------------------------------------------------
(* Ingest, sealing and the plan of a drain. *)

\* The plan gives every row of a segment a group.
LEMMA GroupOfType ==
    ASSUME NEW p \in Nat, p # 0, NEW S \in SUBSET Rows, NEW r \in S
    PROVE  GroupOf(p, S, r) \in Group
<1> DEFINE B == {x \in S : TenantOf[x] = TenantOf[r] /\ x < r}
<1>1. IsFiniteSet(B) /\ Cardinality(B) \in Nat
  BY ConstantsAssumption, FS_Subset, FS_CardinalityType
<1>2. Cardinality(B) \div p \in Nat
  BY <1>1, SMT
<1>3. TenantOf[r] \in Tenants
  BY ConstantsAssumption
<1> QED
  BY <1>2, <1>3 DEF GroupOf, SliceOf, Group

\* The groups of a segment are groups.
LEMMA GroupsType ==
    ASSUME NEW p \in Nat, p # 0, NEW S \in SUBSET Rows
    PROVE  Groups(p, S) \subseteq Group
  BY GroupOfType DEF Groups

\* An empty buffer, with its first segment open, satisfies the invariant.
LEMMA InitIInv == Init => IInv
<1> SUFFICES ASSUME Init PROVE IInv
  OBVIOUS
<1> USE ConstantsAssumption
<1>0. EmptyState \in FlushState /\ maxRows \in Nat /\ maxRows # 0
  <2>1. maxRows \in GroupSizes
    BY DEF Init
  <2> QED BY ONLY <2>1, EmptyStateType, ConstantsAssumption
<1>a. dirs \in [Seqs -> {"none", "live", "doomed"}] /\ content \in [Seqs -> SUBSET Rows]
      /\ flushed \in [Seqs -> SUBSET Rows]
  BY DEF Init
<1>b. nextSeq \in 1..(MaxSeq + 1) /\ active \in 0..MaxSeq /\ list \subseteq Seqs
      /\ marksFor \in 0..MaxSeq /\ merges \in Nat
  BY SMTT(30) DEF Init, Seqs
<1>1. TypeOK
  BY <1>0, <1>a, <1>b DEF Init, TypeOK
<1>2. Records = {EmptyState} /\ EmptyState.draining = 0 /\ EmptyState.through = 0
  BY DEF Init, Records, Up, EmptyState
<1>3. SyncInv /\ RecordsInv
  BY <1>2 DEF Init, SyncInv, RecordsInv, Up
<1>4. LiveDirs = {1} /\ 1 \in Seqs
  BY SMT DEF Init, LiveDirs, Seqs
<1>5. \A s \in Seqs : ~Touched(s)
  <2>1. markers = {}
    BY DEF Init
  <2> QED BY ONLY <1>2, <2>1, SMT DEF Touched, Seqs
<1>6. DirInv
  <2>1. /\ Up /\ active = 1 /\ list = {1} /\ nextSeq = 2 /\ committed = {}
        /\ state = EmptyState
    BY DEF Init, Up
  <2> QED BY ONLY <1>0, <1>2, <1>4, <1>5, <2>1, SMT DEF DirInv
<1>7. FlushInv /\ KeyContentStable /\ PutsInv /\ MarksInv
  BY <1>5 DEF Init, FlushInv, KeyContentStable, PutsInv, MarksInv, Sealed, Up
<1>8. NoRowLost /\ MarkerMeansComplete /\ DrainInv
  BY DEF Init, NoRowLost, MarkerMeansComplete, DrainInv, AllStored, KeptOf
<1>9. ThroughInv
  BY <1>2, SMT DEF ThroughInv, Seqs
<1> QED
  BY <1>1, <1>3, <1>6, <1>7, <1>8, <1>9 DEF IInv

\* Segments.MustAddRows: the active segment, which nothing names yet, takes a row.
LEMMA AddRowStep ==
    ASSUME IInv, NEW r \in Rows, AddRow(r)
    PROVE  IInv'
<1> USE DEF IInv, AddRow, diskVars, drainVars, manVars, bucketVars
<1>1. TypeOK'
  BY DEF TypeOK
<1>2. /\ Records' = Records /\ \A s : Touched(s)' = Touched(s)
      /\ LiveDirs' = LiveDirs /\ StoredRows' = StoredRows
  BY SameRecords DEF Up, LiveDirs, StoredRows
<1>3. SyncInv' /\ RecordsInv' /\ DirInv' /\ MarksInv' /\ KeyContentStable'
  BY <1>2 DEF SyncInv, RecordsInv, DirInv, MarksInv, KeyContentStable, Up, HasPut
<1>4. active \in Seqs /\ dirs[active] = "live"
  BY DEF DirInv, Up, LiveDirs, TypeOK
<1>5. \A s \in Seqs : s # active => content'[s] = content[s]
  BY DEF TypeOK
<1>6. \A s \in Seqs : Touched(s) => s # active
  <2>1. ~(active < active)
    BY ONLY <1>4, SeqBounds, SMT
  <2> QED BY <2>1 DEF DirInv, Up
<1>7. FlushInv'
  BY <1>2, <1>4, <1>5, <1>6 DEF FlushInv, Up, Sealed, TypeOK, LiveDirs
<1>8. \A st \in Records : st.draining # active /\ ~(active <= st.through)
  BY <1>4, <1>6 DEF Touched, Seqs
<1>9. PutsInv'
  <2>1. ASSUME NEW p \in puts, NEW st \in Records, p.key[1] = st.draining
        PROVE  content'[p.key[1]] = content[p.key[1]]
    <3>1. p.key \in Key /\ p.key[1] # 0
      BY DEF TypeOK, Object, PutsInv
    <3> QED BY <1>5, <1>8, <2>1, <3>1, KeySegment
  <2>2. puts' = puts /\ store' = store
    OBVIOUS
  <2>3. \A p \in puts' : p.key[1] # 0 /\ p.rows \subseteq StoredRows'
    BY <2>2, <1>2 DEF PutsInv
  <2>4. \A o \in store' : o.key[1] # 0 => o \in puts'
    BY <2>2 DEF PutsInv
  <2>5. ASSUME NEW p \in puts', NEW st \in Records'
        PROVE  \/ p.key[1] <= st.through
               \/ /\ p.key[1] = st.draining
                  /\ p.rows = KeptRows(st.plan, content'[p.key[1]], GroupOfKey(p.key))
    <3>1. p \in puts /\ st \in Records
      BY <2>2, <2>5, <1>2
    <3>2. \/ p.key[1] <= st.through
          \/ /\ p.key[1] = st.draining
             /\ p.rows = KeptRows(st.plan, content[p.key[1]], GroupOfKey(p.key))
      BY <3>1 DEF PutsInv
    <3> QED BY <2>1, <3>1, <3>2
  <2> QED BY <2>3, <2>4, <2>5 DEF PutsInv
<1>10. \A s \in Seqs : s # active => AllStored(s)' = AllStored(s)
  BY <1>2, <1>5 DEF AllStored, KeptOf
<1>11. NoRowLost' /\ MarkerMeansComplete'
  BY <1>4, <1>6, <1>10 DEF NoRowLost, MarkerMeansComplete, Touched, TypeOK
<1>12. ThroughInv'
  BY <1>2, <1>8, <1>10 DEF ThroughInv
<1>13. DrainInv'
  <2>1. CASE pc \in {"draining", "stored", "marked", "commit"}
    <3>1. Cur # active /\ Cur \in Seqs
      <4>1. Draining
        BY <2>1 DEF Draining
      <4>2. state \in Records /\ Cur \in Seqs
        BY <4>1, CurFacts
      <4> QED BY <1>8, <4>2 DEF Cur
    <3>2. content'[Cur] = content[Cur]
      BY <1>5, <3>1
    <3> QED BY <2>1, <3>2, <1>2 DEF DrainInv, Cur, PlanRows, CurRows, CurKey, HasPut
  <2> QED BY <2>1 DEF DrainInv
<1> QED
  BY <1>1, <1>3, <1>7, <1>9, <1>11, <1>12, <1>13

\* Parts of the active segment reach the disk.
LEMMA PersistPartsStep ==
    ASSUME IInv, PersistParts
    PROVE  IInv'
<1> USE DEF IInv, PersistParts, segVars, drainVars, manVars, bucketVars, histVars
<1>1. active \in Seqs
  BY DEF DirInv, Up, TypeOK
<1>2. TypeOK'
  BY <1>1 DEF TypeOK
<1>3. Up' = Up
  BY DEF Up
<1>4. SyncInv' /\ DirInv' /\ MarksInv'
  BY SameData, <1>3 DEF SyncInv, DirInv, MarksInv, HasPut
<1>5. FlushInv'
  BY SameData, <1>1, <1>3 DEF FlushInv, Sealed, TypeOK
<1>6. DrainInv'
  BY SameData, <1>3 DEF DrainInv, Cur, PlanRows, CurRows, CurKey, HasPut
<1> QED
  BY SameData, <1>2, <1>3, <1>4, <1>5, <1>6

\* Segments.Seal opens a segment newer than every other one.
LEMMA SealSwapStep ==
    ASSUME IInv, SealSwap
    PROVE  IInv'
<1> USE DEF IInv, SealSwap, drainVars, manVars, bucketVars, histVars
<1>1. /\ active \in list /\ active \in Seqs /\ nextSeq \in Seqs /\ nextSeq = active + 1
      /\ Up /\ Up'
  <2>1. Up /\ Up'
    BY DEF Up
  <2>2. /\ active \in list /\ list \subseteq LiveDirs /\ nextSeq = active + 1
        /\ nextSeq <= MaxSeq /\ nextSeq \in 1..(MaxSeq + 1)
    BY <2>1 DEF DirInv, TypeOK
  <2>3. active \in Seqs
    BY <2>2 DEF LiveDirs
  <2>4. nextSeq \in Seqs
    BY ONLY <2>2, SeqBounds, SMT DEF Seqs
  <2> QED BY <2>1, <2>2, <2>3, <2>4
<1>2. TypeOK'
  <2>1. nextSeq' \in 1..(MaxSeq + 1) /\ active' \in 0..MaxSeq
    BY <1>1, SeqBounds
  <2> QED BY <1>1, <2>1 DEF TypeOK
<1>3. Records' = Records /\ (\A s : Touched(s)' = Touched(s)) /\ StoredRows' = StoredRows
  BY SameRecords, <1>1 DEF StoredRows
<1>4. dirs[nextSeq] # "live" /\ LiveDirs' = LiveDirs \cup {nextSeq}
  <2>1. \A s \in LiveDirs : s <= active
    BY <1>1 DEF DirInv
  <2>2. nextSeq \notin LiveDirs
    BY ONLY <1>1, <2>1, SeqBounds, SMT
  <2> QED BY <1>1, <2>2 DEF LiveDirs, TypeOK
<1>5. \A st \in Records : st.draining < nextSeq /\ st.through < nextSeq
                          /\ st.draining \in Nat /\ st.through \in Nat
  <2>1. \A st \in Records : /\ st.draining \in Nat /\ st.draining <= MaxSeq
                              /\ st.through \in Nat /\ st.through <= MaxSeq
    BY RecordTypes
  <2>2. \A st \in Records : st.draining \in Seqs \cup {0} /\ st.through \in Seqs \cup {0}
    BY <2>1, SeqBounds
  <2>3. \A st \in Records : \A s \in Seqs : s = st.draining \/ s <= st.through => s < active
    BY <1>1 DEF DirInv, Touched
  <2> QED BY ONLY <1>1, <2>2, <2>3, SeqBounds, SMT DEF Seqs
<1>6. SyncInv' /\ MarksInv' /\ KeyContentStable' /\ PutsInv'
  <2>1. SyncInv'
    BY <1>1 DEF SyncInv
  <2>2. MarksInv'
    BY <1>1 DEF MarksInv, HasPut
  <2>3. KeyContentStable'
    BY DEF KeyContentStable
  <2>4. PutsInv'
    BY <1>3 DEF PutsInv
  <2> QED BY <2>1, <2>2, <2>3, <2>4
<1>7. RecordsInv'
  <2>1. nextSeq \in Nat
    BY <1>1, SeqBounds
  <2>2. \A st \in Records : ~(nextSeq < st.draining)
    BY ONLY <1>5, <2>1, SMT
  <2>3. ASSUME NEW st \in Records, st.draining # 0
        PROVE  dirs'[st.draining] = "live"
    <3>1. st.draining \in Seqs /\ dirs[st.draining] = "live"
      BY <2>3, RecordTypes, SeqBounds DEF RecordsInv
    <3> QED BY <1>4, <3>1 DEF LiveDirs
  <2> QED BY <1>3, <1>4, <2>2, <2>3 DEF RecordsInv
<1>8. DirInv'
  <2>1. ~(nextSeq <= state.through)
    <3>1. state \in Records
      BY <1>1 DEF Records
    <3>2. state.through < nextSeq /\ state.through \in Nat
      BY <1>5, <3>1
    <3>3. nextSeq \in Int
      BY ONLY <1>1, SeqBounds, SMT
    <3> HIDE DEF IInv, SealSwap
    <3> QED BY <3>2, <3>3, SMT
  <2>2. committed' = {s \in list' : s <= state'.through}
    BY <1>1, <2>1 DEF DirInv
  <2>3. \A s \in LiveDirs' : s <= active'
    <3>1. /\ LiveDirs \subseteq Seqs /\ active' = nextSeq
          /\ \A s \in LiveDirs : s <= active
      BY <1>1 DEF DirInv, LiveDirs
    <3> QED BY ONLY <1>1, <1>4, <3>1, SMT DEF Seqs
  <2>4. \A s \in Seqs : Touched(s)' => s < active'
    <3>1. active' = nextSeq /\ \A s \in Seqs : Touched(s)' => s < active
      BY <1>1, <1>3 DEF DirInv
    <3> QED BY ONLY <1>1, <3>1, SMT DEF Seqs
  <2> QED BY <1>1, <1>4, <2>2, <2>3, <2>4 DEF DirInv
<1>9. FlushInv'
  BY <1>1, <1>3, <1>4 DEF FlushInv
<1>10. \A s : AllStored(s)' = AllStored(s)
  BY <1>3 DEF AllStored, KeptOf
<1>11. NoRowLost' /\ MarkerMeansComplete'
  BY <1>4, <1>10 DEF NoRowLost, MarkerMeansComplete, LiveDirs, TypeOK
<1>12. ThroughInv'
  <2>1. \A st \in Records : ~(nextSeq <= st.through)
    <3> HIDE DEF IInv, SealSwap
    <3> QED BY <1>1, <1>5, SMT DEF Seqs
  <2> QED BY <1>3, <1>4, <1>10, <2>1 DEF ThroughInv
<1>13. DrainInv'
  BY DEF DrainInv
<1> QED
  BY <1>2, <1>6, <1>7, <1>8, <1>9, <1>11, <1>12, <1>13

\* Segments.Seal makes the sealed segment durable.
LEMMA SealReopenStep ==
    ASSUME IInv, SealReopen
    PROVE  IInv'
<1> USE DEF IInv, SealReopen, segVars, drainVars, manVars, bucketVars, histVars
<1>1. Up /\ Up'
  BY DEF Up
<1>2. TypeOK'
  BY DEF TypeOK
<1>3. SyncInv' /\ DirInv' /\ MarksInv'
  BY SameData, <1>1 DEF SyncInv, DirInv, MarksInv, HasPut
<1>4. FlushInv'
  BY SameData, <1>1 DEF FlushInv, Sealed, TypeOK
<1>5. DrainInv'
  BY DEF DrainInv
<1> QED
  BY SameData, <1>1, <1>2, <1>3, <1>4, <1>5

\* drainAttempt records its intent, then starts on the groups.
LEMMA BeginDrainStep ==
    ASSUME IInv, NEW s \in Seqs, BeginDrain(s)
    PROVE  IInv'
<1> DEFINE st == Intent(s)
<1> USE DEF IInv
<1>1. /\ pc = "idle" /\ OldestPending(s) /\ state.draining # s
      /\ stPrev' = st /\ stMain' = st /\ mainOK' = TRUE /\ state' = st
      /\ marksFile' \in {{}, marksFile} /\ marksFor' = s /\ marks' = {} /\ head' = FALSE
      /\ pc' = "draining" /\ todo' = Groups(maxRows, content[s])
      /\ failed' = FALSE /\ grp' = NoGroup
      /\ UNCHANGED <<dirs, flushed, savedMan, savedRet, maxRows, nextSeq, active, list,
                     content, committed, held, man, ret, store, markers, acked, puts,
                     early, merges>>
  BY DEF BeginDrain, WriteState, RemoveMarks, StartAttempt, segVars, manVars,
         bucketVars, histVars
<1>2. Up /\ Up'
  BY <1>1 DEF Up
<1>3. Records' = {st}
  BY <1>1, <1>2 DEF Records
<1>4. /\ st \in FlushState /\ GoodRecord(st) /\ state.draining = 0
      /\ st = [through |-> state.through, draining |-> s, plan |-> maxRows]
      /\ s \in list /\ s < active
  BY <1>1, IntentFacts
<1>5. /\ LiveDirs' = LiveDirs /\ StoredRows' = StoredRows
      /\ RecordsInv' /\ KeyContentStable' /\ PutsInv'
      /\ NoRowLost' /\ MarkerMeansComplete' /\ ThroughInv'
      /\ \A x \in Seqs : Touched(x)' => x < active /\ flushed[x] = content[x]
  BY <1>1, <1>2, <1>3, <1>4, NewRecord
<1>6. TypeOK'
  <2>1. Groups(maxRows, content[s]) \subseteq Group
    BY <1>2, GroupsType DEF TypeOK, DirInv
  <2>2. s \in 0..MaxSeq /\ marksFile' \subseteq Seqs \X Group
    BY <1>1, SeqBounds DEF TypeOK
  <2> QED BY <1>1, <1>4, <2>1, <2>2 DEF TypeOK
<1>7. SyncInv'
  BY <1>1 DEF SyncInv
<1>8. DirInv'
  <2>1. state'.through = state.through
    <3>1. state' = st /\ st = [through |-> state.through, draining |-> s, plan |-> maxRows]
      BY <1>1, <1>4
    <3> QED BY ONLY <3>1, SMT
  <2>2. \A x \in Seqs : Touched(x)' => x < active'
    BY <1>1, <1>5
  <2> QED BY <1>1, <1>2, <1>5, <2>1, <2>2 DEF DirInv
<1>9. FlushInv'
  BY <1>1, <1>2, <1>5 DEF FlushInv, Sealed
<1>10. MarksInv'
  BY <1>1 DEF MarksInv, HasPut
<1>11. DrainInv'
  <2>1. Cur' = s /\ PlanRows' = maxRows /\ content' = content
    <3>1. state' = st /\ st = [through |-> state.through, draining |-> s, plan |-> maxRows]
          /\ content' = content
      BY <1>1, <1>4
    <3> QED BY ONLY <3>1, SMT DEF Cur, PlanRows
  <2>2. Groups(PlanRows', content'[Cur']) = todo'
    BY <1>1, <2>1
  <2>3. Cur' # 0 /\ marksFor' = Cur'
    BY <1>1, <2>1, SMT DEF Seqs
  <2>4. Groups(PlanRows', content'[Cur']) \ todo' = {}
    BY <2>2
  <2>5. pc' \notin {"stored", "marked"} /\ pc' # "commit"
    BY <1>1
  <2> QED BY <2>3, <2>4, <2>5 DEF DrainInv
<1> QED
  BY <1>5, <1>6, <1>7, <1>8, <1>9, <1>10, <1>11

\* drainAttempt cannot record its intent.
LEMMA BeginDrainErrorStep ==
    ASSUME IInv, NEW s \in Seqs, BeginDrainError(s)
    PROVE  IInv'
<1> DEFINE st == Intent(s)
<1>1. /\ pc = "idle" /\ OldestPending(s) /\ state.draining # s /\ WriteStateError(st)
      /\ pc' = pc
      /\ UNCHANGED <<dirs, flushed, marksFile, savedMan, savedRet, maxRows, nextSeq,
                     active, list, content, committed, held, state, marks, marksFor,
                     head, todo, failed, grp, man, ret, store, markers, acked, puts,
                     early, merges>>
  BY DEF BeginDrainError, segVars, drainVars, manVars, bucketVars, histVars
<1>2. Up /\ Up'
  BY <1>1 DEF Up
<1>3. /\ st \in FlushState /\ GoodRecord(st) /\ state.draining = 0 /\ Succ(state, st)
      /\ st = [through |-> state.through, draining |-> s, plan |-> maxRows]
      /\ s \in list /\ dirs[s] = "live" /\ s < active /\ state.through < s
  BY <1>1, IntentFacts
<1>4. mainOK /\ stMain # state => stMain = st
  <2>1. SUFFICES ASSUME mainOK, stMain # state PROVE stMain = st
    OBVIOUS
  <2>2. /\ stMain \in Records /\ stMain \in FlushState
        /\ Succ(state, stMain) /\ stMain.plan = maxRows
    BY <1>2, <1>3, <2>1 DEF IInv, SyncInv, TypeOK, Records
  <2>3. stMain.through = state.through /\ stMain.draining # 0
    BY <1>3, <2>2 DEF Succ
  <2> DEFINE d == stMain.draining
  <2>4. d \in Seqs /\ d \in LiveDirs /\ state.through < d
        /\ \A x \in LiveDirs : x < d => x <= state.through
    BY <2>2, <2>3, SMT DEF IInv, RecordsInv, FlushState, Seqs, LiveDirs
  <2>5. state.through \in Nat
    BY <2>2, <2>3, SMT DEF FlushState
  <2>6. d \in Pending
    <3>1. /\ \A x \in LiveDirs \ list : x <= state.through
          /\ committed = {x \in list : x <= state.through}
          /\ \A x \in Seqs : Touched(x) => x < active
      BY <1>2 DEF IInv, DirInv
    <3>2. Touched(d)
      BY <2>2 DEF Touched
    <3>3. ~(d <= state.through) /\ ~(d < d)
      BY ONLY <2>4, <2>5, SMT DEF Seqs
    <3> QED BY <2>4, <3>1, <3>2, <3>3 DEF Pending, Sealed
  <2>7. s <= d /\ ~(s < d)
    <3>1. s <= d /\ s \in LiveDirs
      BY <1>1, <1>3, <2>6 DEF OldestPending, LiveDirs
    <3>2. ~(s <= state.through)
      BY ONLY <1>3, <2>5, s \in Seqs, SMT DEF Seqs
    <3> QED BY <2>4, <3>1, <3>2
  <2>8. d = s
    BY <2>4, <2>7, SMT DEF Seqs
  <2> QED BY <1>3, <2>2, <2>3, <2>8 DEF FlushState
<1> QED BY <1>1, <1>2, <1>3, <1>4, WriteErrorStep

\* drainAttempt goes on with the segment it was draining.
LEMMA ResumeDrainStep ==
    ASSUME IInv, NEW s \in Seqs, ResumeDrain(s)
    PROVE  IInv'
<1> USE DEF IInv
<1>1. /\ pc = "idle" /\ OldestPending(s) /\ state.draining = s
      /\ marksFor' = s
      /\ marks' = IF marksFor = s THEN marks
                                  ELSE {m[2] : m \in {x \in marksFile : x[1] = s}}
      /\ pc' = "draining" /\ todo' = Groups(state.plan, content[s])
      /\ failed' = FALSE /\ grp' = NoGroup
      /\ UNCHANGED <<dirs, flushed, stMain, stPrev, mainOK, marksFile, savedMan, savedRet,
                     maxRows, nextSeq, active, list, content, committed, held, state, man,
                     ret, store, markers, acked, puts, early, merges>>
  BY DEF ResumeDrain, StartAttempt, PlanRows, diskVars, segVars, manVars, bucketVars, histVars
<1>2. Up /\ Up'
  BY <1>1 DEF Up
<1>3. state \in Records /\ state.plan # 0 /\ state.plan \in Nat
  <2>1. state \in Records
    BY <1>2 DEF Records
  <2>2. s # 0
    BY SMT DEF Seqs
  <2>3. state.plan # 0
    BY <1>1, <2>1, <2>2 DEF RecordsInv
  <2> QED BY <2>1, <2>3, RecordTypes
<1>4. \A m \in marksFile : m = <<m[1], m[2]>> /\ m[2] \in Group
  <2>1. marksFile \subseteq Seqs \X Group
    BY DEF TypeOK
  <2> QED BY ONLY <2>1, SMT
<1>5. TypeOK'
  <2>1. Groups(state.plan, content[s]) \subseteq Group
    BY <1>3, GroupsType DEF TypeOK
  <2>2. marks' \subseteq Group /\ s \in 0..MaxSeq
    <3>1. marks \subseteq Group
      BY DEF TypeOK
    <3>2. marks' \subseteq Group
      BY <1>1, <1>4, <3>1
    <3>3. s \in 0..MaxSeq
      BY SMT DEF Seqs
    <3> QED BY <3>2, <3>3
  <2>3. head' \in BOOLEAN
    BY DEF ResumeDrain, TypeOK
  <2> QED BY <1>1, <2>1, <2>2, <2>3 DEF TypeOK
<1>6. SyncInv' /\ DirInv' /\ FlushInv'
  BY SameData, <1>1, <1>2 DEF SyncInv, DirInv, FlushInv, Sealed
<1>7. MarksInv'
  <2>1. \A g \in marks' : HasPut(KeyOf(s, g))
    BY <1>1 DEF MarksInv
  <2> QED BY <1>1, <2>1 DEF MarksInv, HasPut
<1>8. DrainInv'
  <2>1. Cur' = s /\ s # 0 /\ PlanRows' = state.plan /\ content' = content
    BY <1>1, SeqBounds DEF Cur, PlanRows
  <2>2. Groups(PlanRows', content'[Cur']) = todo'
    BY <1>1, <2>1
  <2>3. Cur' # 0 /\ marksFor' = Cur'
    BY <1>1, <2>1
  <2>4. Groups(PlanRows', content'[Cur']) \ todo' = {}
    BY <2>2
  <2>5. pc' \notin {"stored", "marked"} /\ pc' # "commit"
    BY <1>1
  <2> QED BY <2>3, <2>4, <2>5 DEF DrainInv
<1> QED
  BY SameData, <1>1, <1>2, <1>5, <1>6, <1>7, <1>8

\* One step of any kind keeps the invariant.
LEMMA NextIInv ==
    ASSUME IInv, Next
    PROVE  IInv'
<1>1. CASE \E r \in Rows : AddRow(r)
  BY <1>1, AddRowStep
<1>2. CASE PersistParts
  BY <1>2, PersistPartsStep
<1>3. CASE SealSwap \/ SealReopen
  BY <1>3, SealSwapStep, SealReopenStep
<1>4. CASE DrainStep
  <2>1. CASE \E s \in Seqs : BeginDrain(s) \/ BeginDrainError(s) \/ ResumeDrain(s)
    BY <2>1, BeginDrainStep, BeginDrainErrorStep, ResumeDrainStep
  <2>2. CASE \E g \in todo : SettleGroup(g) \/ UploadGroup(g) \/ GroupError(g)
    BY <2>2, SettleGroupStep, UploadGroupStep, GroupErrorStep
  <2>3. CASE MarkStored \/ CommitFile \/ EndFailedAttempt
    BY <2>3, MarkStoredStep, CommitFileStep, EndFailedAttemptStep
  <2>4. CASE PutMarker \/ PutMarkerError \/ RecordCommit \/ RecordCommitError
    BY <2>4, PutMarkerStep, RecordCommitStep, RecordCommitErrorStep
  <2> QED BY <1>4, <2>1, <2>2, <2>3, <2>4 DEF DrainStep
<1>5. CASE \E R \in SUBSET committed : Reap(R) \/ Refresh(R)
  BY <1>5, ReapStep, RefreshStep
<1>6. CASE \E s \in Seqs : RemoveDir(s)
  BY <1>6, RemoveDirStep
<1>7. CASE SaveManifest
  BY <1>7, SaveManifestStep
<1>8. CASE \E t \in Tenants : \E K \in SUBSET KeysOf(t) :
             CompactHere(t, K) \/ CompactElsewhere(t, K)
  BY <1>8, CompactStep
<1>9. CASE Crash \/ Shutdown
  BY <1>9, CrashStep, ShutdownStep
<1>10. CASE \E q \in 1..(MaxSeq + 1) :
              RestartKilled(q) \/ \E p \in GroupSizes : Restart(q, p)
  BY <1>10, RestartKilledStep, RestartStep
<1> QED
  BY <1>1, <1>2, <1>3, <1>4, <1>5, <1>6, <1>7, <1>8, <1>9, <1>10 DEF Next

\* A step that changes no variable keeps it too.
LEMMA StutterIInv ==
    ASSUME IInv, UNCHANGED vars
    PROVE  IInv'
<1> USE DEF IInv, vars, diskVars, segVars, drainVars, manVars, bucketVars, histVars
<1>1. Up' = Up
  BY DEF Up
<1>2. TypeOK' /\ KeyContentStable'
  BY DEF TypeOK, KeyContentStable
<1>3. SyncInv' /\ DirInv' /\ FlushInv'
  BY SameData, <1>1 DEF SyncInv, DirInv, FlushInv, Sealed
<1>4. MarksInv' /\ DrainInv'
  BY SameData, <1>1 DEF MarksInv, HasPut, DrainInv, Cur, PlanRows, CurRows, CurKey
<1> QED BY SameData, <1>1, <1>2, <1>3, <1>4

\* The invariant holds in every reachable state of the flusher, the buffer and
\* the compactors: for any number of rows, tenants, segments and merges.
THEOREM Invariance == Spec => []IInv
<1>1. Init => IInv
  BY InitIInv
<1>2. IInv /\ [Next]_vars => IInv'
  BY NextIInv, StutterIInv
<1> QED BY <1>1, <1>2, PTL DEF Spec

\* Every variable keeps its type.
THEOREM TypeCorrect == Spec => []TypeOK
<1>1. IInv => TypeOK
  BY DEF IInv
<1> QED BY <1>1, Invariance, PTL

\* Reap never removes a directory with a row the bucket does not hold.
THEOREM RowsAreNotLost == Spec => []NoRowLost
<1>1. IInv => NoRowLost
  BY DEF IInv
<1> QED BY <1>1, Invariance, PTL

\* Whichever process uploads a group's key, the object has the same rows.
THEOREM KeysAreStable == Spec => []KeyContentStable
<1>1. IInv => KeyContentStable
  BY DEF IInv
<1> QED BY <1>1, Invariance, PTL

\* putSegmentMarker never announces a segment with an object missing.
THEOREM MarkersAreTrue == Spec => []MarkerMeansComplete
<1>1. IInv => MarkerMeansComplete
  BY DEF IInv
<1> QED BY <1>1, Invariance, PTL

\* A segment some record calls committed, and still on the disk, has its marker.
THEOREM CommitsHaveMarkers == Spec => []CommittedHasMarker
<1>1. ASSUME IInv PROVE CommittedHasMarker
  <2>1. {Loadable, stPrev} \cup (IF pc = "down" THEN {} ELSE {state}) \subseteq Records
    BY LoadableRecord DEF Records, Up
  <2> QED BY <1>1, <2>1 DEF IInv, ThroughInv, CommittedHasMarker, LiveDirs
<1> QED BY <1>1, Invariance, PTL

\* The active segment is newer than every segment some record calls committed.
THEOREM ActiveIsNew == Spec => []ActiveNotCommitted
<1>1. ASSUME IInv PROVE ActiveNotCommitted
  <2> SUFFICES ASSUME Up, NEW st \in {Loadable, stPrev, state} PROVE active > st.through
    BY DEF ActiveNotCommitted, Up
  <2>1. st \in Records
    BY LoadableRecord DEF Records
  <2>2. st.through \in 0..MaxSeq /\ active \in Seqs
    <3>1. st.through \in Nat /\ st.through <= MaxSeq
      BY <1>1, <2>1, RecordTypes
    <3>2. active \in Seqs
      BY <1>1 DEF IInv, DirInv, TypeOK
    <3> QED BY <3>1, <3>2, ConstantsAssumption, SMT
  <2>3. CASE st.through = 0
    BY <2>2, <2>3, SMT DEF Seqs
  <2>4. CASE st.through # 0
    <3>1. st.through \in Seqs /\ Touched(st.through)
      BY <2>1, <2>2, <2>4, SMT DEF Touched, Seqs
    <3> QED BY <1>1, <2>2, <3>1 DEF IInv, DirInv, Seqs
  <2> QED BY <2>3, <2>4
<1> QED BY <1>1, Invariance, PTL

\* Neither a failed write nor a fall back to the mirror forgets a commit.
THEOREM CommitsAreKept == Spec => CommitNeverForgotten
<1>1. IInv /\ [Next]_vars => [Loadable'.through >= Loadable.through]_vars
  BY CommitKept
<1> QED BY <1>1, Invariance, PTL DEF Spec, CommitNeverForgotten

-----------------------------------------------------------------------------
(* A row is in one segment, an object has rows of its segment only, and   *)
(* the groups of a segment share none.                                    *)


\* A row is acknowledged into one segment.
RowsInv ==
    /\ \A s \in Seqs : content[s] \subseteq acked
    /\ \A s, x \in Seqs : s # x => content[s] \cap content[x] = {}
    /\ \A o \in store : o.rows \subseteq acked

\* A seq past every directory in use has had no rows.
FreshInv == \A s \in Seqs : (\A x \in LiveDirs : x < s) => content[s] = {}

\* An object is of one segment until it is merged, and a segment whose rows are in
\* a merged object is recorded as committed, the excused ones apart.
OwnInv ==
    /\ \A p \in puts : p.rows \subseteq content[p.key[1]]
    /\ \A p, q \in puts : p.key # q.key => p.rows \cap q.rows = {}
    /\ \A o \in store, s \in Seqs \ early :
         o.key[1] = 0 /\ o.rows \cap content[s] # {} => Recorded(s)

LInv == RowsInv /\ FreshInv /\ OwnInv /\ StoredOnce

-----------------------------------------------------------------------------
(* The kinds of steps, as far as rows go. *)

Quiet == UNCHANGED <<dirs, flushed, content, store, puts, acked, early>>

Puts ==
    \E g \in Group : /\ Draining /\ PutObject(g)
                     /\ UNCHANGED <<dirs, flushed, content, acked, early>>

Merges ==
    \E t \in Tenants : \E K \in SUBSET KeysOf(t) :
        Merge(t, K) /\ UNCHANGED <<dirs, flushed, content, puts, acked>>

Restarts ==
    \E q \in 1..(MaxSeq + 1) : RestartKilled(q) \/ \E p \in GroupSizes : Restart(q, p)

\* Every step of the pod and the compactors is of one of these kinds.
LEMMA StepKinds ==
    ASSUME TypeOK, [Next]_vars
    PROVE  \/ Quiet \/ (\E r \in Rows : AddRow(r)) \/ PersistParts \/ SealSwap
           \/ SealReopen \/ Puts \/ (\E s \in Seqs : RemoveDir(s)) \/ Merges
           \/ Crash \/ Shutdown \/ Restarts
<1> USE DEF diskVars, segVars, drainVars, manVars, bucketVars, histVars
<1>1. CASE UNCHANGED vars
  BY <1>1 DEF vars, Quiet
<1>2. CASE DrainStep
  <2>1. CASE \E s \in Seqs : BeginDrain(s) \/ BeginDrainError(s) \/ ResumeDrain(s)
    BY <2>1 DEF BeginDrain, BeginDrainError, ResumeDrain, Quiet
  <2>2. CASE \E g \in todo : SettleGroup(g)
    BY <2>2 DEF SettleGroup, Quiet
  <2>3. ASSUME NEW g \in todo, UploadGroup(g) PROVE Puts
    <3>1. g \in Group /\ Draining /\ PutObject(g)
      BY <2>3 DEF UploadGroup, NextGroup, Draining, TypeOK
    <3> QED BY <2>3, <3>1 DEF UploadGroup, Puts
  <2>4. ASSUME NEW g \in todo, GroupError(g) PROVE Puts \/ Quiet
    <3>1. CASE UNCHANGED <<store, puts>>
      BY <2>4, <3>1 DEF GroupError, Quiet
    <3>2. CASE ~Settled(g) /\ PutObject(g)
      <4>1. g \in Group /\ Draining
        BY <2>4, <3>2 DEF GroupError, NextGroup, Draining, TypeOK
      <4> QED BY <2>4, <3>2, <4>1 DEF GroupError, Puts
    <3> QED BY <2>4, <3>1, <3>2 DEF GroupError
  <2>5. CASE MarkStored \/ CommitFile \/ EndFailedAttempt
    BY <2>5 DEF MarkStored, CommitFile, EndFailedAttempt, Quiet
  <2>6. CASE PutMarker \/ PutMarkerError \/ RecordCommit \/ RecordCommitError
    BY <2>6 DEF PutMarker, PutMarkerError, RecordCommit, RecordCommitError, Quiet
  <2> QED BY <1>2, <2>1, <2>2, <2>3, <2>4, <2>5, <2>6 DEF DrainStep
<1>3. CASE \E R \in SUBSET committed : Reap(R) \/ Refresh(R)
  BY <1>3 DEF Reap, Refresh, Quiet
<1>4. CASE SaveManifest
  BY <1>4 DEF SaveManifest, Quiet
<1>5. CASE \E t \in Tenants : \E K \in SUBSET KeysOf(t) :
             CompactHere(t, K) \/ CompactElsewhere(t, K)
  BY <1>5 DEF CompactHere, CompactElsewhere, Merges
<1> QED BY <1>1, <1>2, <1>3, <1>4, <1>5 DEF Next, Restarts

\* What a step does to the process's record: it stays, keeps what it calls
\* committed, is the commit of the segment being drained, or is read at a start.
LEMMA StateEffect ==
    ASSUME [Next]_vars
    PROVE  \/ pc' = "down"
           \/ pc # "down" /\ state'.through = state.through
           \/ pc = "commit" /\ state' = CommitState
           \/ pc = "down" /\ state' = Loadable
<1> USE DEF diskVars, segVars, drainVars, manVars, bucketVars, histVars
<1>1. CASE UNCHANGED vars
  BY <1>1 DEF vars
<1>2. CASE (\E r \in Rows : AddRow(r)) \/ PersistParts \/ SealSwap \/ SealReopen
  BY <1>2 DEF AddRow, PersistParts, SealSwap, SealReopen
<1>3. CASE DrainStep
  <2>1. ASSUME NEW s \in Seqs, BeginDrain(s)
        PROVE  pc # "down" /\ state'.through = state.through
    <3>1. pc = "idle" /\ state' = Intent(s)
      BY <2>1 DEF BeginDrain
    <3> QED BY <3>1 DEF Intent
  <2>2. CASE \E s \in Seqs : BeginDrainError(s) \/ ResumeDrain(s)
    BY <2>2 DEF BeginDrainError, ResumeDrain
  <2>3. CASE \E g \in todo : SettleGroup(g) \/ UploadGroup(g) \/ GroupError(g)
    BY <2>3 DEF SettleGroup, UploadGroup, GroupError, NextGroup
  <2>4. CASE MarkStored \/ CommitFile \/ EndFailedAttempt
    BY <2>4 DEF MarkStored, CommitFile, EndFailedAttempt
  <2>5. CASE PutMarker \/ PutMarkerError \/ RecordCommitError
    BY <2>5 DEF PutMarker, PutMarkerError, RecordCommitError
  <2>6. CASE RecordCommit
    BY <2>6 DEF RecordCommit
  <2> QED BY <1>3, <2>1, <2>2, <2>3, <2>4, <2>5, <2>6 DEF DrainStep
<1>4. CASE \E R \in SUBSET committed : Reap(R) \/ Refresh(R)
  BY <1>4 DEF Reap, Refresh
<1>5. CASE (\E s \in Seqs : RemoveDir(s)) \/ SaveManifest
  BY <1>5 DEF RemoveDir, SaveManifest
<1>6. CASE \E t \in Tenants : \E K \in SUBSET KeysOf(t) :
             CompactHere(t, K) \/ CompactElsewhere(t, K)
  BY <1>6 DEF CompactHere, CompactElsewhere
<1>7. CASE Crash \/ Shutdown
  BY <1>7 DEF Crash, Shutdown, Down
<1>8. CASE Restarts
  BY <1>8 DEF Restarts, RestartKilled, Restart
<1> QED BY <1>1, <1>2, <1>3, <1>4, <1>5, <1>6, <1>7, <1>8 DEF Next, Restarts

\* A segment the pod regards as committed, now and after a restart, stays so.
LEMMA RecordedStays ==
    ASSUME IInv, [Next]_vars, NEW s \in Seqs, Recorded(s)
    PROVE  Recorded(s)'
<1>1. IInv'
  BY NextIInv, StutterIInv
<1>2. Loadable.through \in Nat /\ s \in Nat
  BY LoadableRecord, RecordTypes, SMT DEF Seqs
<1>3. Loadable'.through \in Nat
  <2>1. stMain' \in FlushState /\ stPrev' \in FlushState
    BY <1>1 DEF IInv, TypeOK
  <2>2. Loadable' \in FlushState
    BY <2>1 DEF Loadable
  <2> QED BY <2>2, SMT DEF FlushState
<1>4. Loadable'.through >= Loadable.through
  BY CommitKept
<1>5. s <= Loadable.through /\ s <= Loadable'.through
  <2>1. s <= Loadable.through
    BY DEF Recorded
  <2> QED BY ONLY <2>1, <1>2, <1>3, <1>4, SMT
<1>6. CASE pc' = "down"
  BY <1>5, <1>6 DEF Recorded
<1>7. CASE pc # "down" /\ state'.through = state.through
  BY <1>5, <1>7 DEF Recorded
<1>8. CASE pc = "commit" /\ state' = CommitState
  <2>1. s <= state.through /\ state.through < Cur /\ state.through \in Nat /\ Cur \in Nat
    <3>1. Draining
      BY <1>8 DEF Draining
    <3>2. state \in Records /\ state.through < Cur /\ Cur \in Seqs
      BY <3>1, CurFacts
    <3>3. state.through \in Nat
      BY <3>2, RecordTypes
    <3>4. s <= state.through
      BY <1>8 DEF Recorded
    <3> QED BY <3>2, <3>3, <3>4, SMT DEF Seqs
  <2>2. s <= Cur
    BY ONLY <1>2, <2>1, SMT
  <2> QED BY <1>5, <1>8, <2>2 DEF Recorded, CommitState
<1>9. CASE pc = "down" /\ state' = Loadable
  BY <1>5, <1>9 DEF Recorded
<1> QED BY <1>6, <1>7, <1>8, <1>9, StateEffect

-----------------------------------------------------------------------------
(* What each kind of step does to LInv. *)

\* A step that moves no row keeps what is said of them.
LEMMA RowsKept ==
    ASSUME LInv, UNCHANGED <<content, store, puts, acked, early>>,
           \A s \in Seqs : Recorded(s) => Recorded(s)'
    PROVE  RowsInv' /\ OwnInv' /\ StoredOnce'
<1>1. RowsInv'
  BY DEF LInv, RowsInv
<1>2. OwnInv'
  BY DEF LInv, OwnInv
<1>3. StoredOnce'
  BY DEF LInv, StoredOnce
<1> QED BY <1>1, <1>2, <1>3

\* The newest directory in use is never older than it was.
LEMMA FreshKept ==
    ASSUME FreshInv, \A s \in Seqs : content'[s] \subseteq content[s],
           \A x \in LiveDirs : \E y \in LiveDirs' : x <= y
    PROVE  FreshInv'
<1> SUFFICES ASSUME NEW s \in Seqs, \A y \in LiveDirs' : y < s PROVE content'[s] = {}
  BY DEF FreshInv
<1>1. \A x \in LiveDirs : x < s
  BY SMT DEF LiveDirs, Seqs
<1>2. content[s] = {}
  BY <1>1 DEF FreshInv
<1> QED BY <1>2

\* Segments.MustAddRows: the row is new, and the active segment is in use.
LEMMA AddRowRows ==
    ASSUME IInv, LInv, NEW r \in Rows, AddRow(r),
           \A s \in Seqs : Recorded(s) => Recorded(s)'
    PROVE  LInv'
<1>1. /\ r \notin acked /\ acked' = acked \cup {r} /\ active \in LiveDirs /\ active \in Seqs
      /\ content' = [content EXCEPT ![active] = @ \cup {r}]
      /\ UNCHANGED <<dirs, store, puts, early>>
  <2>1. pc # "down"
    BY DEF AddRow
  <2>2. active \in LiveDirs /\ active \in Seqs
    BY <2>1 DEF IInv, DirInv, Up, LiveDirs
  <2> QED BY <2>2 DEF AddRow, diskVars, bucketVars
<1>2. content \in [Seqs -> SUBSET Rows]
  BY DEF IInv, TypeOK
<1>3. /\ content'[active] = content[active] \cup {r}
      /\ \A s \in Seqs : s # active => content'[s] = content[s]
  BY <1>1, <1>2
<1>4. \A o \in store : r \notin o.rows
  BY <1>1 DEF LInv, RowsInv
<1>5. \A o \in store, s \in Seqs : o.rows \cap content'[s] = o.rows \cap content[s]
  BY <1>3, <1>4
<1>6. RowsInv'
  <2>1. \A s \in Seqs : content'[s] \subseteq acked'
    BY <1>1, <1>3 DEF LInv, RowsInv
  <2>2. \A s, x \in Seqs : s # x => content'[s] \cap content'[x] = {}
    BY <1>1, <1>3, SMT DEF LInv, RowsInv
  <2>3. \A o \in store' : o.rows \subseteq acked'
    BY <1>1 DEF LInv, RowsInv
  <2> QED BY <2>1, <2>2, <2>3 DEF RowsInv
<1>7. FreshInv'
  <2>1. LiveDirs' = LiveDirs
    BY <1>1 DEF LiveDirs
  <2> SUFFICES ASSUME NEW s \in Seqs, \A y \in LiveDirs : y < s PROVE content'[s] = {}
    BY <2>1 DEF FreshInv
  <2>2. s # active
    BY <1>1, SMT DEF Seqs
  <2> QED BY <1>3, <2>2 DEF LInv, FreshInv
<1>8. OwnInv'
  <2>1. \A p \in puts' : p.rows \subseteq content'[p.key[1]]
    <3>1. \A p \in puts : p.key[1] \in Seqs
      BY KeySegment DEF IInv, PutsInv, TypeOK, Object
    <3> QED BY <1>1, <1>3, <3>1 DEF LInv, OwnInv
  <2>2. \A p, q \in puts' : p.key # q.key => p.rows \cap q.rows = {}
    BY <1>1 DEF LInv, OwnInv
  <2>3. \A o \in store', s \in Seqs \ early' :
          o.key[1] = 0 /\ o.rows \cap content'[s] # {} => Recorded(s)'
    BY <1>1, <1>5 DEF LInv, OwnInv
  <2> QED BY <2>1, <2>2, <2>3 DEF OwnInv
<1>9. StoredOnce'
  <2> SUFFICES ASSUME NEW a \in store, NEW b \in store, a # b, NEW s \in Seqs \ early
               PROVE  a.rows \cap b.rows \cap content'[s] = {}
    BY <1>1 DEF StoredOnce
  <2>1. a.rows \cap b.rows \cap content[s] = {}
    BY DEF LInv, StoredOnce
  <2>2. a.rows \cap content'[s] = a.rows \cap content[s]
    BY <1>5
  <2> QED BY <2>1, <2>2
<1> QED BY <1>6, <1>7, <1>8, <1>9 DEF LInv

\* The group being uploaded shares no row with another object of a put.
LEMMA GroupApart ==
    ASSUME IInv, LInv, Draining, NEW g \in Group, NEW p \in puts, p.key # CurKey(g)
    PROVE  p.rows \cap CurRows(g) = {}
<1>1. /\ state \in Records /\ Cur \in Seqs /\ state.through < Cur /\ state.through \in Nat
      /\ state.draining = Cur /\ state.plan = PlanRows
  BY CurFacts, RecordTypes DEF Cur, PlanRows
<1>2. CurRows(g) \subseteq content[Cur]
  BY DEF CurRows, KeptRows
<1>3. p.key \in Key /\ p.key[1] \in Seqs
  BY KeySegment DEF IInv, PutsInv, TypeOK, Object
<1>4. CASE p.key[1] = Cur
  <2>1. p.rows = KeptRows(PlanRows, content[Cur], GroupOfKey(p.key))
    <3>1. ~(p.key[1] <= state.through)
      BY ONLY <1>1, <1>4, <1>3, SMT DEF Seqs
    <3> QED BY <1>1, <1>4, <3>1 DEF IInv, PutsInv
  <2>2. GroupOfKey(p.key) # g
    <3>1. p.key = <<p.key[1], p.key[2], p.key[3]>>
      BY <1>3, SMT DEF Key
    <3> QED BY <1>4, <3>1, SMT DEF GroupOfKey, CurKey, KeyOf
  <2> QED BY <2>1, <2>2 DEF CurRows, KeptRows
<1>5. CASE p.key[1] # Cur
  <2>1. content[p.key[1]] \cap content[Cur] = {}
    BY <1>1, <1>3, <1>5 DEF LInv, RowsInv
  <2>2. p.rows \subseteq content[p.key[1]]
    BY DEF LInv, OwnInv
  <2> QED BY <1>2, <2>1, <2>2
<1> QED BY <1>4, <1>5

\* A PUT of a group: its rows are in no other object, unless the segment was
\* merged too early.
LEMMA PutRows ==
    ASSUME IInv, LInv, NEW g \in Group, Draining, PutObject(g),
           UNCHANGED <<dirs, content, acked, early>>,
           \A s \in Seqs : Recorded(s) => Recorded(s)'
    PROVE  LInv'
<1> DEFINE obj == [key |-> CurKey(g), rows |-> CurRows(g)]
<1>1. /\ store' = {o \in store : o.key # CurKey(g)} \cup {obj}
      /\ puts' = puts \cup {obj} /\ obj.key = CurKey(g) /\ obj.rows = CurRows(g)
  BY DEF PutObject, Upload
<1>2. /\ state \in Records /\ Cur \in Seqs /\ state.through < Cur /\ state.through \in Nat
      /\ pc # "down"
  BY CurFacts, RecordTypes DEF Draining
<1>3. CurRows(g) \subseteq content[Cur]
  BY DEF CurRows, KeptRows
<1>4. CurKey(g)[1] = Cur /\ Cur # 0
  BY <1>2, SMT DEF CurKey, KeyOf, Seqs
<1>5. \A p \in puts : p.key # CurKey(g) => p.rows \cap CurRows(g) = {}
  BY GroupApart
<1> HIDE DEF obj
<1>6. RowsInv'
  BY <1>1, <1>2, <1>3 DEF LInv, RowsInv
<1>7. FreshInv'
  BY DEF LInv, FreshInv, LiveDirs
<1>8. OwnInv'
  <2>1. \A p \in puts' : p.rows \subseteq content'[p.key[1]]
    BY <1>1, <1>3, <1>4 DEF LInv, OwnInv
  <2>2. \A p, q \in puts' : p.key # q.key => p.rows \cap q.rows = {}
    <3>1. \A p, q \in puts : p.key # q.key => p.rows \cap q.rows = {}
      BY DEF LInv, OwnInv
    <3>2. \A p \in puts : p.key # obj.key => p.rows \cap obj.rows = {} /\ obj.rows \cap p.rows = {}
      BY <1>1, <1>5
    <3> QED BY <1>1, <3>1, <3>2
  <2>3. \A o \in store', s \in Seqs \ early' :
          o.key[1] = 0 /\ o.rows \cap content'[s] # {} => Recorded(s)'
    BY <1>1, <1>4 DEF LInv, OwnInv
  <2> QED BY <2>1, <2>2, <2>3 DEF OwnInv
<1>9. StoredOnce'
  <2>1. ASSUME NEW b \in store, b.key # CurKey(g), NEW s \in Seqs \ early
        PROVE  b.rows \cap CurRows(g) \cap content[s] = {}
    <3> SUFFICES ASSUME NEW r \in b.rows, r \in CurRows(g), r \in content[s] PROVE FALSE
      OBVIOUS
    <3>1. s = Cur
      BY <1>2, <1>3 DEF LInv, RowsInv
    <3>2. CASE b.key[1] = 0
      <4>1. Recorded(Cur)
        BY <2>1, <3>1, <3>2 DEF LInv, OwnInv
      <4>2. Cur <= state.through
        BY <1>2, <4>1 DEF Recorded
      <4> QED BY ONLY <1>2, <4>2, SMT DEF Seqs
    <3>3. CASE b.key[1] # 0
      <4>1. b \in puts
        BY <3>3 DEF IInv, PutsInv
      <4> QED BY <2>1, <4>1, <1>5
    <3> QED BY <3>2, <3>3
  <2> SUFFICES ASSUME NEW a \in store', NEW b \in store', a # b, NEW s \in Seqs \ early
               PROVE  a.rows \cap b.rows \cap content[s] = {}
    BY DEF StoredOnce
  <2>2. CASE a \in store /\ b \in store
    BY <2>2 DEF LInv, StoredOnce
  <2>3. CASE a = obj /\ b # obj
    <3>1. b \in store /\ b.key # CurKey(g)
      BY <1>1, <2>3
    <3>2. b.rows \cap CurRows(g) \cap content[s] = {}
      BY <2>1, <3>1
    <3> QED BY <1>1, <2>3, <3>2
  <2>4. CASE b = obj /\ a # obj
    <3>1. a \in store /\ a.key # CurKey(g)
      BY <1>1, <2>4
    <3>2. a.rows \cap CurRows(g) \cap content[s] = {}
      BY <2>1, <3>1
    <3> QED BY <1>1, <2>4, <3>2
  <2> QED BY <1>1, <2>2, <2>3, <2>4
<1> QED BY <1>6, <1>7, <1>8, <1>9 DEF LInv

\* compactGroup, in this pod or another: the rows of the sources move to one
\* object, and a segment that is not recorded as committed is one of the excused.
LEMMA MergeRows ==
    ASSUME IInv, LInv, NEW t \in Tenants, NEW K \in SUBSET KeysOf(t), Merge(t, K),
           UNCHANGED <<dirs, content, puts, acked>>,
           \A s \in Seqs : Recorded(s) => Recorded(s)'
    PROVE  LInv'
<1> DEFINE src == {o \in store : o.key \in K}
           out == [key |-> MergedKey(t), rows |-> UNION {o.rows : o \in src}]
<1>1. /\ store' = (store \ src) \cup {out} /\ early \subseteq early'
      /\ \A k \in K : k[1] # 0 /\ ~Recorded(k[1]) => k[1] \in early'
  BY DEF Merge
<1>2. \A r \in out.rows : \E o \in src : r \in o.rows
  OBVIOUS
<1>3. src \subseteq store /\ \A o \in src : o.key \in K
  OBVIOUS
<1> HIDE DEF src, out
<1>4. RowsInv'
  <2>1. out.rows \subseteq acked
    BY <1>2, <1>3 DEF LInv, RowsInv
  <2> QED BY <1>1, <2>1 DEF LInv, RowsInv
<1>5. FreshInv'
  BY DEF LInv, FreshInv, LiveDirs
<1>6. OwnInv'
  <2>1. ASSUME NEW s \in Seqs \ early', NEW r \in out.rows, r \in content[s]
        PROVE  Recorded(s)
    <3>1. PICK o \in src : r \in o.rows
      BY <1>2, <2>1
    <3>2. s \in Seqs \ early
      BY <1>1
    <3>3. CASE o.key[1] = 0
      BY <1>3, <2>1, <3>1, <3>2, <3>3 DEF LInv, OwnInv
    <3>4. CASE o.key[1] # 0
      <4>1. o \in puts /\ o.rows \subseteq content[o.key[1]]
        BY <1>3, <3>4 DEF IInv, PutsInv, LInv, OwnInv
      <4>2. o.key[1] \in Seqs
        BY <3>4, <4>1, KeySegment DEF IInv, TypeOK, Object
      <4>3. s = o.key[1]
        BY <2>1, <3>1, <4>1, <4>2 DEF LInv, RowsInv
      <4> QED BY <1>1, <1>3, <3>4, <4>3
    <3> QED BY <3>3, <3>4
  <2>2. \A o \in store', s \in Seqs \ early' :
          o.key[1] = 0 /\ o.rows \cap content'[s] # {} => Recorded(s)'
    <3> SUFFICES ASSUME NEW o \in store', NEW s \in Seqs \ early', o.key[1] = 0,
                        NEW r \in o.rows, r \in content[s]
                 PROVE  Recorded(s)
      OBVIOUS
    <3>1. CASE o = out
      BY <2>1, <3>1
    <3>2. CASE o # out
      BY <1>1, <3>2 DEF LInv, OwnInv
    <3> QED BY <3>1, <3>2
  <2> QED BY <2>2 DEF LInv, OwnInv
<1>7. StoredOnce'
  <2>1. ASSUME NEW b \in store \ src, NEW s \in Seqs \ early'
        PROVE  b.rows \cap out.rows \cap content[s] = {}
    <3> SUFFICES ASSUME NEW r \in b.rows, r \in out.rows, r \in content[s] PROVE FALSE
      OBVIOUS
    <3>1. PICK o \in src : r \in o.rows
      BY <1>2
    <3>2. o \in store /\ b \in store /\ o # b /\ s \in Seqs \ early
      BY <1>1, <1>3
    <3>3. o.rows \cap b.rows \cap content[s] = {}
      BY <3>2 DEF LInv, StoredOnce
    <3> QED BY <3>1, <3>3
  <2> SUFFICES ASSUME NEW a \in store', NEW b \in store', a # b, NEW s \in Seqs \ early'
               PROVE  a.rows \cap b.rows \cap content[s] = {}
    BY DEF StoredOnce
  <2>2. CASE a \in store /\ b \in store
    BY <1>1, <2>2 DEF LInv, StoredOnce
  <2>3. CASE a = out /\ b # out
    <3>1. b.rows \cap out.rows \cap content[s] = {}
      BY <1>1, <2>1, <2>3
    <3> QED BY <2>3, <3>1
  <2>4. CASE b = out /\ a # out
    <3>1. a.rows \cap out.rows \cap content[s] = {}
      BY <1>1, <2>1, <2>4
    <3> QED BY <2>4, <3>1
  <2> QED BY <1>1, <2>2, <2>3, <2>4
<1> QED BY <1>4, <1>5, <1>6, <1>7 DEF LInv

\* A crash takes rows of the active segment only, which has no object yet.
LEMMA CrashRows ==
    ASSUME IInv, LInv, Crash, \A s \in Seqs : Recorded(s) => Recorded(s)'
    PROVE  LInv' /\ LiveDirs' = LiveDirs
<1>1. content' = flushed /\ UNCHANGED <<store, puts, acked, early>> /\ Up
  BY DEF Crash, Down, bucketVars, histVars, Up
<1>2. \A s \in Seqs : content'[s] \subseteq content[s]
  BY <1>1 DEF IInv, FlushInv
<1>3. LiveDirs' = LiveDirs
  <2>1. CASE dirs' = dirs
    BY <2>1 DEF LiveDirs
  <2>2. CASE nextSeq <= MaxSeq /\ dirs' = [dirs EXCEPT ![nextSeq] = "doomed"]
    <3>1. nextSeq = active + 1 /\ active \in Seqs /\ (\A x \in LiveDirs : x <= active)
      BY <1>1 DEF IInv, DirInv, LiveDirs
    <3>2. nextSeq \notin LiveDirs
      BY <3>1, SMT DEF Seqs
    <3>3. dirs \in [Seqs -> {"none", "live", "doomed"}]
      BY DEF IInv, TypeOK
    <3> QED BY <2>2, <3>2, <3>3 DEF LiveDirs
  <2> QED BY <2>1, <2>2 DEF Crash
<1>4. \A p \in puts : p.key[1] \in Seqs /\ content'[p.key[1]] = content[p.key[1]]
  <2> SUFFICES ASSUME NEW p \in puts
               PROVE  p.key[1] \in Seqs /\ content'[p.key[1]] = content[p.key[1]]
    OBVIOUS
  <2>1. p.key[1] \in Seqs
    BY KeySegment DEF IInv, PutsInv, TypeOK, Object
  <2>2. stPrev \in Records
    BY DEF Records
  <2>3. Touched(p.key[1])
    BY <2>2 DEF IInv, PutsInv, Touched
  <2> QED BY <1>1, <2>1, <2>3 DEF IInv, FlushInv
<1>5. RowsInv'
  BY <1>1, <1>2 DEF LInv, RowsInv
<1>6. FreshInv'
  <2>1. \A x \in LiveDirs : x <= x
    BY SMT DEF LiveDirs, Seqs
  <2> QED BY <1>2, <1>3, <2>1, FreshKept DEF LInv
<1>7. OwnInv'
  <2>1. \A o \in store, s \in Seqs : o.rows \cap content'[s] # {} => o.rows \cap content[s] # {}
    BY <1>2
  <2> QED BY <1>1, <1>4, <2>1 DEF LInv, OwnInv
<1>8. StoredOnce'
  <2> SUFFICES ASSUME NEW a \in store, NEW b \in store, a # b, NEW s \in Seqs \ early
               PROVE  a.rows \cap b.rows \cap content'[s] = {}
    BY <1>1 DEF StoredOnce
  <2>1. a.rows \cap b.rows \cap content[s] = {}
    BY DEF LInv, StoredOnce
  <2> QED BY <1>2, <2>1
<1> QED BY <1>3, <1>5, <1>6, <1>7, <1>8 DEF LInv

\* The directories in use after a step that moves no row.
LEMMA DirsGrow ==
    ASSUME IInv,
           SealSwap \/ (\E s \in Seqs : RemoveDir(s)) \/ Restarts
    PROVE  \A x \in LiveDirs : \E y \in LiveDirs' : x <= y
<1>0. dirs \in [Seqs -> {"none", "live", "doomed"}]
  BY DEF IInv, TypeOK
<1>1. CASE SealSwap
  <2>1. dirs' = [dirs EXCEPT ![nextSeq] = "live"]
    BY <1>1 DEF SealSwap
  <2>2. LiveDirs \subseteq LiveDirs'
    BY <1>0, <2>1 DEF LiveDirs
  <2> QED BY <2>2, SMT DEF LiveDirs, Seqs
<1>2. ASSUME NEW s \in Seqs, RemoveDir(s)
      PROVE  \A x \in LiveDirs : \E y \in LiveDirs' : x <= y
  <2>1. /\ pc # "down" /\ s \notin list
        /\ \/ dirs' = [dirs EXCEPT ![s] = "doomed"]
           \/ dirs' = [dirs EXCEPT ![s] = "none"]
    BY <1>2 DEF RemoveDir
  <2>2. active \in LiveDirs /\ active # s /\ (\A x \in LiveDirs : x <= active)
    BY <2>1 DEF IInv, DirInv, Up
  <2>3. active \in LiveDirs'
    BY <1>0, <2>1, <2>2 DEF LiveDirs
  <2> QED BY <2>2, <2>3
<1>3. CASE Restarts
  <2>1. ASSUME NEW q \in 1..(MaxSeq + 1), RestartKilled(q) \/ \E p \in GroupSizes : Restart(q, p)
        PROVE  LiveDirs \subseteq LiveDirs'
    <3>1. FreshSeq(q) /\ q \notin LiveDirs
      <4>1. FreshSeq(q)
        BY <2>1 DEF RestartKilled, Restart
      <4>2. \A x \in LiveDirs : x < q /\ x \in Seqs
        BY <4>1 DEF FreshSeq, LiveDirs, OnDisk
      <4> QED BY <4>1, <4>2, SMT DEF Seqs
    <3>2. \/ dirs' = SwapDirs({}) \/ dirs' = [SwapDirs({}) EXCEPT ![q] = "doomed"]
          \/ dirs' = SwapDirs({q})
      <4>1. CASE RestartKilled(q)
        <5>1. dirs' \in {SwapDirs({})} \cup IF q <= MaxSeq
                          THEN {[SwapDirs({}) EXCEPT ![q] = "doomed"]} ELSE {}
          BY <4>1 DEF RestartKilled
        <5> QED BY <5>1
      <4>2. CASE \E p \in GroupSizes : Restart(q, p)
        BY <4>2 DEF Restart
      <4> QED BY <2>1, <4>1, <4>2
    <3>3. \A x \in LiveDirs : x \in Seqs /\ dirs[x] = "live" /\ x # q
      BY <3>1 DEF LiveDirs
    <3>4. \A x \in LiveDirs : dirs'[x] = "live"
      BY <3>2, <3>3 DEF SwapDirs
    <3> QED BY <3>3, <3>4 DEF LiveDirs
  <2>2. LiveDirs \subseteq LiveDirs'
    BY <1>3, <2>1 DEF Restarts
  <2> QED BY <2>2, SMT DEF LiveDirs, Seqs
<1> QED BY <1>1, <1>2, <1>3

\* One step of any kind keeps what is said of the rows.
LEMMA NextLInv ==
    ASSUME IInv, LInv, [Next]_vars
    PROVE  LInv'
<1>1. \A s \in Seqs : Recorded(s) => Recorded(s)'
  BY RecordedStays
<1>2. ASSUME UNCHANGED <<content, store, puts, acked, early>>,
             \A x \in LiveDirs : \E y \in LiveDirs' : x <= y
      PROVE  LInv'
  <2>1. RowsInv' /\ OwnInv' /\ StoredOnce'
    BY <1>1, <1>2, RowsKept
  <2>2. FreshInv'
    BY <1>2, FreshKept DEF LInv
  <2> QED BY <2>1, <2>2 DEF LInv
<1>3. ASSUME dirs' = dirs PROVE \A x \in LiveDirs : \E y \in LiveDirs' : x <= y
  <2>1. LiveDirs' = LiveDirs
    BY <1>3 DEF LiveDirs
  <2> QED BY <2>1, SMT DEF LiveDirs, Seqs
<1> USE DEF diskVars, segVars, drainVars, manVars, bucketVars, histVars
<1>4. CASE Quiet
  BY <1>2, <1>3, <1>4 DEF Quiet
<1>5. CASE \E r \in Rows : AddRow(r)
  BY <1>1, <1>5, AddRowRows
<1>6. CASE PersistParts \/ SealReopen
  BY <1>2, <1>3, <1>6 DEF PersistParts, SealReopen
<1>7. CASE SealSwap
  BY <1>2, <1>7, DirsGrow DEF SealSwap
<1>8. CASE Puts
  BY <1>1, <1>8, PutRows DEF Puts
<1>9. CASE \E s \in Seqs : RemoveDir(s)
  BY <1>2, <1>9, DirsGrow DEF RemoveDir
<1>10. CASE Merges
  BY <1>1, <1>10, MergeRows DEF Merges
<1>11. CASE Crash
  BY <1>1, <1>11, CrashRows
<1>12. CASE Shutdown
  BY <1>2, <1>3, <1>12 DEF Shutdown, Down
<1>13. CASE Restarts
  <2>1. UNCHANGED <<content, store, puts, acked, early>>
    BY <1>13 DEF Restarts, RestartKilled, Restart
  <2> QED BY <1>2, <1>13, <2>1, DirsGrow
<1>14. TypeOK
  BY DEF IInv
<1> QED BY <1>4, <1>5, <1>6, <1>7, <1>8, <1>9, <1>10, <1>11, <1>12, <1>13, <1>14,
           StepKinds

\* What is said of the rows holds of an empty buffer and bucket.
LEMMA InitLInv == Init => LInv
<1> SUFFICES ASSUME Init PROVE LInv
  OBVIOUS
<1>1. /\ store = {} /\ puts = {} /\ \A s \in Seqs : content[s] = {}
  BY DEF Init
<1> QED BY <1>1 DEF LInv, RowsInv, FreshInv, OwnInv, StoredOnce

\* IInv and LInv hold in every reachable state.
LEMMA LogInvariance == Spec => [](IInv /\ LInv)
<1>1. Init => LInv
  BY InitLInv
<1>2. IInv /\ LInv /\ [Next]_vars => LInv'
  BY NextLInv
<1> QED BY <1>1, <1>2, Invariance, PTL DEF Spec

\* Drained and compacted in whatever order, with crashes and restarts anywhere, a
\* row is in one object of the bucket, except rows of a segment whose objects were
\* merged before its commit was recorded.
THEOREM RowsAreStoredOnce == Spec => []StoredOnce
<1>1. IInv /\ LInv => StoredOnce
  BY DEF LInv
<1> QED BY <1>1, LogInvariance, PTL

-----------------------------------------------------------------------------
(* The refinement. *)

Buffered == UNION {content[s] : s \in LiveDirs}
Durable  == UNION {flushed[s] : s \in LiveDirs}

\* What is durable is buffered.
LEMMA DurableIsBuffered ==
    ASSUME IInv
    PROVE  Durable \subseteq Buffered
<1>1. \A s \in LiveDirs : flushed[s] \subseteq content[s]
  BY DEF IInv, FlushInv, LiveDirs
<1> QED BY <1>1 DEF Durable, Buffered

\* A directory that comes into use is empty, and the others stay.
LEMMA NewDirIsEmpty ==
    ASSUME IInv, LInv, NEW q, LiveDirs' \subseteq LiveDirs \cup {q}, LiveDirs \subseteq LiveDirs',
           q \in LiveDirs' \ LiveDirs => \A x \in LiveDirs : x < q,
           UNCHANGED <<content, flushed>>
    PROVE  Buffered' = Buffered /\ Durable' = Durable
<1>1. q \in LiveDirs' \ LiveDirs => content[q] = {} /\ flushed[q] = {}
  <2> SUFFICES ASSUME q \in LiveDirs' \ LiveDirs PROVE content[q] = {} /\ flushed[q] = {}
    OBVIOUS
  <2>1. q \in Seqs
    BY DEF LiveDirs
  <2>2. content[q] = {}
    BY <2>1 DEF LInv, FreshInv
  <2>3. flushed[q] \subseteq content[q]
    BY <2>1 DEF IInv, FlushInv
  <2> QED BY <2>2, <2>3
<1> QED BY <1>1 DEF Buffered, Durable

\* A step that leaves rows, directories and bucket alone is invisible in the log.
LEMMA QuietLog ==
    ASSUME Quiet
    PROVE  UNCHANGED Log!logVars
<1>1. Buffered' = Buffered /\ Durable' = Durable /\ StoredRows' = StoredRows /\ acked' = acked
  BY DEF Quiet, Buffered, Durable, StoredRows, LiveDirs
<1> QED BY <1>1 DEF Log!logVars, Buffered, Durable

\* An acknowledged row is accepted.
LEMMA AddRowLog ==
    ASSUME IInv, NEW r \in Rows, AddRow(r)
    PROVE  Log!Accept(r)
<1>1. /\ r \notin acked /\ acked' = acked \cup {r} /\ active \in LiveDirs
      /\ content' = [content EXCEPT ![active] = @ \cup {r}]
      /\ UNCHANGED <<dirs, flushed, store>>
  <2>1. active \in LiveDirs
    BY DEF AddRow, IInv, DirInv, Up
  <2> QED BY <2>1 DEF AddRow, diskVars, bucketVars
<1>2. content \in [Seqs -> SUBSET Rows]
  BY DEF IInv, TypeOK
<1>3. LiveDirs' = LiveDirs /\ StoredRows' = StoredRows /\ Durable' = Durable
  BY <1>1 DEF LiveDirs, StoredRows, Durable
<1>4. Buffered' = Buffered \cup {r}
  <2>1. \A s \in LiveDirs : content'[s] = IF s = active THEN content[s] \cup {r} ELSE content[s]
    BY <1>1, <1>2 DEF LiveDirs
  <2> QED BY <1>1, <1>3, <2>1, SMT DEF Buffered
<1> QED BY <1>1, <1>3, <1>4 DEF Log!Accept, Buffered, Durable

\* A step that only writes rows of segments to the pod's disk persists them.
LEMMA PersistLog ==
    ASSUME IInv, NEW S \in SUBSET LiveDirs, UNCHANGED <<dirs, content, store, acked>>,
           \A s \in LiveDirs : flushed'[s] = IF s \in S THEN content[s] ELSE flushed[s]
    PROVE  \E R \in SUBSET Buffered : Log!Persist(R)
<1>r. PICK R : R = UNION {content[s] : s \in S}
  OBVIOUS
<1>1. LiveDirs' = LiveDirs /\ StoredRows' = StoredRows /\ Buffered' = Buffered
  BY DEF LiveDirs, StoredRows, Buffered
<1>2. R \in SUBSET Buffered
  BY <1>r DEF Buffered
<1>3. \A s \in LiveDirs : flushed[s] \subseteq content[s]
  BY DEF IInv, FlushInv, LiveDirs
<1>4. Durable' = Durable \cup R
  <2>1. Durable' = UNION {flushed'[s] : s \in LiveDirs}
    BY <1>1 DEF Durable
  <2>2. ASSUME NEW r \in Durable' PROVE r \in Durable \cup R
    BY <1>r, <2>1, <2>2 DEF Durable
  <2>3. ASSUME NEW r \in Durable PROVE r \in Durable'
    <3>1. PICK s \in LiveDirs : r \in flushed[s]
      BY <2>3 DEF Durable
    <3>2. r \in flushed'[s]
      BY <1>3, <3>1
    <3> QED BY <2>1, <3>2
  <2>4. ASSUME NEW r \in R PROVE r \in Durable'
    BY <1>r, <2>1, <2>4
  <2> QED BY <2>2, <2>3, <2>4
<1>5. Log!Persist(R)
  BY <1>1, <1>4 DEF Log!Persist, Buffered, Durable
<1> QED BY <1>2, <1>5

\* The upload of a group writes durable rows that the filter keeps.
LEMMA PutLog ==
    ASSUME IInv, Puts
    PROVE  \E R \in SUBSET Durable : Log!Write(R)
<1>1. PICK g \in Group : /\ Draining /\ PutObject(g)
                         /\ UNCHANGED <<dirs, flushed, content, acked>>
  BY DEF Puts
<1>2. Cur \in LiveDirs /\ flushed[Cur] = content[Cur]
  <2>1. Cur \in Seqs /\ state \in Records /\ dirs[Cur] = "live"
    BY <1>1, CurFacts
  <2>2. Touched(Cur)
    BY <2>1 DEF Touched, Cur
  <2> QED BY <2>1, <2>2 DEF IInv, FlushInv, LiveDirs
<1>3. CurRows(g) \subseteq content[Cur] \ Dropped
  BY DEF CurRows, KeptRows
<1>4. CurRows(g) \in SUBSET Durable
  BY <1>2, <1>3 DEF Durable
<1>5. LiveDirs' = LiveDirs
  BY <1>1 DEF LiveDirs
<1>6. Buffered' = Buffered /\ Durable' = Durable /\ acked' = acked
  BY <1>1, <1>5 DEF Buffered, Durable
<1>7. StoredRows' = StoredRows \cup CurRows(g)
  <2> DEFINE obj == [key |-> CurKey(g), rows |-> CurRows(g)]
  <2>1. store' = {o \in store : o.key # CurKey(g)} \cup {obj} /\ obj.rows = CurRows(g)
    BY <1>1 DEF PutObject, Upload
  <2>2. ASSUME NEW o \in store, o.key = CurKey(g) PROVE o.rows = CurRows(g)
    <3>1. CurKey(g)[1] # 0
      BY <1>2, SMT DEF CurKey, KeyOf, LiveDirs, Seqs
    <3>2. o \in puts
      BY <2>2, <3>1 DEF IInv, PutsInv
    <3> QED BY <1>1, <2>2, <3>2, CurPuts
  <2> HIDE DEF obj
  <2>3. ASSUME NEW r \in StoredRows' PROVE r \in StoredRows \cup CurRows(g)
    BY <2>1, <2>3 DEF StoredRows
  <2>4. ASSUME NEW r \in StoredRows PROVE r \in StoredRows'
    BY <2>1, <2>2, <2>4 DEF StoredRows
  <2>5. ASSUME NEW r \in CurRows(g) PROVE r \in StoredRows'
    BY <2>1, <2>5 DEF StoredRows
  <2> QED BY <2>3, <2>4, <2>5
<1>8. PICK R : R = CurRows(g)
  OBVIOUS
<1>9. R \in SUBSET Durable /\ Log!Write(R)
  BY <1>3, <1>4, <1>6, <1>7, <1>8 DEF Log!Write, Buffered, Durable
<1> QED BY <1>9

\* A merge moves rows from object to object.
LEMMA MergeLog ==
    ASSUME Merges
    PROVE  UNCHANGED Log!logVars
<1>1. PICK t \in Tenants : \E K \in SUBSET KeysOf(t) :
         Merge(t, K) /\ UNCHANGED <<dirs, flushed, content, acked>>
  BY DEF Merges
<1>k. PICK K \in SUBSET KeysOf(t) : Merge(t, K)
  BY <1>1
<1>2. LiveDirs' = LiveDirs
  BY <1>1 DEF LiveDirs
<1>3. Buffered' = Buffered /\ Durable' = Durable /\ acked' = acked
  BY <1>1, <1>2 DEF Buffered, Durable
<1>4. StoredRows \subseteq StoredRows'
  BY <1>k, MergeKeeps
<1>5. StoredRows' \subseteq StoredRows
  <2> DEFINE src == {o \in store : o.key \in K}
             out == [key |-> MergedKey(t), rows |-> UNION {o.rows : o \in src}]
  <2>1. store' = (store \ src) \cup {out}
    BY <1>k DEF Merge
  <2>2. out.rows \subseteq StoredRows
    BY DEF StoredRows
  <2> HIDE DEF out
  <2> QED BY <2>1, <2>2 DEF StoredRows
<1>6. StoredRows' = StoredRows
  BY <1>4, <1>5
<1> QED BY <1>3, <1>6 DEF Log!logVars, Buffered, Durable

\* The removal of a directory begins only when the bucket has its rows; then no
\* other directory has them.
LEMMA RemoveLog ==
    ASSUME IInv, LInv, NEW s \in Seqs, RemoveDir(s)
    PROVE  (\E R \in SUBSET Buffered : Log!Release(R)) \/ UNCHANGED Log!logVars
<1>1. /\ Up /\ s \notin list /\ UNCHANGED <<content, flushed, store, acked>>
      /\ \/ dirs[s] = "live" /\ dirs' = [dirs EXCEPT ![s] = "doomed"]
         \/ dirs[s] = "doomed" /\ dirs' = [dirs EXCEPT ![s] = "none"]
  BY DEF RemoveDir, segVars, bucketVars, histVars, Up
<1>2. dirs \in [Seqs -> {"none", "live", "doomed"}]
  BY DEF IInv, TypeOK
<1>3. StoredRows' = StoredRows
  BY <1>1 DEF StoredRows
<1>4. CASE dirs[s] = "doomed" /\ dirs' = [dirs EXCEPT ![s] = "none"]
  <2>1. LiveDirs' = LiveDirs
    BY <1>2, <1>4 DEF LiveDirs
  <2>2. Buffered' = Buffered /\ Durable' = Durable
    BY <1>1, <2>1 DEF Buffered, Durable
  <2> QED BY <1>1, <1>3, <2>2 DEF Log!logVars, Buffered, Durable
<1>5. CASE dirs[s] = "live" /\ dirs' = [dirs EXCEPT ![s] = "doomed"]
  <2>1. LiveDirs' = LiveDirs \ {s} /\ s \in LiveDirs
    BY <1>2, <1>5 DEF LiveDirs
  <2>2. content[s] \ Dropped \subseteq StoredRows
    <3>1. s <= state.through /\ state \in Records
      BY <1>1, <2>1 DEF IInv, DirInv, Records
    <3> QED BY <3>1 DEF IInv, ThroughInv, AllStored, KeptOf
  <2>3. \A x \in LiveDirs \ {s} : content[x] \cap content[s] = {}
    BY <2>1 DEF LInv, RowsInv, LiveDirs
  <2>4. \A x \in LiveDirs : flushed[x] \subseteq content[x]
    BY DEF IInv, FlushInv, LiveDirs
  <2>5. Buffered' = Buffered \ content[s]
    BY <1>1, <2>1, <2>3 DEF Buffered
  <2>6. Durable' = Durable \ content[s]
    BY <1>1, <2>1, <2>3, <2>4, SMT DEF Durable
  <2>7. PICK R : R = content[s]
    OBVIOUS
  <2>8. R \in SUBSET Buffered /\ Log!Release(R)
    BY <1>1, <1>3, <2>1, <2>2, <2>5, <2>6, <2>7 DEF Log!Release, Buffered, Durable
  <2> QED BY <2>8
<1> QED BY <1>1, <1>4, <1>5

\* Every step of the pod and of the compactors is a step of the log or invisible.
LEMMA LogStep ==
    ASSUME IInv, LInv, [Next]_vars
    PROVE  [Log!Next]_(Log!logVars)
<1> USE DEF diskVars, segVars, drainVars, manVars, bucketVars, histVars
<1>1. CASE Quiet
  BY <1>1, QuietLog
<1>2. CASE \E r \in Rows : AddRow(r)
  BY <1>2, AddRowLog DEF Log!Next
<1>3. CASE PersistParts
  <2>1. /\ active \in LiveDirs /\ flushed' = [flushed EXCEPT ![active] = content[active]]
        /\ UNCHANGED <<dirs, content, store, acked>>
    BY <1>3 DEF PersistParts, IInv, DirInv, Up
  <2>2. flushed \in [Seqs -> SUBSET Rows]
    BY DEF IInv, TypeOK
  <2>3. \A s \in LiveDirs : flushed'[s] = IF s \in {active} THEN content[s] ELSE flushed[s]
    BY <2>1, <2>2 DEF LiveDirs
  <2>4. \E R \in SUBSET Buffered : Log!Persist(R)
    BY <2>1, <2>3, PersistLog
  <2> QED BY <2>4 DEF Log!Next, Buffered
<1>4. CASE SealSwap
  <2>1. /\ Up /\ nextSeq <= MaxSeq /\ dirs' = [dirs EXCEPT ![nextSeq] = "live"]
        /\ UNCHANGED <<content, flushed, store, acked>>
    BY <1>4 DEF SealSwap, Up
  <2>2. dirs \in [Seqs -> {"none", "live", "doomed"}] /\ active \in Seqs
    BY <2>1 DEF IInv, TypeOK, DirInv
  <2>3. nextSeq = active + 1 /\ \A x \in LiveDirs : x <= active
    BY <2>1 DEF IInv, DirInv
  <2>4. \A x \in LiveDirs : x < nextSeq
    BY <2>2, <2>3, SMT DEF LiveDirs, Seqs
  <2>5. LiveDirs' \subseteq LiveDirs \cup {nextSeq} /\ LiveDirs \subseteq LiveDirs'
    BY <2>1, <2>2 DEF LiveDirs
  <2>6. Buffered' = Buffered /\ Durable' = Durable
    BY <2>1, <2>4, <2>5, NewDirIsEmpty
  <2> QED BY <2>1, <2>6 DEF Log!logVars, Buffered, Durable, StoredRows
<1>5. CASE SealReopen
  <2>1. /\ flushed' = [s \in Seqs |-> IF s \in Sealed THEN content[s] ELSE flushed[s]]
        /\ UNCHANGED <<dirs, content, store, acked>> /\ Sealed \subseteq LiveDirs
    BY <1>5 DEF SealReopen, IInv, DirInv, Up, Sealed
  <2>2. \A s \in LiveDirs : flushed'[s] = IF s \in Sealed THEN content[s] ELSE flushed[s]
    BY <2>1 DEF LiveDirs
  <2>3. \E R \in SUBSET Buffered : Log!Persist(R)
    BY <2>1, <2>2, PersistLog
  <2> QED BY <2>3 DEF Log!Next, Buffered
<1>6. CASE Puts
  BY <1>6, PutLog DEF Log!Next, Durable
<1>7. CASE \E s \in Seqs : RemoveDir(s)
  BY <1>7, RemoveLog DEF Log!Next, Buffered
<1>8. CASE Merges
  BY <1>8, MergeLog
<1>9. CASE Crash
  <2>1. /\ content' = flushed /\ UNCHANGED <<flushed, store, acked>>
    BY <1>9 DEF Crash, Down
  <2>2. LiveDirs' = LiveDirs
    BY <1>9, CrashRows, RecordedStays
  <2>3. Buffered' = Durable /\ Durable' = Durable /\ StoredRows' = StoredRows
    BY <2>1, <2>2 DEF Buffered, Durable, StoredRows
  <2>4. Log!Crash
    BY <2>1, <2>3 DEF Log!Crash, Buffered, Durable
  <2> QED BY <2>4 DEF Log!Next
<1>10. CASE Shutdown
  <2>1. flushed' = content /\ UNCHANGED <<dirs, content, store, acked>>
    BY <1>10 DEF Shutdown, Down
  <2>2. \A s \in LiveDirs : flushed'[s] = IF s \in LiveDirs THEN content[s] ELSE flushed[s]
    BY <2>1
  <2>3. \E R \in SUBSET Buffered : Log!Persist(R)
    BY <2>1, <2>2, PersistLog
  <2> QED BY <2>3 DEF Log!Next, Buffered
<1>11. CASE Restarts
  <2>1. PICK q \in 1..(MaxSeq + 1) : RestartKilled(q) \/ \E p \in GroupSizes : Restart(q, p)
    BY <1>11 DEF Restarts
  <2>2. /\ UNCHANGED <<content, flushed, store, acked>> /\ FreshSeq(q)
        /\ \/ dirs' = SwapDirs({}) \/ dirs' = [SwapDirs({}) EXCEPT ![q] = "doomed"]
           \/ dirs' = SwapDirs({q})
    <3>1. CASE RestartKilled(q)
      <4>1. dirs' \in {SwapDirs({})} \cup IF q <= MaxSeq
                        THEN {[SwapDirs({}) EXCEPT ![q] = "doomed"]} ELSE {}
        BY <3>1 DEF RestartKilled
      <4>2. UNCHANGED <<content, flushed, store, acked>> /\ FreshSeq(q)
        BY <3>1 DEF RestartKilled
      <4> QED BY <4>1, <4>2
    <3>2. CASE \E p \in GroupSizes : Restart(q, p)
      BY <3>2 DEF Restart
    <3> QED BY <2>1, <3>1, <3>2
  <2>3. \A x \in LiveDirs : x < q
    BY <2>2 DEF FreshSeq, LiveDirs, OnDisk
  <2>4. q \notin LiveDirs
    BY <2>3, SMT DEF LiveDirs, Seqs
  <2>5. LiveDirs' \subseteq LiveDirs \cup {q}
    BY <2>2 DEF LiveDirs, SwapDirs
  <2>6. LiveDirs \subseteq LiveDirs'
    <3>1. \A x \in LiveDirs : x \in Seqs /\ dirs[x] = "live" /\ x # q
      BY <2>4 DEF LiveDirs
    <3>2. \A x \in LiveDirs : dirs'[x] = "live"
      BY <2>2, <3>1 DEF SwapDirs
    <3> QED BY <3>1, <3>2 DEF LiveDirs
  <2>7. Buffered' = Buffered /\ Durable' = Durable
    BY <2>2, <2>3, <2>5, <2>6, NewDirIsEmpty
  <2> QED BY <2>2, <2>7 DEF Log!logVars, Buffered, Durable, StoredRows
<1>12. TypeOK
  BY DEF IInv
<1> QED BY <1>1, <1>2, <1>3, <1>4, <1>5, <1>6, <1>7, <1>8, <1>9, <1>10, <1>11, <1>12,
           StepKinds

\* The empty buffer and bucket are the empty log.
LEMMA LogInit == Init => Log!Init
<1> SUFFICES ASSUME Init PROVE Log!Init
  OBVIOUS
<1>1. /\ acked = {} /\ store = {} /\ \A s \in LiveDirs : content[s] = {} /\ flushed[s] = {}
  BY DEF Init, LiveDirs
<1> QED BY <1>1 DEF Log!Init, StoredRows

\* The pod, its flusher and the compactors implement the abstract log: an accepted
\* row leaves the disk only once it is in the bucket, and a crash takes the rows
\* that were not durable and no other.
THEOREM LogIsImplemented == Spec => ImplementsLog
<1>1. Init => Log!Init
  BY LogInit
<1>2. IInv /\ LInv /\ [Next]_vars => [Log!Next]_(Log!logVars)
  BY LogStep
<1> QED BY <1>1, <1>2, LogInvariance, PTL DEF Spec, ImplementsLog, Log!Spec
=============================================================================
