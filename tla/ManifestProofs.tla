--------------------------- MODULE ManifestProofs ---------------------------
(***************************************************************************)
(* No delete loses a row: for any number of pods, jobs, keys and crashes,  *)
(* any page size and any cap on the retirements.                           *)
(*                                                                         *)
(* A key is deletable when some pod may still delete its object: it is     *)
(* retired on a pod or in a pod's snapshot, a merge is deleting it, or an  *)
(* update on its way retires it.  The objects that count on are the stored *)
(* ones that are neither deletable nor an output still to be published,    *)
(* which may be abandoned.  Every flushed row is in one of them.  That is  *)
(* not inductive: between the upload of an output and its publish another  *)
(* pod may list the output, merge it and delete it, and the publish then   *)
(* retires the sources all the same.  The rows of such an output are in an *)
(* object with a larger key, which is none of its sources.                 *)
(*                                                                         *)
(* When one pod runs all merges it serves no row twice, except the rows    *)
(* that are excused.  The invariant says that of everything that a listing *)
(* applied now, or one that begins now, may put into the pod's manifest.   *)
(* A retirement may be forgotten only when neither the bucket nor the      *)
(* listing in flight has the object, or when its rows are excused.         *)
(*                                                                         *)
(* A leaf is Zenon's unless it names SMT.                                  *)
(***************************************************************************)
EXTENDS Manifest, FiniteSetTheorems, TLAPS

USE Zenon

Marked(R) == {k \in Keys : R[k] \in {"owed", "unowed"}}

Deletable ==
    {k \in Keys : \/ \E n \in Nodes : k \in Marked(retired[n]) \/ k \in Marked(snap[n].retired)
                  \/ \E j \in Jobs : \/ k \in job[j].left
                                     \/ job[j].stage = "published" /\ k \in job[j].src
                  \/ \E m \in net : k \in m.remove}

Unpublished == {k \in Keys : \E j \in Jobs : job[j].stage = "stored" /\ job[j].out = k}

Cover == store \ (Deletable \cup Unpublished)

JobType == [stage : {"idle", "claimed", "stored", "published", "abandoned"},
            src : SUBSET Keys, out : Outs \cup {0}, left : SUBSET Keys]

ListingType == [on : BOOLEAN, pos : Nat, seen : SUBSET Keys, added : SUBSET Keys,
                late : SUBSET Keys, must : SUBSET Raw]

UpdateType == [to : Nodes, add : Outs \cup {0}, remove : SUBSET Keys]

BucketOK == /\ store \subseteq Keys
            /\ rows \in [Keys -> SUBSET Raw]
            /\ flush \in [Raw -> {"new", "stored", "done"}]
NodesOK == /\ up \in [Nodes -> BOOLEAN]
           /\ tracked \in [Nodes -> SUBSET Keys]
           /\ retired \in [Nodes -> [Keys -> Retirement]]
           /\ pending \in [Nodes -> SUBSET Outs]
\* A key is tracked, retired or pending; a pod that is down has nothing pending.
Apart == \A n \in Nodes : /\ \A k \in tracked[n] : retired[n][k] = "no"
                          /\ \A k \in pending[n] : retired[n][k] = "no" /\ k \notin tracked[n]
                          /\ ~up[n] => pending[n] = {}
ListingsOK == listing \in [Nodes -> ListingType]
SnapsOK == /\ snap \in [Nodes -> [tracked : SUBSET Keys, retired : [Keys -> Retirement]]]
           /\ \A n \in Nodes : \A k \in snap[n].tracked : snap[n].retired[k] = "no"
WorkOK == job \in [Jobs -> JobType] /\ net \subseteq UpdateType

Types == BucketOK /\ NodesOK /\ Apart /\ ListingsOK /\ SnapsOK /\ WorkOK

\* A key without an object was never stored, retired or named in an update; an object
\* that was deleted does not come back; only flushed rows are in objects.
WrittenInv ==
    /\ \A k \in Keys : rows[k] = {} =>
          /\ k \notin store
          /\ \A n \in Nodes : retired[n][k] = "no" /\ snap[n].retired[k] = "no"
          /\ \A m \in net : k \notin m.remove
    /\ \A n \in Nodes, k \in Keys :
          retired[n][k] = "deleted" \/ snap[n].retired[k] = "deleted" => k \notin store
    /\ \A f \in Raw : flush[f] = "new" <=> rows[f] = {}
    /\ \A k \in Keys : \A f \in rows[k] : flush[f] # "new"

\* What a merge knows: its sources were written and come before its output, which no
\* other merge writes.
JobOK(j) ==
    /\ job[j].stage = "idle" => job[j].left = {}
    /\ job[j].stage # "idle" => /\ job[j].out \in Outs /\ job[j].src # {}
                                /\ \A k \in job[j].src : k < job[j].out /\ rows[k] # {}
    /\ job[j].stage = "claimed" => rows[job[j].out] = {} /\ job[j].left = {}
    /\ job[j].stage = "stored" => /\ rows[job[j].out] = RowsOf(job[j].src)
                                  /\ rows[job[j].out] # {} /\ job[j].left = {}
    /\ job[j].stage = "published" => job[j].left \subseteq job[j].src
    /\ job[j].stage = "abandoned" => job[j].left \subseteq {job[j].out} /\ rows[job[j].out] # {}

JobsInv ==
    /\ \A j \in Jobs : JobOK(j)
    /\ \A i, j \in Jobs : job[i].stage # "idle" /\ job[j].stage # "idle"
                          /\ job[i].out = job[j].out => i = j

CoverInv ==
    /\ \A f \in Raw : flush[f] # "new" => \E c \in Cover : f \in rows[c]
    /\ \A k \in Unpublished :
          k \in store \ Deletable \/ \A r \in rows[k] : \E c \in Cover : k < c /\ r \in rows[c]

IInv == Types /\ WrittenInv /\ JobsInv /\ CoverInv

-----------------------------------------------------------------------------
(* The initial state. *)

\* The initial state of the manifests satisfies the invariant.
LEMMA InitIInv == Init => IInv
<1> SUFFICES ASSUME Init PROVE IInv
  OBVIOUS
<1>1. Types
  BY DEF Init, Types, BucketOK, NodesOK, Apart, ListingsOK, SnapsOK, WorkOK, NoSnap, NoListing,
         NoJob, ListingType, JobType, Retirement, Keys
<1>2. WrittenInv
  BY DEF Init, WrittenInv, NoSnap, Keys
<1>3. JobsInv
  BY DEF Init, JobsInv, JobOK, NoJob
<1>4. CoverInv
  BY DEF Init, CoverInv, Unpublished, NoJob
<1>5. QED
  BY <1>1, <1>2, <1>3, <1>4 DEF IInv

-----------------------------------------------------------------------------
(* Types. *)

\* The constants: keys are numbers, and jobs and flushes run on pods.
LEMMA KeysAreNumbers ==
    /\ Keys \subseteq Nat
    /\ \A f \in Raw, o \in Outs : f # o
    /\ \A j \in Jobs : RunsOn[j] \in Nodes
    /\ \A f \in Raw : WriterOf[f] \in Nodes
BY ManifestAssumption, SMT DEF ManifestAssumption, Keys

\* addFileLocked keeps the types, and what it adds is neither pending nor retired.
LEMMA AddFilesTypes ==
    ASSUME Types, NEW n \in Nodes, NEW K \in SUBSET Keys, AddFiles(n, K), up' = up
    PROVE  NodesOK' /\ Apart' /\ ListingsOK'
<1> USE DEF Types, AddFiles
<1> DEFINE new == K \ tracked[n]
           X == IF listing[n].on THEN listing[n].added \cup new ELSE listing[n].added
<1>1. NodesOK'
  BY DEF NodesOK, Retirement
<1>2. Apart'
  <2> SUFFICES ASSUME NEW i \in Nodes
               PROVE  /\ \A k \in tracked'[i] : retired'[i][k] = "no"
                      /\ \A k \in pending'[i] : retired'[i][k] = "no" /\ k \notin tracked'[i]
                      /\ ~up'[i] => pending'[i] = {}
    BY DEF Apart
  <2>1. CASE i = n
    <3>1. tracked'[i] = tracked[n] \cup new /\ pending'[i] = pending[n] \ new
      BY <2>1 DEF NodesOK
    <3>2. \A k \in Keys : retired'[i][k] = IF k \in new THEN "no" ELSE retired[n][k]
      BY <2>1 DEF NodesOK
    <3>3. tracked[n] \subseteq Keys /\ pending[n] \subseteq Keys
      BY DEF NodesOK, Keys
    <3>4. QED
      BY <3>1, <3>2, <3>3, <2>1, SMT DEF Apart
  <2>2. CASE i # n
    BY <2>2 DEF NodesOK, Apart
  <2>3. QED
    BY <2>1, <2>2
<1>3. ListingsOK'
  <2>1. listing[n] \in ListingType /\ X \in SUBSET Keys
    BY DEF ListingsOK, ListingType
  <2>2. [listing[n] EXCEPT !.added = X] \in ListingType
    BY <2>1 DEF ListingType
  <2>3. listing' = [listing EXCEPT ![n] = [listing[n] EXCEPT !.added = X]]
    BY DEF ListingsOK
  <2>4. QED
    BY <2>2, <2>3 DEF ListingsOK
<1>4. QED
  BY <1>1, <1>2, <1>3

\* retireLocked keeps the types, and what it retires is neither tracked nor pending.
LEMMA RetireFilesTypes ==
    ASSUME Types, NEW n \in Nodes, NEW K \in SUBSET Keys, NEW reclaim \in BOOLEAN,
           RetireFiles(n, K, reclaim), up' = up
    PROVE  NodesOK' /\ Apart' /\ ListingsOK'
<1> USE DEF Types, RetireFiles
<1>1. NodesOK'
  BY DEF NodesOK, Retirement
<1>2. Apart'
  <2> SUFFICES ASSUME NEW i \in Nodes
               PROVE  /\ \A k \in tracked'[i] : retired'[i][k] = "no"
                      /\ \A k \in pending'[i] : retired'[i][k] = "no" /\ k \notin tracked'[i]
                      /\ ~up'[i] => pending'[i] = {}
    BY DEF Apart
  <2>1. CASE i = n
    <3>1. tracked'[i] = tracked[n] \ K /\ pending'[i] = pending[n] \ K
      BY <2>1 DEF NodesOK
    <3>2. \A k \in Keys \ K : retired'[i][k] = retired[n][k]
      BY <2>1 DEF NodesOK
    <3>3. tracked[n] \subseteq Keys /\ pending[n] \subseteq Keys
      BY DEF NodesOK, Keys
    <3>4. QED
      BY <3>1, <3>2, <3>3, <2>1 DEF Apart
  <2>2. CASE i # n
    BY <2>2 DEF NodesOK, Apart
  <2>3. QED
    BY <2>1, <2>2
<1>3. ListingsOK'
  BY SMTT(30) DEF ListingsOK, ListingType
<1>4. QED
  BY <1>1, <1>2, <1>3

\* ConfirmDeleted changes only a retirement.
LEMMA ConfirmDeletedTypes ==
    ASSUME Types, NEW n \in Nodes, NEW k \in Keys, retired' = ConfirmDeleted(n, k),
           UNCHANGED <<up, tracked, pending>>
    PROVE  NodesOK' /\ Apart'
BY SMT DEF Types, NodesOK, Apart, ConfirmDeleted, Retirement

\* Every action keeps the types.
LEMMA TypesStep == Types /\ JobsInv /\ [Next]_vars => Types'
<1> SUFFICES ASSUME Types, JobsInv, [Next]_vars PROVE Types'
  OBVIOUS
<1> USE KeysAreNumbers DEF Types
<1>1. ASSUME NEW f \in Raw, StoreFlush(f) PROVE Types'
  <2>1. BucketOK'
    BY <1>1 DEF StoreFlush, BucketOK, Keys
  <2>2. QED
    BY <1>1, <2>1, SMT DEF StoreFlush, nodeVars, NodesOK, Apart, ListingsOK, SnapsOK, WorkOK
<1>2. ASSUME NEW f \in Raw, RegisterFlush(f) PROVE Types'
  <2>1. NodesOK' /\ Apart' /\ ListingsOK'
    <3>1. CASE RetireFiles(WriterOf[f], {f}, TRUE)
      BY <1>2, <3>1, RetireFilesTypes DEF RegisterFlush, Keys
    <3>2. CASE AddFiles(WriterOf[f], {f})
      BY <1>2, <3>2, AddFilesTypes DEF RegisterFlush, Keys
    <3>3. QED
      BY <1>2, <3>1, <3>2 DEF RegisterFlush
  <2>2. BucketOK'
    BY <1>2 DEF RegisterFlush, bucketVars, BucketOK
  <2>3. QED
    BY <1>2, <2>1, <2>2 DEF RegisterFlush, SnapsOK, WorkOK
<1>3. ASSUME NEW j \in Jobs, NEW S \in SUBSET tracked[RunsOn[j]], NEW o \in Outs, ClaimOutput(j, S, o)
      PROVE  Types'
  <2>1. NodesOK'
    BY <1>3 DEF ClaimOutput, NodesOK
  <2>2. Apart'
    BY <1>3, SMT DEF ClaimOutput, NodesOK, Apart, Retired, Keys
  <2>3. WorkOK'
    BY <1>3 DEF ClaimOutput, NodesOK, WorkOK, JobType
  <2>4. QED
    BY <1>3, <2>1, <2>2, <2>3 DEF ClaimOutput, bucketVars, BucketOK, ListingsOK, SnapsOK
<1>4. ASSUME NEW j \in Jobs, StoreOutput(j) PROVE Types'
  <2>1. RowsOf(job[j].src) \subseteq Raw
    BY SMT DEF RowsOf, BucketOK, WorkOK, JobType
  <2>2. BucketOK'
    BY ZenonT(60), <1>4, <2>1 DEF StoreOutput, BucketOK, JobsInv, JobOK, Keys
  <2>3. WorkOK'
    BY <1>4 DEF StoreOutput, WorkOK, JobType
  <2>4. QED
    BY <1>4, <2>2, <2>3 DEF StoreOutput, nodeVars, NodesOK, Apart, ListingsOK, SnapsOK
<1>5. ASSUME NEW j \in Jobs, StoreOutputError(j) PROVE Types'
  <2>1. RowsOf(job[j].src) \subseteq Raw
    BY SMT DEF RowsOf, BucketOK, WorkOK, JobType
  <2>2. BucketOK'
    BY <1>5, <2>1, SMT DEF StoreOutputError, bucketVars, BucketOK, JobsInv, JobOK, Keys
  <2>3. WorkOK'
    BY <1>5 DEF StoreOutputError, WorkOK, JobType, NoJob
  <2>4. NodesOK'
    BY <1>5 DEF StoreOutputError, NodesOK
  <2>5. Apart'
    BY <1>5 DEF StoreOutputError, NodesOK, Apart
  <2>6. QED
    BY <1>5, <2>2, <2>3, <2>4, <2>5 DEF StoreOutputError, ListingsOK, SnapsOK
<1>6. ASSUME NEW j \in Jobs, Publish(j) PROVE Types'
  <2> DEFINE n == RunsOn[j]
             S == job[j].src
             o == job[j].out
             l == listing[n]
             X == IF l.on THEN l.added \cup {o} ELSE l.added
             Y == IF l.on THEN l.late \cup S ELSE l.late
  <2>1. S \subseteq Keys /\ o \in Outs /\ o \in Keys /\ o \notin S
    BY <1>6, SMT DEF Publish, WorkOK, JobType, JobsInv, JobOK, Keys
  <2>2. NodesOK'
    BY <1>6, <2>1 DEF Publish, NodesOK, Retirement
  <2>3. Apart'
    <3> SUFFICES ASSUME NEW i \in Nodes
                 PROVE  /\ \A k \in tracked'[i] : retired'[i][k] = "no"
                        /\ \A k \in pending'[i] : retired'[i][k] = "no" /\ k \notin tracked'[i]
                        /\ ~up'[i] => pending'[i] = {}
      BY DEF Apart
    <3>1. CASE i = n
      <4>1. tracked'[i] = (tracked[n] \ S) \cup {o} /\ pending'[i] = pending[n] \ {o} /\ up' = up
        BY <1>6, <3>1 DEF Publish, NodesOK
      <4>2. \A k \in Keys : retired'[i][k] = IF k \in S THEN "owed" ELSE IF k = o THEN "no" ELSE retired[n][k]
        BY <1>6, <3>1 DEF Publish, NodesOK
      <4>3. S \subseteq tracked[n]
        BY <1>6 DEF Publish, MayReplace
      <4>4. QED
        BY <2>1, <3>1, <4>1, <4>2, <4>3, SMT DEF NodesOK, Apart, Keys
    <3>2. CASE i # n
      BY <1>6, <3>2 DEF Publish, NodesOK, Apart
    <3>3. QED
      BY <3>1, <3>2
  <2>4. ListingsOK'
    <3>1. l \in ListingType /\ X \in SUBSET Keys /\ Y \in SUBSET Keys
      BY <2>1 DEF ListingsOK, ListingType
    <3>2. [l EXCEPT !.added = X, !.late = Y] \in ListingType
      BY <3>1 DEF ListingType
    <3>3. listing' = [listing EXCEPT ![n] = [l EXCEPT !.added = X, !.late = Y]]
      BY <1>6 DEF Publish, ListingsOK
    <3>4. QED
      BY <3>1, <3>2, <3>3 DEF ListingsOK
  <2>5. WorkOK'
    <3>1. job' = [job EXCEPT ![j].stage = "published", ![j].left = S] /\ net' = net
      BY <1>6 DEF Publish
    <3>2. \A i \in Jobs : job'[i] \in JobType
      BY ZenonT(60), <2>1, <3>1 DEF WorkOK, JobType
    <3>3. QED
      BY <3>1, <3>2 DEF WorkOK
  <2>6. QED
    BY <1>6, <2>2, <2>3, <2>4, <2>5 DEF Publish, bucketVars, BucketOK, SnapsOK
<1>7. ASSUME NEW j \in Jobs, Abandon(j) PROVE Types'
  <2>1. job[j].out \in Outs /\ job[j].out \in Keys
    BY <1>7 DEF Abandon, JobsInv, JobOK, Keys
  <2>2. NodesOK' /\ Apart' /\ ListingsOK'
    BY <1>7, <2>1, RetireFilesTypes DEF Abandon
  <2>3. WorkOK'
    <3>1. job' = [job EXCEPT ![j].stage = "abandoned", ![j].left = {job[j].out}] /\ net' = net
      BY <1>7 DEF Abandon
    <3>2. \A i \in Jobs : job'[i] \in JobType
      BY <2>1, <3>1 DEF WorkOK, JobType
    <3>3. QED
      BY <3>1, <3>2 DEF WorkOK
  <2>4. QED
    BY <1>7, <2>2, <2>3 DEF Abandon, bucketVars, BucketOK, SnapsOK
<1>8. ASSUME NEW j \in Jobs, NEW k \in Keys, DeleteObject(j, k) PROVE Types'
  <2>1. NodesOK' /\ Apart'
    BY <1>8, ConfirmDeletedTypes DEF DeleteObject
  <2>2. WorkOK'
    BY <1>8 DEF DeleteObject, WorkOK, JobType
  <2>3. QED
    BY <1>8, <2>1, <2>2 DEF DeleteObject, BucketOK, ListingsOK, SnapsOK
<1>9. ASSUME NEW j \in Jobs, NEW k \in Keys, DeleteError(j, k) PROVE Types'
  <2>1. WorkOK'
    BY <1>9 DEF DeleteError, WorkOK, JobType
  <2>2. QED
    BY <1>9, <2>1 DEF DeleteError, BucketOK, nodeVars, NodesOK, Apart, ListingsOK, SnapsOK
<1>10. ASSUME NEW j \in Jobs, FinishJob(j) PROVE Types'
  <2>1. job[j].out \in Outs /\ job[j].src \subseteq Keys
    BY <1>10 DEF FinishJob, WorkOK, JobType, JobsInv, JobOK
  <2>2. WorkOK'
    BY <1>10, <2>1, SMT DEF FinishJob, WorkOK, JobType, NoJob, UpdateType
  <2>3. QED
    BY <1>10, <2>2 DEF FinishJob, bucketVars, BucketOK, nodeVars, NodesOK, Apart, ListingsOK, SnapsOK
<1>11. ASSUME NEW n \in Nodes, NEW k \in Keys, DeleteRetired(n, k) PROVE Types'
  <2>1. NodesOK' /\ Apart'
    BY <1>11, ConfirmDeletedTypes DEF DeleteRetired
  <2>2. QED
    BY <1>11, <2>1 DEF DeleteRetired, BucketOK, ListingsOK, SnapsOK, WorkOK, workVars
<1>12. ASSUME NEW n \in Nodes, StartListing(n) PROVE Types'
  <2>1. RowsOf(store) \subseteq Raw
    BY DEF RowsOf, BucketOK
  <2>2. ListingsOK'
    BY <1>12, <2>1 DEF StartListing, ListingsOK, NoListing, ListingType
  <2>3. QED
    BY <1>12, <2>2 DEF StartListing, bucketVars, BucketOK, NodesOK, Apart, SnapsOK, WorkOK, workVars
<1>13. ASSUME NEW n \in Nodes, NEW p \in PageEnds, ReadPage(n, p) PROVE Types'
  <2> DEFINE page == {k \in store : listing[n].pos < k /\ k <= p}
  <2>1. p \in Nat /\ page \subseteq Keys
    BY ManifestAssumption DEF ManifestAssumption, BucketOK
  <2>2. [listing[n] EXCEPT !.pos = p, !.seen = listing[n].seen \cup page] \in ListingType
    BY <2>1 DEF ListingsOK, ListingType
  <2>3. listing' = [listing EXCEPT ![n] = [listing[n] EXCEPT !.pos = p, !.seen = listing[n].seen \cup page]]
    BY <1>13 DEF ReadPage, ListingsOK
  <2>4. ListingsOK'
    BY <2>2, <2>3 DEF ListingsOK
  <2>5. QED
    BY <1>13, <2>4 DEF ReadPage, bucketVars, BucketOK, NodesOK, Apart, SnapsOK, WorkOK, workVars
<1>14. ASSUME NEW n \in Nodes, ApplyListing(n) PROVE Types'
  <2>1. PICK E \in SUBSET Keys : retired' = [retired EXCEPT ![n] = Without(Without(retired[n], Settled(n)), E)]
    <3>1. PICK E \in Evictions(Without(retired[n], Settled(n))) :
             retired' = [retired EXCEPT ![n] = Without(Without(retired[n], Settled(n)), E)]
      BY <1>14 DEF ApplyListing
    <3>2. E \in SUBSET Keys
      BY DEF Evictions
    <3>3. QED
      BY <3>1, <3>2
  <2>2. Merged(n) \subseteq Keys /\ \A k \in Merged(n) : retired[n][k] = "no" /\ k \notin pending[n]
    BY DEF Merged, NodesOK, Apart, ListingsOK, ListingType, Retired
  <2>3. NodesOK'
    BY <1>14, <2>1, <2>2, SMT DEF ApplyListing, NodesOK, Without, Retirement
  <2>4. \A k \in Keys : retired[n][k] = "no" => retired'[n][k] = "no"
    BY <2>1 DEF NodesOK, Without
  <2>5. \A i \in Nodes : i # n => retired'[i] = retired[i]
    BY <2>1 DEF NodesOK
  <2>6. Apart'
    BY <1>14, <2>2, <2>4, <2>5, SMT DEF ApplyListing, NodesOK, Apart, Keys
  <2>7. ListingsOK'
    BY <1>14 DEF ApplyListing, ListingsOK, NoListing, ListingType
  <2>8. QED
    BY <1>14, <2>3, <2>6, <2>7 DEF ApplyListing, bucketVars, BucketOK, SnapsOK, WorkOK, workVars
<1>15. ASSUME NEW n \in Nodes, DropListing(n) PROVE Types'
  <2>1. ListingsOK'
    BY <1>15 DEF DropListing, ListingsOK, NoListing, ListingType
  <2>2. QED
    BY <1>15, <2>1 DEF DropListing, bucketVars, BucketOK, NodesOK, Apart, SnapsOK, WorkOK, workVars
<1>16. ASSUME NEW m \in net, UpdateAdded(m) PROVE Types'
  <2>1. m \in UpdateType /\ m.to \in Nodes /\ m.add \in Keys
    BY <1>16 DEF UpdateAdded, WorkOK, UpdateType, Keys
  <2>2. NodesOK' /\ Apart' /\ ListingsOK'
    BY <1>16, <2>1, AddFilesTypes DEF UpdateAdded
  <2>3. WorkOK'
    BY <1>16, <2>1 DEF UpdateAdded, WorkOK, UpdateType
  <2>4. QED
    BY <1>16, <2>2, <2>3 DEF UpdateAdded, bucketVars, BucketOK, SnapsOK
<1>17. ASSUME NEW m \in net, UpdateRemoved(m) PROVE Types'
  <2>1. m.to \in Nodes /\ m.remove \in SUBSET Keys
    BY DEF WorkOK, UpdateType
  <2>2. NodesOK' /\ Apart' /\ ListingsOK'
    BY <1>17, <2>1, RetireFilesTypes DEF UpdateRemoved
  <2>3. QED
    BY <1>17, <2>2 DEF UpdateRemoved, WorkOK, bucketVars, BucketOK, SnapsOK
<1>18. ASSUME NEW m \in net, LoseUpdate(m) PROVE Types'
  BY <1>18 DEF LoseUpdate, bucketVars, BucketOK, nodeVars, NodesOK, Apart, ListingsOK, SnapsOK, WorkOK
<1>19. ASSUME NEW n \in Nodes, SaveTo(n) PROVE Types'
  <2>1. PICK E \in SUBSET Keys :
             /\ retired' = [retired EXCEPT ![n] = Without(retired[n], E)]
             /\ snap' = [snap EXCEPT ![n] = [tracked |-> tracked[n], retired |-> Without(retired[n], E)]]
    BY <1>19 DEF SaveTo, Evictions, NodesOK
  <2>2. /\ Without(retired[n], E) \in [Keys -> Retirement]
        /\ \A k \in Keys : retired[n][k] = "no" => Without(retired[n], E)[k] = "no"
    BY SMT DEF Without, NodesOK, Retirement
  <2>3. NodesOK'
    BY <1>19, <2>1, <2>2 DEF SaveTo, NodesOK
  <2>4. Apart'
    BY <1>19, <2>1, <2>2, SMTT(30) DEF SaveTo, NodesOK, Apart, Keys
  <2>5. SnapsOK'
    <3>1. snap'[n] = [tracked |-> tracked[n], retired |-> Without(retired[n], E)]
      BY <2>1 DEF SnapsOK
    <3>2. \A i \in Nodes : i # n => snap'[i] = snap[i]
      BY <2>1 DEF SnapsOK
    <3>3. \A i \in Nodes : /\ snap'[i] \in [tracked : SUBSET Keys, retired : [Keys -> Retirement]]
                           /\ \A k \in snap'[i].tracked : snap'[i].retired[k] = "no"
      <4>1. \A i \in Nodes : i # n => /\ snap'[i] \in [tracked : SUBSET Keys, retired : [Keys -> Retirement]]
                                      /\ \A k \in snap'[i].tracked : snap'[i].retired[k] = "no"
        <5>1. \A i \in Nodes : /\ snap[i] \in [tracked : SUBSET Keys, retired : [Keys -> Retirement]]
                               /\ \A k \in snap[i].tracked : snap[i].retired[k] = "no"
          BY DEF SnapsOK
        <5>2. QED
          BY ONLY <3>2, <5>1, Zenon
      <4>2. /\ snap'[n] \in [tracked : SUBSET Keys, retired : [Keys -> Retirement]]
            /\ \A k \in snap'[n].tracked : snap'[n].retired[k] = "no"
        <5>1. tracked[n] \subseteq Keys /\ \A k \in tracked[n] : Without(retired[n], E)[k] = "no"
          BY <2>2 DEF NodesOK, Apart
        <5>2. QED
          BY <2>2, <3>1, <5>1, SMT
      <4>3. QED
        BY <4>1, <4>2
    <3>4. QED
      BY <2>1, <3>3 DEF SnapsOK
  <2>6. QED
    BY <1>19, <2>3, <2>4, <2>5 DEF SaveTo, bucketVars, BucketOK, ListingsOK, WorkOK, workVars
<1>20. ASSUME NEW n \in Nodes, Crash(n) PROVE Types'
  <2>1. BucketOK'
    BY <1>20 DEF Crash, bucketVars, BucketOK
  <2>2. NodesOK'
    BY <1>20 DEF Crash, NodesOK, NoSnap, Retirement
  <2>3. Apart'
    BY <1>20 DEF Crash, NodesOK, Apart
  <2>4. ListingsOK'
    BY <1>20 DEF Crash, ListingsOK, NoListing, ListingType
  <2>5. WorkOK'
    BY <1>20 DEF Crash, WorkOK, NoJob, JobType
  <2>6. QED
    BY <1>20, <2>1, <2>2, <2>3, <2>4, <2>5 DEF Crash, SnapsOK
<1>21. ASSUME NEW n \in Nodes, Restart(n) PROVE Types'
  <2>1. NodesOK'
    BY <1>21 DEF Restart, NodesOK, SnapsOK
  <2>2. Apart'
    BY <1>21 DEF Restart, NodesOK, Apart, SnapsOK
  <2>3. QED
    BY <1>21, <2>1, <2>2 DEF Restart, bucketVars, BucketOK, ListingsOK, SnapsOK, WorkOK, workVars
<1>22. CASE UNCHANGED vars
  BY <1>22 DEF vars, bucketVars, nodeVars, workVars, BucketOK, NodesOK, Apart, ListingsOK, SnapsOK, WorkOK
<1>23. QED
  BY <1>1, <1>2, <1>3, <1>4, <1>5, <1>6, <1>7, <1>8, <1>9, <1>10, <1>11, <1>12, <1>13, <1>14,
     <1>15, <1>16, <1>17, <1>18, <1>19, <1>20, <1>21, <1>22
     DEF Next, JobStep, Deliver, Reclaim, SweepOrphan

-----------------------------------------------------------------------------
(* Merges. *)

\* What a merge knows stays true while objects are only written under new keys.
LEMMA JobKeeps ==
    ASSUME Types, NEW i \in Jobs, JobOK(i), job'[i] = job[i],
           \A k \in Keys : rows[k] # {} => rows'[k] = rows[k],
           job[i].stage = "claimed" => rows'[job[i].out] = {}
    PROVE  JobOK(i)'
<1>1. job[i].src \subseteq Keys /\ (job[i].stage # "idle" => job[i].out \in Keys)
  BY DEF Types, WorkOK, JobType, JobOK, Keys
<1>2. job[i].stage = "stored" => RowsOf(job[i].src)' = RowsOf(job[i].src)
  <2> SUFFICES ASSUME job[i].stage = "stored" PROVE RowsOf(job[i].src)' = RowsOf(job[i].src)
    OBVIOUS
  <2>1. \A k \in job[i].src : rows'[k] = rows[k]
    BY <1>1 DEF JobOK
  <2>2. QED
    BY <2>1, SMT DEF RowsOf
<1>3. QED
  BY <1>1, <1>2 DEF JobOK

\* One merge goes on and the others keep what they know.
LEMMA JobMoves ==
    ASSUME Types, JobsInv, NEW j \in Jobs,
           \A i \in Jobs : i # j => job'[i] = job[i],
           \A k \in Keys : rows[k] # {} => rows'[k] = rows[k],
           \A i \in Jobs : i # j /\ job[i].stage = "claimed" => rows'[job[i].out] = {},
           JobOK(j)',
           job'[j].stage = "idle" \/ (job[j].stage # "idle" /\ job'[j].out = job[j].out)
    PROVE  JobsInv'
<1>1. \A i \in Jobs : JobOK(i)'
  BY JobKeeps DEF JobsInv
<1>2. QED
  BY <1>1, SMT DEF JobsInv

\* The rows of a merge's sources: some, since each source was written.
LEMMA SourceRows ==
    ASSUME Types, NEW j \in Jobs, JobOK(j), job[j].stage # "idle"
    PROVE  RowsOf(job[j].src) # {}
BY SMT DEF RowsOf, JobOK

\* Merges keep their sources and outputs apart, whatever else happens.
LEMMA JobsStep == Types /\ WrittenInv /\ JobsInv /\ [Next]_vars => JobsInv'
<1> SUFFICES ASSUME Types, WrittenInv, JobsInv, [Next]_vars PROVE JobsInv'
  OBVIOUS
<1> USE KeysAreNumbers
<1>1. ASSUME NEW f \in Raw, StoreFlush(f) PROVE JobsInv'
  <2>1. rows[f] = {} /\ job' = job /\ rows' = [rows EXCEPT ![f] = {f}]
    BY <1>1 DEF StoreFlush, WrittenInv
  <2>2. \A k \in Keys : k # f => rows'[k] = rows[k]
    BY <2>1 DEF Types, BucketOK
  <2>3. ASSUME NEW i \in Jobs PROVE JobOK(i)'
    <3>1. job[i].stage = "claimed" => rows'[job[i].out] = {}
      BY <2>2 DEF JobsInv, JobOK, Keys
    <3>2. QED
      BY <2>1, <2>2, <3>1, JobKeeps DEF JobsInv
  <2>4. QED
    BY <2>1, <2>3 DEF JobsInv
<1>2. ASSUME NEW j \in Jobs, NEW S \in SUBSET tracked[RunsOn[j]], NEW o \in Outs, ClaimOutput(j, S, o)
      PROVE  JobsInv'
  <2>1. /\ rows' = rows /\ rows[o] = {}
        /\ S \subseteq Keys /\ S \subseteq store /\ \A k \in S : k < o
        /\ \A i \in Jobs : job[i].out # o
        /\ job' = [job EXCEPT ![j] = [stage |-> "claimed", src |-> S, out |-> o, left |-> {}]]
    BY <1>2 DEF ClaimOutput, bucketVars, Types, NodesOK
  <2>2. S # {}
    <3>1. Cardinality({}) = 0
      BY FS_EmptySet
    <3>2. Cardinality(S) >= 2
      BY <1>2 DEF ClaimOutput
    <3>3. Cardinality(S) # Cardinality({})
      BY <3>1, <3>2, SMT
    <3>4. QED
      BY <3>3
  <2>3. \A k \in S : rows[k] # {}
    BY <2>1 DEF WrittenInv
  <2>4. ASSUME NEW i \in Jobs PROVE JobOK(i)'
    <3>1. CASE i = j
      <4>1. job'[i] = [stage |-> "claimed", src |-> S, out |-> o, left |-> {}]
        BY <2>1, <3>1 DEF Types, WorkOK
      <4>2. job'[i].stage = "claimed" /\ job'[i].src = S /\ job'[i].out = o /\ job'[i].left = {}
        BY <4>1, SMT
      <4>3. QED
        BY <2>1, <2>2, <2>3, <4>2 DEF JobOK
    <3>2. CASE i # j
      <4>1. job'[i] = job[i] /\ (job[i].stage = "claimed" => rows'[job[i].out] = {})
        BY <2>1, <3>2 DEF JobsInv, JobOK, Types, WorkOK
      <4>2. QED
        BY <2>1, <4>1, JobKeeps DEF JobsInv
    <3>3. QED
      BY <3>1, <3>2
  <2>5. \A i \in Jobs : i # j => job'[i] = job[i]
    BY <2>1 DEF Types, WorkOK
  <2>6. job'[j].out = o
    BY <2>1 DEF Types, WorkOK
  <2>7. QED
    BY <2>1, <2>4, <2>5, <2>6, SMT DEF JobsInv
<1>3. ASSUME NEW j \in Jobs, StoreOutput(j) PROVE JobsInv'
  <2>1. JobOK(j) /\ job[j].out \in Keys /\ job[j].out \in Outs /\ rows[job[j].out] = {}
    BY <1>3 DEF StoreOutput, JobsInv, JobOK, Keys
  <2>2. /\ rows' = [rows EXCEPT ![job[j].out] = RowsOf(job[j].src)]
        /\ job' = [job EXCEPT ![j].stage = "stored"]
    BY <1>3 DEF StoreOutput
  <2>3. /\ \A k \in Keys : k # job[j].out => rows'[k] = rows[k]
        /\ rows'[job[j].out] = RowsOf(job[j].src)
    BY <2>1, <2>2 DEF Types, BucketOK
  <2>4. /\ \A i \in Jobs : i # j => job'[i] = job[i]
        /\ job'[j].stage = "stored" /\ job'[j].src = job[j].src /\ job'[j].out = job[j].out
        /\ job'[j].left = job[j].left
    BY <2>2 DEF Types, WorkOK, JobType
  <2>5. job[j].src \subseteq Keys /\ \A k \in job[j].src : k # job[j].out /\ rows[k] # {}
    BY <1>3, <2>1 DEF StoreOutput, JobOK, Types, WorkOK, JobType
  <2>6. RowsOf(job[j].src)' = RowsOf(job[j].src)
    <3>1. \A k \in job[j].src : rows'[k] = rows[k]
      BY <2>3, <2>5
    <3>2. {rows'[k] : k \in job'[j].src} = {rows[k] : k \in job[j].src}
      BY <2>4, <3>1
    <3>3. QED
      BY <3>2 DEF RowsOf
  <2>7. JobOK(j)'
    <3>1. RowsOf(job[j].src) # {} /\ job[j].stage = "claimed"
      BY <1>3, <2>1, SourceRows DEF StoreOutput
    <3>2. \A k \in job[j].src : rows'[k] # {}
      BY <2>3, <2>5
    <3>3. QED
      BY <2>1, <2>3, <2>4, <2>6, <3>1, <3>2 DEF JobOK
  <2>8. \A i \in Jobs : i # j /\ job[i].stage = "claimed" => rows'[job[i].out] = {}
    BY <1>3, <2>3 DEF StoreOutput, JobsInv, JobOK, Keys
  <2>9. QED
    BY <1>3, <2>1, <2>3, <2>4, <2>7, <2>8, JobMoves DEF StoreOutput
<1>4. ASSUME NEW j \in Jobs, StoreOutputError(j) PROVE JobsInv'
  <2>1. JobOK(j) /\ job[j].out \in Keys /\ job[j].out \in Outs /\ rows[job[j].out] = {}
    BY <1>4 DEF StoreOutputError, JobsInv, JobOK, Keys
  <2>2. \A k \in Keys : k # job[j].out => rows'[k] = rows[k]
    BY <1>4, <2>1 DEF StoreOutputError, bucketVars, Types, BucketOK
  <2>3. job'[j] = NoJob /\ \A i \in Jobs : i # j => job'[i] = job[i]
    BY <1>4 DEF StoreOutputError, Types, WorkOK
  <2>4. \A i \in Jobs : i # j /\ job[i].stage = "claimed" => rows'[job[i].out] = {}
    BY <1>4, <2>2 DEF StoreOutputError, JobsInv, JobOK, Keys
  <2>5. JobOK(j)' /\ job'[j].stage = "idle"
    BY <2>3, SMT DEF JobOK, NoJob
  <2>6. QED
    BY <2>1, <2>2, <2>3, <2>4, <2>5, JobMoves
<1>5. ASSUME NEW j \in Jobs, rows' = rows, \A i \in Jobs : i # j => job'[i] = job[i], JobOK(j)',
             job'[j].stage = "idle" \/ (job[j].stage # "idle" /\ job'[j].out = job[j].out)
      PROVE  JobsInv'
  <2>1. \A k \in Keys : rows[k] # {} => rows'[k] = rows[k]
    BY <1>5
  <2>2. \A i \in Jobs : i # j /\ job[i].stage = "claimed" => rows'[job[i].out] = {}
    BY <1>5 DEF JobsInv, JobOK
  <2>3. QED
    BY <1>5, <2>1, <2>2, JobMoves
<1>6. ASSUME NEW j \in Jobs, Publish(j) PROVE JobsInv'
  <2>1. rows' = rows /\ job[j].stage = "stored" /\ JobOK(j)
    BY <1>6 DEF Publish, bucketVars, JobsInv
  <2>2. job' = [job EXCEPT ![j].stage = "published", ![j].left = job[j].src]
    BY <1>6 DEF Publish
  <2>3. /\ job'[j].stage = "published" /\ job'[j].left = job[j].src
        /\ job'[j].src = job[j].src /\ job'[j].out = job[j].out
        /\ \A i \in Jobs : i # j => job'[i] = job[i]
    BY <2>2 DEF Types, WorkOK, JobType
  <2>4. JobOK(j)'
    BY <2>1, <2>3 DEF JobOK
  <2>5. QED
    BY <1>5, <2>1, <2>3, <2>4
<1>7. ASSUME NEW j \in Jobs, Abandon(j) PROVE JobsInv'
  <2>1. rows' = rows /\ job[j].stage = "stored" /\ JobOK(j)
    BY <1>7 DEF Abandon, bucketVars, JobsInv
  <2>2. job' = [job EXCEPT ![j].stage = "abandoned", ![j].left = {job[j].out}]
    BY <1>7 DEF Abandon
  <2>3. /\ job'[j].stage = "abandoned" /\ job'[j].left = {job[j].out}
        /\ job'[j].src = job[j].src /\ job'[j].out = job[j].out
        /\ \A i \in Jobs : i # j => job'[i] = job[i]
    BY <2>2 DEF Types, WorkOK, JobType
  <2>4. JobOK(j)'
    BY <2>1, <2>3 DEF JobOK
  <2>5. QED
    BY <1>5, <2>1, <2>3, <2>4
<1>8. ASSUME NEW j \in Jobs, NEW k \in Keys, DeleteObject(j, k) \/ DeleteError(j, k) PROVE JobsInv'
  <2>1. rows' = rows /\ k \in job[j].left /\ JobOK(j)
    BY <1>8 DEF DeleteObject, DeleteError, JobsInv
  <2>2. job' = [job EXCEPT ![j].left = job[j].left \ {k}]
    BY <1>8 DEF DeleteObject, DeleteError
  <2>3. /\ job'[j].stage = job[j].stage /\ job'[j].left = job[j].left \ {k}
        /\ job'[j].src = job[j].src /\ job'[j].out = job[j].out
        /\ \A i \in Jobs : i # j => job'[i] = job[i]
    BY <2>2 DEF Types, WorkOK, JobType
  <2>4. JobOK(j)' /\ job[j].stage # "idle"
    BY <2>1, <2>3 DEF JobOK, RowsOf
  <2>5. QED
    BY <1>5, <2>1, <2>3, <2>4
<1>9. ASSUME NEW j \in Jobs, FinishJob(j) PROVE JobsInv'
  <2>1. rows' = rows /\ job'[j] = NoJob /\ \A i \in Jobs : i # j => job'[i] = job[i]
    BY <1>9 DEF FinishJob, bucketVars, Types, WorkOK
  <2>2. JobOK(j)' /\ job'[j].stage = "idle"
    BY <2>1, SMT DEF JobOK, NoJob
  <2>3. QED
    BY <1>5, <2>1, <2>2
<1>10. ASSUME NEW n \in Nodes, Crash(n) PROVE JobsInv'
  <2>1. rows' = rows /\ \A i \in Jobs : job'[i] = NoJob \/ job'[i] = job[i]
    BY <1>10 DEF Crash, bucketVars
  <2>2. ASSUME NEW i \in Jobs PROVE JobOK(i)'
    <3>1. CASE job'[i] = NoJob
      BY <3>1, SMT DEF JobOK, NoJob
    <3>2. CASE job'[i] = job[i]
      BY <2>1, <3>2, JobKeeps DEF JobsInv, JobOK
    <3>3. QED
      BY <2>1, <3>1, <3>2
  <2>3. QED
    BY <2>1, <2>2, SMT DEF JobsInv, NoJob
<1>11. CASE UNCHANGED <<rows, job>>
  <2>1. ASSUME NEW j \in Jobs PROVE JobOK(j)'
    <3>1. RowsOf(job[j].src)' = RowsOf(job[j].src)
      BY <1>11 DEF RowsOf
    <3>2. QED
      BY <1>11, <3>1 DEF JobsInv, JobOK
  <2>2. QED
    BY <1>11, <2>1 DEF JobsInv
<1>12. QED
  BY <1>1, <1>2, <1>3, <1>4, <1>6, <1>7, <1>8, <1>9, <1>10, <1>11
     DEF Next, JobStep, Deliver, Reclaim, SweepOrphan, DeleteRetired, RegisterFlush, StartListing, ReadPage,
         ApplyListing, DropListing, UpdateAdded, UpdateRemoved, LoseUpdate, SaveTo, Restart,
         bucketVars, workVars, vars

-----------------------------------------------------------------------------
(* Objects that were written. *)

\* Adding a key may only forget its retirement.
LEMMA AddFilesRetired ==
    ASSUME Types, NEW n \in Nodes, NEW K, AddFiles(n, K), NEW i \in Nodes, NEW k \in Keys
    PROVE  retired'[i][k] \in {retired[i][k], "no"}
BY DEF Types, NodesOK, AddFiles

\* Retiring a set of keys changes no other retirement.
LEMMA RetireFilesRetired ==
    ASSUME Types, NEW n \in Nodes, NEW K, NEW reclaim \in BOOLEAN, RetireFiles(n, K, reclaim),
           NEW i \in Nodes, NEW k \in Keys
    PROVE  retired'[i][k] = retired[i][k] \/ (i = n /\ k \in K /\ retired'[i][k] \in {"owed", "unowed"})
BY DEF Types, NodesOK, RetireFiles

\* Confirming a delete settles one retirement.
LEMMA ConfirmDeletedRetired ==
    ASSUME Types, NEW n \in Nodes, NEW d \in Keys, retired' = ConfirmDeleted(n, d),
           NEW i \in Nodes, NEW k \in Keys
    PROVE  \/ retired'[i][k] = retired[i][k]
           \/ i = n /\ k = d /\ retired[i][k] # "no" /\ retired'[i][k] = "deleted"
BY DEF Types, NodesOK, ConfirmDeleted

\* Publishing retires the sources.
LEMMA PublishRetired ==
    ASSUME Types, JobsInv, NEW j \in Jobs, Publish(j), NEW i \in Nodes, NEW k \in Keys
    PROVE  \/ retired'[i][k] \in {retired[i][k], "no"}
           \/ k \in job[j].src /\ retired'[i][k] = "owed"
<1>1. RunsOn[j] \in Nodes
  BY KeysAreNumbers
<1>2. retired' = [retired EXCEPT ![RunsOn[j]] =
                     [q \in Keys |-> IF q \in job[j].src THEN "owed"
                                     ELSE IF q = job[j].out THEN "no" ELSE retired[RunsOn[j]][q]]]
  BY DEF Publish
<1>3. retired \in [Nodes -> [Keys -> Retirement]]
  BY DEF Types, NodesOK
<1>4. CASE i # RunsOn[j]
  BY <1>1, <1>2, <1>3, <1>4
<1>5. CASE i = RunsOn[j]
  <2>1. retired'[i][k] = IF k \in job[j].src THEN "owed"
                         ELSE IF k = job[j].out THEN "no" ELSE retired[i][k]
    BY <1>1, <1>2, <1>3, <1>5
  <2>2. QED
    BY <2>1
<1>6. QED
  BY <1>4, <1>5

\* Applying a listing, and the cap, only forget retirements.
LEMMA ApplyListingRetired ==
    ASSUME Types, NEW n \in Nodes, ApplyListing(n), NEW i \in Nodes, NEW k \in Keys
    PROVE  retired'[i][k] \in {retired[i][k], "no"}
<1>1. PICK E : retired' = [retired EXCEPT ![n] = Without(Without(retired[n], Settled(n)), E)]
  BY DEF ApplyListing
<1>2. QED
  BY <1>1 DEF Without, Types, NodesOK

\* A snapshot holds what is retired after the cap.
LEMMA SaveToRetired ==
    ASSUME Types, NEW n \in Nodes, SaveTo(n), NEW i \in Nodes, NEW k \in Keys
    PROVE  /\ retired'[i][k] \in {retired[i][k], "no"}
           /\ snap'[i].retired[k] \in {snap[i].retired[k], retired[i][k], "no"}
<1>1. PICK E : /\ retired' = [retired EXCEPT ![n] = Without(retired[n], E)]
               /\ snap' = [snap EXCEPT ![n] = [tracked |-> tracked[n], retired |-> Without(retired[n], E)]]
  BY DEF SaveTo, Types, NodesOK
<1>2. QED
  BY <1>1 DEF Without, Types, NodesOK, SnapsOK

\* A crash forgets the retirements of its pod, and a restart takes them from the snapshot.
LEMMA CrashRetired ==
    ASSUME Types, NEW n \in Nodes, Crash(n) \/ Restart(n), NEW i \in Nodes, NEW k \in Keys
    PROVE  retired'[i][k] \in {retired[i][k], snap[i].retired[k], "no"}
<1>1. retired \in [Nodes -> [Keys -> Retirement]]
  BY DEF Types, NodesOK
<1>2. CASE Crash(n)
  <2>1. retired' = [retired EXCEPT ![n] = [q \in Keys |-> "no"]]
    BY <1>2 DEF Crash, NoSnap
  <2>2. QED
    BY <1>1, <2>1
<1>3. CASE Restart(n)
  <2>1. retired' = [retired EXCEPT ![n] = snap[n].retired]
    BY <1>3 DEF Restart
  <2>2. QED
    BY <1>1, <2>1
<1>4. QED
  BY <1>2, <1>3

\* A published merge is announced with its sources.
LEMMA FinishJobNet ==
    ASSUME NEW j \in Jobs, FinishJob(j), NEW m \in net'
    PROVE  m \in net \/ (m.remove = job[j].src /\ job[j].stage = "published")
<1>1. CASE job[j].stage = "abandoned"
  BY <1>1 DEF FinishJob
<1>2. CASE job[j].stage # "abandoned"
  <2>1. m \in net \/ \E i \in Nodes : m = [to |-> i, add |-> job[j].out, remove |-> job[j].src]
    BY <1>2 DEF FinishJob
  <2>2. job[j].stage = "published"
    BY <1>2 DEF FinishJob
  <2>3. QED
    BY <2>1, <2>2, SMT
<1>3. QED
  BY <1>1, <1>2

\* Steps that write and delete no object, and retire only objects that were written.
LEMMA WrittenKeeps ==
    ASSUME Types, WrittenInv, UNCHANGED <<store, rows>>, net' \subseteq net,
           \A f \in Raw : flush'[f] = "new" <=> flush[f] = "new",
           \A i \in Nodes, k \in Keys :
              \/ retired'[i][k] \in {retired[i][k], snap[i].retired[k], "no"}
              \/ rows[k] # {} /\ retired'[i][k] \in {"owed", "unowed"},
           \A i \in Nodes, k \in Keys :
              snap'[i].retired[k] \in {snap[i].retired[k], retired[i][k], "no"}
    PROVE  WrittenInv'
<1>1. \A k \in Keys : rows[k] = {} => /\ k \notin store
                                      /\ \A n \in Nodes : retired'[n][k] = "no" /\ snap'[n].retired[k] = "no"
                                      /\ \A m \in net' : k \notin m.remove
  BY SMTT(30) DEF WrittenInv
<1>2. \A n \in Nodes, k \in Keys :
          retired'[n][k] = "deleted" \/ snap'[n].retired[k] = "deleted" => k \notin store
  BY SMT DEF WrittenInv
<1>3. \A k \in Keys : rows[k] \subseteq Raw
  BY DEF Types, BucketOK
<1>4. /\ \A f \in Raw : flush'[f] = "new" <=> rows[f] = {}
      /\ \A k \in Keys : \A f \in rows[k] : flush'[f] # "new"
  BY <1>3, SMT DEF WrittenInv
<1>5. QED
  BY <1>1, <1>2, <1>4 DEF WrittenInv

\* Objects are written once, under keys that nothing names before; a deleted object does
\* not come back.
LEMMA WrittenStep == Types /\ WrittenInv /\ JobsInv /\ [Next]_vars => WrittenInv'
<1> SUFFICES ASSUME Types, WrittenInv, JobsInv, [Next]_vars PROVE WrittenInv'
  OBVIOUS
<1> USE KeysAreNumbers
<1>1. ASSUME NEW f \in Raw, StoreFlush(f) PROVE WrittenInv'
  <2>1. rows[f] = {} /\ f \in Keys
    BY <1>1 DEF StoreFlush, WrittenInv, Keys
  <2>2. \A k \in Keys : rows'[k] = IF k = f THEN {f} ELSE rows[k]
    BY <1>1, <2>1 DEF StoreFlush, Types, BucketOK
  <2>3. \A g \in Raw : flush'[g] = IF g = f THEN "stored" ELSE flush[g]
    BY <1>1 DEF StoreFlush, Types, BucketOK
  <2>4. store' = store \cup {f} /\ UNCHANGED <<retired, snap, net>>
    BY <1>1 DEF StoreFlush, nodeVars
  <2>5. \A k \in Keys : rows[k] \subseteq Raw
    BY DEF Types, BucketOK
  <2>6. QED
    BY <2>1, <2>2, <2>3, <2>4, <2>5, SMT DEF WrittenInv, Keys
<1>2. ASSUME NEW f \in Raw, RegisterFlush(f) PROVE WrittenInv'
  <2>1. rows[f] # {} /\ f \in Keys /\ UNCHANGED <<store, rows, snap, net>>
    BY <1>2 DEF RegisterFlush, WrittenInv, Keys, bucketVars
  <2>2. \A g \in Raw : flush'[g] = "new" <=> flush[g] = "new"
    BY <1>2 DEF RegisterFlush, Types, BucketOK
  <2>3. \A i \in Nodes, k \in Keys : \/ retired'[i][k] \in {retired[i][k], "no"}
                                     \/ k = f /\ retired'[i][k] \in {"owed", "unowed"}
    <3> SUFFICES ASSUME NEW i \in Nodes, NEW k \in Keys
                 PROVE  \/ retired'[i][k] \in {retired[i][k], "no"}
                        \/ k = f /\ retired'[i][k] \in {"owed", "unowed"}
      OBVIOUS
    <3>1. WriterOf[f] \in Nodes
      OBVIOUS
    <3>2. CASE RetireFiles(WriterOf[f], {f}, TRUE)
      <4>1. retired'[i][k] = retired[i][k]
            \/ (i = WriterOf[f] /\ k \in {f} /\ retired'[i][k] \in {"owed", "unowed"})
        BY <3>1, <3>2, RetireFilesRetired
      <4>2. QED
        BY <4>1
    <3>3. CASE AddFiles(WriterOf[f], {f})
      BY <3>1, <3>3, AddFilesRetired
    <3>4. QED
      BY <1>2, <3>2, <3>3 DEF RegisterFlush
  <2>4. \A k \in Keys : rows[k] \subseteq Raw
    BY DEF Types, BucketOK
  <2>5. QED
    BY <2>1, <2>2, <2>3, <2>4, WrittenKeeps
<1>3. ASSUME NEW j \in Jobs, StoreOutput(j) \/ StoreOutputError(j) PROVE WrittenInv'
  <2>1. /\ job[j].out \in Keys /\ job[j].out \notin Raw /\ rows[job[j].out] = {} /\ job[j].src \subseteq Keys
        /\ RowsOf(job[j].src) # {}
    BY <1>3, SourceRows DEF StoreOutput, StoreOutputError, JobsInv, JobOK, Keys, Types, WorkOK, JobType
  <2>2. UNCHANGED <<retired, snap, net, flush>>
    BY <1>3 DEF StoreOutput, StoreOutputError, nodeVars
  <2>3. \/ UNCHANGED <<store, rows>>
        \/ /\ store' = store \cup {job[j].out}
           /\ \A k \in Keys : rows'[k] = IF k = job[j].out THEN RowsOf(job[j].src) ELSE rows[k]
    BY <1>3, <2>1 DEF StoreOutput, StoreOutputError, bucketVars, Types, BucketOK
  <2>4. \A f \in RowsOf(job[j].src) : flush[f] # "new"
    <3> SUFFICES ASSUME NEW f \in RowsOf(job[j].src) PROVE flush[f] # "new"
      OBVIOUS
    <3>1. PICK k \in job[j].src : f \in rows[k]
      BY DEF RowsOf
    <3>2. QED
      BY <2>1, <3>1 DEF WrittenInv
  <2>5. CASE UNCHANGED <<store, rows>>
    BY <2>2, <2>5 DEF WrittenInv
  <2>6. CASE /\ store' = store \cup {job[j].out}
             /\ \A k \in Keys : rows'[k] = IF k = job[j].out THEN RowsOf(job[j].src) ELSE rows[k]
    BY <2>1, <2>2, <2>4, <2>6 DEF WrittenInv, Keys
  <2>7. QED
    BY <2>3, <2>5, <2>6
<1>4. ASSUME NEW j \in Jobs, Publish(j) PROVE WrittenInv'
  <2>1. UNCHANGED <<store, rows, snap, net, flush>> /\ \A k \in job[j].src : rows[k] # {}
    BY <1>4 DEF Publish, bucketVars, JobsInv, JobOK
  <2>2. QED
    BY <1>4, <2>1, PublishRetired, WrittenKeeps
<1>5. ASSUME NEW j \in Jobs, Abandon(j) PROVE WrittenInv'
  <2>1. UNCHANGED <<store, rows, snap, net, flush>> /\ rows[job[j].out] # {}
    BY <1>5 DEF Abandon, bucketVars, JobsInv, JobOK
  <2>2. RunsOn[j] \in Nodes /\ RetireFiles(RunsOn[j], {job[j].out}, TRUE)
    BY <1>5 DEF Abandon
  <2>3. \A i \in Nodes, k \in Keys : \/ retired'[i][k] = retired[i][k]
                                     \/ k = job[j].out /\ retired'[i][k] \in {"owed", "unowed"}
    <3>1. \A i \in Nodes, k \in Keys :
             \/ retired'[i][k] = retired[i][k]
             \/ i = RunsOn[j] /\ k \in {job[j].out} /\ retired'[i][k] \in {"owed", "unowed"}
      BY <2>2, RetireFilesRetired
    <3>2. QED
      BY <3>1
  <2>4. QED
    BY <2>1, <2>3, WrittenKeeps
<1>6. ASSUME NEW j \in Jobs, NEW k \in Keys, DeleteObject(j, k) PROVE WrittenInv'
  <2>1. UNCHANGED <<rows, snap, net, flush>> /\ store' = store \ {k}
    BY <1>6 DEF DeleteObject
  <2>2. QED
    BY <1>6, <2>1, ConfirmDeletedRetired, SMT DEF WrittenInv, DeleteObject
<1>7. ASSUME NEW j \in Jobs, NEW k \in Keys, DeleteError(j, k) PROVE WrittenInv'
  BY <1>7 DEF DeleteError, WrittenInv, nodeVars
<1>8. ASSUME NEW j \in Jobs, FinishJob(j) PROVE WrittenInv'
  <2>1. UNCHANGED <<store, rows, retired, snap, flush>> /\ \A k \in job[j].src : rows[k] # {}
    BY <1>8 DEF FinishJob, bucketVars, nodeVars, JobsInv, JobOK
  <2>2. \A m \in net' : m \in net \/ m.remove = job[j].src
    BY <1>8, FinishJobNet
  <2>3. QED
    BY <2>1, <2>2 DEF WrittenInv
<1>9. ASSUME NEW n \in Nodes, NEW k \in Keys, DeleteRetired(n, k) PROVE WrittenInv'
  <2>1. UNCHANGED <<rows, snap, net, flush>> /\ store' = store \ {k}
    BY <1>9 DEF DeleteRetired, workVars
  <2>2. QED
    BY <1>9, <2>1, ConfirmDeletedRetired, SMTT(30) DEF WrittenInv, DeleteRetired
<1>10. ASSUME NEW n \in Nodes, ApplyListing(n) PROVE WrittenInv'
  <2>1. UNCHANGED <<store, rows, snap, net, flush>>
    BY <1>10 DEF ApplyListing, bucketVars, workVars
  <2>2. \A i \in Nodes, k \in Keys : retired'[i][k] \in {retired[i][k], "no"}
    BY <1>10, ApplyListingRetired
  <2>3. QED
    BY <2>1, <2>2, WrittenKeeps
<1>11. ASSUME NEW m \in net, UpdateAdded(m) PROVE WrittenInv'
  <2>1. UNCHANGED <<store, rows, snap, flush>> /\ m.to \in Nodes
    BY <1>11 DEF UpdateAdded, bucketVars, Types, WorkOK, UpdateType
  <2>2. \A u \in net' : \E v \in net : u.remove = v.remove
    BY <1>11 DEF UpdateAdded, Types, WorkOK, UpdateType
  <2>3. QED
    BY <1>11, <2>1, <2>2, AddFilesRetired, SMT DEF UpdateAdded, WrittenInv
<1>12. ASSUME NEW m \in net, UpdateRemoved(m) PROVE WrittenInv'
  <2>1. UNCHANGED <<store, rows, snap, flush>> /\ m.to \in Nodes /\ net' \subseteq net
    BY <1>12 DEF UpdateRemoved, bucketVars, Types, WorkOK, UpdateType
  <2>2. RetireFiles(m.to, m.remove, FALSE) /\ \A k \in Keys : k \in m.remove => rows[k] # {}
    BY <1>12 DEF UpdateRemoved, WrittenInv
  <2>3. \A i \in Nodes, k \in Keys : \/ retired'[i][k] = retired[i][k]
                                     \/ rows[k] # {} /\ retired'[i][k] \in {"owed", "unowed"}
    <3>1. \A i \in Nodes, k \in Keys :
             \/ retired'[i][k] = retired[i][k]
             \/ i = m.to /\ k \in m.remove /\ retired'[i][k] \in {"owed", "unowed"}
      BY <2>1, <2>2, RetireFilesRetired
    <3>2. QED
      BY <2>2, <3>1
  <2>4. QED
    BY <2>1, <2>3, WrittenKeeps
<1>13. ASSUME NEW m \in net, LoseUpdate(m) PROVE WrittenInv'
  BY <1>13 DEF LoseUpdate, WrittenInv, bucketVars, nodeVars
<1>14. ASSUME NEW n \in Nodes, SaveTo(n) PROVE WrittenInv'
  BY <1>14, SaveToRetired, WrittenKeeps DEF SaveTo, bucketVars, workVars
<1>15. ASSUME NEW n \in Nodes, Crash(n) \/ Restart(n) PROVE WrittenInv'
  <2>1. UNCHANGED <<store, rows, snap, net>>
    BY <1>15 DEF Crash, Restart, bucketVars, workVars
  <2>2. \A f \in Raw : flush'[f] = "new" <=> flush[f] = "new"
    BY <1>15 DEF Crash, Restart, workVars, Types, BucketOK
  <2>3. QED
    BY <1>15, <2>1, <2>2, CrashRetired, WrittenKeeps
<1>16. CASE UNCHANGED <<store, rows, retired, snap, net, flush>>
  BY <1>16 DEF WrittenInv
<1>17. QED
  BY <1>1, <1>2, <1>3, <1>4, <1>5, <1>6, <1>7, <1>8, <1>9, <1>10, <1>11, <1>12, <1>13, <1>14, <1>15, <1>16
     DEF Next, JobStep, Deliver, Reclaim, SweepOrphan, ClaimOutput, StartListing, ReadPage, DropListing,
         bucketVars, nodeVars, workVars, vars

-----------------------------------------------------------------------------
(* Objects that hold the rows. *)

\* Only objects that were written are deleted.
LEMMA DeletableIsWritten ==
    ASSUME Types, WrittenInv, JobsInv, NEW k \in Deletable
    PROVE  k \in Keys /\ rows[k] # {}
<1>1. CASE \E n \in Nodes : k \in Marked(retired[n]) \/ k \in Marked(snap[n].retired)
  BY <1>1 DEF Marked, WrittenInv
<1>2. CASE \E j \in Jobs : \/ k \in job[j].left
                           \/ job[j].stage = "published" /\ k \in job[j].src
  <2>1. PICK j \in Jobs : \/ k \in job[j].left
                          \/ job[j].stage = "published" /\ k \in job[j].src
    BY <1>2
  <2>2. JobOK(j) /\ job[j] \in JobType
    BY DEF JobsInv, Types, WorkOK
  <2>3. job[j].stage \in {"idle", "claimed", "stored", "published", "abandoned"} /\ k \in Keys
    BY <2>2 DEF JobType, Deletable
  <2>4. QED
    BY <2>1, <2>2, <2>3 DEF JobOK
<1>3. CASE \E m \in net : k \in m.remove
  BY <1>3 DEF Deletable, WrittenInv
<1>4. QED
  BY <1>1, <1>2, <1>3 DEF Deletable

\* What a step may make deletable.
LEMMA DeletableWithin ==
    ASSUME NEW D,
           \A i \in Nodes, k \in Keys : retired'[i][k] \in {"owed", "unowed"} => k \in D,
           \A i \in Nodes, k \in Keys : snap'[i].retired[k] \in {"owed", "unowed"} => k \in D,
           \A j \in Jobs, k \in Keys : k \in job'[j].left => k \in D,
           \A j \in Jobs, k \in Keys : job'[j].stage = "published" /\ k \in job'[j].src => k \in D,
           \A m \in net', k \in Keys : k \in m.remove => k \in D
    PROVE  Deletable' \subseteq D
BY DEF Deletable, Marked

\* A retired, saved or announced key is deletable, unless its object is gone.
LEMMA IsDeletable ==
    /\ \A i \in Nodes, k \in Keys : retired[i][k] \in {"owed", "unowed"} => k \in Deletable
    /\ \A i \in Nodes, k \in Keys : snap[i].retired[k] \in {"owed", "unowed"} => k \in Deletable
    /\ \A j \in Jobs, k \in Keys : k \in job[j].left => k \in Deletable
    /\ \A j \in Jobs, k \in Keys : job[j].stage = "published" /\ k \in job[j].src => k \in Deletable
    /\ \A m \in net, k \in Keys : k \in m.remove => k \in Deletable
BY DEF Deletable, Marked

\* Steps after which everything that counted still does.
LEMMA CoverGrows ==
    ASSUME Types, WrittenInv, JobsInv, CoverInv,
           \A k \in store : \/ k \in Deletable
                            \/ k \in Unpublished \ Unpublished'
                            \/ k \in store' /\ k \notin Deletable',
           \A k \in Unpublished' : \/ k \in Unpublished
                                   \/ rows[k] = {} /\ k \in store' /\ k \notin Deletable',
           \A k \in Keys : rows[k] # {} => rows'[k] = rows[k],
           \A f \in Raw : flush'[f] # "new" => \/ flush[f] # "new"
                                               \/ \E c \in Cover' : f \in rows'[c]
    PROVE  CoverInv'
<1>1. \A k \in store : k \in Keys /\ rows[k] # {}
  BY DEF Types, BucketOK, WrittenInv
<1>2. \A c \in Cover : c \in Cover' /\ rows'[c] = rows[c]
  BY <1>1 DEF Cover
<1>3. \A f \in Raw : flush'[f] # "new" => \E c \in Cover' : f \in rows'[c]
  BY <1>2 DEF CoverInv
<1>4. ASSUME NEW k \in Unpublished', k \in Unpublished
      PROVE  k \in store' \ Deletable' \/ \A r \in rows'[k] : \E c \in Cover' : k < c /\ r \in rows'[c]
  <2>1. k \in Keys /\ rows[k] # {}
    BY <1>4 DEF Unpublished, JobsInv, JobOK
  <2>2. CASE k \in store \ Deletable
    BY <1>4, <2>2
  <2>3. CASE \A r \in rows[k] : \E c \in Cover : k < c /\ r \in rows[c]
    BY <1>2, <2>1, <2>3
  <2>4. QED
    BY <1>4, <2>2, <2>3 DEF CoverInv
<1>5. QED
  BY <1>3, <1>4 DEF CoverInv

\* Publishing an output gives up its sources: their rows are in the output, or, when that
\* was merged away meanwhile, in an object with a larger key.
LEMMA CoverPublish ==
    ASSUME Types, WrittenInv, JobsInv, CoverInv, NEW j \in Jobs, Publish(j)
    PROVE  CoverInv'
<1> DEFINE S == job[j].src
           o == job[j].out
<1> USE KeysAreNumbers
<1>1. UNCHANGED <<store, rows, flush, snap, net>> /\ job[j].stage = "stored"
  BY DEF Publish, bucketVars
<1>2. /\ o \in Keys /\ S \subseteq Keys /\ \A k \in S : k < o /\ rows[k] \subseteq rows[o]
      /\ o \in Unpublished
  <2>1. JobOK(j) /\ S \subseteq Keys
    BY DEF JobsInv, Types, WorkOK, JobType
  <2>2. QED
    BY <1>1, <2>1 DEF JobOK, RowsOf, Keys, Unpublished
<1>3. \A i \in Jobs : \/ i # j /\ job'[i] = job[i]
                      \/ i = j /\ job'[i].stage = "published" /\ job'[i].src = S /\ job'[i].left = S
  BY DEF Publish, Types, WorkOK, JobType
<1>4. Deletable' \subseteq Deletable \cup S
  <2>1. \A i \in Nodes, k \in Keys : retired'[i][k] \in {"owed", "unowed"} => k \in Deletable \cup S
    BY PublishRetired, IsDeletable
  <2>2. \A i \in Nodes, k \in Keys : snap'[i].retired[k] \in {"owed", "unowed"} => k \in Deletable \cup S
    BY <1>1, IsDeletable
  <2>3. \A i \in Jobs, k \in Keys :
           /\ k \in job'[i].left => k \in Deletable \cup S
           /\ job'[i].stage = "published" /\ k \in job'[i].src => k \in Deletable \cup S
    BY <1>3, IsDeletable
  <2>4. \A m \in net', k \in Keys : k \in m.remove => k \in Deletable \cup S
    BY <1>1, IsDeletable
  <2> HIDE DEF S
  <2>5. QED
    BY <2>1, <2>2, <2>3, <2>4, DeletableWithin
<1>5. Unpublished' \subseteq Unpublished \ {o}
  BY <1>1, <1>3, SMT DEF Unpublished, JobsInv
<1> HIDE DEF S, o
<1>6. \A c \in Cover : c \in Cover' \/ c \in S
  BY <1>1, <1>4, <1>5 DEF Cover
<1>7. \A c \in Cover : c \in Keys
  BY DEF Cover, Types, BucketOK
<1>8. \A r \in rows[o] : \E c \in Cover' : c \in Keys /\ o <= c /\ r \in rows[c]
  <2>1. CASE o \in store \ Deletable
    <3>1. o \notin S
      BY <1>2, SMT
    <3>2. o \in Cover'
      BY <1>1, <1>4, <1>5, <2>1, <3>1 DEF Cover
    <3>3. QED
      BY <1>2, <3>2, SMT
  <2>2. CASE \A r \in rows[o] : \E c \in Cover : o < c /\ r \in rows[c]
    <3> SUFFICES ASSUME NEW r \in rows[o]
                 PROVE  \E c \in Cover' : c \in Keys /\ o <= c /\ r \in rows[c]
      OBVIOUS
    <3>1. PICK c \in Cover : o < c /\ r \in rows[c]
      BY <2>2
    <3>2. c \in Nat /\ o \in Nat /\ c \in Keys
      BY <1>2, <1>7
    <3>3. c \notin S /\ o <= c
      BY <1>2, <3>1, <3>2, SMT
    <3>4. QED
      BY <1>6, <3>1, <3>2, <3>3
  <2>3. QED
    BY <1>2, <2>1, <2>2 DEF CoverInv
<1>9. \A c \in Cover : \A r \in rows[c] : \E d \in Cover' : d \in Keys /\ c <= d /\ r \in rows[d]
  <2> SUFFICES ASSUME NEW c \in Cover, NEW r \in rows[c]
               PROVE  \E d \in Cover' : d \in Keys /\ c <= d /\ r \in rows[d]
    OBVIOUS
  <2>1. c \in Keys /\ c \in Nat /\ o \in Nat
    BY <1>2, <1>7
  <2>2. CASE c \in Cover'
    BY <2>1, <2>2, SMT
  <2>3. CASE c \in S
    <3>1. c < o /\ r \in rows[o]
      BY <1>2, <2>3
    <3>2. PICK d \in Cover' : d \in Keys /\ o <= d /\ r \in rows[d]
      BY <1>8, <3>1
    <3>3. c <= d
      BY <2>1, <3>1, <3>2, SMT
    <3>4. QED
      BY <3>2, <3>3
  <2>4. QED
    BY <1>6, <2>2, <2>3
<1>10. \A f \in Raw : flush'[f] # "new" => \E c \in Cover' : f \in rows'[c]
  BY <1>1, <1>9 DEF CoverInv
<1>11. ASSUME NEW k \in Unpublished'
       PROVE  k \in store' \ Deletable' \/ \A r \in rows'[k] : \E c \in Cover' : k < c /\ r \in rows'[c]
  <2>1. k \in Unpublished /\ k \in Keys
    BY <1>5 DEF Unpublished
  <2>2. CASE k \in store \ Deletable /\ k \notin S
    BY <1>1, <1>4, <2>2
  <2>3. CASE k \in S
    <3> SUFFICES ASSUME NEW r \in rows'[k] PROVE \E c \in Cover' : k < c /\ r \in rows'[c]
      OBVIOUS
    <3>1. k < o /\ r \in rows[o]
      BY <1>1, <1>2, <2>3
    <3>2. PICK d \in Cover' : d \in Keys /\ o <= d /\ r \in rows[d]
      BY <1>8, <3>1
    <3>3. k < d
      BY <1>2, <2>1, <3>1, <3>2, SMT
    <3>4. QED
      BY <1>1, <3>2, <3>3
  <2>4. CASE \A r \in rows[k] : \E c \in Cover : k < c /\ r \in rows[c]
    <3> SUFFICES ASSUME NEW r \in rows'[k] PROVE \E c \in Cover' : k < c /\ r \in rows'[c]
      OBVIOUS
    <3>1. PICK c \in Cover : k < c /\ r \in rows[c]
      BY <1>1, <2>4
    <3>2. PICK d \in Cover' : d \in Keys /\ c <= d /\ r \in rows[d]
      BY <1>9, <3>1
    <3>3. k \in Nat /\ c \in Nat /\ d \in Nat /\ k < c /\ c <= d
      BY <1>7, <2>1, <3>1, <3>2
    <3> k < d
      BY ONLY <3>3, SMT
    <3>4. QED
      BY <1>1, <3>2, <3>3
  <2>5. QED
    BY <2>1, <2>2, <2>3, <2>4 DEF CoverInv
<1>12. QED
  BY <1>10, <1>11 DEF CoverInv

\* Steps that publish nothing: what becomes deletable was deletable before, or is gone.
LEMMA CoverKeeps ==
    ASSUME Types, WrittenInv, JobsInv, CoverInv,
           \A k \in Keys : rows[k] # {} => rows'[k] = rows[k],
           \A k \in store : k \in Deletable \/ k \in store',
           \A f \in Raw : flush'[f] # "new" => flush[f] # "new",
           \A i \in Nodes, k \in Keys : retired'[i][k] \in {"owed", "unowed"} =>
              k \in Deletable \/ k \notin store,
           \A i \in Nodes, k \in Keys : snap'[i].retired[k] \in {"owed", "unowed"} => k \in Deletable,
           \A j \in Jobs, k \in Keys : k \in job'[j].left => k \in Deletable,
           \A j \in Jobs : job'[j].stage \in {"stored", "published"} =>
              job'[j].stage = job[j].stage /\ job'[j].src = job[j].src /\ job'[j].out = job[j].out,
           \A m \in net', k \in Keys : k \in m.remove => k \in Deletable
    PROVE  CoverInv'
<1> DEFINE D == Deletable \cup (Keys \ store)
<1>1. /\ \A i \in Nodes, k \in Keys : retired'[i][k] \in {"owed", "unowed"} => k \in D
      /\ \A i \in Nodes, k \in Keys : snap'[i].retired[k] \in {"owed", "unowed"} => k \in D
      /\ \A j \in Jobs, k \in Keys : k \in job'[j].left => k \in D
      /\ \A m \in net', k \in Keys : k \in m.remove => k \in D
  OBVIOUS
<1>2. \A j \in Jobs, k \in Keys : job'[j].stage = "published" /\ k \in job'[j].src => k \in D
  BY IsDeletable
<1>3. Deletable' \subseteq D
  <2> HIDE DEF D
  <2>1. QED
    BY <1>1, <1>2, DeletableWithin
<1>4. \A k \in store : k \in Deletable \/ (k \in store' /\ k \notin Deletable')
  BY <1>3
<1>5. \A k \in Unpublished' : k \in Unpublished
  BY DEF Unpublished
<1>6. QED
  BY <1>4, <1>5, CoverGrows

\* A step that retires, saves, delivers or forgets retirements and leaves the rest alone.
LEMMA CoverRetires ==
    ASSUME Types, WrittenInv, JobsInv, CoverInv, UNCHANGED <<store, rows, job>>,
           \A f \in Raw : flush'[f] # "new" => flush[f] # "new",
           \A i \in Nodes, k \in Keys : \/ retired'[i][k] \in {retired[i][k], snap[i].retired[k], "no"}
                                        \/ k \in Deletable \/ k \notin store,
           \A i \in Nodes, k \in Keys :
              snap'[i].retired[k] \in {snap[i].retired[k], retired[i][k], "no"},
           \A u \in net' : \E v \in net : u.remove = v.remove
    PROVE  CoverInv'
<1>1. \A i \in Nodes, k \in Keys : retired'[i][k] \in {"owed", "unowed"} =>
         k \in Deletable \/ k \notin store
  BY IsDeletable
<1>2. \A i \in Nodes, k \in Keys : snap'[i].retired[k] \in {"owed", "unowed"} => k \in Deletable
  BY IsDeletable
<1>3. \A m \in net', k \in Keys : k \in m.remove => k \in Deletable
  BY IsDeletable
<1>4. \A j \in Jobs, k \in Keys : k \in job'[j].left => k \in Deletable
  BY IsDeletable
<1>5. QED
  BY <1>1, <1>2, <1>3, <1>4, CoverKeeps

\* An object is deleted.
LEMMA CoverDeletes ==
    ASSUME Types, WrittenInv, JobsInv, CoverInv, UNCHANGED <<rows, flush, snap, net>>,
           NEW n \in Nodes, NEW d \in Deletable, store \ {d} \subseteq store',
           retired' \in {retired, ConfirmDeleted(n, d)},
           \A j \in Jobs : /\ job'[j].left \subseteq job[j].left /\ job'[j].stage = job[j].stage
                           /\ job'[j].src = job[j].src /\ job'[j].out = job[j].out
    PROVE  CoverInv'
<1>1. \A i \in Nodes, k \in Keys : \/ retired'[i][k] = retired[i][k]
                                   \/ retired'[i][k] = "deleted"
  BY ConfirmDeletedRetired, SMTT(30) DEF Deletable
<1>2. \A i \in Nodes, k \in Keys : retired'[i][k] \in {"owed", "unowed"} => k \in Deletable
  BY <1>1, IsDeletable
<1>3. \A i \in Nodes, k \in Keys : snap'[i].retired[k] \in {"owed", "unowed"} => k \in Deletable
  BY IsDeletable
<1>4. \A m \in net', k \in Keys : k \in m.remove => k \in Deletable
  BY IsDeletable
<1>5. \A j \in Jobs, k \in Keys : k \in job'[j].left => k \in Deletable
  BY IsDeletable
<1>6. QED
  BY <1>2, <1>3, <1>4, <1>5, CoverKeeps

\* A flush stores an object nobody retires yet.
LEMMA CoverStoreFlush ==
    ASSUME Types, WrittenInv, JobsInv, CoverInv, NEW f \in Raw, StoreFlush(f)
    PROVE  CoverInv'
<1> USE KeysAreNumbers
<1>1. f \in Keys /\ rows[f] = {} /\ UNCHANGED <<retired, snap, job, net>> /\ store' = store \cup {f}
  BY DEF StoreFlush, WrittenInv, Keys, nodeVars
<1>2. \A k \in Keys : rows'[k] = IF k = f THEN {f} ELSE rows[k]
  BY <1>1 DEF StoreFlush, Types, BucketOK
<1>3. \A g \in Raw : g # f => flush'[g] = flush[g]
  BY DEF StoreFlush, Types, BucketOK
<1>4. Deletable' = Deletable /\ Unpublished' = Unpublished
  BY <1>1 DEF Deletable, Unpublished, Marked
<1>5. f \notin Deletable
  BY <1>1, DeletableIsWritten
<1>6. f \notin Unpublished
  BY DEF Unpublished, JobsInv, JobOK
<1>7. f \in Cover' /\ f \in rows'[f]
  BY <1>1, <1>2, <1>4, <1>5, <1>6 DEF Cover
<1>8. \A k \in store : k \in Deletable \/ (k \in store' /\ k \notin Deletable')
  BY <1>1, <1>4
<1>9. \A k \in Unpublished' : k \in Unpublished
  BY <1>4
<1>10. \A k \in Keys : rows[k] # {} => rows'[k] = rows[k]
  BY <1>1, <1>2
<1>11. \A g \in Raw : flush'[g] # "new" => flush[g] # "new" \/ \E c \in Cover' : g \in rows'[c]
  BY <1>3, <1>7
<1>12. QED
  BY <1>8, <1>9, <1>10, <1>11, CoverGrows

\* A merge stores an object nobody retires yet.
LEMMA CoverStoreOutput ==
    ASSUME Types, WrittenInv, JobsInv, CoverInv, NEW j \in Jobs, StoreOutput(j)
    PROVE  CoverInv'
<1> DEFINE o == job[j].out
<1>1. o \in Keys /\ rows[o] = {} /\ job[j].stage = "claimed"
  BY DEF StoreOutput, JobsInv, JobOK, Keys
<1>2. UNCHANGED <<retired, snap, net, flush>> /\ store' = store \cup {o}
  BY DEF StoreOutput, nodeVars
<1>3. \A k \in Keys : rows[k] # {} => rows'[k] = rows[k]
  BY <1>1 DEF StoreOutput, Types, BucketOK
<1>4. \A i \in Jobs : \/ i # j /\ job'[i] = job[i]
                      \/ i = j /\ job'[i].stage = "stored" /\ job'[i].out = o /\ job'[i].left = job[i].left
  BY DEF StoreOutput, Types, WorkOK, JobType
<1> HIDE DEF o
<1>5. Deletable' \subseteq Deletable
  <2>1. \A i \in Jobs, k \in Keys : /\ k \in job'[i].left => k \in Deletable
                                    /\ job'[i].stage = "published" /\ k \in job'[i].src => k \in Deletable
    BY <1>4, IsDeletable
  <2>2. QED
    BY <1>2, <2>1, IsDeletable, DeletableWithin
<1>6. o \notin Deletable
  BY <1>1, DeletableIsWritten
<1>7. \A k \in Unpublished' : k \in Unpublished \/ k = o
  BY <1>4 DEF Unpublished
<1>8. \A k \in Unpublished' : \/ k \in Unpublished
                              \/ rows[k] = {} /\ k \in store' /\ k \notin Deletable'
  BY <1>1, <1>2, <1>5, <1>6, <1>7
<1>9. \A k \in store : k \in Deletable \/ (k \in store' /\ k \notin Deletable')
  BY <1>2, <1>5
<1>10. \A f \in Raw : flush'[f] # "new" => flush[f] # "new"
  BY <1>2
<1>11. QED
  BY <1>3, <1>8, <1>9, <1>10, CoverGrows

\* An abandoned output did not count yet.
LEMMA CoverAbandon ==
    ASSUME Types, WrittenInv, JobsInv, CoverInv, NEW j \in Jobs, Abandon(j)
    PROVE  CoverInv'
<1> DEFINE o == job[j].out
<1> USE KeysAreNumbers
<1>1. /\ UNCHANGED <<store, rows, snap, net, flush>> /\ job[j].stage = "stored"
      /\ RetireFiles(RunsOn[j], {o}, TRUE) /\ RunsOn[j] \in Nodes
  BY DEF Abandon, bucketVars
<1>2. \A i \in Jobs : \/ i # j /\ job'[i] = job[i]
                      \/ i = j /\ job'[i].stage = "abandoned" /\ job'[i].left = {o}
  BY DEF Abandon, Types, WorkOK, JobType
<1>3. o \in Unpublished
  BY <1>1 DEF Unpublished, JobsInv, JobOK, Keys
<1>4. Unpublished' \subseteq Unpublished \ {o}
  BY <1>1, <1>2 DEF Unpublished, JobsInv
<1> HIDE DEF o
<1>5. Deletable' \subseteq Deletable \cup {o}
  <2> DEFINE D == Deletable \cup {o}
  <2>1. \A i \in Nodes, k \in Keys :
           \/ retired'[i][k] = retired[i][k]
           \/ i = RunsOn[j] /\ k \in {o} /\ retired'[i][k] \in {"owed", "unowed"}
    BY <1>1, RetireFilesRetired
  <2>2. \A i \in Nodes, k \in Keys : retired'[i][k] \in {"owed", "unowed"} => k \in D
    BY <2>1, IsDeletable
  <2>3. \A i \in Nodes, k \in Keys : snap'[i].retired[k] \in {"owed", "unowed"} => k \in D
    BY <1>1, IsDeletable
  <2>4. \A i \in Jobs, k \in Keys : /\ k \in job'[i].left => k \in D
                                    /\ job'[i].stage = "published" /\ k \in job'[i].src => k \in D
    BY <1>2, IsDeletable
  <2>5. \A m \in net', k \in Keys : k \in m.remove => k \in D
    BY <1>1, IsDeletable
  <2> HIDE DEF D
  <2>6. Deletable' \subseteq D
    BY <2>2, <2>3, <2>4, <2>5, DeletableWithin
  <2>7. QED
    BY <2>6 DEF D
<1>6. \A k \in store : k \in Deletable \/ k \in Unpublished \ Unpublished'
                       \/ (k \in store' /\ k \notin Deletable')
  BY <1>1, <1>3, <1>4, <1>5
<1>7. \A k \in Unpublished' : k \in Unpublished
  BY <1>4
<1>8. QED
  BY <1>1, <1>6, <1>7, CoverGrows

\* After every step every flushed row is in an object that nobody may delete.
LEMMA CoverStep == IInv /\ [Next]_vars => CoverInv'
<1> SUFFICES ASSUME Types, WrittenInv, JobsInv, CoverInv, [Next]_vars PROVE CoverInv'
  BY DEF IInv
<1> USE KeysAreNumbers
<1>1. ASSUME NEW f \in Raw, RegisterFlush(f) PROVE CoverInv'
  <2>1. /\ UNCHANGED <<store, rows, job, snap, net>> /\ WriterOf[f] \in Nodes
        /\ \A g \in Raw : flush'[g] # "new" => flush[g] # "new"
    BY <1>1 DEF RegisterFlush, bucketVars, Types, BucketOK
  <2>2. CASE retired[WriterOf[f]][f] # "no"
    <3>1. f \in Deletable \/ f \notin store
      <4>1. f \in Keys /\ retired[WriterOf[f]][f] \in {"unowed", "owed", "deleted"}
        BY <2>1, <2>2, SMTT(30) DEF Types, NodesOK, Retirement, Keys
      <4>2. CASE retired[WriterOf[f]][f] = "deleted"
        BY <2>1, <4>1, <4>2 DEF WrittenInv
      <4>3. QED
        BY <2>1, <4>1, <4>2, IsDeletable
    <3>2. RetireFiles(WriterOf[f], {f}, TRUE)
      BY <1>1, <2>2 DEF RegisterFlush
    <3>3. \A i \in Nodes, k \in Keys :
             \/ retired'[i][k] = retired[i][k]
             \/ i = WriterOf[f] /\ k \in {f} /\ retired'[i][k] \in {"owed", "unowed"}
      BY <2>1, <3>2, RetireFilesRetired
    <3>4. QED
      <4>1. \A i \in Nodes, k \in Keys : \/ retired'[i][k] \in {retired[i][k], snap[i].retired[k], "no"}
                                         \/ k \in Deletable \/ k \notin store
        BY <3>1, <3>3
      <4>2. \A i \in Nodes, k \in Keys :
               snap'[i].retired[k] \in {snap[i].retired[k], retired[i][k], "no"}
        BY <2>1
      <4>3. \A u \in net' : \E v \in net : u.remove = v.remove
        BY <2>1
      <4>4. QED
        BY <2>1, <4>1, <4>2, <4>3, CoverRetires
  <2>3. CASE AddFiles(WriterOf[f], {f})
    BY <2>1, <2>3, AddFilesRetired, CoverRetires
  <2>4. QED
    BY <1>1, <2>2, <2>3 DEF RegisterFlush
<1>2. ASSUME NEW j \in Jobs, NEW S, NEW o, ClaimOutput(j, S, o) PROVE CoverInv'
  <2>1. UNCHANGED <<store, rows, retired, snap, flush, net>>
    BY <1>2 DEF ClaimOutput, bucketVars
  <2>2. \A i \in Jobs : job'[i] = job[i] \/ (job'[i].stage = "claimed" /\ job'[i].left = {})
    BY <1>2 DEF ClaimOutput, Types, WorkOK
  <2>3. QED
    BY <2>1, <2>2, IsDeletable, CoverKeeps
<1>3. ASSUME NEW j \in Jobs, StoreOutputError(j) PROVE CoverInv'
  <2>1. UNCHANGED <<retired, snap, flush, net>> /\ store \subseteq store'
    BY <1>3 DEF StoreOutputError, bucketVars
  <2>2. \A k \in Keys : rows[k] # {} => rows'[k] = rows[k]
    BY <1>3 DEF StoreOutputError, bucketVars, JobsInv, JobOK, Types, BucketOK
  <2>3. \A i \in Jobs : job'[i] = job[i] \/ (job'[i].stage = "idle" /\ job'[i].left = {})
    BY <1>3 DEF StoreOutputError, NoJob, Types, WorkOK
  <2>4. QED
    BY <2>1, <2>2, <2>3, IsDeletable, CoverKeeps
<1>4. ASSUME NEW j \in Jobs, NEW k \in Keys, DeleteObject(j, k) \/ DeleteError(j, k) PROVE CoverInv'
  <2>1. UNCHANGED <<rows, flush, snap, net>> /\ store \ {k} \subseteq store' /\ k \in Deletable
    BY <1>4, IsDeletable DEF DeleteObject, DeleteError, nodeVars
  <2>2. retired' \in {retired, ConfirmDeleted(RunsOn[j], k)} /\ RunsOn[j] \in Nodes
    BY <1>4 DEF DeleteObject, DeleteError, nodeVars
  <2>3. \A i \in Jobs : /\ job'[i].left \subseteq job[i].left /\ job'[i].stage = job[i].stage
                        /\ job'[i].src = job[i].src /\ job'[i].out = job[i].out
    BY <1>4, SMT DEF DeleteObject, DeleteError, Types, WorkOK, JobType
  <2>4. QED
    BY <2>1, <2>2, <2>3, CoverDeletes
<1>5. ASSUME NEW j \in Jobs, FinishJob(j) PROVE CoverInv'
  <2>1. UNCHANGED <<store, rows, retired, snap, flush>>
    BY <1>5 DEF FinishJob, bucketVars, nodeVars
  <2>2. \A i \in Jobs : job'[i] = job[i] \/ (job'[i].stage = "idle" /\ job'[i].left = {})
    BY <1>5 DEF FinishJob, NoJob, Types, WorkOK
  <2>3. \A m \in net' : m \in net \/ (m.remove = job[j].src /\ job[j].stage = "published")
    BY <1>5, FinishJobNet
  <2>4. \A m \in net', k \in Keys : k \in m.remove => k \in Deletable
    BY <2>3, IsDeletable
  <2>5. QED
    BY <2>1, <2>2, <2>4, IsDeletable, CoverKeeps
<1>6. ASSUME NEW n \in Nodes, NEW k \in Keys, Reclaim(n, k) \/ SweepOrphan(n, k) PROVE CoverInv'
  <2>1. /\ UNCHANGED <<rows, flush, snap, net, job>> /\ store' = store \ {k}
        /\ retired' = ConfirmDeleted(n, k) /\ retired[n][k] \in {"owed", "unowed"}
    BY <1>6 DEF Reclaim, SweepOrphan, DeleteRetired, workVars
  <2>2. k \in Deletable
    BY <2>1, IsDeletable
  <2>3. QED
    BY <2>1, <2>2, CoverDeletes
<1>7. ASSUME NEW n \in Nodes, ApplyListing(n) PROVE CoverInv'
  BY <1>7, ApplyListingRetired, CoverRetires DEF ApplyListing, bucketVars, workVars
<1>8. ASSUME NEW m \in net, UpdateAdded(m) PROVE CoverInv'
  <2>1. UNCHANGED <<store, rows, job, snap, flush>> /\ m.to \in Nodes /\ AddFiles(m.to, {m.add})
    BY <1>8 DEF UpdateAdded, bucketVars, Types, WorkOK, UpdateType
  <2>2. \A u \in net' : \E v \in net : u.remove = v.remove
    BY <1>8 DEF UpdateAdded, Types, WorkOK, UpdateType
  <2>3. QED
    BY <2>1, <2>2, AddFilesRetired, CoverRetires
<1>9. ASSUME NEW m \in net, UpdateRemoved(m) PROVE CoverInv'
  <2>1. /\ UNCHANGED <<store, rows, job, snap, flush>> /\ m.to \in Nodes
        /\ RetireFiles(m.to, m.remove, FALSE) /\ net' \subseteq net
    BY <1>9 DEF UpdateRemoved, bucketVars, Types, WorkOK, UpdateType
  <2>2. \A i \in Nodes, k \in Keys :
           \/ retired'[i][k] = retired[i][k]
           \/ i = m.to /\ k \in m.remove /\ retired'[i][k] \in {"owed", "unowed"}
    BY <2>1, RetireFilesRetired
  <2>3. QED
    BY <2>1, <2>2, IsDeletable, CoverRetires
<1>10. ASSUME NEW m \in net, LoseUpdate(m) PROVE CoverInv'
  BY <1>10, CoverRetires DEF LoseUpdate, bucketVars, nodeVars
<1>11. ASSUME NEW n \in Nodes, SaveTo(n) PROVE CoverInv'
  BY <1>11, SaveToRetired, CoverRetires DEF SaveTo, bucketVars, workVars
<1>12. ASSUME NEW n \in Nodes, Crash(n) PROVE CoverInv'
  <2>1. UNCHANGED <<store, rows, snap, net>>
    BY <1>12 DEF Crash, bucketVars
  <2>2. \A f \in Raw : flush'[f] # "new" => flush[f] # "new"
    BY <1>12 DEF Crash, Types, BucketOK
  <2>3. \A i \in Jobs : job'[i] = job[i] \/ (job'[i].stage = "idle" /\ job'[i].left = {})
    BY <1>12 DEF Crash, NoJob, Types, WorkOK
  <2>4. \A i \in Nodes, k \in Keys : retired'[i][k] \in {"owed", "unowed"} => k \in Deletable
    BY <1>12, CrashRetired, IsDeletable
  <2>5. QED
    BY <2>1, <2>2, <2>3, <2>4, IsDeletable, CoverKeeps
<1>13. ASSUME NEW n \in Nodes, Restart(n) PROVE CoverInv'
  BY <1>13, CrashRetired, CoverRetires DEF Restart, bucketVars, workVars
<1>14. CASE UNCHANGED <<store, rows, retired, snap, job, net, flush>>
  BY <1>14, SMT DEF CoverInv, Cover, Deletable, Unpublished, Marked
<1>15. QED
  BY ZenonT(60), <1>1, <1>2, <1>3, <1>4, <1>5, <1>6, <1>7, <1>8, <1>9, <1>10, <1>11, <1>12, <1>13, <1>14,
     CoverStoreFlush, CoverStoreOutput, CoverPublish, CoverAbandon
     DEF Next, JobStep, Deliver, StartListing, ReadPage, DropListing, bucketVars, nodeVars, workVars, vars

-----------------------------------------------------------------------------
(* The theorems. *)

\* The invariant holds in every reachable state.
LEMMA Invariant == Spec => []IInv
<1>1. IInv /\ [Next]_vars => IInv'
  <2> SUFFICES ASSUME IInv, [Next]_vars PROVE IInv'
    OBVIOUS
  <2>1. Types' /\ WrittenInv' /\ JobsInv'
    BY TypesStep, WrittenStep, JobsStep DEF IInv
  <2>2. CoverInv'
    BY CoverStep
  <2>3. QED
    BY <2>1, <2>2 DEF IInv
<1>2. QED
  BY InitIInv, <1>1, PTL DEF Spec

\* However many pods merge, race, list, push, save and crash, and whatever the cap on
\* retirements evicts, no delete (of a merge, of a retried retirement, of the orphan
\* sweep) takes the last object that holds a flushed row.
THEOREM RowsSurvive == Spec => []NoRowGone
<1>1. IInv => NoRowGone
  BY DEF IInv, CoverInv, NoRowGone, Cover, RowsOf
<1>2. QED
  BY Invariant, <1>1, PTL

\* A manifest never both tracks and retires a key, and what it has pending is neither.
THEOREM TypesHold == Spec => []TypeOK
<1>1. IInv => TypeOK
  BY DEF IInv, Types, BucketOK, NodesOK, Apart, TypeOK, Retired
<1>2. QED
  BY Invariant, <1>1, PTL

-----------------------------------------------------------------------------
(* One pod runs the merges: what it keeps, what it may adopt, what is doomed. *)

\* Every merge of the partition runs on pod a.
OneMerger(a) == \A j \in Jobs : RunsOn[j] = a

\* The retirements that pod a has, or will have when it is restarted.
Kept(a, k) == (IF up[a] THEN retired[a][k] ELSE snap[a].retired[k]) # "no"

\* What a listing applied now, or one that begins now, may put into a's manifest.
Adoptable(a) ==
    {k \in Keys : \/ k \in store \cup listing[a].seen /\ ~Kept(a, k) /\ k \notin pending[a]
                  \/ k \in listing[a].added \cap tracked[a]}

\* The keys that some pod has retired or will retire, whether or not it has deleted them.
Doomed ==
    {k \in Keys : \/ \E n \in Nodes : retired[n][k] # "no" \/ snap[n].retired[k] # "no"
                  \/ \E j \in Jobs : \/ k \in job[j].left
                                     \/ job[j].stage = "published" /\ k \in job[j].src
                  \/ \E m \in net : k \in m.remove}

\* A merge between its claim and its publish.
Active(j) == job[j].stage \in {"claimed", "stored"}

\* Keys of K share no row outside X.
Once(K, R, X) == \A k, i \in K : k # i => R[k] \cap R[i] \subseteq X

\* No update goes to a, whose pending keys are the outputs of the merges under way.
WorkAt(a) ==
    /\ \A m \in net : m.to # a
    /\ \A j \in Jobs : Active(j) => job[j].out \in pending[a] /\ job[j].src \cap pending[a] = {}
    /\ \A o \in pending[a] : \E j \in Jobs : Active(j) /\ job[j].out = o
    /\ ~up[a] => listing[a] = NoListing /\ \A j \in Jobs : job[j].stage = "idle"

\* A flushed row is in no other object before its flush is over.
Flushed ==
    /\ \A f \in Raw : rows[f] \subseteq {f}
    /\ \A f \in Raw, k \in Keys : f \in rows[k] /\ k # f => flush[f] = "done"
    /\ \A j \in Jobs : \A f \in job[j].src \cap Raw : flush[f] = "done"

\* What a tracks, saved or has listed was written.
Reached(a) == \A k \in tracked[a] \cup snap[a].tracked \cup listing[a].seen : rows[k] # {}

\* A listing in flight has seen the objects that were retired before it began.
Listed(a) ==
    listing[a].on => \A k \in Keys : retired[a][k] # "no" /\ k \in store /\ k <= listing[a].pos
                                     => k \in listing[a].seen \cup listing[a].late

\* What anybody may delete is retired on a, out of a's sight, or excused.
Condemned(a) ==
    \A k \in Doomed : Kept(a, k) \/ k \notin store \cup listing[a].seen \/ rows[k] \subseteq excused

\* So are the sources of a merge that were deleted while it ran.
SourcesLeft(a) ==
    \A j \in Jobs : Active(j) => \A k \in job[j].src \cap (tracked[a] \cup listing[a].seen) :
        k \in store \/ Kept(a, k) \/ rows[k] \subseteq excused

\* Neither the manifest of a, nor its snapshot, nor what a listing may add has a row twice.
ServedOnce(a) == \A K \in {tracked[a], snap[a].tracked, Adoptable(a)} : Once(K, rows, excused)

OnceInv(a) ==
    /\ WorkAt(a) /\ Flushed /\ Reached(a) /\ Listed(a)
    /\ Condemned(a) /\ SourcesLeft(a) /\ ServedOnce(a)

\* The row of a flush that goes on: no other object has it.
Fresh(k) ==
    /\ k \in Raw /\ flush[k] # "done" /\ rows'[k] = {k}
    /\ \A i \in Keys : i # k => k \notin rows'[i]

\* What a step may do to the objects and to pod a, which publishes the keys in P.
BucketMoves(a) ==
    /\ \A k \in Keys : rows[k] # {} => rows'[k] = rows[k]
    /\ excused \subseteq excused'
    /\ \A k \in store' : \/ k \in store
                         \/ rows[k] = {} /\ (k \in pending'[a] \/ rows'[k] \subseteq excused' \/ Fresh(k))
    /\ \A k \in store : k \in store' \/ k \in Doomed
    /\ \A k \in Doomed' : k \in Doomed \/ Kept(a, k)'
    /\ \A j \in Jobs : Active(j)' => \/ Active(j) /\ job'[j].src = job[j].src
                                     \/ job'[j].src \subseteq store'

PodMoves(a, P) ==
    /\ listing'[a].seen \subseteq listing[a].seen \cup store
    /\ \A k \in Keys : Kept(a, k) => \/ Kept(a, k)'
                                     \/ k \notin store' \cup listing'[a].seen \cup tracked'[a]
                                     \/ rows[k] \subseteq excused'
    /\ \A k \in pending[a] \ P : \/ k \in pending'[a] \/ Kept(a, k)'
                                 \/ k \notin store' \cup listing'[a].seen
                                 \/ rows'[k] \subseteq excused'
    /\ \A k \in tracked'[a] : \/ k \in tracked[a] \cup listing[a].seen \cup P
                              \/ Fresh(k) /\ flush[k] = "stored"
                              \/ ~up[a] /\ k \in snap[a].tracked
    /\ \A k \in listing'[a].added \cap tracked'[a] :
          k \in (listing[a].added \cap tracked[a]) \cup P \/ Fresh(k)
    /\ snap'[a].tracked \in {snap[a].tracked, tracked[a]}

-----------------------------------------------------------------------------

\* Objects that share no row go on sharing none when fewer of them are looked at, and
\* when what is new is excused or has rows of its own.
LEMMA OnceWithin ==
    ASSUME NEW K, NEW L, NEW R, NEW Q, NEW X, NEW Y, Once(K, R, X), X \subseteq Y,
           \A k \in L : \/ k \in K /\ Q[k] = R[k]
                        \/ Q[k] \subseteq Y
                        \/ \A i \in L : i # k => Q[k] \cap Q[i] \subseteq Y
    PROVE  Once(L, Q, Y)
<1> SUFFICES ASSUME NEW k \in L, NEW i \in L, k # i PROVE Q[k] \cap Q[i] \subseteq Y
  BY DEF Once
<1>1. CASE Q[k] \subseteq Y \/ Q[i] \subseteq Y
  BY <1>1
<1>2. CASE \/ \A x \in L : x # k => Q[k] \cap Q[x] \subseteq Y
           \/ \A x \in L : x # i => Q[i] \cap Q[x] \subseteq Y
  BY <1>2
<1>3. CASE k \in K /\ Q[k] = R[k] /\ i \in K /\ Q[i] = R[i]
  BY <1>3 DEF Once
<1>4. QED
  BY <1>1, <1>2, <1>3

\* Doomed keys were written.
LEMMA DoomedIsWritten ==
    ASSUME Types, WrittenInv, JobsInv, NEW k \in Doomed
    PROVE  k \in Keys /\ rows[k] # {}
<1>0. k \in Keys
  BY DEF Doomed
<1>1. CASE \E n \in Nodes : retired[n][k] # "no" \/ snap[n].retired[k] # "no"
  BY <1>0, <1>1 DEF WrittenInv
<1>2. CASE \E j \in Jobs : k \in job[j].left \/ (job[j].stage = "published" /\ k \in job[j].src)
  BY <1>0, <1>2, DeletableIsWritten DEF Deletable
<1>3. CASE \E m \in net : k \in m.remove
  BY <1>0, <1>3 DEF WrittenInv
<1>4. QED
  BY <1>0, <1>1, <1>2, <1>3 DEF Doomed

\* Keys that anybody may delete stay retired on a, out of its sight, or excused.
LEMMA CondemnedStep ==
    ASSUME Types, Types', WrittenInv, JobsInv, NEW a \in Nodes, NEW P, Reached(a), Condemned(a),
           BucketMoves(a), PodMoves(a, P)
    PROVE  Condemned(a)'
<1> SUFFICES ASSUME NEW k \in Doomed'
             PROVE  Kept(a, k)' \/ k \notin store' \cup listing'[a].seen \/ rows'[k] \subseteq excused'
  BY DEF Condemned
<1>1. CASE k \in Doomed
  <2>1. k \in Keys /\ rows[k] # {} /\ rows'[k] = rows[k] /\ excused \subseteq excused'
    BY <1>1, DoomedIsWritten DEF BucketMoves
  <2>2. CASE Kept(a, k)
    BY <2>1, <2>2 DEF PodMoves
  <2>3. CASE rows[k] \subseteq excused
    BY <2>1, <2>3
  <2>4. CASE k \notin store \cup listing[a].seen
    BY <2>1, <2>4 DEF BucketMoves, PodMoves
  <2>5. QED
    BY <1>1, <2>2, <2>3, <2>4 DEF Condemned
<1>2. QED
  BY <1>1 DEF BucketMoves

\* Sources that are deleted while a merge runs stay retired on its pod, out of its sight,
\* or excused.
LEMMA SourcesStep ==
    ASSUME Types, Types', WrittenInv, JobsInv, NEW a \in Nodes, NEW P, WorkAt(a), Flushed,
           Condemned(a), SourcesLeft(a), BucketMoves(a), PodMoves(a, P), P \subseteq pending[a],
           \A j \in Jobs : Active(j)' /\ ~up[a] => FALSE
    PROVE  SourcesLeft(a)'
<1> SUFFICES ASSUME NEW j \in Jobs, Active(j)', NEW k \in job'[j].src,
                    k \in tracked'[a] \cup listing'[a].seen, k \notin store'
             PROVE  Kept(a, k)' \/ rows'[k] \subseteq excused'
  BY DEF SourcesLeft
<1>1. Active(j) /\ job'[j].src = job[j].src
  BY DEF BucketMoves
<1>2. k \in Keys /\ rows[k] # {} /\ rows'[k] = rows[k] /\ excused \subseteq excused'
  BY <1>1 DEF Types, WorkOK, JobType, JobsInv, JobOK, Active, BucketMoves
<1>3. Kept(a, k) => Kept(a, k)' \/ rows'[k] \subseteq excused'
  BY <1>2 DEF PodMoves
<1>4. CASE k \in store
  BY <1>2, <1>3, <1>4 DEF BucketMoves, Condemned
<1>5. CASE k \notin store
  <2>1. k \notin P
    BY <1>1 DEF WorkAt
  <2>2. ~Fresh(k)
    BY <1>1 DEF Fresh, Flushed
  <2>3. k \in tracked[a] \cup listing[a].seen
    BY <1>5, <2>1, <2>2 DEF PodMoves
  <2>4. QED
    BY <1>1, <1>2, <1>3, <1>5, <2>3 DEF SourcesLeft
<1>6. QED
  BY <1>4, <1>5

\* What a pod tracks, has saved or lists was written.
LEMMA ReachedStep ==
    ASSUME Types, Types', WrittenInv, NEW a \in Nodes, NEW P, Reached(a), BucketMoves(a), PodMoves(a, P),
           \A k \in P : k \in Keys /\ rows[k] # {}
    PROVE  Reached(a)'
<1> SUFFICES ASSUME NEW k \in tracked'[a] \cup snap'[a].tracked \cup listing'[a].seen PROVE rows'[k] # {}
  BY DEF Reached
<1>1. k \in Keys
  BY DEF Types, NodesOK, SnapsOK, ListingsOK, ListingType
<1>2. CASE Fresh(k)
  BY <1>2 DEF Fresh
<1>3. CASE k \in P \cup store \cup tracked[a] \cup snap[a].tracked \cup listing[a].seen
  <2>1. rows[k] # {}
    BY <1>1, <1>3 DEF Reached, WrittenInv
  <2>2. QED
    BY <1>1, <2>1 DEF BucketMoves
<1>4. QED
  BY <1>2, <1>3 DEF PodMoves

\* What becomes adoptable is published, excused or a fresh flush.
LEMMA AdoptableStep ==
    ASSUME Types, Types', WrittenInv, NEW a \in Nodes, NEW P, Reached(a), BucketMoves(a), PodMoves(a, P),
           NEW k \in Adoptable(a)'
    PROVE  \/ k \in Adoptable(a) /\ rows'[k] = rows[k]
           \/ k \in P \/ rows'[k] \subseteq excused' \/ Fresh(k)
<1>1. k \in Keys
  BY DEF Adoptable
<1>2. CASE k \in listing'[a].added \cap tracked'[a]
  <2>1. CASE k \in listing[a].added \cap tracked[a]
    BY <1>1, <2>1 DEF Adoptable, Reached, BucketMoves
  <2>2. QED
    BY <1>2, <2>1 DEF PodMoves
<1>3. CASE k \in store' \cup listing'[a].seen /\ ~Kept(a, k)' /\ k \notin pending'[a]
  <2>1. CASE k \in store \cup listing[a].seen
    <3>1. rows[k] # {} /\ rows'[k] = rows[k]
      BY <1>1, <2>1 DEF Reached, WrittenInv, BucketMoves
    <3>2. CASE Kept(a, k)
      BY <1>1, <1>3, <3>1, <3>2 DEF PodMoves
    <3>3. CASE k \in pending[a]
      BY <1>3, <3>3 DEF PodMoves
    <3>4. QED
      BY <1>1, <2>1, <3>1, <3>2, <3>3 DEF Adoptable
  <2>2. QED
    BY <1>3, <2>1 DEF BucketMoves, PodMoves
<1>4. QED
  BY <1>2, <1>3 DEF Adoptable

\* What a pod serves stays apart when its manifest takes in only what it may adopt, what
\* its snapshot has, or a fresh flush.
LEMMA ServedKeeps ==
    ASSUME Types, Types', WrittenInv, NEW a \in Nodes, Reached(a), ServedOnce(a),
           BucketMoves(a), PodMoves(a, {}),
           NEW K \in {tracked[a], snap[a].tracked, Adoptable(a)},
           \A k \in tracked'[a] : k \in K \/ Fresh(k)
    PROVE  ServedOnce(a)'
<1>1. excused \subseteq excused' /\ \A k \in Keys : rows[k] # {} => rows'[k] = rows[k]
  BY DEF BucketMoves
<1>2. \A k, i \in Keys : Fresh(k) /\ i # k => rows'[k] \cap rows'[i] \subseteq excused'
  <2> SUFFICES ASSUME NEW k \in Keys, NEW i \in Keys, Fresh(k), i # k
               PROVE  rows'[k] \cap rows'[i] = {}
    OBVIOUS
  <2>1. rows'[k] = {k} /\ k \notin rows'[i]
    BY DEF Fresh
  <2>2. QED
    BY <2>1
<1>3. \A k \in K : k \in Keys /\ rows[k] # {}
  <2>1. CASE K = tracked[a]
    BY <2>1 DEF Reached, Types, NodesOK
  <2>2. CASE K = snap[a].tracked
    BY <2>2 DEF Reached, Types, SnapsOK
  <2>3. CASE K = Adoptable(a)
    BY <2>3 DEF Adoptable, Reached, WrittenInv
  <2>4. QED
    BY <2>1, <2>2, <2>3
<1>4. Once(tracked'[a], rows', excused')
  <2> DEFINE T == tracked'[a]
  <2>1. Once(K, rows, excused) /\ T \subseteq Keys
    BY DEF ServedOnce, Types, NodesOK
  <2>2. \A k \in T : k \in K \/ Fresh(k)
    OBVIOUS
  <2> HIDE DEF T
  <2>3. \A k \in T : \/ k \in K /\ rows'[k] = rows[k]
                     \/ rows'[k] \subseteq excused'
                     \/ \A i \in T : i # k => rows'[k] \cap rows'[i] \subseteq excused'
    BY <1>1, <1>2, <1>3, <2>1, <2>2
  <2>4. Once(T, rows', excused')
    BY ONLY <1>1, <2>1, <2>3, OnceWithin, SMT
  <2>5. QED
    BY <2>4 DEF T
<1>5. Once(snap'[a].tracked, rows', excused')
  <2> DEFINE T == snap'[a].tracked
  <2>1. T \in {snap[a].tracked, tracked[a]}
    BY DEF PodMoves
  <2>2. Once(T, rows, excused) /\ \A k \in T : rows'[k] = rows[k]
    BY <1>1, <2>1 DEF ServedOnce, Reached, Types, NodesOK, SnapsOK
  <2> HIDE DEF T
  <2>3. Once(T, rows', excused')
    BY ONLY <1>1, <2>2, OnceWithin, Zenon
  <2>4. QED
    BY <2>3 DEF T
<1>6. Once(Adoptable(a)', rows', excused')
  <2> DEFINE T == Adoptable(a)'
  <2>1. Once(Adoptable(a), rows, excused) /\ T \subseteq Keys
    BY DEF ServedOnce, Adoptable
  <2>2. \A k \in T : \/ k \in Adoptable(a) /\ rows'[k] = rows[k]
                     \/ rows'[k] \subseteq excused' \/ Fresh(k)
    <3> SUFFICES ASSUME NEW k \in T
                 PROVE  \/ k \in Adoptable(a) /\ rows'[k] = rows[k]
                        \/ rows'[k] \subseteq excused' \/ Fresh(k)
      OBVIOUS
    <3>1. \/ k \in Adoptable(a) /\ rows'[k] = rows[k]
          \/ k \in {} \/ rows'[k] \subseteq excused' \/ Fresh(k)
      BY AdoptableStep, SMT
    <3>2. QED
      BY <3>1
  <2> HIDE DEF T
  <2>3. \A k \in T : \/ k \in Adoptable(a) /\ rows'[k] = rows[k]
                     \/ rows'[k] \subseteq excused'
                     \/ \A i \in T : i # k => rows'[k] \cap rows'[i] \subseteq excused'
    BY <1>2, <2>1, <2>2
  <2>4. Once(T, rows', excused')
    BY ONLY <1>1, <2>1, <2>3, OnceWithin, SMT
  <2>5. QED
    BY <2>4 DEF T
<1>7. QED
  BY <1>4, <1>5, <1>6 DEF ServedOnce

\* What makes a key doomed, and what a step may make doomed.
LEMMA IsDoomed ==
    /\ \A i \in Nodes, k \in Keys : retired[i][k] # "no" => k \in Doomed
    /\ \A i \in Nodes, k \in Keys : snap[i].retired[k] # "no" => k \in Doomed
    /\ \A j \in Jobs, k \in Keys : k \in job[j].left => k \in Doomed
    /\ \A j \in Jobs, k \in Keys : job[j].stage = "published" /\ k \in job[j].src => k \in Doomed
    /\ \A m \in net, k \in Keys : k \in m.remove => k \in Doomed
BY DEF Doomed

\* Steps that doom only keys that are doomed already, or retired on a.
LEMMA BucketKeeps ==
    ASSUME NEW a \in Nodes,
           \A k \in Keys : rows[k] # {} => rows'[k] = rows[k],
           excused \subseteq excused',
           \A k \in store' : \/ k \in store
                             \/ rows[k] = {} /\ (k \in pending'[a] \/ rows'[k] \subseteq excused' \/ Fresh(k)),
           \A k \in store : k \in store' \/ k \in Doomed,
           \A i \in Nodes, k \in Keys : retired'[i][k] # "no" => k \in Doomed \/ Kept(a, k)',
           \A i \in Nodes, k \in Keys : snap'[i].retired[k] # "no" => k \in Doomed,
           \A j \in Jobs, k \in Keys : k \in job'[j].left => k \in Doomed \/ Kept(a, k)',
           \A j \in Jobs, k \in Keys : job'[j].stage = "published" /\ k \in job'[j].src =>
              k \in Doomed \/ Kept(a, k)',
           \A m \in net', k \in Keys : k \in m.remove => k \in Doomed,
           \A j \in Jobs : Active(j)' => \/ Active(j) /\ job'[j].src = job[j].src
                                         \/ job'[j].src \subseteq store'
    PROVE  BucketMoves(a)
<1>1. \A k \in Doomed' : k \in Doomed \/ Kept(a, k)'
  <2> SUFFICES ASSUME NEW k \in Doomed' PROVE k \in Doomed \/ Kept(a, k)'
    OBVIOUS
  <2>1. k \in Keys
    BY DEF Doomed
  <2>2. CASE \E n \in Nodes : retired'[n][k] # "no" \/ snap'[n].retired[k] # "no"
    BY <2>1, <2>2
  <2>3. CASE \E j \in Jobs : k \in job'[j].left \/ (job'[j].stage = "published" /\ k \in job'[j].src)
    BY <2>1, <2>3
  <2>4. CASE \E m \in net' : k \in m.remove
    BY <2>1, <2>4
  <2>5. QED
    BY <2>2, <2>3, <2>4 DEF Doomed
<1>2. QED
  BY <1>1 DEF BucketMoves

\* A step that retires, saves, delivers or forgets retirements and leaves the rest alone.
LEMMA BucketRetires ==
    ASSUME NEW a \in Nodes, UNCHANGED <<store, rows, job>>, excused \subseteq excused',
           \A i \in Nodes, k \in Keys : \/ retired'[i][k] \in {retired[i][k], snap[i].retired[k], "no"}
                                        \/ k \in Doomed,
           \A i \in Nodes, k \in Keys :
              snap'[i].retired[k] \in {snap[i].retired[k], retired[i][k], "no"},
           \A u \in net' : \E v \in net : u.remove = v.remove
    PROVE  BucketMoves(a)
<1>1. \A i \in Nodes, k \in Keys : retired'[i][k] # "no" => k \in Doomed
  BY IsDoomed
<1>2. \A i \in Nodes, k \in Keys : snap'[i].retired[k] # "no" => k \in Doomed
  BY ZenonT(60), IsDoomed
<1>3. \A m \in net', k \in Keys : k \in m.remove => k \in Doomed
  BY IsDoomed
<1>4. /\ \A j \in Jobs, k \in Keys : k \in job'[j].left => k \in Doomed
      /\ \A j \in Jobs, k \in Keys : job'[j].stage = "published" /\ k \in job'[j].src => k \in Doomed
  BY IsDoomed
<1>5. \A j \in Jobs : Active(j)' => Active(j) /\ job'[j].src = job[j].src
  BY DEF Active
<1>6. QED
  BY <1>1, <1>2, <1>3, <1>4, <1>5, BucketKeeps

\* An object is deleted.
LEMMA BucketDeletes ==
    ASSUME Types, NEW a \in Nodes, UNCHANGED <<rows, snap, net, excused>>,
           NEW n \in Nodes, NEW d \in Doomed, store \ {d} \subseteq store', store' \subseteq store,
           retired' \in {retired, ConfirmDeleted(n, d)},
           \A j \in Jobs : /\ job'[j].left \subseteq job[j].left /\ job'[j].stage = job[j].stage
                           /\ job'[j].src = job[j].src
    PROVE  BucketMoves(a)
<1>0. d \in Keys
  BY DEF Doomed
<1>1. \A i \in Nodes, k \in Keys : retired'[i][k] # "no" => retired[i][k] # "no"
  <2>1. CASE retired' = retired
    BY <2>1
  <2>2. CASE retired' = ConfirmDeleted(n, d)
    <3> SUFFICES ASSUME NEW i \in Nodes, NEW k \in Keys, retired'[i][k] # "no" PROVE retired[i][k] # "no"
      OBVIOUS
    <3>1. \/ retired'[i][k] = retired[i][k]
          \/ i = n /\ k = d /\ retired[i][k] # "no" /\ retired'[i][k] = "deleted"
      BY <1>0, <2>2, ConfirmDeletedRetired, SMT
    <3>2. QED
      BY <3>1
  <2>3. QED
    BY <2>1, <2>2
<1>2. \A i \in Nodes, k \in Keys : retired'[i][k] # "no" => k \in Doomed
  BY <1>1, IsDoomed
<1>3. /\ \A i \in Nodes, k \in Keys : snap'[i].retired[k] # "no" => k \in Doomed
      /\ \A m \in net', k \in Keys : k \in m.remove => k \in Doomed
  BY IsDoomed
<1>4. /\ \A j \in Jobs, k \in Keys : k \in job'[j].left => k \in Doomed
      /\ \A j \in Jobs, k \in Keys : job'[j].stage = "published" /\ k \in job'[j].src => k \in Doomed
  BY IsDoomed
<1>5. \A j \in Jobs : Active(j)' => Active(j) /\ job'[j].src = job[j].src
  BY DEF Active
<1>6. \A k \in store : k \in store' \/ k \in Doomed
  OBVIOUS
<1>7. QED
  BY <1>2, <1>3, <1>4, <1>5, <1>6, BucketKeeps

\* A merge under way runs on a pod that is up, and what that pod retires is kept.
LEMMA MergerIsUp ==
    ASSUME Types, NEW a \in Nodes, OneMerger(a), WorkAt(a), NEW j \in Jobs, job[j].stage # "idle"
    PROVE  RunsOn[j] = a /\ up[a]
BY DEF OneMerger, WorkAt

\* Publishing, seen from the pod it happens on.
LEMMA PublishFacts ==
    ASSUME Types, JobsInv, NEW j \in Jobs, Publish(j), NEW a \in Nodes, RunsOn[j] = a, NEW o, job[j].out = o
    PROVE  /\ job[j].src \subseteq tracked[a] /\ job[j].src \subseteq Keys
           /\ o \in Outs /\ o \in Keys /\ o \notin job[j].src
           /\ tracked'[a] = (tracked[a] \ job[j].src) \cup {o}
           /\ pending'[a] = pending[a] \ {o}
           /\ \A k \in Keys : retired'[a][k] = IF k \in job[j].src THEN "owed"
                                               ELSE IF k = o THEN "no" ELSE retired[a][k]
           /\ listing'[a].seen = listing[a].seen /\ listing'[a].on = listing[a].on
           /\ listing'[a].pos = listing[a].pos
           /\ listing'[a].added \subseteq listing[a].added \cup {o}
           /\ listing[a].late \subseteq listing'[a].late
           /\ listing[a].on => job[j].src \subseteq listing'[a].late
<1> DEFINE S == job[j].src
           l == listing[a]
           X == IF l.on THEN l.added \cup {o} ELSE l.added
           Y == IF l.on THEN l.late \cup S ELSE l.late
<1>1. S \subseteq tracked[a]
  BY DEF Publish, MayReplace
<1>2. S \subseteq Keys /\ o \in Outs /\ o \in Keys /\ o \notin S
  BY KeysAreNumbers, SMT DEF Publish, Types, WorkOK, JobType, JobsInv, JobOK, Keys
<1>3. tracked'[a] = (tracked[a] \ S) \cup {o} /\ pending'[a] = pending[a] \ {o}
  BY DEF Publish, Types, NodesOK
<1>4. \A k \in Keys : retired'[a][k] = IF k \in S THEN "owed" ELSE IF k = o THEN "no" ELSE retired[a][k]
  BY DEF Publish, Types, NodesOK
<1>5. listing' = [listing EXCEPT ![a] = [l EXCEPT !.added = X, !.late = Y]] /\ l \in ListingType
  BY DEF Publish, Types, ListingsOK
<1>6. listing'[a] = [l EXCEPT !.added = X, !.late = Y]
  BY <1>5 DEF Types, ListingsOK
<1>7. /\ listing'[a].seen = l.seen /\ listing'[a].on = l.on /\ listing'[a].pos = l.pos
      /\ listing'[a].added = X /\ listing'[a].late = Y
  <2>1. l = [on |-> l.on, pos |-> l.pos, seen |-> l.seen, added |-> l.added, late |-> l.late, must |-> l.must]
    BY <1>5 DEF ListingType
  <2> HIDE DEF l, X, Y
  <2>2. QED
    BY <1>6, <2>1
<1>8. QED
  BY <1>1, <1>2, <1>3, <1>4, <1>7

\* What no step does to the objects: it rewrites none, deletes only doomed ones, and
\* dooms only what a retires.
LEMMA BucketStep ==
    ASSUME Types, WrittenInv, JobsInv, NEW a \in Nodes, OneMerger(a), WorkAt(a), Flushed, [Next]_vars
    PROVE  BucketMoves(a)
<1> USE KeysAreNumbers
<1>1. ASSUME NEW f \in Raw, StoreFlush(f) PROVE BucketMoves(a)
  <2>1. UNCHANGED <<retired, snap, job, net, excused>> /\ store' = store \cup {f}
    BY <1>1 DEF StoreFlush, nodeVars, histVars
  <2>2. rows[f] = {} /\ f \in Keys /\ flush[f] = "new"
    BY <1>1 DEF StoreFlush, WrittenInv, Keys
  <2>3. rows'[f] = {f} /\ \A k \in Keys : k # f => rows'[k] = rows[k]
    BY <1>1, <2>2 DEF StoreFlush, Types, BucketOK
  <2>4. Fresh(f)
    BY <2>2, <2>3 DEF Fresh, WrittenInv
  <2>5. \A j \in Jobs : Active(j)' => Active(j) /\ job'[j].src = job[j].src
    BY <2>1 DEF Active
  <2>6. QED
    BY <2>1, <2>2, <2>3, <2>4, <2>5, IsDoomed, BucketKeeps
<1>2. ASSUME NEW f \in Raw, RegisterFlush(f) PROVE BucketMoves(a)
  <2>1. UNCHANGED <<store, rows, job, snap, net, excused>> /\ WriterOf[f] \in Nodes /\ f \in Keys
    BY <1>2 DEF RegisterFlush, bucketVars, histVars, Keys
  <2>2. CASE retired[WriterOf[f]][f] # "no"
    <3>1. f \in Doomed
      BY <2>1, <2>2, IsDoomed
    <3>2. RetireFiles(WriterOf[f], {f}, TRUE)
      BY <1>2, <2>2 DEF RegisterFlush
    <3>3. \A i \in Nodes, k \in Keys :
             \/ retired'[i][k] = retired[i][k]
             \/ i = WriterOf[f] /\ k \in {f} /\ retired'[i][k] \in {"owed", "unowed"}
      BY <2>1, <3>2, RetireFilesRetired
    <3>4. QED
      BY ZenonT(60), <2>1, <3>1, <3>3, BucketRetires
  <2>3. CASE AddFiles(WriterOf[f], {f})
    BY <2>1, <2>3, AddFilesRetired, BucketRetires
  <2>4. QED
    BY <1>2, <2>2, <2>3 DEF RegisterFlush
<1>3. ASSUME NEW j \in Jobs, NEW S, NEW o, ClaimOutput(j, S, o) PROVE BucketMoves(a)
  <2>1. UNCHANGED <<store, rows, retired, snap, net, excused>> /\ S \subseteq store
    BY <1>3 DEF ClaimOutput, bucketVars, histVars
  <2>2. \A i \in Jobs : job'[i] = job[i] \/ (job'[i].stage = "claimed" /\ job'[i].left = {} /\ job'[i].src = S)
    BY <1>3 DEF ClaimOutput, Types, WorkOK
  <2>3. \A i \in Jobs : Active(i)' => \/ Active(i) /\ job'[i].src = job[i].src
                                      \/ job'[i].src \subseteq store'
    BY <2>1, <2>2 DEF Active
  <2>4. /\ \A i \in Jobs, k \in Keys : k \in job'[i].left => k \in Doomed
        /\ \A i \in Jobs, k \in Keys : job'[i].stage = "published" /\ k \in job'[i].src => k \in Doomed
    BY <2>2, IsDoomed
  <2>5. QED
    BY <2>1, <2>3, <2>4, IsDoomed, BucketKeeps
<1>4. ASSUME NEW j \in Jobs, StoreOutput(j) PROVE BucketMoves(a)
  <2> DEFINE o == job[j].out
  <2>1. /\ UNCHANGED <<retired, snap, net, excused, pending>> /\ store' = store \cup {o}
        /\ Active(j) /\ o \in pending[a] /\ rows[o] = {} /\ o \in Keys
    BY <1>4 DEF StoreOutput, nodeVars, histVars, Active, WorkAt, JobsInv, JobOK, Keys
  <2>2. \A k \in Keys : rows[k] # {} => rows'[k] = rows[k]
    BY <1>4, <2>1 DEF StoreOutput, Types, BucketOK
  <2>3. \A i \in Jobs : /\ job'[i].left = job[i].left /\ job'[i].src = job[i].src
                        /\ job'[i].stage = job[i].stage \/ (job'[i].stage = "stored" /\ job[i].stage = "claimed")
    BY <1>4 DEF StoreOutput, Types, WorkOK, JobType
  <2>4. \A i \in Jobs : Active(i)' => Active(i) /\ job'[i].src = job[i].src
    BY <2>3 DEF Active
  <2>5. /\ \A i \in Jobs, k \in Keys : k \in job'[i].left => k \in Doomed
        /\ \A i \in Jobs, k \in Keys : job'[i].stage = "published" /\ k \in job'[i].src => k \in Doomed
    BY <2>3, IsDoomed
  <2>6. QED
    BY <2>1, <2>2, <2>4, <2>5, IsDoomed, BucketKeeps
<1>5. ASSUME NEW j \in Jobs, StoreOutputError(j) PROVE BucketMoves(a)
  <2> DEFINE o == job[j].out
  <2>1. UNCHANGED <<retired, snap, net>> /\ rows[o] = {} /\ o \in Keys
    BY <1>5 DEF StoreOutputError, JobsInv, JobOK, Keys
  <2>2. \A k \in Keys : rows[k] # {} => rows'[k] = rows[k]
    BY <1>5, <2>1 DEF StoreOutputError, bucketVars, Types, BucketOK
  <2>3. \/ UNCHANGED <<store, excused>>
        \/ store' = store \cup {o} /\ excused \subseteq excused' /\ rows'[o] \subseteq excused'
    BY <1>5, <2>1 DEF StoreOutputError, bucketVars, Types, BucketOK
  <2>4. \A i \in Jobs : job'[i] = job[i] \/ (job'[i].stage = "idle" /\ job'[i].left = {})
    BY <1>5 DEF StoreOutputError, NoJob, Types, WorkOK
  <2>5. \A i \in Jobs : Active(i)' => Active(i) /\ job'[i].src = job[i].src
    BY <2>4 DEF Active
  <2>6. /\ \A i \in Jobs, k \in Keys : k \in job'[i].left => k \in Doomed
        /\ \A i \in Jobs, k \in Keys : job'[i].stage = "published" /\ k \in job'[i].src => k \in Doomed
    BY <2>4, IsDoomed
  <2>7. QED
    BY <2>1, <2>2, <2>3, <2>5, <2>6, IsDoomed, BucketKeeps
<1>6. ASSUME NEW j \in Jobs, Publish(j) PROVE BucketMoves(a)
  <2> DEFINE S == job[j].src
  <2>1. UNCHANGED <<store, rows, up, snap, net, excused>> /\ job[j].stage = "stored"
    BY <1>6 DEF Publish, bucketVars, histVars
  <2>2. RunsOn[j] = a /\ up[a]
    BY <2>1, MergerIsUp
  <2>3. \A k \in Keys : k \in S => Kept(a, k)'
    <3>1. S \subseteq Keys /\ \A k \in S : retired'[a][k] = "owed"
      BY ONLY Types, JobsInv, a \in Nodes, <1>6, <2>2, PublishFacts, SMTT(30)
    <3>2. QED
      BY <2>1, <2>2, <3>1 DEF Kept
  <2>4. \A i \in Nodes, k \in Keys : retired'[i][k] # "no" => k \in Doomed \/ Kept(a, k)'
    BY <1>6, <2>3, PublishRetired, IsDoomed
  <2>5. \A i \in Jobs : job'[i] = job[i] \/ (job'[i].stage = "published" /\ job'[i].src = S /\ job'[i].left = S)
    BY <1>6 DEF Publish, Types, WorkOK, JobType
  <2>6. \A i \in Jobs : Active(i)' => Active(i) /\ job'[i].src = job[i].src
    BY <2>5 DEF Active
  <2>7. /\ \A i \in Jobs, k \in Keys : k \in job'[i].left => k \in Doomed \/ Kept(a, k)'
        /\ \A i \in Jobs, k \in Keys : job'[i].stage = "published" /\ k \in job'[i].src => k \in Doomed \/ Kept(a, k)'
    BY <2>3, <2>5, IsDoomed
  <2>8. QED
    BY <2>1, <2>4, <2>6, <2>7, IsDoomed, BucketKeeps
<1>7. ASSUME NEW j \in Jobs, Abandon(j) PROVE BucketMoves(a)
  <2> DEFINE o == job[j].out
  <2>1. /\ UNCHANGED <<store, rows, up, snap, net, excused>> /\ job[j].stage = "stored" /\ o \in Keys
        /\ RetireFiles(RunsOn[j], {o}, TRUE)
    BY <1>7 DEF Abandon, bucketVars, histVars, JobsInv, JobOK, Keys
  <2>2. RunsOn[j] = a /\ up[a]
    BY <2>1, MergerIsUp
  <2>3. \A k \in Keys : k = o => Kept(a, k)'
    <3>1. retired' = [retired EXCEPT ![a] = [k \in Keys |-> IF k \notin {o} THEN retired[a][k] ELSE "owed"]]
      BY <2>1, <2>2 DEF RetireFiles
    <3>2. retired'[a][o] = "owed"
      BY <2>1, <3>1 DEF Types, NodesOK
    <3>3. QED
      BY <2>1, <2>2, <3>2 DEF Kept
  <2>4. \A i \in Nodes, k \in Keys : retired'[i][k] = retired[i][k] \/ k = o
    <3> SUFFICES ASSUME NEW i \in Nodes, NEW k \in Keys PROVE retired'[i][k] = retired[i][k] \/ k = o
      OBVIOUS
    <3>1. RetireFiles(a, {o}, TRUE)
      BY <2>1, <2>2
    <3>2. retired'[i][k] = retired[i][k] \/ (i = a /\ k \in {o} /\ retired'[i][k] \in {"owed", "unowed"})
      BY <3>1, RetireFilesRetired
    <3>3. QED
      BY <3>2
  <2>5. \A i \in Jobs : job'[i] = job[i] \/ (job'[i].stage = "abandoned" /\ job'[i].left = {o})
    BY <1>7 DEF Abandon, Types, WorkOK, JobType
  <2>6. \A i \in Jobs : Active(i)' => Active(i) /\ job'[i].src = job[i].src
    BY <2>5 DEF Active
  <2>7. \A i \in Nodes, k \in Keys : retired'[i][k] # "no" => k \in Doomed \/ Kept(a, k)'
    BY <2>3, <2>4, IsDoomed
  <2>8. \A i \in Jobs, k \in Keys : k \in job'[i].left => k \in Doomed \/ Kept(a, k)'
    BY ZenonT(60), <2>3, <2>5, IsDoomed
  <2>9. \A i \in Jobs, k \in Keys : job'[i].stage = "published" /\ k \in job'[i].src => k \in Doomed
    BY <2>5, IsDoomed
  <2>10. QED
    BY <2>1, <2>6, <2>7, <2>8, <2>9, IsDoomed, BucketKeeps
<1>8. ASSUME NEW j \in Jobs, NEW k \in Keys, DeleteObject(j, k) \/ DeleteError(j, k) PROVE BucketMoves(a)
  <2>1. /\ UNCHANGED <<rows, snap, net, excused>> /\ store \ {k} \subseteq store' /\ store' \subseteq store
        /\ k \in Doomed
    BY <1>8, IsDoomed DEF DeleteObject, DeleteError, nodeVars, histVars
  <2>2. retired' \in {retired, ConfirmDeleted(RunsOn[j], k)} /\ RunsOn[j] \in Nodes
    BY <1>8 DEF DeleteObject, DeleteError, nodeVars
  <2>3. \A i \in Jobs : /\ job'[i].left \subseteq job[i].left /\ job'[i].stage = job[i].stage
                        /\ job'[i].src = job[i].src
    BY <1>8, SMT DEF DeleteObject, DeleteError, Types, WorkOK, JobType
  <2>4. QED
    BY <2>1, <2>2, <2>3, BucketDeletes
<1>9. ASSUME NEW j \in Jobs, FinishJob(j) PROVE BucketMoves(a)
  <2>1. UNCHANGED <<store, rows, retired, snap, excused>>
    BY <1>9 DEF FinishJob, bucketVars, nodeVars, histVars
  <2>2. \A i \in Jobs : job'[i] = job[i] \/ (job'[i].stage = "idle" /\ job'[i].left = {})
    BY <1>9 DEF FinishJob, NoJob, Types, WorkOK
  <2>3. \A m \in net' : m \in net \/ (m.remove = job[j].src /\ job[j].stage = "published")
    BY <1>9, FinishJobNet
  <2>4. \A m \in net', k \in Keys : k \in m.remove => k \in Doomed
    BY <2>3, IsDoomed
  <2>5. /\ \A i \in Jobs, k \in Keys : k \in job'[i].left => k \in Doomed
        /\ \A i \in Jobs, k \in Keys : job'[i].stage = "published" /\ k \in job'[i].src => k \in Doomed
    BY <2>2, IsDoomed
  <2>6. \A i \in Jobs : Active(i)' => Active(i) /\ job'[i].src = job[i].src
    BY <2>2 DEF Active
  <2>7. QED
    BY <2>1, <2>4, <2>5, <2>6, IsDoomed, BucketKeeps
<1>10. ASSUME NEW n \in Nodes, NEW k \in Keys, Reclaim(n, k) \/ SweepOrphan(n, k) PROVE BucketMoves(a)
  <2>1. /\ UNCHANGED <<rows, snap, net, job, excused>> /\ store' = store \ {k}
        /\ retired' = ConfirmDeleted(n, k) /\ retired[n][k] \in {"owed", "unowed"}
    BY <1>10 DEF Reclaim, SweepOrphan, DeleteRetired, workVars, histVars
  <2>2. k \in Doomed
    BY <2>1, IsDoomed
  <2>3. QED
    BY <2>1, <2>2, BucketDeletes
<1>11. ASSUME NEW n \in Nodes, ApplyListing(n) PROVE BucketMoves(a)
  BY <1>11, ApplyListingRetired, BucketRetires DEF ApplyListing, bucketVars, workVars
<1>12. ASSUME NEW m \in net, UpdateAdded(m) PROVE BucketMoves(a)
  <2>1. UNCHANGED <<store, rows, job, snap, excused>> /\ m.to \in Nodes /\ AddFiles(m.to, {m.add})
    BY <1>12 DEF UpdateAdded, bucketVars, histVars, Types, WorkOK, UpdateType
  <2>2. \A u \in net' : \E v \in net : u.remove = v.remove
    BY <1>12 DEF UpdateAdded, Types, WorkOK, UpdateType
  <2>3. QED
    BY <2>1, <2>2, AddFilesRetired, BucketRetires
<1>13. ASSUME NEW m \in net, UpdateRemoved(m) PROVE BucketMoves(a)
  <2>1. /\ UNCHANGED <<store, rows, job, snap, excused>> /\ m.to \in Nodes
        /\ RetireFiles(m.to, m.remove, FALSE) /\ net' \subseteq net
    BY <1>13 DEF UpdateRemoved, bucketVars, histVars, Types, WorkOK, UpdateType
  <2>2. \A i \in Nodes, k \in Keys :
           \/ retired'[i][k] = retired[i][k]
           \/ i = m.to /\ k \in m.remove /\ retired'[i][k] \in {"owed", "unowed"}
    BY <2>1, RetireFilesRetired
  <2>3. QED
    BY <2>1, <2>2, IsDoomed, BucketRetires
<1>14. ASSUME NEW m \in net, LoseUpdate(m) PROVE BucketMoves(a)
  BY <1>14, BucketRetires DEF LoseUpdate, bucketVars, nodeVars, histVars
<1>15. ASSUME NEW n \in Nodes, SaveTo(n) PROVE BucketMoves(a)
  BY <1>15, SaveToRetired, BucketRetires DEF SaveTo, bucketVars, workVars
<1>16. ASSUME NEW n \in Nodes, Crash(n) PROVE BucketMoves(a)
  <2>1. UNCHANGED <<store, rows, snap, net>> /\ excused \subseteq excused'
    BY <1>16 DEF Crash, bucketVars
  <2>2. \A i \in Jobs : job'[i] = job[i] \/ (job'[i].stage = "idle" /\ job'[i].left = {})
    BY <1>16 DEF Crash, NoJob, Types, WorkOK
  <2>3. \A i \in Nodes, k \in Keys : retired'[i][k] # "no" => k \in Doomed
    BY <1>16, CrashRetired, IsDoomed
  <2>4. /\ \A i \in Jobs, k \in Keys : k \in job'[i].left => k \in Doomed
        /\ \A i \in Jobs, k \in Keys : job'[i].stage = "published" /\ k \in job'[i].src => k \in Doomed
    BY <2>2, IsDoomed
  <2>5. \A i \in Jobs : Active(i)' => Active(i) /\ job'[i].src = job[i].src
    BY <2>2 DEF Active
  <2>6. QED
    BY <2>1, <2>3, <2>4, <2>5, IsDoomed, BucketKeeps
<1>17. ASSUME NEW n \in Nodes, Restart(n) PROVE BucketMoves(a)
  BY <1>17, CrashRetired, BucketRetires DEF Restart, bucketVars, workVars, histVars
<1>18. CASE UNCHANGED <<store, rows, retired, snap, job, net, excused>>
  BY <1>18, BucketRetires
<1>19. QED
  BY ZenonT(60), <1>1, <1>2, <1>3, <1>4, <1>5, <1>6, <1>7, <1>8, <1>9, <1>10, <1>11, <1>12, <1>13, <1>14, <1>15,
     <1>16, <1>17, <1>18
     DEF Next, JobStep, Deliver, StartListing, ReadPage, DropListing, bucketVars, nodeVars, workVars,
         histVars, vars

-----------------------------------------------------------------------------
(* What a step does to the pod that merges. *)

\* A step of another pod, or of the bucket.
Still(a) ==
    /\ up'[a] = up[a] /\ tracked'[a] = tracked[a] /\ retired'[a] = retired[a]
    /\ pending'[a] = pending[a] /\ listing'[a] = listing[a] /\ snap'[a] = snap[a]

\* A step after which a publishes nothing new, takes in only what it may, and its
\* listing has still seen what was retired before it.
PodGoal(a) ==
    /\ PodMoves(a, {})
    /\ \E K \in {tracked[a], snap[a].tracked, Adoptable(a)} : \A k \in tracked'[a] : k \in K \/ Fresh(k)
    /\ Listed(a)'

\* Stored keys are positive.
LEMMA StoredPositive ==
    ASSUME Types, WrittenInv, NEW k \in store
    PROVE  k \in Keys /\ k \in Nat /\ k > 0 /\ rows[k] # {}
<1>1. k \in Keys /\ rows[k] # {} /\ rows[k] \subseteq Raw
  BY DEF Types, BucketOK, WrittenInv
<1>2. PICK f \in Raw : TRUE
  BY <1>1
<1>3. k \in Nat /\ k > 0
  BY <1>1, <1>2, ManifestAssumption, SMT DEF ManifestAssumption, Keys
<1>4. QED
  BY <1>1, <1>3

\* A listing in flight loses sight of nothing while it reads no page.
LEMMA ListedKeeps ==
    ASSUME Types, WrittenInv, NEW a \in Nodes, Listed(a), BucketMoves(a),
           \A k \in Keys : retired'[a][k] # "no" =>
              retired[a][k] # "no" \/ (k \in store /\ (listing'[a].on => k \in listing'[a].late)),
           listing'[a].on => listing[a].on /\ listing'[a].pos = listing[a].pos
                             /\ listing'[a].seen = listing[a].seen
                             /\ listing[a].late \subseteq listing'[a].late
    PROVE  Listed(a)'
<1> SUFFICES ASSUME listing'[a].on, NEW k \in Keys, retired'[a][k] # "no", k \in store', k <= listing'[a].pos
             PROVE  k \in listing'[a].seen \cup listing'[a].late
  BY DEF Listed
<1>1. CASE retired[a][k] # "no"
  <2>1. k \in store
    BY <1>1 DEF BucketMoves, WrittenInv
  <2>2. QED
    BY <1>1, <2>1 DEF Listed
<1>2. QED
  BY <1>1

\* Steps that forget no retirement of a.
LEMMA PodKeeps ==
    ASSUME NEW a \in Nodes, up'[a] = up[a], snap'[a] = snap[a],
           listing'[a].seen \subseteq listing[a].seen \cup store,
           \A k \in Keys : retired[a][k] # "no" => retired'[a][k] # "no",
           \A k \in pending[a] : \/ k \in pending'[a] \/ Kept(a, k)'
                                 \/ k \notin store' \cup listing'[a].seen \/ rows'[k] \subseteq excused',
           \A k \in tracked'[a] : k \in tracked[a] \/ (Fresh(k) /\ flush[k] = "stored"),
           \A k \in listing'[a].added : k \in listing[a].added \/ Fresh(k)
    PROVE  /\ PodMoves(a, {})
           /\ \E K \in {tracked[a], snap[a].tracked, Adoptable(a)} : \A k \in tracked'[a] : k \in K \/ Fresh(k)
<1>1. \A k \in Keys : Kept(a, k) => Kept(a, k)'
  BY DEF Kept
<1>2. \A k \in listing'[a].added \cap tracked'[a] :
         k \in (listing[a].added \cap tracked[a]) \cup {} \/ Fresh(k)
  OBVIOUS
<1>3. PodMoves(a, {})
  BY <1>1, <1>2 DEF PodMoves
<1>4. QED
  BY <1>3

\* Steps of others.
LEMMA StillGoal ==
    ASSUME Types, WrittenInv, NEW a \in Nodes, Listed(a), BucketMoves(a), Still(a)
    PROVE  PodGoal(a)
<1>1. Listed(a)'
  BY ListedKeeps DEF Still
<1>2. /\ up'[a] = up[a] /\ snap'[a] = snap[a]
      /\ listing'[a].seen \subseteq listing[a].seen \cup store
      /\ \A k \in Keys : retired[a][k] # "no" => retired'[a][k] # "no"
      /\ \A k \in pending[a] : \/ k \in pending'[a] \/ Kept(a, k)'
                               \/ k \notin store' \cup listing'[a].seen \/ rows'[k] \subseteq excused'
      /\ \A k \in tracked'[a] : k \in tracked[a] \/ (Fresh(k) /\ flush[k] = "stored")
      /\ \A k \in listing'[a].added : k \in listing[a].added \/ Fresh(k)
  <2>1. /\ up'[a] = up[a] /\ tracked'[a] = tracked[a] /\ retired'[a] = retired[a]
        /\ pending'[a] = pending[a] /\ listing'[a] = listing[a] /\ snap'[a] = snap[a]
    BY DEF Still
  <2>2. /\ listing'[a].seen \subseteq listing[a].seen \cup store
        /\ \A k \in Keys : retired[a][k] # "no" => retired'[a][k] # "no"
    BY ONLY <2>1, Zenon
  <2>3. /\ \A k \in pending[a] : k \in pending'[a]
        /\ \A k \in tracked'[a] : k \in tracked[a]
        /\ \A k \in listing'[a].added : k \in listing[a].added
    BY ONLY <2>1, Zenon
  <2>4. QED
    BY ONLY <2>1, <2>2, <2>3, Zenon
<1>3. /\ PodMoves(a, {})
      /\ \E K \in {tracked[a], snap[a].tracked, Adoptable(a)} : \A k \in tracked'[a] : k \in K \/ Fresh(k)
  BY ONLY <1>2, PodKeeps, a \in Nodes, Zenon
<1>4. QED
  BY <1>1, <1>3 DEF PodGoal

\* AddFiles and the listing in flight.
LEMMA AddFilesPod ==
    ASSUME Types, NEW n \in Nodes, NEW K \in SUBSET Keys, AddFiles(n, K)
    PROVE  /\ tracked'[n] = tracked[n] \cup K
           /\ \A k \in Keys : retired'[n][k] = IF k \in K \ tracked[n] THEN "no" ELSE retired[n][k]
           /\ pending'[n] = pending[n] \ (K \ tracked[n])
           /\ listing'[n].on = listing[n].on /\ listing'[n].pos = listing[n].pos
           /\ listing'[n].seen = listing[n].seen /\ listing'[n].late = listing[n].late
           /\ listing'[n].added \subseteq listing[n].added \cup K
<1> DEFINE new == K \ tracked[n]
           l == listing[n]
           X == IF l.on THEN l.added \cup new ELSE l.added
<1>1. tracked'[n] = tracked[n] \cup K /\ pending'[n] = pending[n] \ new
  BY DEF AddFiles, Types, NodesOK
<1>2. \A k \in Keys : retired'[n][k] = IF k \in new THEN "no" ELSE retired[n][k]
  BY DEF AddFiles, Types, NodesOK
<1>3. l \in ListingType /\ listing' = [listing EXCEPT ![n] = [l EXCEPT !.added = X]]
  BY DEF AddFiles, Types, ListingsOK
<1>4. listing'[n] = [l EXCEPT !.added = X]
  BY <1>3 DEF Types, ListingsOK
<1>5. l = [on |-> l.on, pos |-> l.pos, seen |-> l.seen, added |-> l.added, late |-> l.late, must |-> l.must]
  BY <1>3 DEF ListingType
<1>6. /\ listing'[n].on = l.on /\ listing'[n].pos = l.pos /\ listing'[n].seen = l.seen
      /\ listing'[n].late = l.late /\ listing'[n].added = X
  <2> HIDE DEF l, X
  <2>1. QED
    BY <1>4, <1>5
<1>7. QED
  BY <1>1, <1>2, <1>6

\* RetireFiles and the listing in flight.
LEMMA RetireFilesPod ==
    ASSUME Types, NEW n \in Nodes, NEW K \in SUBSET Keys, RetireFiles(n, K, TRUE)
    PROVE  /\ tracked'[n] = tracked[n] \ K
           /\ \A k \in Keys : retired'[n][k] = IF k \in K THEN "owed" ELSE retired[n][k]
           /\ pending'[n] = pending[n] \ K
           /\ listing'[n].on = listing[n].on /\ listing'[n].pos = listing[n].pos
           /\ listing'[n].seen = listing[n].seen /\ listing'[n].added = listing[n].added
           /\ listing[n].late \subseteq listing'[n].late /\ (listing[n].on => K \subseteq listing'[n].late)
<1> DEFINE l == listing[n]
           X == IF l.on THEN l.late \cup K ELSE l.late
<1>1. tracked'[n] = tracked[n] \ K /\ pending'[n] = pending[n] \ K
  BY DEF RetireFiles, Types, NodesOK
<1>2. \A k \in Keys : retired'[n][k] = IF k \in K THEN "owed" ELSE retired[n][k]
  BY DEF RetireFiles, Types, NodesOK
<1>3. l \in ListingType /\ listing' = [listing EXCEPT ![n] = [l EXCEPT !.late = X]]
  BY DEF RetireFiles, Types, ListingsOK
<1>4. listing'[n] = [l EXCEPT !.late = X]
  BY <1>3 DEF Types, ListingsOK
<1>5. l = [on |-> l.on, pos |-> l.pos, seen |-> l.seen, added |-> l.added, late |-> l.late, must |-> l.must]
  BY <1>3 DEF ListingType
<1>6. /\ listing'[n].on = l.on /\ listing'[n].pos = l.pos /\ listing'[n].seen = l.seen
      /\ listing'[n].late = X /\ listing'[n].added = l.added
  <2> HIDE DEF l, X
  <2>1. QED
    BY <1>4, <1>5
<1>7. QED
  BY <1>1, <1>2, <1>6

\* A flush registers its object on a.
LEMMA RegisterFlushGoal ==
    ASSUME Types, WrittenInv, NEW a \in Nodes, Flushed, Listed(a), BucketMoves(a),
           NEW f \in Raw, WriterOf[f] = a, RegisterFlush(f)
    PROVE  PodGoal(a)
<1>1. /\ UNCHANGED <<store, rows, up, snap>> /\ flush[f] = "stored" /\ f \in Keys /\ f \notin pending[a]
      /\ {f} \in SUBSET Keys
  BY KeysAreNumbers DEF RegisterFlush, bucketVars, Keys, Types, NodesOK
<1>2. CASE retired[a][f] # "no"
  <2>1. RetireFiles(a, {f}, TRUE)
    BY <1>2 DEF RegisterFlush
  <2>2. /\ tracked'[a] = tracked[a] \ {f}
        /\ \A k \in Keys : retired'[a][k] = IF k \in {f} THEN "owed" ELSE retired[a][k]
        /\ pending'[a] = pending[a] \ {f}
        /\ listing'[a].on = listing[a].on /\ listing'[a].pos = listing[a].pos
        /\ listing'[a].seen = listing[a].seen /\ listing'[a].added = listing[a].added
        /\ listing[a].late \subseteq listing'[a].late
    BY ZenonT(60), <1>1, <2>1, RetireFilesPod
  <2>3. \A k \in Keys : retired'[a][k] # "no" <=> retired[a][k] # "no"
    BY <1>2, <2>2
  <2>4. Listed(a)'
    BY <2>2, <2>3, ListedKeeps
  <2>5. /\ up'[a] = up[a] /\ snap'[a] = snap[a] /\ listing'[a].seen \subseteq listing[a].seen \cup store
        /\ \A k \in Keys : retired[a][k] # "no" => retired'[a][k] # "no"
        /\ \A k \in pending[a] : \/ k \in pending'[a] \/ Kept(a, k)'
                                 \/ k \notin store' \cup listing'[a].seen \/ rows'[k] \subseteq excused'
        /\ \A k \in tracked'[a] : k \in tracked[a] \/ (Fresh(k) /\ flush[k] = "stored")
        /\ \A k \in listing'[a].added : k \in listing[a].added \/ Fresh(k)
    <3>1. \A k \in tracked'[a] : k \in tracked[a]
      BY <2>2
    <3>2. \A k \in pending[a] : k \in pending'[a]
      BY <1>1, <2>2
    <3>3. \A k \in listing'[a].added : k \in listing[a].added
      BY <2>2
    <3>4. up'[a] = up[a] /\ snap'[a] = snap[a] /\ listing'[a].seen \subseteq listing[a].seen \cup store
      BY <1>1, <2>2
    <3>5. QED
      BY ONLY <2>3, <3>1, <3>2, <3>3, <3>4, Zenon
  <2>6. /\ PodMoves(a, {})
        /\ \E K \in {tracked[a], snap[a].tracked, Adoptable(a)} : \A k \in tracked'[a] : k \in K \/ Fresh(k)
    BY ONLY <2>5, PodKeeps, a \in Nodes, Zenon
  <2>7. QED
    BY <2>4, <2>6 DEF PodGoal
<1>3. CASE retired[a][f] = "no"
  <2>1. AddFiles(a, {f})
    BY <1>3 DEF RegisterFlush
  <2>2. /\ tracked'[a] = tracked[a] \cup {f}
        /\ \A k \in Keys : retired'[a][k] = IF k \in {f} \ tracked[a] THEN "no" ELSE retired[a][k]
        /\ pending'[a] = pending[a] \ ({f} \ tracked[a])
        /\ listing'[a].on = listing[a].on /\ listing'[a].pos = listing[a].pos
        /\ listing'[a].seen = listing[a].seen /\ listing'[a].late = listing[a].late
        /\ listing'[a].added \subseteq listing[a].added \cup {f}
    BY <1>1, <2>1, AddFilesPod
  <2>3. \A k \in Keys : retired'[a][k] = retired[a][k]
    BY <1>3, <2>2
  <2>4. Listed(a)'
    BY <2>2, <2>3, ListedKeeps
  <2>5. Fresh(f)
    <3>1. rows[f] # {} /\ rows[f] \subseteq {f}
      BY <1>1 DEF WrittenInv, Flushed
    <3>2. \A k \in Keys : k # f => f \notin rows[k]
      BY <1>1 DEF Flushed
    <3>3. QED
      BY <1>1, <3>1, <3>2 DEF Fresh
  <2>6. /\ up'[a] = up[a] /\ snap'[a] = snap[a] /\ listing'[a].seen \subseteq listing[a].seen \cup store
        /\ \A k \in Keys : retired[a][k] # "no" => retired'[a][k] # "no"
        /\ \A k \in pending[a] : \/ k \in pending'[a] \/ Kept(a, k)'
                                 \/ k \notin store' \cup listing'[a].seen \/ rows'[k] \subseteq excused'
        /\ \A k \in tracked'[a] : k \in tracked[a] \/ (Fresh(k) /\ flush[k] = "stored")
        /\ \A k \in listing'[a].added : k \in listing[a].added \/ Fresh(k)
    <3>1. \A k \in tracked'[a] : k \in tracked[a] \/ k = f
      BY <2>2
    <3>2. \A k \in listing'[a].added : k \in listing[a].added \/ k = f
      BY <2>2
    <3>3. \A k \in pending[a] : k \in pending'[a]
      BY <1>1, <2>2
    <3>4. QED
      BY <1>1, <2>2, <2>3, <2>5, <3>1, <3>2, <3>3
  <2>7. /\ PodMoves(a, {})
        /\ \E K \in {tracked[a], snap[a].tracked, Adoptable(a)} : \A k \in tracked'[a] : k \in K \/ Fresh(k)
    BY ONLY <2>6, PodKeeps, a \in Nodes, Zenon
  <2>8. QED
    BY <2>4, <2>7 DEF PodGoal
<1>4. QED
  BY <1>2, <1>3

\* Confirming a delete forgets no retirement.
LEMMA ConfirmDeletedPod ==
    ASSUME Types, NEW n \in Nodes, NEW d \in Keys, retired' = ConfirmDeleted(n, d),
           NEW i \in Nodes, NEW k \in Keys
    PROVE  retired'[i][k] # "no" <=> retired[i][k] # "no"
<1>1. \/ retired'[i][k] = retired[i][k]
      \/ i = n /\ k = d /\ retired[i][k] # "no" /\ retired'[i][k] = "deleted"
  BY ConfirmDeletedRetired, SMT
<1>2. QED
  BY <1>1

\* Steps of a that leave its manifest and its listing alone.
LEMMA QuietGoal ==
    ASSUME Types, WrittenInv, NEW a \in Nodes, Listed(a), BucketMoves(a),
           up'[a] = up[a], snap'[a] = snap[a], tracked'[a] = tracked[a], listing'[a] = listing[a],
           \A k \in Keys : retired'[a][k] # "no" <=> retired[a][k] # "no",
           \A k \in pending[a] : \/ k \in pending'[a] \/ Kept(a, k)'
                                 \/ k \notin store' \cup listing'[a].seen \/ rows'[k] \subseteq excused'
    PROVE  PodGoal(a)
<1>1. Listed(a)'
  BY ListedKeeps
<1>2. /\ listing'[a].seen \subseteq listing[a].seen \cup store
      /\ \A k \in tracked'[a] : k \in tracked[a]
      /\ \A k \in listing'[a].added : k \in listing[a].added
  OBVIOUS
<1>3. /\ PodMoves(a, {})
      /\ \E K \in {tracked[a], snap[a].tracked, Adoptable(a)} : \A k \in tracked'[a] : k \in K \/ Fresh(k)
  BY <1>2, PodKeeps
<1>4. QED
  BY <1>1, <1>3 DEF PodGoal

\* The steps of a merge before it publishes, and its deletes.
LEMMA JobGoal ==
    ASSUME Types, WrittenInv, JobsInv, NEW a \in Nodes, OneMerger(a), Reached(a), Listed(a), BucketMoves(a),
           NEW j \in Jobs,
           \/ \E S \in SUBSET tracked[RunsOn[j]], o \in Outs : ClaimOutput(j, S, o)
           \/ StoreOutputError(j)
           \/ \E k \in Keys : DeleteObject(j, k)
    PROVE  PodGoal(a)
<1>0. RunsOn[j] = a
  BY DEF OneMerger
<1>1. ASSUME NEW S, NEW o, ClaimOutput(j, S, o) PROVE PodGoal(a)
  <2>1. UNCHANGED <<up, tracked, retired, listing, snap>> /\ \A k \in pending[a] : k \in pending'[a]
    BY <1>0, <1>1 DEF ClaimOutput, Types, NodesOK
  <2>2. QED
    BY <2>1, QuietGoal
<1>2. CASE StoreOutputError(j)
  <2> DEFINE o == job[j].out
  <2>1. UNCHANGED <<up, tracked, retired, listing, snap>> /\ pending'[a] = pending[a] \ {o}
    BY <1>0, <1>2 DEF StoreOutputError, Types, NodesOK
  <2>2. rows[o] = {} /\ o \in Keys
    BY <1>2 DEF StoreOutputError, JobsInv, JobOK, Keys
  <2>3. o \notin store \cup listing[a].seen
    BY <2>2 DEF WrittenInv, Reached
  <2>4. store' = store \/ rows'[o] \subseteq excused'
    BY <1>2, <2>2 DEF StoreOutputError, bucketVars, Types, BucketOK
  <2>5. \A k \in pending[a] : \/ k \in pending'[a] \/ Kept(a, k)'
                              \/ k \notin store' \cup listing'[a].seen \/ rows'[k] \subseteq excused'
    BY <2>1, <2>3, <2>4
  <2>6. QED
    BY <2>1, <2>5, QuietGoal
<1>3. ASSUME NEW k \in Keys, DeleteObject(j, k) PROVE PodGoal(a)
  <2>1. UNCHANGED <<up, tracked, pending, listing, snap>> /\ retired' = ConfirmDeleted(a, k)
    BY <1>0, <1>3 DEF DeleteObject
  <2>2. \A i \in Keys : retired'[a][i] # "no" <=> retired[a][i] # "no"
    BY <2>1, ConfirmDeletedPod
  <2>3. QED
    BY <2>1, <2>2, QuietGoal
<1>4. QED
  BY <1>1, <1>2, <1>3

\* A merge whose source has left the manifest retires its output.
LEMMA AbandonGoal ==
    ASSUME Types, WrittenInv, JobsInv, NEW a \in Nodes, OneMerger(a), WorkAt(a), Listed(a), BucketMoves(a),
           NEW j \in Jobs, Abandon(j)
    PROVE  PodGoal(a)
<1> DEFINE o == job[j].out
<1>1. /\ UNCHANGED <<store, rows, up, snap>> /\ job[j].stage = "stored" /\ o \in Keys
      /\ {o} \in SUBSET Keys /\ RunsOn[j] = a /\ RetireFiles(RunsOn[j], {o}, TRUE)
  BY DEF Abandon, bucketVars, JobsInv, JobOK, Keys, OneMerger
<1>2. up[a]
  BY <1>1, MergerIsUp
<1>3. /\ tracked'[a] = tracked[a] \ {o}
      /\ \A k \in Keys : retired'[a][k] = IF k \in {o} THEN "owed" ELSE retired[a][k]
      /\ pending'[a] = pending[a] \ {o}
      /\ listing'[a].on = listing[a].on /\ listing'[a].pos = listing[a].pos
      /\ listing'[a].seen = listing[a].seen /\ listing'[a].added = listing[a].added
      /\ listing[a].late \subseteq listing'[a].late /\ (listing[a].on => {o} \subseteq listing'[a].late)
  <2>1. RetireFiles(a, {o}, TRUE) /\ {o} \in SUBSET Keys
    BY <1>1
  <2> HIDE DEF o
  <2>2. QED
    BY <2>1, RetireFilesPod
<1>4. Listed(a)'
  <2> SUFFICES ASSUME listing'[a].on, NEW k \in Keys, retired'[a][k] # "no", k \in store', k <= listing'[a].pos
               PROVE  k \in listing'[a].seen \cup listing'[a].late
    BY DEF Listed
  <2>1. CASE k = o
    BY <1>3, <2>1
  <2>2. CASE k # o
    <3>1. retired[a][k] # "no" /\ k \in store
      BY <1>1, <1>3, <2>2
    <3>2. QED
      BY <1>3, <3>1 DEF Listed
  <2>3. QED
    BY <2>1, <2>2
<1>5. /\ up'[a] = up[a] /\ snap'[a] = snap[a] /\ listing'[a].seen \subseteq listing[a].seen \cup store
      /\ \A k \in Keys : retired[a][k] # "no" => retired'[a][k] # "no"
  BY <1>1, <1>3
<1>6. \A k \in pending[a] : k \in pending'[a] \/ Kept(a, k)'
  <2>1. \A k \in pending[a] : k \in Keys
    BY DEF Types, NodesOK, Keys
  <2>2. QED
    BY <1>1, <1>2, <1>3, <2>1 DEF Kept
<1>7. /\ \A k \in tracked'[a] : k \in tracked[a]
      /\ \A k \in listing'[a].added : k \in listing[a].added
  BY <1>3
<1>8. /\ PodMoves(a, {})
      /\ \E K \in {tracked[a], snap[a].tracked, Adoptable(a)} : \A k \in tracked'[a] : k \in K \/ Fresh(k)
  BY <1>5, <1>6, <1>7, PodKeeps
<1>9. QED
  BY <1>4, <1>8 DEF PodGoal

\* A deletes the object of one of its retirements.
LEMMA ReclaimGoal ==
    ASSUME Types, WrittenInv, NEW a \in Nodes, Listed(a), BucketMoves(a), NEW d \in Keys,
           Reclaim(a, d) \/ SweepOrphan(a, d)
    PROVE  PodGoal(a)
<1>1. UNCHANGED <<up, tracked, pending, listing, snap>> /\ retired' = ConfirmDeleted(a, d)
  BY DEF Reclaim, SweepOrphan, DeleteRetired
<1>2. \A k \in Keys : retired'[a][k] # "no" <=> retired[a][k] # "no"
  BY <1>1, ConfirmDeletedPod
<1>3. QED
  BY <1>1, <1>2, QuietGoal

\* A begins a listing, reads a page of it or drops it.
LEMMA ListingGoal ==
    ASSUME Types, WrittenInv, NEW a \in Nodes, Listed(a), BucketMoves(a),
           \/ StartListing(a) \/ DropListing(a)
           \/ \E p \in PageEnds : ReadPage(a, p)
    PROVE  PodGoal(a)
<1>0. UNCHANGED <<store, rows, up, tracked, retired, pending, snap>>
  BY DEF StartListing, DropListing, ReadPage, bucketVars
<1>1. CASE StartListing(a) \/ DropListing(a)
  <2>1. /\ listing'[a].pos = 0 /\ listing'[a].seen = {} /\ listing'[a].added = {}
    <3>1. \E l \in {NoListing, [NoListing EXCEPT !.on = TRUE, !.must = RowsOf(store)]} :
             listing' = [listing EXCEPT ![a] = l]
      BY <1>1 DEF StartListing, DropListing
    <3>2. PICK l \in {NoListing, [NoListing EXCEPT !.on = TRUE, !.must = RowsOf(store)]} : listing'[a] = l
      BY <3>1 DEF Types, ListingsOK
    <3>3. /\ NoListing.pos = 0 /\ NoListing.seen = {} /\ NoListing.added = {}
          /\ NoListing = [on |-> FALSE, pos |-> 0, seen |-> {}, added |-> {}, late |-> {}, must |-> {}]
      BY DEF NoListing
    <3>4. CASE l = NoListing
      BY <3>2, <3>3, <3>4
    <3>5. CASE l = [NoListing EXCEPT !.on = TRUE, !.must = RowsOf(store)]
      BY <3>2, <3>3, <3>5
    <3>6. QED
      BY <3>4, <3>5
  <2>2. \A k \in store' : ~(k <= listing'[a].pos)
    BY <1>0, <2>1, StoredPositive, SMTT(30)
  <2>3. Listed(a)'
    BY <2>2 DEF Listed
  <2>4. /\ up'[a] = up[a] /\ snap'[a] = snap[a] /\ listing'[a].seen \subseteq listing[a].seen \cup store
        /\ \A k \in Keys : retired[a][k] # "no" => retired'[a][k] # "no"
        /\ \A k \in pending[a] : k \in pending'[a]
        /\ \A k \in tracked'[a] : k \in tracked[a]
        /\ \A k \in listing'[a].added : k \in listing[a].added
    BY <1>0, <2>1
  <2>5. /\ PodMoves(a, {})
        /\ \E K \in {tracked[a], snap[a].tracked, Adoptable(a)} : \A k \in tracked'[a] : k \in K \/ Fresh(k)
    BY <2>4, PodKeeps
  <2>6. QED
    BY <2>3, <2>5 DEF PodGoal
<1>2. ASSUME NEW p \in PageEnds, ReadPage(a, p) PROVE PodGoal(a)
  <2> DEFINE l == listing[a]
             N == {k \in store : l.pos < k /\ k <= p}
  <2>1. l \in ListingType /\ listing' = [listing EXCEPT ![a] = [l EXCEPT !.pos = p, !.seen = l.seen \cup N]] /\ l.on
    BY <1>2 DEF ReadPage, Types, ListingsOK
  <2>2. listing'[a] = [l EXCEPT !.pos = p, !.seen = l.seen \cup N]
    BY <2>1 DEF Types, ListingsOK
  <2>3. l = [on |-> l.on, pos |-> l.pos, seen |-> l.seen, added |-> l.added, late |-> l.late, must |-> l.must]
    BY <2>1 DEF ListingType
  <2>4. /\ listing'[a].on = l.on /\ listing'[a].pos = p /\ listing'[a].seen = l.seen \cup N
        /\ listing'[a].late = l.late /\ listing'[a].added = l.added
    <3> HIDE DEF l, N
    <3>1. QED
      BY <2>2, <2>3
  <2>5. Listed(a)'
    <3> SUFFICES ASSUME NEW k \in Keys, retired'[a][k] # "no", k \in store', k <= p
                 PROVE  k \in l.seen \cup N \cup l.late
      BY <2>4 DEF Listed
    <3>1. k \in store /\ retired[a][k] # "no"
      BY <1>0
    <3>2. CASE k <= l.pos
      BY <2>1, <3>1, <3>2 DEF Listed
    <3>3. CASE ~(k <= l.pos)
      <4>1. k \in Nat /\ l.pos \in Nat
        BY <2>1, <3>1, StoredPositive DEF ListingType
      <4>2. l.pos < k
        BY <3>3, <4>1, SMTT(30)
      <4>3. QED
        BY <3>1, <4>2
    <3>4. QED
      BY <3>2, <3>3
  <2>6. /\ up'[a] = up[a] /\ snap'[a] = snap[a] /\ listing'[a].seen \subseteq listing[a].seen \cup store
        /\ \A k \in Keys : retired[a][k] # "no" => retired'[a][k] # "no"
        /\ \A k \in pending[a] : k \in pending'[a]
        /\ \A k \in tracked'[a] : k \in tracked[a]
        /\ \A k \in listing'[a].added : k \in listing[a].added
    BY <1>0, <2>4
  <2>7. /\ PodMoves(a, {})
        /\ \E K \in {tracked[a], snap[a].tracked, Adoptable(a)} : \A k \in tracked'[a] : k \in K \/ Fresh(k)
    BY <2>6, PodKeeps
  <2>8. QED
    BY <2>5, <2>7 DEF PodGoal
<1>3. QED
  BY <1>1, <1>2

\* While the cap has room for the deletes that wait, it evicts only retirements whose
\* object is gone.
LEMMA EvictsDeleted ==
    ASSUME NEW R \in [Keys -> Retirement], NEW E \in Evictions(R), ~Overflows(R), NEW e \in E
    PROVE  R[e] = "deleted"
<1> DEFINE kept == {k \in Keys : R[k] # "no"}
           waits == {k \in Keys : R[k] \in {"unowed", "owed"}}
           stays == kept \ E
<1>1. /\ E \subseteq kept
      /\ Cardinality(stays) = IF Cardinality(kept) > MaxRetired THEN MaxRetired ELSE Cardinality(kept)
      /\ \A k \in stays : EvictionRank[R[e]] <= EvictionRank[R[k]]
  BY DEF Evictions
<1>2. ~(Cardinality(waits) > MaxRetired) /\ MaxRetired \in Nat
  BY ManifestAssumption DEF Overflows
<1>3. IsFiniteSet(Keys)
  BY ManifestAssumption, FS_Union DEF Keys
<1>4. IsFiniteSet(kept) /\ IsFiniteSet(waits) /\ IsFiniteSet(stays)
  <2>1. kept \subseteq Keys /\ waits \subseteq Keys /\ stays \subseteq Keys
    OBVIOUS
  <2> HIDE DEF kept, waits, stays
  <2> QED BY <1>3, <2>1, FS_Subset
<1>5. SUFFICES ASSUME R[e] # "deleted" PROVE FALSE
  OBVIOUS
<1>6. e \in kept /\ e \notin stays /\ R[e] \in {"unowed", "owed"}
  BY <1>1, <1>5 DEF Retirement
<1>7. \A k \in stays : R[k] # "deleted"
  <2> SUFFICES ASSUME NEW k \in stays, R[k] = "deleted" PROVE FALSE
    OBVIOUS
  <2>1. EvictionRank[R[e]] <= EvictionRank["deleted"]
    BY <1>1
  <2>2. EvictionRank["deleted"] = 1 /\ EvictionRank["unowed"] = 2 /\ EvictionRank["owed"] = 3
    BY SMT DEF EvictionRank
  <2> QED BY ONLY <1>6, <2>1, <2>2, SMT
<1>8. stays \cup {e} \subseteq waits /\ stays \cup {e} \subseteq kept
  BY <1>6, <1>7 DEF Retirement
<1> HIDE DEF kept, waits, stays
<1>9. Cardinality(stays \cup {e}) = Cardinality(stays) + 1
  BY <1>4, <1>6, FS_AddElement
<1>10. Cardinality(stays \cup {e}) <= Cardinality(waits) /\ Cardinality(stays \cup {e}) <= Cardinality(kept)
  BY <1>4, <1>8, FS_Subset
<1>11. Cardinality(stays) \in Nat /\ Cardinality(waits) \in Nat /\ Cardinality(kept) \in Nat
  BY <1>4, FS_CardinalityType
<1> QED BY ONLY <1>1, <1>2, <1>9, <1>10, <1>11, SMT

\* A applies a listing: what it forgets is in no object, or excused.
LEMMA ApplyListingGoal ==
    ASSUME Types, WrittenInv, NEW a \in Nodes, WorkAt(a), Listed(a), BucketMoves(a), ApplyListing(a)
    PROVE  PodGoal(a)
<1>1. /\ UNCHANGED <<store, rows, up, pending, snap>> /\ tracked'[a] = Merged(a)
      /\ listing[a].on /\ \A k \in Keys : k <= listing[a].pos
  BY DEF ApplyListing, bucketVars, Types, NodesOK
<1>2. /\ listing'[a].on = FALSE /\ listing'[a].seen = {} /\ listing'[a].added = {}
  BY DEF ApplyListing, NoListing, Types, ListingsOK
<1>3. up[a]
  <2>1. NoListing.on = FALSE
    BY DEF NoListing
  <2>2. QED
    BY <1>1, <2>1 DEF WorkAt
<1> DEFINE R == Without(retired[a], Settled(a))
<1>4. PICK E \in Evictions(R) :
               /\ retired' = [retired EXCEPT ![a] = Without(R, E)]
               /\ excused' = excused \cup RowsOf(IF Overflows(R) THEN E \cap store ELSE {})
  BY DEF ApplyListing
<1>5. \A k \in Keys : retired'[a][k] = IF k \in E \cup Settled(a) THEN "no" ELSE retired[a][k]
  BY <1>4 DEF Without, Types, NodesOK
<1>6. \A k \in Merged(a) : /\ k \in Keys /\ retired[a][k] = "no" /\ k \in tracked[a] \cup listing[a].seen
                           /\ k \in Adoptable(a)
  <2> SUFFICES ASSUME NEW k \in Merged(a)
               PROVE  /\ k \in Keys /\ retired[a][k] = "no" /\ k \in tracked[a] \cup listing[a].seen
                      /\ k \in Adoptable(a)
    OBVIOUS
  <2>1. listing[a].seen \subseteq Keys /\ tracked[a] \subseteq Keys
    BY DEF Types, ListingsOK, ListingType, NodesOK
  <2>2. CASE k \in listing[a].seen \ (Retired(a) \cup pending[a])
    BY <1>3, <2>1, <2>2 DEF Retired, Kept, Adoptable
  <2>3. CASE k \in listing[a].added \cap tracked[a]
    BY <2>1, <2>3 DEF Adoptable, Types, Apart
  <2>4. QED
    BY <2>2, <2>3 DEF Merged
<1>7. ASSUME NEW k \in Keys, Kept(a, k), ~Kept(a, k)'
      PROVE  k \notin store' \cup listing'[a].seen \cup tracked'[a] \/ rows[k] \subseteq excused'
  <2>1. retired[a][k] # "no" /\ k \in E \cup Settled(a) /\ k \notin tracked'[a]
    BY <1>1, <1>3, <1>5, <1>6, <1>7 DEF Kept
  <2>2. CASE k \in store
    <3>1. k \notin Settled(a)
      BY <1>1, <2>1, <2>2 DEF Settled, Listed
    <3>2. k \in E /\ R \in [Keys -> Retirement] /\ R[k] = retired[a][k]
      BY <2>1, <3>1 DEF Without, Types, NodesOK, Retirement
    <3>3. Overflows(R)
      <4>1. R[k] # "deleted"
        BY <2>2, <3>2 DEF WrittenInv
      <4> HIDE DEF R
      <4> QED BY <1>4, <3>2, <4>1, EvictsDeleted
    <3>4. QED
      BY <1>4, <2>2, <3>2, <3>3 DEF RowsOf
  <2>3. QED
    BY <1>1, <1>2, <2>1, <2>2
<1>8. Listed(a)'
  BY <1>2 DEF Listed
<1>9. PodMoves(a, {})
  <2>1. /\ listing'[a].seen \subseteq listing[a].seen \cup store
        /\ \A k \in listing'[a].added \cap tracked'[a] :
              k \in (listing[a].added \cap tracked[a]) \cup {} \/ Fresh(k)
        /\ snap'[a].tracked \in {snap[a].tracked, tracked[a]}
    BY <1>1, <1>2
  <2>2. \A k \in pending[a] \ {} : k \in pending'[a]
    BY <1>1
  <2>3. \A k \in tracked'[a] : k \in tracked[a] \cup listing[a].seen \cup {}
    BY <1>1, <1>6
  <2>4. QED
    BY <1>7, <2>1, <2>2, <2>3 DEF PodMoves
<1>10. QED
  BY <1>1, <1>6, <1>8, <1>9 DEF PodGoal

\* A saves its snapshot: what the cap evicts is in no object or listing, or excused.
LEMMA SaveToGoal ==
    ASSUME Types, WrittenInv, NEW a \in Nodes, Listed(a), BucketMoves(a), SaveTo(a)
    PROVE  PodGoal(a)
<1>1. UNCHANGED <<store, rows, up, tracked, pending, listing>> /\ up[a]
  BY DEF SaveTo, bucketVars
<1>2. PICK E \in Evictions(retired[a]) :
               /\ retired' = [retired EXCEPT ![a] = Without(retired[a], E)]
               /\ snap' = [snap EXCEPT ![a] = [tracked |-> tracked[a], retired |-> Without(retired[a], E)]]
               /\ excused' = excused \cup RowsOf(E \cap (listing[a].seen \cup
                                         (IF Overflows(retired[a]) THEN store ELSE {})))
  BY DEF SaveTo, Types, NodesOK
<1>3. \A k \in Keys : retired'[a][k] = IF k \in E THEN "no" ELSE retired[a][k]
  BY <1>2 DEF Without, Types, NodesOK
<1>4. snap'[a].tracked = tracked[a]
  BY <1>2 DEF Types, SnapsOK
<1>5. ASSUME NEW k \in Keys, Kept(a, k), ~Kept(a, k)'
      PROVE  k \notin store' \cup listing'[a].seen \cup tracked'[a] \/ rows[k] \subseteq excused'
  <2>1. retired[a][k] # "no" /\ k \in E
    BY <1>1, <1>3, <1>5 DEF Kept
  <2>2. k \notin tracked'[a]
    BY <1>1, <2>1 DEF Types, Apart
  <2>3. CASE k \in store \cup listing[a].seen
    <3>1. k \in store => Overflows(retired[a])
      <4>1. retired[a] \in [Keys -> Retirement]
        BY DEF Types, NodesOK
      <4>2. k \in store => retired[a][k] # "deleted"
        BY DEF WrittenInv
      <4> QED BY <1>2, <2>1, <4>1, <4>2, EvictsDeleted
    <3>2. QED
      BY <1>2, <2>1, <2>3, <3>1 DEF RowsOf
  <2>4. QED
    BY <1>1, <2>2, <2>3
<1>6. Listed(a)'
  BY <1>1, <1>3, ListedKeeps
<1>7. PodMoves(a, {})
  <2>1. /\ listing'[a].seen \subseteq listing[a].seen \cup store
        /\ \A k \in listing'[a].added \cap tracked'[a] :
              k \in (listing[a].added \cap tracked[a]) \cup {} \/ Fresh(k)
        /\ snap'[a].tracked \in {snap[a].tracked, tracked[a]}
    BY <1>1, <1>4
  <2>2. \A k \in pending[a] \ {} : k \in pending'[a]
    BY <1>1
  <2>3. \A k \in tracked'[a] : k \in tracked[a] \cup listing[a].seen \cup {}
    BY <1>1
  <2>4. QED
    BY <1>5, <2>1, <2>2, <2>3 DEF PodMoves
<1>8. QED
  BY <1>1, <1>6, <1>7 DEF PodGoal

\* A crashes: what the next process adopts is excused.
LEMMA CrashGoal ==
    ASSUME Types, WrittenInv, JobsInv, NEW a \in Nodes, OneMerger(a), WorkAt(a), BucketMoves(a), Crash(a)
    PROVE  PodGoal(a)
<1>1. /\ UNCHANGED <<store, rows, snap>> /\ up[a] /\ ~up'[a] /\ tracked'[a] = {}
      /\ excused' = excused \cup RowsOf(Unsafe(a))
  BY DEF Crash, bucketVars, Types, NodesOK
<1>2. /\ listing'[a].on = FALSE /\ listing'[a].seen = {} /\ listing'[a].added = {}
  BY DEF Crash, NoListing, Types, ListingsOK
<1>3. \A k \in Unsafe(a) : rows[k] \subseteq excused'
  BY <1>1 DEF RowsOf
<1>4. ASSUME NEW k \in Keys, Kept(a, k), ~Kept(a, k)'
      PROVE  k \notin store' \cup listing'[a].seen \cup tracked'[a] \/ rows[k] \subseteq excused'
  <2>1. retired[a][k] # "no" /\ snap[a].retired[k] = "no"
    BY <1>1, <1>4 DEF Kept
  <2>2. CASE k \in store
    BY <1>3, <2>1, <2>2 DEF Unsafe, Retired
  <2>3. QED
    BY <1>1, <1>2, <2>2
<1>5. ASSUME NEW k \in pending[a], k \in store' \cup listing'[a].seen PROVE rows'[k] \subseteq excused'
  <2>1. PICK j \in Jobs : Active(j) /\ job[j].out = k
    BY DEF WorkAt
  <2>2. k \in store /\ k \in Keys
    BY <1>1, <1>2, <1>5 DEF Types, BucketOK
  <2>3. job[j].stage = "stored"
    BY <2>1, <2>2 DEF Active, JobsInv, JobOK, WrittenInv
  <2>4. k \in Unsafe(a)
    BY <2>1, <2>2, <2>3 DEF Unsafe, OneMerger
  <2>5. QED
    BY <1>1, <1>3, <2>4
<1>6. Listed(a)'
  BY <1>2 DEF Listed
<1>7. PodMoves(a, {})
  <2>1. /\ listing'[a].seen \subseteq listing[a].seen \cup store
        /\ \A k \in listing'[a].added \cap tracked'[a] :
              k \in (listing[a].added \cap tracked[a]) \cup {} \/ Fresh(k)
        /\ snap'[a].tracked \in {snap[a].tracked, tracked[a]}
    BY <1>1, <1>2
  <2>2. \A k \in pending[a] \ {} : k \notin store' \cup listing'[a].seen \/ rows'[k] \subseteq excused'
    BY <1>5
  <2>3. \A k \in tracked'[a] : k \in tracked[a] \cup listing[a].seen \cup {}
    BY <1>1
  <2>4. QED
    BY <1>4, <2>1, <2>2, <2>3 DEF PodMoves
<1>8. QED
  BY <1>1, <1>6, <1>7 DEF PodGoal

\* A is restarted from its snapshot.
LEMMA RestartGoal ==
    ASSUME Types, WrittenInv, NEW a \in Nodes, WorkAt(a), BucketMoves(a), Restart(a)
    PROVE  PodGoal(a)
<1>1. /\ UNCHANGED <<store, rows, pending, listing, snap>> /\ ~up[a] /\ up'[a]
      /\ tracked'[a] = snap[a].tracked /\ retired'[a] = snap[a].retired
  BY DEF Restart, bucketVars, Types, NodesOK
<1>2. /\ listing'[a].on = FALSE /\ listing'[a].seen = {} /\ listing'[a].added = {}
  <2>1. listing'[a] = NoListing
    BY <1>1 DEF WorkAt
  <2>2. NoListing.on = FALSE /\ NoListing.seen = {} /\ NoListing.added = {}
    BY DEF NoListing
  <2>3. QED
    BY <2>1, <2>2
<1>3. \A k \in Keys : Kept(a, k) => Kept(a, k)'
  BY <1>1 DEF Kept
<1>4. Listed(a)'
  BY <1>2 DEF Listed
<1>5. PodMoves(a, {})
  <2>1. /\ listing'[a].seen \subseteq listing[a].seen \cup store
        /\ \A k \in listing'[a].added \cap tracked'[a] :
              k \in (listing[a].added \cap tracked[a]) \cup {} \/ Fresh(k)
        /\ snap'[a].tracked \in {snap[a].tracked, tracked[a]}
    BY <1>1, <1>2
  <2>2. \A k \in pending[a] \ {} : k \in pending'[a]
    BY <1>1
  <2>3. \A k \in tracked'[a] : ~up[a] /\ k \in snap[a].tracked
    BY <1>1
  <2>4. QED
    BY <1>3, <2>1, <2>2, <2>3 DEF PodMoves
<1>6. QED
  BY <1>1, <1>4, <1>5 DEF PodGoal

\* Publishing, as a step of a.
LEMMA PublishMoves ==
    ASSUME Types, WrittenInv, JobsInv, NEW a \in Nodes, OneMerger(a), WorkAt(a), Listed(a), BucketMoves(a),
           NEW j \in Jobs, Publish(j), NEW o, job[j].out = o
    PROVE  PodMoves(a, {o}) /\ Listed(a)'
<1> DEFINE S == job[j].src
<1>1. UNCHANGED <<store, rows, up, snap>> /\ job[j].stage = "stored"
  BY DEF Publish, bucketVars
<1>2. RunsOn[j] = a /\ up[a]
  BY <1>1, MergerIsUp
<1>3. /\ S \subseteq tracked[a] /\ S \subseteq Keys /\ o \in Keys /\ o \notin S
      /\ tracked'[a] = (tracked[a] \ S) \cup {o} /\ pending'[a] = pending[a] \ {o}
      /\ \A k \in Keys : retired'[a][k] = IF k \in S THEN "owed" ELSE IF k = o THEN "no" ELSE retired[a][k]
      /\ listing'[a].seen = listing[a].seen /\ listing'[a].on = listing[a].on
      /\ listing'[a].pos = listing[a].pos /\ listing'[a].added \subseteq listing[a].added \cup {o}
      /\ listing[a].late \subseteq listing'[a].late /\ (listing[a].on => S \subseteq listing'[a].late)
  BY ONLY Types, JobsInv, a \in Nodes, j \in Jobs, Publish(j), job[j].out = o, <1>2, PublishFacts, SMTT(30)
<1>4. retired[a][o] = "no"
  BY <1>1 DEF WorkAt, Active, Types, Apart
<1> HIDE DEF S
<1>5. \A k \in Keys : retired[a][k] # "no" => retired'[a][k] # "no"
  BY <1>3, <1>4
<1>6. \A k \in Keys : Kept(a, k) => Kept(a, k)'
  BY <1>1, <1>2, <1>5 DEF Kept
<1>7. Listed(a)'
  <2> SUFFICES ASSUME listing'[a].on, NEW k \in Keys, retired'[a][k] # "no", k \in store', k <= listing'[a].pos
               PROVE  k \in listing'[a].seen \cup listing'[a].late
    BY DEF Listed
  <2>1. CASE k \in S
    BY <1>3, <2>1
  <2>2. CASE k \notin S
    <3>1. retired[a][k] # "no" /\ k \in store
      BY <1>1, <1>3, <2>2
    <3>2. QED
      BY <1>3, <3>1 DEF Listed
  <2>3. QED
    BY <2>1, <2>2
<1>8. PodMoves(a, {o})
  <2>1. listing'[a].seen \subseteq listing[a].seen \cup store /\ snap'[a].tracked \in {snap[a].tracked, tracked[a]}
    BY <1>1, <1>3
  <2>2. \A k \in listing'[a].added \cap tracked'[a] : k \in (listing[a].added \cap tracked[a]) \cup {o}
    BY <1>3
  <2>3. \A k \in pending[a] \ {o} : k \in pending'[a]
    BY <1>3
  <2>4. \A k \in tracked'[a] : k \in tracked[a] \cup listing[a].seen \cup {o}
    BY <1>3
  <2>5. QED
    BY <1>6, <2>1, <2>2, <2>3, <2>4 DEF PodMoves
<1>9. QED
  BY <1>7, <1>8

\* An output shares no row with what is served next to it: a source was served, or could
\* be adopted, in its place.
LEMMA PublishServed ==
    ASSUME Types, Types', WrittenInv, JobsInv, NEW a \in Nodes, OneMerger(a), WorkAt(a), Reached(a), Listed(a),
           SourcesLeft(a), ServedOnce(a), BucketMoves(a), NEW j \in Jobs, Publish(j)
    PROVE  ServedOnce(a)'
<1> DEFINE S == job[j].src
<1>0. PICK o : o = job[j].out
  OBVIOUS
<1>1. UNCHANGED <<store, rows, up, snap, excused>> /\ job[j].stage = "stored"
  BY DEF Publish, bucketVars, histVars
<1>2. RunsOn[j] = a /\ up[a]
  BY <1>1, MergerIsUp
<1>3. /\ S \subseteq tracked[a] /\ S \subseteq Keys /\ o \in Keys /\ o \notin S
      /\ tracked'[a] = (tracked[a] \ S) \cup {o}
      /\ \A k \in Keys : retired'[a][k] = IF k \in S THEN "owed" ELSE IF k = o THEN "no" ELSE retired[a][k]
  BY ONLY Types, JobsInv, a \in Nodes, j \in Jobs, Publish(j), <1>0, <1>2, PublishFacts, SMTT(30)
<1>4. \A r \in rows[o] : \E s \in S : r \in rows[s]
  <2>1. rows[o] = RowsOf(S)
    BY <1>0, <1>1 DEF JobsInv, JobOK
  <2>2. QED
    BY <2>1 DEF RowsOf
<1>5. \A s \in S : s \in Adoptable(a) \/ rows[s] \subseteq excused
  <2> SUFFICES ASSUME NEW s \in S PROVE s \in Adoptable(a) \/ rows[s] \subseteq excused
    OBVIOUS
  <2>1. s \in Keys /\ s \in tracked[a] /\ ~Kept(a, s) /\ s \notin pending[a]
    BY <1>2, <1>3 DEF Kept, Types, Apart
  <2>2. s \in store \/ rows[s] \subseteq excused
    BY <1>1, <2>1 DEF SourcesLeft, Active
  <2>3. QED
    BY <2>1, <2>2 DEF Adoptable
<1>6. PodMoves(a, {o})
  BY <1>0, PublishMoves
<1>7. \A k \in S : Kept(a, k)' /\ k \notin tracked'[a]
  BY <1>1, <1>2, <1>3 DEF Kept
<1>8. \A k \in Adoptable(a)' : k \notin S
  BY <1>7 DEF Adoptable
<1> HIDE DEF S
<1>9. Once(tracked[a], rows, excused) /\ Once(snap[a].tracked, rows, excused) /\ Once(Adoptable(a), rows, excused)
  BY DEF ServedOnce
<1>10. Once(tracked'[a], rows, excused)
  <2>1. \A k \in tracked[a] \ S : rows[o] \cap rows[k] \subseteq excused
    BY ZenonT(60), <1>3, <1>4, <1>9 DEF Once
  <2>2. QED
    BY <1>3, <1>9, <2>1 DEF Once
<1>11. Once(Adoptable(a)', rows, excused)
  <2> DEFINE T == Adoptable(a)'
  <2>1. T \subseteq Keys
    BY DEF Adoptable
  <2>2. \A k \in T : k \in Adoptable(a) \/ k \in {o} \/ rows[k] \subseteq excused \/ Fresh(k)
    <3> SUFFICES ASSUME NEW k \in T
                 PROVE  k \in Adoptable(a) \/ k \in {o} \/ rows[k] \subseteq excused \/ Fresh(k)
      OBVIOUS
    <3>1. \/ k \in Adoptable(a) /\ rows'[k] = rows[k]
          \/ k \in {o} \/ rows'[k] \subseteq excused' \/ Fresh(k)
      BY <1>6, AdoptableStep, SMT
    <3>2. QED
      BY <1>1, <3>1
  <2>3. \A k \in T : k \notin S
    BY <1>8
  <2> HIDE DEF T
  <2>4. \A k \in T, i \in Keys : Fresh(k) /\ i # k => rows[k] \cap rows[i] = {}
    BY <1>1 DEF Fresh
  <2>5. \A k \in T : k # o => rows[o] \cap rows[k] \subseteq excused
    <3> SUFFICES ASSUME NEW k \in T, k # o, NEW r \in rows[o], r \in rows[k] PROVE r \in excused
      OBVIOUS
    <3>1. PICK s \in S : r \in rows[s]
      BY <1>4
    <3>2. CASE rows[s] \subseteq excused \/ rows[k] \subseteq excused
      BY <3>1, <3>2
    <3>3. CASE Fresh(k)
      BY <1>3, <2>4, <3>3
    <3>4. CASE s \in Adoptable(a) /\ k \in Adoptable(a)
      BY <1>9, <2>3, <3>1, <3>4 DEF Once
    <3>5. QED
      BY <1>5, <2>2, <3>2, <3>3, <3>4
  <2>6. \A k, i \in T : k # i => rows[k] \cap rows[i] \subseteq excused
    <3> SUFFICES ASSUME NEW k \in T, NEW i \in T, k # i PROVE rows[k] \cap rows[i] \subseteq excused
      OBVIOUS
    <3>1. CASE k = o \/ i = o
      BY <2>5, <3>1
    <3>2. CASE rows[k] \subseteq excused \/ rows[i] \subseteq excused
      BY <3>2
    <3>3. CASE Fresh(k) \/ Fresh(i)
      BY <2>1, <2>4, <3>3
    <3>4. CASE k \in Adoptable(a) /\ i \in Adoptable(a)
      BY <1>9, <3>4 DEF Once
    <3>5. QED
      BY <2>2, <3>1, <3>2, <3>3, <3>4
  <2>7. Once(T, rows, excused)
    BY <2>6 DEF Once
  <2>8. QED
    BY <2>7 DEF T
<1>12. QED
  BY <1>1, <1>9, <1>10, <1>11 DEF ServedOnce

-----------------------------------------------------------------------------
(* The merges and the flushes. *)

\* Steps that begin and end no merge of a.
LEMMA WorkKeeps ==
    ASSUME NEW a \in Nodes, WorkAt(a), \A m \in net' : m.to # a, pending'[a] = pending[a],
           \A j \in Jobs : /\ Active(j)' <=> Active(j)
                           /\ Active(j) => job'[j].out = job[j].out /\ job'[j].src = job[j].src,
           ~up'[a] => /\ ~up[a] /\ listing'[a] = listing[a]
                      /\ \A j \in Jobs : job'[j].stage = job[j].stage
    PROVE  WorkAt(a)'
<1>1. \A j \in Jobs : Active(j)' => job'[j].out \in pending'[a] /\ job'[j].src \cap pending'[a] = {}
  <2> SUFFICES ASSUME NEW j \in Jobs, Active(j)'
               PROVE  job'[j].out \in pending'[a] /\ job'[j].src \cap pending'[a] = {}
    OBVIOUS
  <2>1. Active(j) /\ job'[j].out = job[j].out /\ job'[j].src = job[j].src
    OBVIOUS
  <2>2. job[j].out \in pending[a] /\ job[j].src \cap pending[a] = {}
    BY <2>1 DEF WorkAt
  <2>3. QED
    BY <2>1, <2>2
<1>2. \A o \in pending'[a] : \E j \in Jobs : Active(j)' /\ job'[j].out = o
  <2> SUFFICES ASSUME NEW o \in pending'[a] PROVE \E j \in Jobs : Active(j)' /\ job'[j].out = o
    OBVIOUS
  <2>1. PICK j \in Jobs : Active(j) /\ job[j].out = o
    BY DEF WorkAt
  <2>2. QED
    BY <2>1
<1>3. ~up'[a] => listing'[a] = NoListing /\ \A j \in Jobs : job'[j].stage = "idle"
  BY DEF WorkAt
<1>4. QED
  BY <1>1, <1>2, <1>3 DEF WorkAt

\* A merge is over, and its output no longer pending.
LEMMA WorkEnds ==
    ASSUME JobsInv, NEW a \in Nodes, WorkAt(a), net' = net, up' = up, NEW j \in Jobs, Active(j), ~Active(j)',
           up[a], pending'[a] = pending[a] \ {job[j].out}, \A i \in Jobs : i # j => job'[i] = job[i]
    PROVE  WorkAt(a)'
<1>1. \A i \in Jobs : Active(i)' => i # j /\ Active(i) /\ job'[i] = job[i] /\ job[i].out # job[j].out
  BY DEF Active, JobsInv
<1>2. \A i \in Jobs : Active(i)' => job'[i].out \in pending'[a] /\ job'[i].src \cap pending'[a] = {}
  BY <1>1 DEF WorkAt
<1>3. \A o \in pending'[a] : \E i \in Jobs : Active(i)' /\ job'[i].out = o
  <2> SUFFICES ASSUME NEW o \in pending'[a] PROVE \E i \in Jobs : Active(i)' /\ job'[i].out = o
    OBVIOUS
  <2>1. PICK i \in Jobs : Active(i) /\ job[i].out = o
    BY DEF WorkAt
  <2>2. i # j
    BY <2>1
  <2>3. QED
    BY <2>1, <2>2 DEF Active
<1>4. QED
  BY <1>2, <1>3 DEF WorkAt

\* No update goes to the pod that merges, whose pending keys are its merges' outputs.
LEMMA WorkStep ==
    ASSUME Types, WrittenInv, JobsInv, NEW a \in Nodes, OneMerger(a), WorkAt(a), [Next]_vars
    PROVE  WorkAt(a)'
<1> USE KeysAreNumbers
<1>0. \A m \in net : m.to # a
  BY DEF WorkAt
<1>1. ASSUME NEW f \in Raw, StoreFlush(f) \/ RegisterFlush(f) PROVE WorkAt(a)'
  <2>1. UNCHANGED <<up, job, net>> /\ up[WriterOf[f]]
    BY <1>1 DEF StoreFlush, RegisterFlush, nodeVars
  <2>2. pending'[a] = pending[a]
    <3>1. f \notin pending[a] /\ WriterOf[f] \in Nodes
      BY DEF Types, NodesOK
    <3>2. CASE pending' = pending
      BY <3>2
    <3>3. ASSUME NEW K, K \subseteq {f}, pending' = [pending EXCEPT ![WriterOf[f]] = @ \ K]
          PROVE  pending'[a] = pending[a]
      <4>1. pending'[a] = pending[a] \/ pending'[a] = pending[a] \ K
        BY <3>1, <3>3 DEF Types, NodesOK
      <4>2. QED
        BY <3>1, <3>3, <4>1
    <3>4. CASE StoreFlush(f)
      BY <3>2, <3>4 DEF StoreFlush, nodeVars
    <3>5. CASE RetireFiles(WriterOf[f], {f}, TRUE)
      BY <3>3, <3>5 DEF RetireFiles
    <3>6. CASE AddFiles(WriterOf[f], {f})
      BY <3>3, <3>6 DEF AddFiles
    <3>7. QED
      BY <1>1, <3>4, <3>5, <3>6 DEF RegisterFlush
  <2>3. ~up[a] => listing'[a] = listing[a]
    BY <1>1, <2>1 DEF StoreFlush, RegisterFlush, nodeVars, AddFiles, RetireFiles, Types, ListingsOK
  <2>4. QED
    BY <1>0, <2>1, <2>2, <2>3, WorkKeeps DEF Active
<1>2. ASSUME NEW j \in Jobs, NEW S \in SUBSET tracked[RunsOn[j]], NEW o \in Outs, ClaimOutput(j, S, o) PROVE WorkAt(a)'
  <2>1. /\ UNCHANGED <<up, net>> /\ RunsOn[j] = a /\ up[a] /\ job[j].stage = "idle"
        /\ S \subseteq tracked[a] \cap store /\ rows[o] = {} /\ o \in Keys
    BY <1>2 DEF ClaimOutput, OneMerger, Keys
  <2>2. /\ pending'[a] = pending[a] \cup {o} /\ Active(j)' /\ job'[j].src = S /\ job'[j].out = o
        /\ \A i \in Jobs : i # j => job'[i] = job[i]
    BY <1>2, <2>1 DEF ClaimOutput, Types, NodesOK, WorkOK, Active
  <2>3. \A i \in Jobs : i # j => (Active(i)' <=> Active(i))
    BY <2>2 DEF Active
  <2>4. ~Active(j)
    BY <2>1 DEF Active
  <2>5. S \cap (pending[a] \cup {o}) = {}
    <3>1. o \notin S
      BY <2>1 DEF WrittenInv
    <3>2. \A k \in pending[a] : k \notin S
      BY <2>1 DEF Types, Apart
    <3>3. QED
      BY <3>1, <3>2
  <2>6. \A i \in Jobs : Active(i) => o \notin job[i].src
    <3> SUFFICES ASSUME NEW i \in Jobs, Active(i), o \in job[i].src PROVE FALSE
      OBVIOUS
    <3>1. rows[o] # {}
      BY DEF Active, JobsInv, JobOK
    <3>2. QED
      BY <2>1, <3>1
  <2>7. \A i \in Jobs : Active(i)' => job'[i].out \in pending'[a] /\ job'[i].src \cap pending'[a] = {}
    <3>1. job'[j].out \in pending'[a] /\ job'[j].src \cap pending'[a] = {}
      BY <2>2, <2>5
    <3>2. \A i \in Jobs : i # j /\ Active(i) => job'[i].out \in pending'[a] /\ job'[i].src \cap pending'[a] = {}
      <4> SUFFICES ASSUME NEW i \in Jobs, i # j, Active(i)
                   PROVE  job[i].out \in pending'[a] /\ job[i].src \cap pending'[a] = {}
        BY <2>2
      <4>1. job[i].out \in pending[a] /\ job[i].src \cap pending[a] = {} /\ o \notin job[i].src
        BY <2>6 DEF WorkAt
      <4>2. QED
        BY <2>2, <4>1
    <3>3. QED
      BY <2>3, <3>1, <3>2
  <2>8. \A q \in pending'[a] : \E i \in Jobs : Active(i)' /\ job'[i].out = q
    <3> SUFFICES ASSUME NEW q \in pending'[a] PROVE \E i \in Jobs : Active(i)' /\ job'[i].out = q
      OBVIOUS
    <3>1. CASE q = o
      BY <2>2, <3>1
    <3>2. CASE q \in pending[a]
      <4>1. PICK i \in Jobs : Active(i) /\ job[i].out = q
        BY <3>2 DEF WorkAt
      <4>2. i # j
        BY <2>4, <4>1
      <4>3. QED
        BY <2>2, <2>3, <4>1, <4>2
    <3>3. QED
      BY <2>2, <3>1, <3>2
  <2>9. QED
    BY <1>0, <2>1, <2>7, <2>8 DEF WorkAt
<1>3. ASSUME NEW j \in Jobs, StoreOutputError(j) \/ Publish(j) \/ Abandon(j) PROVE WorkAt(a)'
  <2>1. RunsOn[j] = a /\ Active(j) /\ job[j].stage # "idle" /\ net' = net /\ up' = up
    BY <1>3 DEF StoreOutputError, Publish, Abandon, OneMerger, Active
  <2>2. up[a]
    BY <2>1, MergerIsUp
  <2>3. pending'[a] = pending[a] \ {job[j].out}
    BY <1>3, <2>1 DEF StoreOutputError, Publish, Abandon, RetireFiles, Types, NodesOK
  <2>4. ~Active(j)' /\ \A i \in Jobs : i # j => job'[i] = job[i]
    <3>1. CASE StoreOutputError(j)
      BY <3>1 DEF StoreOutputError, NoJob, Types, WorkOK, Active
    <3>2. CASE Publish(j)
      BY <3>2 DEF Publish, Types, WorkOK, JobType, Active
    <3>3. CASE Abandon(j)
      BY <3>3 DEF Abandon, Types, WorkOK, JobType, Active
    <3>4. QED
      BY <1>3, <3>1, <3>2, <3>3
  <2>5. QED
    BY <2>1, <2>2, <2>3, <2>4, WorkEnds
<1>4. ASSUME NEW j \in Jobs,
             StoreOutput(j) \/ FinishJob(j) \/ \E k \in Keys : DeleteObject(j, k) \/ DeleteError(j, k)
      PROVE  WorkAt(a)'
  <2>1. UNCHANGED <<up, pending, listing>>
    BY <1>4 DEF StoreOutput, FinishJob, DeleteObject, DeleteError, nodeVars
  <2>2. \A m \in net' : m.to # a
    <3>1. CASE net' = net
      BY <1>0, <3>1
    <3>2. CASE FinishJob(j)
      <4>1. \A m \in net' : m \in net \/ \E i \in Nodes \ {a} : m = [to |-> i, add |-> job[j].out, remove |-> job[j].src]
        BY <3>2 DEF FinishJob, OneMerger
      <4>2. QED
        BY <1>0, <4>1, SMT
    <3>3. QED
      BY <1>4, <3>1, <3>2 DEF StoreOutput, DeleteObject, DeleteError
  <2>3. \A i \in Jobs : /\ Active(i)' <=> Active(i)
                        /\ Active(i) => job'[i].out = job[i].out /\ job'[i].src = job[i].src
    <3>1. CASE StoreOutput(j)
      BY <3>1 DEF StoreOutput, Active, Types, WorkOK, JobType
    <3>2. CASE FinishJob(j)
      BY <3>2 DEF FinishJob, NoJob, Active, Types, WorkOK
    <3>3. ASSUME NEW k \in Keys, DeleteObject(j, k) \/ DeleteError(j, k)
          PROVE  \A i \in Jobs : /\ Active(i)' <=> Active(i)
                                 /\ Active(i) => job'[i].out = job[i].out /\ job'[i].src = job[i].src
      <4>1. job' = [job EXCEPT ![j].left = @ \ {k}]
        BY <3>3 DEF DeleteObject, DeleteError
      <4>2. \A i \in Jobs : /\ job'[i].stage = job[i].stage
                            /\ job'[i].out = job[i].out /\ job'[i].src = job[i].src
        BY <4>1 DEF Types, WorkOK, JobType
      <4>3. QED
        BY <4>2 DEF Active
    <3>4. QED
      BY <1>4, <3>1, <3>2, <3>3
  <2>4. job[j].stage # "idle"
    BY <1>4 DEF StoreOutput, FinishJob, DeleteObject, DeleteError, JobsInv, JobOK
  <2>5. up[a]
    BY <2>4, MergerIsUp
  <2>6. QED
    BY <2>1, <2>2, <2>3, <2>5, WorkKeeps
<1>5. ASSUME NEW m \in net, Deliver(m) PROVE WorkAt(a)'
  <2>1. UNCHANGED <<up, job>> /\ m.to \in Nodes /\ m.to # a
    BY <1>0, <1>5 DEF Deliver, UpdateAdded, UpdateRemoved, LoseUpdate, nodeVars, Types, WorkOK, UpdateType
  <2>2. pending'[a] = pending[a]
    BY <1>5, <2>1 DEF Deliver, UpdateAdded, UpdateRemoved, LoseUpdate, nodeVars, AddFiles, RetireFiles, Types, NodesOK
  <2>3. listing'[a] = listing[a]
    BY <1>5, <2>1 DEF Deliver, UpdateAdded, UpdateRemoved, LoseUpdate, nodeVars, AddFiles, RetireFiles, Types, ListingsOK
  <2>4. \A u \in net' : u.to # a
    <3>1. CASE net' \subseteq net
      BY <1>0, <3>1
    <3>2. CASE UpdateAdded(m)
      <4>1. [m EXCEPT !.add = 0].to = m.to
        BY DEF Types, WorkOK, UpdateType
      <4>2. QED
        BY <1>0, <2>1, <3>2, <4>1 DEF UpdateAdded
    <3>3. QED
      BY <1>5, <3>1, <3>2 DEF Deliver, UpdateRemoved, LoseUpdate
  <2>5. QED
    BY <2>1, <2>2, <2>3, <2>4, WorkKeeps DEF Active
<1>6. ASSUME NEW n \in Nodes, Crash(n) PROVE WorkAt(a)'
  <2>1. CASE n = a
    <3>1. net' = net /\ pending'[a] = {} /\ listing'[a] = NoListing /\ \A j \in Jobs : job'[j] = NoJob
      BY <1>6, <2>1 DEF Crash, OneMerger, Types, NodesOK, ListingsOK
    <3>2. \A j \in Jobs : job'[j].stage = "idle" /\ ~Active(j)'
      <4>1. NoJob.stage = "idle"
        BY DEF NoJob
      <4>2. QED
        BY <3>1, <4>1 DEF Active
    <3>3. QED
      BY <1>0, <3>1, <3>2 DEF WorkAt
  <2>2. CASE n # a
    <3>1. net' = net /\ pending'[a] = pending[a] /\ listing'[a] = listing[a] /\ up'[a] = up[a]
      BY <1>6, <2>2 DEF Crash, Types, NodesOK, ListingsOK
    <3>2. \A j \in Jobs : job'[j] = job[j]
      BY <1>6, <2>2 DEF Crash, OneMerger
    <3>3. QED
      BY <1>0, <3>1, <3>2, WorkKeeps DEF Active
  <2>3. QED
    BY <2>1, <2>2
<1>7. ASSUME NEW n \in Nodes, Restart(n) PROVE WorkAt(a)'
  <2>1. UNCHANGED <<pending, listing, net, job>> /\ (~up'[a] => ~up[a])
    BY <1>7 DEF Restart, workVars, Types, NodesOK
  <2>2. QED
    BY <1>0, <2>1, WorkKeeps DEF Active
<1>8. ASSUME NEW n \in Nodes, \/ StartListing(n) \/ ApplyListing(n) \/ DropListing(n) \/ SaveTo(n)
                              \/ \E p \in PageEnds : ReadPage(n, p)
                              \/ \E k \in Keys : Reclaim(n, k) \/ SweepOrphan(n, k)
      PROVE  WorkAt(a)'
  <2>1. UNCHANGED <<up, pending, net, job>>
    BY <1>8 DEF StartListing, ApplyListing, DropListing, SaveTo, ReadPage, Reclaim, SweepOrphan, DeleteRetired, workVars
  <2>2. ~up[a] => listing'[a] = listing[a]
    <3> SUFFICES ASSUME ~up[a] PROVE listing'[a] = listing[a]
      OBVIOUS
    <3>1. listing[a].on = FALSE
      <4>1. NoListing.on = FALSE
        BY DEF NoListing
      <4>2. QED
        BY <4>1 DEF WorkAt
    <3>2. n # a \/ listing' = listing
      BY <1>8, <3>1 DEF StartListing, ApplyListing, DropListing, SaveTo, ReadPage, Reclaim, SweepOrphan, DeleteRetired
    <3>3. n # a => listing'[a] = listing[a]
      BY <1>8 DEF StartListing, ApplyListing, DropListing, SaveTo, ReadPage, Reclaim, SweepOrphan, DeleteRetired,
                  Types, ListingsOK
    <3>4. QED
      BY <3>2, <3>3
  <2>3. QED
    BY <1>0, <2>1, <2>2, WorkKeeps DEF Active
<1>9. CASE UNCHANGED vars
  <2>1. UNCHANGED <<up, pending, listing, job, net>>
    BY <1>9 DEF vars, nodeVars, workVars
  <2>2. QED
    BY <1>0, <2>1, WorkKeeps DEF Active
<1>10. QED
  BY ZenonT(60), <1>1, <1>2, <1>3, <1>4, <1>5, <1>6, <1>7, <1>8, <1>9 DEF Next, JobStep

\* Steps that write no object and claim no source.
LEMMA FlushedKeeps ==
    ASSUME Flushed, rows' = rows, \A f \in Raw : flush[f] = "done" => flush'[f] = "done",
           \A j \in Jobs : job'[j].src \subseteq job[j].src
    PROVE  Flushed'
<1>1. \A j \in Jobs : \A f \in job'[j].src \cap Raw : flush'[f] = "done"
  BY DEF Flushed
<1>2. QED
  BY <1>1 DEF Flushed

\* A flushed row is in no other object before its flush is over: a merge reads only
\* objects whose segment is released.
LEMMA FlushedStep ==
    ASSUME Types, WrittenInv, JobsInv, Flushed, [Next]_vars
    PROVE  Flushed'
<1> USE KeysAreNumbers
<1>1. ASSUME NEW f \in Raw, StoreFlush(f) PROVE Flushed'
  <2>1. /\ job' = job /\ f \in Keys /\ flush[f] = "new" /\ rows'[f] = {f}
        /\ \A k \in Keys : k # f => rows'[k] = rows[k]
        /\ \A g \in Raw : g # f => flush'[g] = flush[g]
    BY <1>1 DEF StoreFlush, Keys, Types, BucketOK
  <2>2. \A g \in Raw : rows'[g] \subseteq {g}
    BY <2>1 DEF Flushed, Keys
  <2>3. \A g \in Raw : flush[g] = "done" => flush'[g] = "done"
    BY <2>1
  <2>4. \A g \in Raw, k \in Keys : g \in rows'[k] /\ k # g => flush'[g] = "done"
    <3> SUFFICES ASSUME NEW g \in Raw, NEW k \in Keys, g \in rows'[k], k # g PROVE flush'[g] = "done"
      OBVIOUS
    <3>1. k # f
      BY <2>1
    <3>2. g \in rows[k]
      BY <2>1, <3>1
    <3>3. QED
      BY <2>3, <3>2 DEF Flushed
  <2>5. \A j \in Jobs : \A g \in job'[j].src \cap Raw : flush'[g] = "done"
    BY <2>1, <2>3 DEF Flushed
  <2>6. QED
    BY <2>2, <2>4, <2>5 DEF Flushed
<1>2. ASSUME NEW f \in Raw, RegisterFlush(f) PROVE Flushed'
  <2>1. rows' = rows /\ job' = job /\ \A g \in Raw : flush[g] = "done" => flush'[g] = "done"
    BY <1>2 DEF RegisterFlush, bucketVars, Types, BucketOK
  <2>2. QED
    BY <2>1, FlushedKeeps
<1>3. ASSUME NEW j \in Jobs, NEW S, NEW o, ClaimOutput(j, S, o) PROVE Flushed'
  <2>1. rows' = rows /\ flush' = flush /\ Released(S)
    BY <1>3 DEF ClaimOutput, bucketVars
  <2>2. \A i \in Jobs : job'[i] = job[i] \/ job'[i].src = S
    BY <1>3 DEF ClaimOutput, Types, WorkOK
  <2>3. \A i \in Jobs : \A g \in job'[i].src \cap Raw : flush'[g] = "done"
    BY <2>1, <2>2 DEF Flushed, Released
  <2>4. QED
    BY <2>1, <2>3 DEF Flushed
<1>4. ASSUME NEW j \in Jobs, StoreOutput(j) \/ StoreOutputError(j) PROVE Flushed'
  <2> DEFINE o == job[j].out
  <2>1. flush' = flush /\ o \in Outs
    BY <1>4 DEF StoreOutput, StoreOutputError, JobsInv, JobOK
  <2>2. \A k \in Keys : rows'[k] = rows[k] \/ (k = o /\ rows'[k] = RowsOf(job[j].src))
    BY <1>4 DEF StoreOutput, StoreOutputError, bucketVars, Types, BucketOK
  <2>3. \A i \in Jobs : job'[i].src = job[i].src \/ job'[i].src = {}
    <3>1. NoJob.src = {}
      BY DEF NoJob
    <3>2. CASE StoreOutput(j)
      BY <3>2 DEF StoreOutput, Types, WorkOK, JobType
    <3>3. CASE StoreOutputError(j)
      BY <3>1, <3>3 DEF StoreOutputError, Types, WorkOK
    <3>4. QED
      BY <1>4, <3>2, <3>3
  <2>4. \A f \in Raw : f \in RowsOf(job[j].src) => flush[f] = "done"
    <3> SUFFICES ASSUME NEW f \in Raw, NEW k \in job[j].src, f \in rows[k] PROVE flush[f] = "done"
      BY DEF RowsOf
    <3>1. k \in Keys
      BY DEF Types, WorkOK, JobType
    <3>2. QED
      BY ZenonT(60), <3>1 DEF Flushed
  <2>5. \A f \in Raw : rows'[f] \subseteq {f}
    BY <2>1, <2>2 DEF Flushed, Keys
  <2>6. \A f \in Raw, k \in Keys : f \in rows'[k] /\ k # f => flush'[f] = "done"
    BY <2>1, <2>2, <2>4 DEF Flushed
  <2>7. \A i \in Jobs : \A f \in job'[i].src \cap Raw : flush'[f] = "done"
    BY <2>1, <2>3 DEF Flushed
  <2>8. QED
    BY <2>5, <2>6, <2>7 DEF Flushed
<1>5. ASSUME NEW j \in Jobs, \/ Publish(j) \/ Abandon(j) \/ FinishJob(j)
                             \/ \E k \in Keys : DeleteObject(j, k) \/ DeleteError(j, k)
      PROVE  Flushed'
  <2>1. rows' = rows /\ flush' = flush
    BY <1>5 DEF Publish, Abandon, FinishJob, DeleteObject, DeleteError, bucketVars
  <2>2. \A i \in Jobs : job'[i].src \subseteq job[i].src
    <3>1. CASE Publish(j)
      BY <3>1 DEF Publish, Types, WorkOK, JobType
    <3>2. CASE Abandon(j)
      BY <3>2 DEF Abandon, Types, WorkOK, JobType
    <3>3. CASE FinishJob(j)
      BY <3>3 DEF FinishJob, NoJob, Types, WorkOK, JobType
    <3>4. CASE \E k \in Keys : DeleteObject(j, k) \/ DeleteError(j, k)
      <4>1. PICK k \in Keys : job' = [job EXCEPT ![j].left = @ \ {k}]
        BY <3>4 DEF DeleteObject, DeleteError
      <4>2. QED
        BY <4>1 DEF Types, WorkOK, JobType
    <3>5. QED
      BY <1>5, <3>1, <3>2, <3>3, <3>4
  <2>3. QED
    BY <2>1, <2>2, FlushedKeeps
<1>6. ASSUME NEW n \in Nodes, Crash(n) PROVE Flushed'
  <2>1. rows' = rows /\ \A f \in Raw : flush[f] = "done" => flush'[f] = "done"
    BY <1>6 DEF Crash, bucketVars
  <2>2. \A j \in Jobs : job'[j].src \subseteq job[j].src
    BY <1>6 DEF Crash, NoJob
  <2>3. QED
    BY <2>1, <2>2, FlushedKeeps
<1>7. CASE UNCHANGED <<rows, flush, job>>
  BY <1>7, FlushedKeeps
<1>8. QED
  BY ZenonT(60), <1>1, <1>2, <1>3, <1>4, <1>5, <1>6, <1>7
     DEF Next, JobStep, Deliver, Reclaim, SweepOrphan, DeleteRetired, StartListing, ReadPage, ApplyListing,
         DropListing, SaveTo, Restart, UpdateAdded, UpdateRemoved, LoseUpdate, bucketVars, workVars, vars

\* Steps of other pods leave the pod that merges alone.
LEMMA ElsewhereStill ==
    ASSUME Types, NEW a \in Nodes, NEW n \in Nodes, n # a,
           \/ \E f \in Raw : WriterOf[f] = n /\ RegisterFlush(f)
           \/ \E k \in Keys : Reclaim(n, k) \/ SweepOrphan(n, k)
           \/ StartListing(n) \/ ApplyListing(n) \/ DropListing(n)
           \/ \E p \in PageEnds : ReadPage(n, p)
           \/ SaveTo(n) \/ Crash(n) \/ Restart(n)
           \/ \E m \in net : m.to = n /\ Deliver(m)
    PROVE  Still(a)
<1> USE DEF Types, NodesOK, ListingsOK, SnapsOK
<1>0. ASSUME NEW K, NEW reclaim, AddFiles(n, K) \/ RetireFiles(n, K, reclaim)
      PROVE  /\ tracked'[a] = tracked[a] /\ retired'[a] = retired[a]
             /\ pending'[a] = pending[a] /\ listing'[a] = listing[a]
  BY <1>0 DEF AddFiles, RetireFiles
<1>1. ASSUME NEW f \in Raw, WriterOf[f] = n, RegisterFlush(f) PROVE Still(a)
  BY <1>0, <1>1 DEF RegisterFlush, Still
<1>2. ASSUME NEW k \in Keys, Reclaim(n, k) \/ SweepOrphan(n, k) PROVE Still(a)
  BY <1>2 DEF Reclaim, SweepOrphan, DeleteRetired, ConfirmDeleted, Still
<1>3. CASE StartListing(n) \/ DropListing(n)
  BY <1>3 DEF StartListing, DropListing, Still
<1>4. CASE ApplyListing(n)
  BY <1>4 DEF ApplyListing, Still
<1>5. ASSUME NEW p \in PageEnds, ReadPage(n, p) PROVE Still(a)
  BY <1>5 DEF ReadPage, Still
<1>6. CASE SaveTo(n)
  BY <1>6 DEF SaveTo, Still
<1>7. CASE Crash(n)
  BY <1>7 DEF Crash, Still
<1>8. CASE Restart(n)
  BY <1>8 DEF Restart, Still
<1>9. ASSUME NEW m \in net, m.to = n, Deliver(m) PROVE Still(a)
  <2>1. CASE LoseUpdate(m)
    BY <2>1 DEF LoseUpdate, nodeVars, Still
  <2>2. CASE UpdateAdded(m)
    BY <1>0, <1>9, <2>2 DEF UpdateAdded, Still
  <2>3. CASE UpdateRemoved(m)
    <3>1. up' = up /\ snap' = snap /\ RetireFiles(n, m.remove, FALSE)
      BY <1>9, <2>3 DEF UpdateRemoved
    <3>2. QED
      BY <1>0, <3>1 DEF Still
  <2>4. QED
    BY <1>9, <2>1, <2>2, <2>3 DEF Deliver
<1>10. QED
  BY ZenonT(60), <1>1, <1>2, <1>3, <1>4, <1>5, <1>6, <1>7, <1>8, <1>9

\* Every step but a publish takes into a's manifest only what it may.
LEMMA PodStep ==
    ASSUME Types, WrittenInv, JobsInv, NEW a \in Nodes, OneMerger(a), WorkAt(a), Flushed, Reached(a), Listed(a),
           BucketMoves(a), [Next]_vars, \A j \in Jobs : ~Publish(j)
    PROVE  PodGoal(a)
<1> USE KeysAreNumbers
<1>1. ASSUME NEW f \in Raw, RegisterFlush(f) PROVE PodGoal(a)
  <2>1. CASE WriterOf[f] = a
    BY <1>1, <2>1, RegisterFlushGoal
  <2>2. CASE WriterOf[f] # a
    BY <1>1, <2>2, ElsewhereStill, StillGoal
  <2>3. QED
    BY <2>1, <2>2
<1>2. ASSUME NEW j \in Jobs, JobStep(j) PROVE PodGoal(a)
  <2>1. CASE nodeVars' = nodeVars
    BY <2>1, StillGoal DEF nodeVars, Still
  <2>2. QED
    BY <1>2, <2>1, JobGoal, AbandonGoal DEF JobStep, StoreOutput, DeleteError, FinishJob
<1>3. ASSUME NEW n \in Nodes, \/ \E k \in Keys : Reclaim(n, k) \/ SweepOrphan(n, k)
                              \/ StartListing(n) \/ ApplyListing(n) \/ DropListing(n)
                              \/ \E p \in PageEnds : ReadPage(n, p)
                              \/ SaveTo(n) \/ Crash(n) \/ Restart(n)
      PROVE  PodGoal(a)
  <2>1. CASE n = a
    BY ZenonT(60), <1>3, <2>1, ReclaimGoal, ListingGoal, ApplyListingGoal, SaveToGoal, CrashGoal, RestartGoal
  <2>2. CASE n # a
    BY <1>3, <2>2, ElsewhereStill, StillGoal
  <2>3. QED
    BY <2>1, <2>2
<1>4. ASSUME NEW m \in net, Deliver(m) PROVE PodGoal(a)
  <2>1. m.to \in Nodes /\ m.to # a
    BY DEF WorkAt, Types, WorkOK, UpdateType
  <2>2. QED
    BY <1>4, <2>1, ElsewhereStill, StillGoal
<1>5. CASE UNCHANGED nodeVars
  BY <1>5, StillGoal DEF nodeVars, Still
<1>6. ASSUME NEW j \in Jobs, NEW S \in SUBSET tracked[RunsOn[j]], NEW o \in Outs, ClaimOutput(j, S, o) PROVE PodGoal(a)
  BY <1>6, JobGoal
<1>7. QED
  BY ZenonT(60), <1>1, <1>2, <1>3, <1>4, <1>5, <1>6 DEF Next, StoreFlush, vars

-----------------------------------------------------------------------------
(* No row is served twice. *)

\* Every step keeps the invariant of the pod that merges.
LEMMA OnceStep ==
    ASSUME IInv, IInv', NEW a \in Nodes, OneMerger(a), OnceInv(a), [Next]_vars
    PROVE  OnceInv(a)'
<1>1. Types /\ Types' /\ WrittenInv /\ JobsInv
  BY DEF IInv
<1>2. WorkAt(a) /\ Flushed /\ Reached(a) /\ Listed(a) /\ Condemned(a) /\ SourcesLeft(a) /\ ServedOnce(a)
  BY DEF OnceInv
<1>3. WorkAt(a)' /\ Flushed'
  BY <1>1, <1>2, WorkStep, FlushedStep
<1>4. BucketMoves(a)
  BY <1>1, <1>2, BucketStep
<1>5. \A j \in Jobs : Active(j)' => up[a]
  <2> SUFFICES ASSUME NEW j \in Jobs, Active(j)', ~up[a] PROVE FALSE
    OBVIOUS
  <2>1. job[j].stage = "idle" /\ Active(j)'
    BY <1>2 DEF WorkAt
  <2>2. \A i \in Jobs : job[i].stage = "idle"
    BY <1>2 DEF WorkAt
  <2>3. ~Active(j) /\ NoJob.stage = "idle"
    BY <2>1 DEF Active, NoJob
  <2>4. job'[j] # job[j] /\ job'[j] # NoJob
    BY <2>3 DEF Active
  <2>5. ASSUME NEW i \in Jobs, JobStep(i) PROVE FALSE
    <3>1. ~(StoreOutput(i) \/ StoreOutputError(i) \/ Publish(i) \/ Abandon(i))
      BY <2>2 DEF StoreOutput, StoreOutputError, Publish, Abandon
    <3>2. CASE FinishJob(i)
      BY <1>1, <2>4, <3>2 DEF FinishJob, Types, WorkOK
    <3>3. ASSUME NEW k \in Keys, DeleteObject(i, k) \/ DeleteError(i, k) PROVE FALSE
      <4>1. job' = [job EXCEPT ![i].left = @ \ {k}]
        BY <3>3 DEF DeleteObject, DeleteError
      <4>2. job'[j].stage = job[j].stage
        BY <1>1, <4>1 DEF Types, WorkOK, JobType
      <4>3. QED
        BY <2>1, <4>2 DEF Active
    <3>4. QED
      BY <2>5, <3>1, <3>2, <3>3 DEF JobStep
  <2>6. ASSUME NEW i \in Jobs, NEW S, NEW o, ClaimOutput(i, S, o) PROVE FALSE
    BY <2>6 DEF ClaimOutput, OneMerger
  <2>7. ASSUME NEW n \in Nodes, Crash(n) PROVE FALSE
    BY <2>4, <2>7 DEF Crash
  <2>8. CASE job' = job
    BY <2>4, <2>8
  <2>9. QED
    BY ZenonT(60), <2>5, <2>6, <2>7, <2>8
       DEF Next, StoreFlush, RegisterFlush, Deliver, Reclaim, SweepOrphan, DeleteRetired, StartListing, ReadPage,
           ApplyListing, DropListing, SaveTo, Restart, UpdateAdded, UpdateRemoved, LoseUpdate, workVars, vars
<1>6. CASE \E j \in Jobs : Publish(j)
  <2>1. PICK j \in Jobs : Publish(j)
    BY <1>6
  <2>2. PICK o : job[j].out = o
    OBVIOUS
  <2>3. PodMoves(a, {o}) /\ Listed(a)'
    BY <1>1, <1>2, <1>4, <2>1, <2>2, PublishMoves
  <2>4. o \in pending[a] /\ o \in Keys /\ rows[o] # {}
    BY <1>1, <1>2, <2>1, <2>2 DEF Publish, WorkAt, Active, JobsInv, JobOK, Keys
  <2>5. ServedOnce(a)'
    BY <1>1, <1>2, <1>4, <2>1, PublishServed
  <2>6. Reached(a)' /\ Condemned(a)'
    BY ZenonT(60), <1>1, <1>2, <1>4, <2>3, <2>4, ReachedStep, CondemnedStep
  <2>7. SourcesLeft(a)'
    BY ZenonT(60), <1>1, <1>2, <1>4, <1>5, <2>3, <2>4, SourcesStep
  <2>8. QED
    BY <1>3, <2>3, <2>5, <2>6, <2>7 DEF OnceInv
<1>7. CASE \A j \in Jobs : ~Publish(j)
  <2>1. PodGoal(a)
    BY <1>1, <1>2, <1>4, <1>7, PodStep
  <2>2. PodMoves(a, {}) /\ Listed(a)'
    BY <2>1 DEF PodGoal
  <2>3. PICK K \in {tracked[a], snap[a].tracked, Adoptable(a)} : \A k \in tracked'[a] : k \in K \/ Fresh(k)
    BY <2>1 DEF PodGoal
  <2>4. ServedOnce(a)'
    BY <1>1, <1>2, <1>4, <2>2, <2>3, ServedKeeps
  <2>5. Reached(a)' /\ Condemned(a)'
    BY <1>1, <1>2, <1>4, <2>2, ReachedStep, CondemnedStep
  <2>6. SourcesLeft(a)'
    BY <1>1, <1>2, <1>4, <1>5, <2>2, SourcesStep
  <2>7. QED
    BY ZenonT(60), <1>3, <2>2, <2>4, <2>5, <2>6 DEF OnceInv
<1>8. QED
  BY <1>6, <1>7

\* When one pod runs the merges of the partition, it never serves a row from two objects:
\* not from a listing that began before a publish, not when a delete fails, not after a
\* restart from a snapshot that has the retirements, and not when the cap evicts the
\* retirement of a deleted object; for any number of pods, keys, merges and crashes.
THEOREM RowsServedOnce ==
    ASSUME NEW a \in Nodes, OneMerger(a)
    PROVE  Spec => []NoRowTwice
<1>1. Init => OnceInv(a)
  <2> SUFFICES ASSUME Init PROVE OnceInv(a)
    OBVIOUS
  <2>1. /\ store = {} /\ net = {} /\ up[a] = TRUE /\ tracked[a] = {} /\ pending[a] = {} /\ snap[a].tracked = {}
        /\ listing[a] = NoListing /\ rows = [k \in Keys |-> {}]
        /\ \A j \in Jobs : job[j] = NoJob
        /\ \A n \in Nodes, k \in Keys : retired[n][k] = "no" /\ snap[n].retired[k] = "no"
    BY DEF Init, NoSnap
  <2>2. NoListing.on = FALSE /\ NoListing.seen = {} /\ NoListing.added = {}
    BY DEF NoListing
  <2>3. NoJob.stage = "idle" /\ NoJob.src = {} /\ NoJob.left = {}
    BY DEF NoJob
  <2>4. WorkAt(a) /\ SourcesLeft(a)
    BY <2>1, <2>3 DEF WorkAt, SourcesLeft, Active
  <2>5. Flushed
    BY <2>1, <2>3 DEF Flushed, Keys
  <2>6. Reached(a) /\ Listed(a) /\ Condemned(a)
    BY <2>1, <2>2 DEF Reached, Listed, Condemned
  <2>7. Adoptable(a) = {}
    BY <2>1, <2>2 DEF Adoptable
  <2>8. ServedOnce(a)
    BY ZenonT(60), <2>1, <2>7 DEF ServedOnce, Once
  <2>9. QED
    BY <2>4, <2>5, <2>6, <2>8 DEF OnceInv
<1>2. IInv /\ IInv' /\ OnceInv(a) /\ [Next]_vars => OnceInv(a)'
  BY OnceStep
<1>3. OnceInv(a) => NoRowTwice
  BY DEF OnceInv, ServedOnce, Once, NoRowTwice, Compactors, OneMerger
<1>4. QED
  BY <1>1, <1>2, <1>3, Invariant, PTL DEF Spec
=============================================================================
