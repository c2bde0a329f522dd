------------------------------ MODULE Manifest ------------------------------
(***************************************************************************)
(* What the pods' manifests say about one partition of one tenant while    *)
(* objects are flushed, merged and deleted.  Each pod rebuilds its         *)
(* manifest from bucket listings, which take time, and keeps out of them   *)
(* the keys it has retired or not published yet.  A merge is announced to  *)
(* the other pods by a push that may be lost or arrive late.               *)
(*                                                                         *)
(* Keys are numbers in listing order.  "compacted-L<n>-" sorts after the   *)
(* hexadecimal nonce of a flushed object and after every lower level, so   *)
(* an output comes after its sources.                                      *)
(***************************************************************************)
EXTENDS Integers, FiniteSets

CONSTANTS
    Nodes,         \* the pods
    Raw,           \* keys of flushed objects; the row of an object is its key
    Outs,          \* keys of merged objects
    WriterOf,      \* the pod that flushes a raw object
    Jobs,          \* merges that may run at the same time
    RunsOn,        \* the pod of a job
    PageEnds,      \* last keys of the pages of a listing
    MaxRetired,    \* maxRetiredKeys
    MaxCrashes     \* bound on the crashes of a behaviour

Keys == Raw \cup Outs

Compactors == {RunsOn[j] : j \in Jobs}

ASSUME ManifestAssumption ==
    /\ Raw \subseteq Nat \ {0} /\ Outs \subseteq Nat
    /\ IsFiniteSet(Raw) /\ IsFiniteSet(Outs)
    /\ \A f \in Raw, o \in Outs : f < o
    /\ WriterOf \in [Raw -> Nodes]
    /\ RunsOn \in [Jobs -> Nodes]
    /\ PageEnds \subseteq Keys
    /\ \E p \in PageEnds : \A k \in Keys : k <= p
    /\ MaxRetired \in Nat /\ MaxCrashes \in Nat

VARIABLES
    \* The bucket.
    store,     \* keys of the stored objects
    rows,      \* key -> rows of the object written under it, {} before that
    \* The pods.
    up,        \* pod -> it runs
    tracked,   \* pod -> Manifest.byKey
    retired,   \* pod -> key -> its retirement
    pending,   \* pod -> outputs claimed and not published
    listing,   \* pod -> the refresh in flight
    snap,      \* pod -> snapshot on its disk
    flush,     \* raw key -> progress of its flush
    job,       \* job -> progress of its merge
    net,       \* manifest updates on their way
    crashes,
    \* History.
    known,     \* pod -> rows stored when its last applied listing began
    excused    \* rows of merges cut off by a crash before their retirements were safe,
               \* or by an upload error after which the output is in the bucket, and of
               \* retirements that were evicted while a listing in flight had the object, or
               \* because more deletes than the cap were waiting

bucketVars == <<store, rows>>
nodeVars   == <<up, tracked, retired, pending, listing, snap>>
workVars   == <<flush, job, net>>
histVars   == <<known, excused>>
vars == <<bucketVars, nodeVars, workVars, crashes, histVars>>

\* RetiredKey: Reclaim gives "owed", Deleted gives "deleted".
Retirement == {"no", "unowed", "owed", "deleted"}

NoListing == [on |-> FALSE, pos |-> 0, seen |-> {}, added |-> {}, late |-> {}, must |-> {}]
NoSnap    == [tracked |-> {}, retired |-> [k \in Keys |-> "no"]]
NoJob     == [stage |-> "idle", src |-> {}, out |-> 0, left |-> {}]

RowsOf(K) == UNION {rows[k] : k \in K}

Retired(n) == {k \in Keys : retired[n][k] # "no"}

-----------------------------------------------------------------------------
(* The manifest's own operations, as new values of its variables. *)

\* addFileLocked and noteAddedLocked: a key that is tracked is left alone, any other
\* is neither pending nor retired any more.
AddFiles(n, K) ==
    LET new == K \ tracked[n]
    IN  /\ tracked' = [tracked EXCEPT ![n] = @ \cup new]
        /\ retired' = [retired EXCEPT ![n] = [k \in Keys |-> IF k \in new THEN "no" ELSE @[k]]]
        /\ pending' = [pending EXCEPT ![n] = @ \ new]
        /\ listing' = [listing EXCEPT ![n].added = IF listing[n].on THEN @ \cup new ELSE @]

\* retireLocked, after the key was removed if it was tracked: a second retirement
\* keeps an owed delete and forgets that the object was deleted.
RetireFiles(n, K, reclaim) ==
    /\ tracked' = [tracked EXCEPT ![n] = @ \ K]
    /\ retired' = [retired EXCEPT ![n] = [k \in Keys |->
                      IF k \notin K THEN @[k]
                      ELSE IF reclaim \/ @[k] = "owed" THEN "owed" ELSE "unowed"]]
    /\ pending' = [pending EXCEPT ![n] = @ \ K]
    /\ listing' = [listing EXCEPT ![n].late = IF listing[n].on THEN @ \cup K ELSE @]

\* Mutant: the retirement is forgotten with its object.
MutConfirmDeleted(n, k) == [retired EXCEPT ![n][k] = "no"]

ConfirmDeleted(n, k) == [retired EXCEPT ![n][k] = IF @ = "no" THEN @ ELSE "deleted"]

\* Mutant: what is owed here goes first.
MutEvictionRank == [deleted |-> 3, unowed |-> 2, owed |-> 1]

\* What is evicted first: a retirement whose object is gone, one whose delete another
\* pod owes, one whose delete is owed here.
EvictionRank == [deleted |-> 1, unowed |-> 2, owed |-> 3]

\* pruneRetiredLocked: the retirements R may lose to the cap.  Which of two of the same
\* rank is the older is left open.
Evictions(R) ==
    LET kept == {k \in Keys : R[k] # "no"} IN
    {E \in SUBSET kept :
        /\ Cardinality(kept \ E) = IF Cardinality(kept) > MaxRetired THEN MaxRetired
                                   ELSE Cardinality(kept)
        /\ \A e \in E, k \in kept \ E : EvictionRank[R[e]] <= EvictionRank[R[k]]}

\* More deletes wait for success than the cap has room for: one must be forgotten.
Overflows(R) == Cardinality({k \in Keys : R[k] \in {"unowed", "owed"}}) > MaxRetired

Without(R, E) == [k \in Keys |-> IF k \in E THEN "no" ELSE R[k]]

-----------------------------------------------------------------------------
(* Flushes. *)

\* uploadLogGroup up to its PUT.  A key that is retired, or that a listing has
\* brought in, is settled without one.
StoreFlush(f) ==
    LET n == WriterOf[f] IN
    /\ up[n]
    /\ flush[f] = "new"
    /\ store' = store \cup {f}
    /\ rows' = [rows EXCEPT ![f] = {f}]
    /\ flush' = [flush EXCEPT ![f] = "stored"]
    /\ UNCHANGED <<nodeVars, job, net, crashes, histVars>>

\* AddFileUnlessRetired; a refused object is owed a delete.
RegisterFlush(f) ==
    LET n == WriterOf[f] IN
    /\ up[n]
    /\ flush[f] = "stored"
    /\ flush' = [flush EXCEPT ![f] = "done"]
    /\ IF retired[n][f] # "no" THEN RetireFiles(n, {f}, TRUE) ELSE AddFiles(n, {f})
    /\ UNCHANGED <<bucketVars, up, snap, job, net, crashes, histVars>>

-----------------------------------------------------------------------------
(* Merges. *)

\* SegmentGuard.ReleasedFiles: the object's segment has its marker, which is written
\* after the flush has registered the object.
Released(S) == \A f \in S \cap Raw : flush[f] = "done"

\* The sources are read and an output key is claimed: one that is neither tracked,
\* nor retired, nor pending (ClaimPending), and whose random part nobody drew before.
ClaimOutput(j, S, o) ==
    LET n == RunsOn[j] IN
    /\ up[n]
    /\ job[j].stage = "idle"
    /\ Cardinality(S) >= 2
    /\ S \subseteq tracked[n] \cap store
    /\ Released(S)
    /\ o \notin tracked[n] \cup pending[n] \cup Retired(n)
    /\ rows[o] = {} /\ \A i \in Jobs : job[i].out # o
    /\ \A k \in S : k < o
    /\ pending' = [pending EXCEPT ![n] = @ \cup {o}]
    /\ job' = [job EXCEPT ![j] = [stage |-> "claimed", src |-> S, out |-> o, left |-> {}]]
    /\ UNCHANGED <<bucketVars, up, tracked, retired, listing, snap, flush, net,
                   crashes, histVars>>

\* The output is stored: a pure union of its sources' rows.
StoreOutput(j) ==
    /\ job[j].stage = "claimed"
    /\ store' = store \cup {job[j].out}
    /\ rows' = [rows EXCEPT ![job[j].out] = RowsOf(job[j].src)]
    /\ job' = [job EXCEPT ![j].stage = "stored"]
    /\ UNCHANGED <<nodeVars, flush, net, crashes, histVars>>

\* Mutant: the error is ignored.
MutStoreOutputError(j) ==
    /\ job[j].stage = "claimed"
    /\ job' = [job EXCEPT ![j].stage = "stored"]
    /\ UNCHANGED <<bucketVars, nodeVars, flush, net, crashes, histVars>>

\* Upload returned an error and ReleasePending drops the claim.  The object may be
\* there all the same: a listing then adopts it next to its sources.
StoreOutputError(j) ==
    LET n == RunsOn[j] IN
    /\ job[j].stage = "claimed"
    /\ \/ UNCHANGED <<bucketVars, excused>>
       \/ /\ store' = store \cup {job[j].out}
          /\ rows' = [rows EXCEPT ![job[j].out] = RowsOf(job[j].src)]
          /\ excused' = excused \cup RowsOf(job[j].src)
    /\ pending' = [pending EXCEPT ![n] = @ \ {job[j].out}]
    /\ job' = [job EXCEPT ![j] = NoJob]
    /\ UNCHANGED <<up, tracked, retired, listing, snap, flush, net, crashes, known>>

\* ReplaceFiles needs every source.
MayReplace(n, S) == S \subseteq tracked[n]

\* ReplaceFiles: one step takes the output in and retires its sources.
Publish(j) ==
    LET n == RunsOn[j]
        S == job[j].src
        o == job[j].out
    IN
    /\ job[j].stage = "stored"
    /\ MayReplace(n, S)
    /\ tracked' = [tracked EXCEPT ![n] = (@ \ S) \cup {o}]
    /\ retired' = [retired EXCEPT ![n] = [k \in Keys |-> IF k \in S THEN "owed"
                                                         ELSE IF k = o THEN "no" ELSE @[k]]]
    /\ pending' = [pending EXCEPT ![n] = @ \ {o}]
    /\ listing' = [listing EXCEPT ![n].added = IF listing[n].on THEN @ \cup {o} ELSE @,
                                  ![n].late = IF listing[n].on THEN @ \cup S ELSE @]
    /\ job' = [job EXCEPT ![j].stage = "published", ![j].left = S]
    /\ UNCHANGED <<bucketVars, up, snap, flush, net, crashes, histVars>>

\* A source has left the manifest: the output is retired and deleted.
Abandon(j) ==
    LET n == RunsOn[j] IN
    /\ job[j].stage = "stored"
    /\ ~MayReplace(n, job[j].src)
    /\ RetireFiles(n, {job[j].out}, TRUE)
    /\ job' = [job EXCEPT ![j].stage = "abandoned", ![j].left = {job[j].out}]
    /\ UNCHANGED <<bucketVars, up, snap, flush, net, crashes, histVars>>

DeleteObject(j, k) ==
    /\ k \in job[j].left
    /\ store' = store \ {k}
    /\ retired' = ConfirmDeleted(RunsOn[j], k)
    /\ job' = [job EXCEPT ![j].left = @ \ {k}]
    /\ UNCHANGED <<rows, up, tracked, pending, listing, snap, flush, net, crashes, histVars>>

\* The delete stays owed; it may have been carried out all the same.
DeleteError(j, k) ==
    /\ k \in job[j].left
    /\ store' \in {store, store \ {k}}
    /\ job' = [job EXCEPT ![j].left = @ \ {k}]
    /\ UNCHANGED <<rows, nodeVars, flush, net, crashes, histVars>>

\* The merge is over; a published one is announced to every other pod.
FinishJob(j) ==
    /\ job[j].stage \in {"published", "abandoned"}
    /\ job[j].left = {}
    /\ net' = net \cup (IF job[j].stage = "abandoned" THEN {}
                        ELSE {[to |-> m, add |-> job[j].out, remove |-> job[j].src] :
                                  m \in Nodes \ {RunsOn[j]}})
    /\ job' = [job EXCEPT ![j] = NoJob]
    /\ UNCHANGED <<bucketVars, nodeVars, flush, crashes, histVars>>

-----------------------------------------------------------------------------
(* Deletes that are retried. *)

\* The object of a retirement is deleted, which settles what it owed.
DeleteRetired(n, k) ==
    /\ k \notin tracked[n]
    /\ store' = store \ {k}
    /\ retired' = ConfirmDeleted(n, k)
    /\ UNCHANGED <<rows, up, tracked, pending, listing, snap, workVars, crashes, histVars>>

\* ReclaimRetired: the scan of the pod that owes the delete.
Reclaim(n, k) ==
    /\ up[n]
    /\ retired[n][k] = "owed"
    /\ DeleteRetired(n, k)

\* Tier B of the orphan sweep: any pod, for any retirement whose delete has not
\* returned success.  How long it waits is left out.
SweepOrphan(n, k) ==
    /\ up[n]
    /\ retired[n][k] \in {"owed", "unowed"}
    /\ k \notin pending[n]
    /\ DeleteRetired(n, k)

-----------------------------------------------------------------------------
(* Refreshes. *)

StartListing(n) ==
    /\ up[n]
    /\ ~listing[n].on
    /\ listing' = [listing EXCEPT ![n] = [NoListing EXCEPT !.on = TRUE, !.must = RowsOf(store)]]
    /\ UNCHANGED <<bucketVars, up, tracked, retired, pending, snap, workVars, crashes, histVars>>

\* One more page: the objects after the last key read, up to p.
ReadPage(n, p) ==
    /\ listing[n].on
    /\ p > listing[n].pos
    /\ \A q \in PageEnds : q > listing[n].pos => p <= q
    /\ listing' = [listing EXCEPT ![n].pos = p,
                      ![n].seen = @ \cup {k \in store : listing[n].pos < k /\ k <= p}]
    /\ UNCHANGED <<bucketVars, up, tracked, retired, pending, snap, workVars, crashes, histVars>>

\* Mutant: what was published while the listing ran is dropped.
MutMerged(n) == listing[n].seen \ (Retired(n) \cup pending[n])

\* Mutant: a listed key is adopted although it is retired.
MutAdopted(n) == (listing[n].seen \ pending[n]) \cup (listing[n].added \cap tracked[n])

\* refreshExclusionsLocked: the listed keys that are neither retired nor pending, and
\* the keys added since the listing began.
Merged(n) ==
    LET L == listing[n].seen
    IN  (L \ (Retired(n) \cup pending[n])) \cup ((listing[n].added \ L) \cap tracked[n])

\* Retirements older than a listing that comes back without the key.
Settled(n) == Retired(n) \ (listing[n].seen \cup listing[n].late)

\* applyRefreshedFiles, accepted and covering the partition.  The cap is applied last:
\* what is evicted is named by later listings only if it is still in the bucket.
ApplyListing(n) ==
    /\ listing[n].on
    /\ \A k \in Keys : k <= listing[n].pos
    /\ tracked' = [tracked EXCEPT ![n] = Merged(n)]
    /\ \E R \in {Without(retired[n], Settled(n))} : \E E \in Evictions(R) :
          /\ retired' = [retired EXCEPT ![n] = Without(R, E)]
          /\ excused' = excused \cup RowsOf(IF Overflows(R) THEN E \cap store ELSE {})
    /\ known' = [known EXCEPT ![n] = listing[n].must]
    /\ listing' = [listing EXCEPT ![n] = NoListing]
    /\ UNCHANGED <<bucketVars, up, pending, snap, workVars, crashes>>

\* The listing failed, skipped this tenant, or was rejected by the cliff rule: the
\* partition keeps its entries and its retirements.
DropListing(n) ==
    /\ listing[n].on
    /\ listing' = [listing EXCEPT ![n] = NoListing]
    /\ UNCHANGED <<bucketVars, up, tracked, retired, pending, snap, workVars, crashes, histVars>>

-----------------------------------------------------------------------------
(* Pushes. *)

\* HandleManifestUpdate takes the output in, then removes the sources, in two
\* critical sections.
UpdateAdded(m) ==
    /\ up[m.to]
    /\ m.add # 0
    /\ AddFiles(m.to, {m.add})
    /\ net' = (net \ {m}) \cup {[m EXCEPT !.add = 0]}
    /\ UNCHANGED <<bucketVars, up, snap, flush, job, crashes, histVars>>

UpdateRemoved(m) ==
    /\ up[m.to]
    /\ m.add = 0
    /\ RetireFiles(m.to, m.remove, FALSE)
    /\ net' = net \ {m}
    /\ UNCHANGED <<bucketVars, up, snap, flush, job, crashes, histVars>>

\* The push fails, or the pod stops while it applies it.
LoseUpdate(m) ==
    /\ m.add # 0 \/ ~up[m.to]
    /\ net' = net \ {m}
    /\ UNCHANGED <<bucketVars, nodeVars, flush, job, crashes, histVars>>

-----------------------------------------------------------------------------
(* Snapshots and crashes. *)

\* The cap is applied before the snapshot is taken, and a listing in flight may name
\* what it evicts.  A snapshot that no crash can follow is not told apart.
SaveTo(n) ==
    /\ up[n]
    /\ crashes < MaxCrashes \/ Cardinality(Retired(n)) > MaxRetired
    /\ \E E \in Evictions(retired[n]) :
          /\ retired' = [retired EXCEPT ![n] = Without(@, E)]
          /\ snap' = [snap EXCEPT ![n] = [tracked |-> tracked[n],
                                         retired |-> Without(retired[n], E)]]
          /\ excused' = excused \cup RowsOf(E \cap (listing[n].seen \cup
                                    (IF Overflows(retired[n]) THEN store ELSE {})))
    /\ UNCHANGED <<bucketVars, up, tracked, pending, listing, workVars, crashes, known>>

\* Outputs of n that are stored and not published, and objects whose retirement is
\* not in the snapshot: the next process adopts them.
Unsafe(n) ==
    store \cap ({job[j].out : j \in {i \in Jobs : RunsOn[i] = n /\ job[i].stage = "stored"}}
                \cup {k \in Retired(n) : snap[n].retired[k] = "no"})

Crash(n) ==
    /\ up[n]
    /\ crashes < MaxCrashes
    /\ crashes' = crashes + 1
    /\ up' = [up EXCEPT ![n] = FALSE]
    /\ tracked' = [tracked EXCEPT ![n] = {}]
    /\ retired' = [retired EXCEPT ![n] = NoSnap.retired]
    /\ pending' = [pending EXCEPT ![n] = {}]
    /\ listing' = [listing EXCEPT ![n] = NoListing]
    /\ flush' = [f \in Raw |-> IF WriterOf[f] = n /\ flush[f] = "stored" THEN "done" ELSE flush[f]]
    /\ job' = [j \in Jobs |-> IF RunsOn[j] = n THEN NoJob ELSE job[j]]
    /\ known' = [known EXCEPT ![n] = {}]
    /\ excused' = excused \cup RowsOf(Unsafe(n))
    /\ UNCHANGED <<bucketVars, snap, net>>

\* LoadFrom: pending claims and additions are gone, retirements come back, never more
\* than the cap.
Restart(n) ==
    /\ ~up[n]
    /\ up' = [up EXCEPT ![n] = TRUE]
    /\ tracked' = [tracked EXCEPT ![n] = snap[n].tracked]
    /\ retired' = [retired EXCEPT ![n] = snap[n].retired]
    /\ UNCHANGED <<bucketVars, pending, listing, snap, workVars, crashes, histVars>>

-----------------------------------------------------------------------------
Init ==
    /\ store = {}
    /\ rows = [k \in Keys |-> {}]
    /\ up = [n \in Nodes |-> TRUE]
    /\ tracked = [n \in Nodes |-> {}]
    /\ retired = [n \in Nodes |-> NoSnap.retired]
    /\ pending = [n \in Nodes |-> {}]
    /\ listing = [n \in Nodes |-> NoListing]
    /\ snap = [n \in Nodes |-> NoSnap]
    /\ flush = [f \in Raw |-> "new"]
    /\ job = [j \in Jobs |-> NoJob]
    /\ net = {}
    /\ crashes = 0
    /\ known = [n \in Nodes |-> {}]
    /\ excused = {}

\* A claimed merge goes on.
JobStep(j) ==
    \/ StoreOutput(j) \/ StoreOutputError(j)
    \/ Publish(j) \/ Abandon(j)
    \/ \E k \in Keys : DeleteObject(j, k) \/ DeleteError(j, k)
    \/ FinishJob(j)

Deliver(m) == UpdateAdded(m) \/ UpdateRemoved(m) \/ LoseUpdate(m)

Next ==
    \/ \E f \in Raw : StoreFlush(f) \/ RegisterFlush(f)
    \/ \E j \in Jobs : \/ \E S \in SUBSET tracked[RunsOn[j]], o \in Outs : ClaimOutput(j, S, o)
                       \/ JobStep(j)
    \/ \E n \in Nodes : \/ \E k \in Keys : Reclaim(n, k) \/ SweepOrphan(n, k)
                        \/ StartListing(n) \/ ApplyListing(n) \/ DropListing(n)
                        \/ \E p \in PageEnds : ReadPage(n, p)
                        \/ SaveTo(n) \/ Crash(n) \/ Restart(n)
    \/ \E m \in net : Deliver(m)

Spec == Init /\ [][Next]_vars

\* A pod's refresh timer fires for ever, and not every listing fails; a running flush
\* or merge goes on; the owner's scan retries owed deletes until the bucket takes
\* them; a pod is restarted; an update arrives or is given up.
Fairness ==
    /\ \A f \in Raw : WF_vars(RegisterFlush(f))
    /\ \A j \in Jobs : WF_vars(JobStep(j))
    /\ \A n \in Nodes : /\ WF_vars(StartListing(n))
                        /\ \A p \in PageEnds : SF_vars(ReadPage(n, p))
                        /\ SF_vars(ApplyListing(n))
                        /\ WF_vars(Restart(n))
    /\ WF_vars(\E m \in net : Deliver(m))
    /\ \A n \in Compactors : WF_vars(\E k \in Keys : Reclaim(n, k))

FairSpec == Spec /\ Fairness

-----------------------------------------------------------------------------
(* Properties. *)

\* The shape of the state; a key is tracked, retired or pending, never two of them.
TypeOK ==
    /\ store \subseteq Keys
    /\ rows \in [Keys -> SUBSET Raw]
    /\ up \in [Nodes -> BOOLEAN]
    /\ tracked \in [Nodes -> SUBSET Keys]
    /\ retired \in [Nodes -> [Keys -> Retirement]]
    /\ pending \in [Nodes -> SUBSET Outs]
    /\ flush \in [Raw -> {"new", "stored", "done"}]
    /\ \A n \in Nodes : /\ tracked[n] \cap Retired(n) = {}
                        /\ pending[n] \cap (tracked[n] \cup Retired(n)) = {}

\* No delete loses a row: whatever merges race, fail or are cut off, and whichever pod
\* deletes, a flushed row is always in a stored object.
NoRowGone == \A f \in Raw : flush[f] # "new" => f \in RowsOf(store)

\* A pod that merges never serves a row from two objects: not from a listing older
\* than its publish, not after a failed delete, not after a restart from a snapshot
\* that has the retirements, not when the cap evicts the retirement of a deleted object.
\* Excused are the rows of an output whose upload failed for the client only, of a merge
\* that a crash cut off unsaved, and of an object whose retirement was evicted while a
\* listing in flight named it, or because more deletes were waiting than the cap admits.
NoRowTwice ==
    \A n \in Compactors : \A k, i \in tracked[n] :
        k # i => rows[k] \cap rows[i] \subseteq excused

\* Once a listing is applied, the manifest names an object for every row that was
\* stored when the listing began, and keeps doing so whatever is merged, pushed or
\* deleted: no publish, update or later listing makes a row disappear from it.
RowsKnown == \A n \in Nodes : known[n] \subseteq RowsOf(tracked[n])

\* When the merges are over, every manifest comes to say what the bucket holds, and no
\* object that a merge replaced is left in the bucket next to its output: a delete that
\* is owed is retried until it succeeds, and the cap forgets none while it has room for
\* those that wait.  Excused rows are as in NoRowTwice.
Converges ==
    <>[](/\ \A n \in Nodes : up[n] /\ tracked[n] = store
         /\ \A k, i \in store : k # i => rows[k] \cap rows[i] \subseteq excused)

=============================================================================
