---------------------------- MODULE ReadHandoff ----------------------------
(***************************************************************************)
(* Who answers for a row while it moves from the insert buffer of one pod  *)
(* to the bucket: a query takes a view of the buffer, then lists objects   *)
(* and leaves out those that carry the nonce of a segment of its view.     *)
(*                                                                         *)
(* InsertBuffer says what a drain writes.  Here a segment has one object,  *)
(* and the question is time: the pod serves a committed segment for a      *)
(* grace, readers list the bucket every so often, and a merge, whose       *)
(* output carries no nonce, waits for twice the grace after the marker.    *)
(* Times are kept as ages, which stop growing where no comparison sees the *)
(* difference, so a behaviour may be as long as it likes.                  *)
(*                                                                         *)
(* A merge swaps its output for its sources in one step: a listing that    *)
(* falls between the two is another question (docs/durability.md, 2.6).    *)
(***************************************************************************)
EXTENDS Integers, FiniteSets

CONSTANTS
    Segs,        \* the sealed segments, by seq
    Queries,     \* the queries that may run at the same time
    Readers,     \* "pod" answers from its own segments, "select" over the bridge
    Asked,       \* the readers that clients query
    Grace,       \* BufferFlusher.grace
    Check,       \* the interval of the reap loop
    Delay,       \* longest time between the marker's PUT and the commit record
    Skew,        \* how far a compactor's clock is ahead of the object store's
    Lag,         \* longest time between a query's view and its listing
    RefreshGap,  \* age a reader's last complete listing may reach
    Timely,      \* FALSE: complete listings may fail for ever
    HoldLimit    \* RetiredHoldLimit

ASSUME HandoffAssumption ==
    /\ Segs \subseteq Nat \ {0} /\ IsFiniteSet(Segs)
    /\ "pod" \in Readers /\ Readers \subseteq {"pod", "select"} /\ Asked \subseteq Readers
    /\ {Grace, RefreshGap, HoldLimit} \subseteq Nat \ {0}
    /\ {Check, Delay, Skew, Lag} \subseteq Nat
    /\ Timely \in BOOLEAN

VARIABLES
    \* The pod.
    up,        \* the pod runs
    live,      \* Segments.list without the active segment
    retired,   \* segment -> time since it was retired
    dirs,      \* segments with a directory on the pod's disk
    commit,    \* segment -> time since its commit, in memory and in the flush state
    held,      \* restored segments that wait for a refresh
    marking,   \* the segment whose marker is written and whose commit is not; 0
    saved,     \* the manifest snapshot on the pod's disk
    \* The bucket.
    store,     \* objects <<nonce, segments whose rows it has>>
    marker,    \* segment -> time since its marker's LastModified
    \* The readers.
    man,       \* reader -> objects its manifest tracks
    listing,   \* reader -> the listing in flight
    fresh,     \* reader -> time since its last complete listing began
    query,     \* query -> its progress
    \* History.
    excused,   \* segments whose commit was cut off between marker and retirement
    served     \* segments the pod had on its disk when it last started

podVars    == <<up, live, retired, dirs, commit, held, marking, saved>>
bucketVars == <<store, marker>>
readVars   == <<man, listing, fresh>>
histVars   == <<excused, served>>
vars == <<podVars, bucketVars, readVars, query, histVars>>

NotYet  == -1
MaxAge  == 2 * Grace + Check + HoldLimit + RefreshGap + Lag + Delay
Age     == 0..MaxAge

Raw(s) == <<s, {s}>>
Out(S) == <<0, S>>
Objects == {Raw(s) : s \in Segs} \cup {Out(S) : S \in SUBSET Segs}

Idle == [stage |-> "idle", node |-> "pod", at |-> 0, peer |-> FALSE,
         view |-> {}, files |-> {}]

NoListing == [at |-> NotYet, objs |-> {}]

Committed(s) == commit[s] # NotYet

\* Local queries that hold the segment.
Refs(s) == {q \in Queries : query[q].stage # "idle" /\ query[q].node = "pod"
                              /\ s \in query[q].view}

-----------------------------------------------------------------------------
(* The drain of the oldest pending segment. *)

Draining(s) ==
    /\ up
    /\ marking = 0
    /\ s \in live /\ ~Committed(s)
    /\ \A x \in live : ~Committed(x) => s <= x

\* A group is settled by the manifest, by its mark or by HEAD; the last two leave
\* the manifest as it is.
SettledObject(s) == Raw(s) \in man["pod"] \cup store

\* uploadLogGroup: the object is stored and added to the pod's manifest, and to the
\* result of the listing in flight, if any (a listing keeps recent additions).
UploadObject(s) ==
    /\ Draining(s)
    /\ ~SettledObject(s)
    /\ store' = store \cup {Raw(s)}
    /\ man' = [man EXCEPT !["pod"] = @ \cup {Raw(s)}]
    /\ listing' = [listing EXCEPT !["pod"].objs =
                      IF listing["pod"].at = NotYet THEN @ ELSE @ \cup {Raw(s)}]
    /\ UNCHANGED <<podVars, marker, fresh, query, histVars>>

\* putSegmentMarker: a second attempt gives the marker a new time.
PutMarker(s) ==
    /\ Draining(s)
    /\ SettledObject(s)
    /\ marker' = [marker EXCEPT ![s] = 0]
    /\ marking' = s
    /\ UNCHANGED <<up, live, retired, dirs, commit, held, saved,
                   store, readVars, query, histVars>>

\* The commit is recorded, with its time, on the disk and in memory.
Commit ==
    /\ up
    /\ marking # 0
    /\ commit' = [commit EXCEPT ![marking] = 0]
    /\ marking' = 0
    /\ UNCHANGED <<up, live, retired, dirs, held, saved, bucketVars,
                   readVars, query, histVars>>

\* The commit cannot be recorded: the attempt is repeated later.
CommitError ==
    /\ up
    /\ marking # 0
    /\ excused' = excused \cup {marking}
    /\ marking' = 0
    /\ UNCHANGED <<up, live, retired, dirs, commit, held, saved,
                   bucketVars, readVars, query, served>>

-----------------------------------------------------------------------------
(* Reaping. *)

\* Mutant: a segment is retired as soon as it is committed.
MutNoGrace(H) == {s \in live \ H : Committed(s)}

\* Committed segments past their grace, unless they are held.
Expired(H) == {s \in live \ H : Committed(s) /\ commit[s] >= Grace}

\* Mutant: a retired segment is removed under the queries that hold it.
MutRemovable(R) == R

\* Retired segments no query holds, or that one has held for too long.
Removable(R) == {s \in R : \/ Refs(s) = {}
                           \/ retired[s] >= HoldLimit}

\* Segments.Reap with the segments H held.
Reap(H) ==
    LET E == Expired(H)
        G == Removable((dirs \ live) \cup E)
    IN  /\ live' = live \ E
        /\ retired' = [s \in Segs |-> IF s \in E THEN 0 ELSE retired[s]]
        /\ dirs' = dirs \ G

\* The reap loop, or the end of the flusher's tick.
ReapTick ==
    /\ up
    /\ Expired(held) # {} \/ Removable(dirs \ live) # {}
    /\ Reap(held)
    /\ UNCHANGED <<up, commit, held, marking, saved, bucketVars,
                   readVars, query, histVars>>

-----------------------------------------------------------------------------
(* Listings. *)

Alive(n) == n = "select" \/ up

StartListing(n) ==
    /\ Alive(n)
    /\ listing[n] = NoListing
    /\ listing' = [listing EXCEPT ![n] = [at |-> 0, objs |-> store]]
    /\ UNCHANGED <<podVars, bucketVars, man, fresh, query, histVars>>

Applied(n) ==
    /\ listing[n] # NoListing
    /\ man' = [man EXCEPT ![n] = listing[n].objs]
    /\ fresh' = [fresh EXCEPT ![n] = listing[n].at]
    /\ listing' = [listing EXCEPT ![n] = NoListing]

\* A select pod applies a complete listing.
ApplyOnSelect ==
    /\ "select" \in Readers
    /\ Applied("select")
    /\ UNCHANGED <<podVars, bucketVars, query, histVars>>

\* The pod applies one: ManifestRefreshed releases the restored segments and reaps.
ApplyOnPod ==
    /\ up
    /\ Applied("pod")
    /\ held' = {}
    /\ IF held = {} THEN UNCHANGED <<live, retired, dirs>> ELSE Reap({})
    /\ UNCHANGED <<up, commit, marking, saved, bucketVars, query,
                   histVars>>

\* A listing fails, or is rejected.
ListingError(n) ==
    /\ listing[n] # NoListing
    /\ listing' = [listing EXCEPT ![n] = NoListing]
    /\ UNCHANGED <<podVars, bucketVars, man, fresh, query, histVars>>

SaveManifest ==
    /\ up
    /\ saved # man["pod"]
    /\ saved' = man["pod"]
    /\ UNCHANGED <<up, live, retired, dirs, commit, held, marking,
                   bucketVars, readVars, query, histVars>>

-----------------------------------------------------------------------------
(* Compaction and delete rewrites, on some other pod. *)

\* Mutant: the guard waits for one grace only.
MutReleased(s) == marker[s] # NotYet /\ marker[s] + Skew >= Grace

\* SegmentGuard.Released, with Protect twice the grace.
Released(s) == marker[s] # NotYet /\ marker[s] + Skew >= 2 * Grace

\* The objects of S become one object without a nonce.
Merge(S) ==
    /\ S # {}
    /\ \A s \in S : Raw(s) \in store /\ Released(s)
    /\ store' = (store \ {Raw(s) : s \in S}) \cup {Out(S)}
    /\ UNCHANGED <<podVars, marker, readVars, query, histVars>>

-----------------------------------------------------------------------------
(* Queries. *)

\* openBufferView: a local snapshot, or what the pod answers over the bridge.  A
\* peer that is down gives neither rows nor nonces.
OpenView(q, n) ==
    /\ Alive(n)
    /\ query[q].stage = "idle"
    /\ query' = [query EXCEPT ![q] =
                   [stage |-> "viewed", node |-> n, at |-> 0, peer |-> up,
                    view |-> IF up THEN live ELSE {}, files |-> {}]]
    /\ UNCHANGED <<podVars, bucketVars, readVars, histVars>>

\* Mutant: the objects of the view's segments stay in the scan.
MutExcluded(o, view) == FALSE

\* bufferView.exclude.
Excluded(o, view) == o[1] \in view

ListFiles(q) ==
    /\ query[q].stage = "viewed"
    /\ query' = [query EXCEPT ![q].stage = "listed",
                   ![q].files = {o \in man[query[q].node] : ~Excluded(o, query[q].view)}]
    /\ UNCHANGED <<podVars, bucketVars, readVars, histVars>>

\* The answer is complete, or failed because a listed object is gone.
Finish(q) ==
    /\ query[q].stage = "listed"
    /\ query' = [query EXCEPT ![q] = Idle]
    /\ UNCHANGED <<podVars, bucketVars, readVars, histVars>>

-----------------------------------------------------------------------------
(* Crash, restart and time. *)

\* The pod stops, having saved its manifest or not; its queries die with it.  A
\* segment that has a marker may be merged before the pod is back.
Stop ==
    /\ up
    /\ up' = FALSE
    /\ live' = {}
    /\ retired' = [s \in Segs |-> NotYet]
    /\ held' = {}
    /\ marking' = 0
    /\ saved' \in {saved, man["pod"]}
    /\ man' = [man EXCEPT !["pod"] = {}]
    /\ listing' = [listing EXCEPT !["pod"] = NoListing]
    /\ fresh' = [fresh EXCEPT !["pod"] = 0]
    /\ query' = [q \in Queries |-> IF query[q].node = "pod" THEN Idle ELSE query[q]]
    /\ excused' = excused \cup {s \in dirs : marker[s] # NotYet}
    /\ served' = {}
    /\ UNCHANGED <<dirs, commit, bucketVars>>

\* Mutant: every recorded commit is restored, with or without its directory.
MutRestored == {s \in Segs : Committed(s)}

\* Mutant: restored commits wait for no refresh.
MutNotHeld == {}

\* restoreCommitted.
Restored == {s \in dirs : Committed(s)}

\* OpenSegments, the manifest snapshot and restoreCommitted: every directory is
\* live again, the committed ones held.
Restart ==
    /\ ~up
    /\ up' = TRUE
    /\ live' = dirs
    /\ held' = Restored
    /\ man' = [man EXCEPT !["pod"] = saved]
    /\ fresh' = [fresh EXCEPT !["pod"] = 0]
    /\ served' = dirs
    /\ UNCHANGED <<retired, dirs, commit, marking, saved, bucketVars, listing,
                   query, excused>>

Older(age, cap) == IF age = NotYet \/ age = cap THEN age ELSE age + 1

AllOlder(ages, cap) == [x \in DOMAIN ages |-> Older(ages[x], cap)]

\* Time passes; nothing that is due may be late.
Tick ==
    /\ up => \A s \in live \ held : commit[s] < Grace + Check
    /\ marking # 0 => marker[marking] < Delay
    /\ \A q \in Queries : query[q].stage = "viewed" => query[q].at < Lag
    /\ Timely => \A n \in Readers : Alive(n) => fresh[n] < RefreshGap
    /\ marker' = AllOlder(marker, 2 * Grace)
    /\ commit' = AllOlder(commit, Grace + Check)
    /\ retired' = AllOlder(retired, HoldLimit)
    /\ fresh' = AllOlder(fresh, RefreshGap)
    /\ listing' = [n \in Readers |-> [listing[n] EXCEPT !.at = Older(@, RefreshGap)]]
    /\ query' = [q \in Queries |-> IF query[q].stage = "idle" THEN query[q]
                    ELSE [query[q] EXCEPT !.at = Older(@, HoldLimit + Lag)]]
    /\ UNCHANGED <<up, live, dirs, held, marking, saved, store, man, histVars>>

-----------------------------------------------------------------------------
Init ==
    /\ up = TRUE
    /\ live = Segs
    /\ retired = [s \in Segs |-> NotYet]
    /\ dirs = Segs
    /\ commit = [s \in Segs |-> NotYet]
    /\ held = {}
    /\ marking = 0
    /\ saved = {}
    /\ store = {}
    /\ marker = [s \in Segs |-> NotYet]
    /\ man = [n \in Readers |-> {}]
    /\ listing = [n \in Readers |-> NoListing]
    /\ fresh = [n \in Readers |-> 0]
    /\ query = [q \in Queries |-> Idle]
    /\ excused = {}
    /\ served = Segs

Next ==
    \/ \E s \in Segs : UploadObject(s) \/ PutMarker(s)
    \/ Commit \/ CommitError
    \/ ReapTick
    \/ \E n \in Readers : StartListing(n) \/ ListingError(n)
    \/ ApplyOnSelect \/ ApplyOnPod
    \/ SaveManifest
    \/ \E S \in SUBSET Segs : Merge(S)
    \/ \E q \in Queries : ListFiles(q) \/ Finish(q) \/ \E n \in Asked : OpenView(q, n)
    \/ Stop \/ Restart
    \/ Tick

Spec == Init /\ [][Next]_vars

-----------------------------------------------------------------------------
(* Properties. *)

\* The shape of the state.
TypeOK ==
    /\ up \in BOOLEAN
    /\ live \subseteq dirs /\ dirs \subseteq Segs
    /\ held \subseteq live
    /\ {retired, commit, marker} \subseteq [Segs -> Age \cup {NotYet}]
    /\ marking \in Segs \cup {0}
    /\ store \cup saved \subseteq Objects
    /\ man \in [Readers -> SUBSET Objects]
    /\ \A n \in Readers : listing[n].at \in Age \cup {NotYet}
                            /\ listing[n].objs \subseteq Objects
    /\ fresh \in [Readers -> Age]
    /\ \A q \in Queries : query[q].stage \in {"idle", "viewed", "listed"}
                            /\ query[q].view \subseteq Segs
                            /\ query[q].files \subseteq Objects
    /\ excused \cup served \subseteq Segs

\* How often the answer of q has the rows of s.
Count(q, s) ==
    (IF s \in query[q].view THEN 1 ELSE 0)
        + Cardinality({o \in query[q].files : s \in o[2]})

\* q answers: every object it listed can still be read, and its peer answered.
Answers(q, n) ==
    /\ query[q].stage = "listed"
    /\ query[q].node = n
    /\ query[q].peer
    /\ query[q].files \subseteq store

\* A pod that serves its own segments never answers without the rows of a segment
\* it had when it started: not while the segment is drained by this or by a previous
\* process, and not when the segment is retired.
PodHidesNoRow ==
    \A q \in Queries : Answers(q, "pod") => \A s \in served : Count(q, s) >= 1

\* A select pod that reaches the insert pod never answers without a row: it has
\* listed the objects before the insert pod stops serving the segment.
SelectHidesNoRow ==
    \A q \in Queries : Answers(q, "select") => \A s \in Segs : Count(q, s) >= 1

\* No answer has a row twice, unless the pod stopped, or could not record a commit,
\* between the marker and the segment's retirement.
NoRowTwice ==
    \A q \in Queries, n \in Readers : Answers(q, n) =>
        \A s \in Segs \ excused : Count(q, s) <= 1

\* A query reads the segments of its view for as long as RetiredHoldLimit allows.
ViewStaysOpen ==
    \A q \in Queries : query[q].stage # "idle" /\ query[q].node = "pod" =>
        \A s \in query[q].view : s \in dirs \/ query[q].at >= HoldLimit

\* "The segment is retired before release": a merge takes an object of a segment
\* the pod still serves only in the excused cases.
MergedAfterRetired ==
    [][\A s \in live' \ excused : Raw(s) \in store => Raw(s) \in store']_vars

=============================================================================
