-------------------------- MODULE ReadHandoffProofs --------------------------
(***************************************************************************)
(* ReadHandoff, for any number of segments and of queries and any lengths  *)
(* of time: what holds whatever the margins are, and what the margins buy. *)
(* A leaf is Zenon's unless it names SMT.                                  *)
(***************************************************************************)
EXTENDS ReadHandoff, TLAPS, FiniteSetTheorems

USE Zenon

-----------------------------------------------------------------------------
(* The inductive invariants. *)

\* Some object of F has the rows of s.
Has(F, s) == \E o \in F : s \in o[2]

\* A query is under way on this reader.
On(q, n) == query[q].stage # "idle" /\ query[q].node = n

\* The pod does not serve s, nor will it after a restart.
Gone(s) == s \notin dirs \/ (up /\ s \notin live)

QueryType == [stage : {"idle", "viewed", "listed"}, node : Readers,
              at : 0..(HoldLimit + Lag), peer : BOOLEAN,
              view : SUBSET Segs, files : SUBSET Objects]

ListingType == {NoListing} \cup [at : 0..RefreshGap, objs : SUBSET Objects]

\* The types, with every age below the cap that Tick gives it.
Types ==
    /\ up \in BOOLEAN
    /\ live \subseteq dirs /\ dirs \subseteq Segs /\ held \subseteq live
    /\ retired \in [Segs -> -1..HoldLimit]
    /\ commit \in [Segs -> -1..(Grace + Check)]
    /\ marker \in [Segs -> -1..(2 * Grace)]
    /\ marking \in Segs \cup {0}
    /\ store \subseteq Objects /\ saved \subseteq Objects
    /\ man \in [Readers -> SUBSET Objects]
    /\ listing \in [Readers -> ListingType]
    /\ fresh \in [Readers -> 0..RefreshGap]
    /\ query \in [Queries -> QueryType]
    /\ excused \subseteq Segs /\ served \subseteq Segs

\* Nothing is served, and no marker awaits its commit, while the pod is down.
DownInv == ~up => live = {} /\ marking = 0

\* A marker awaits its commit for at most Delay.
MarkingInv ==
    marking # 0 => /\ marking \in live /\ ~Committed(marking)
                   /\ marker[marking] # NotYet /\ marker[marking] <= Delay

\* Retired segments, and only those, have a time of retirement.
RetiredInv ==
    /\ \A s \in Segs : (up /\ s \notin live) \/ retired[s] = NotYet
    /\ up => \A s \in dirs \ live : retired[s] # NotYet

\* A segment that is gone was committed at least a grace ago.
GoneInv == \A s \in Segs : Gone(s) => commit[s] >= Grace

\* A commit follows its marker by at most Delay, unless the segment is excused.
YoungInv ==
    /\ \A s \in held : Committed(s)
    /\ \A s \in Segs : Committed(s) => marker[s] # NotYet
    /\ ~up => \A s \in dirs : marker[s] # NotYet => s \in excused
    /\ \A s \in live \ excused : marker[s] # NotYet =>
          \/ marking = s
          \/ Committed(s) /\ s \notin held /\ marker[s] <= commit[s] + Delay

\* A segment from its marker to its retirement.
SegInv == DownInv /\ MarkingInv /\ RetiredInv /\ GoneInv /\ YoungInv

segVars == <<up, live, retired, dirs, commit, held, marking, marker, excused>>

\* Every object that is tracked, listed or saved was stored.
Known == {o \in Objects : \/ o \in store \/ o \in saved
                          \/ \E n \in Readers : o \in man[n] \/ o \in listing[n].objs}

\* Rows never leave the bucket; a merged object's segments were released; rows of a
\* segment that is not excused are in one object.
StoreInv ==
    /\ \A s \in Segs : marker[s] # NotYet => Has(store, s)
    /\ \A o \in Known : \A s \in o[2] :
          Has(store, s) /\ (o[1] = 0 => s \in excused \/ Released(s))
    /\ \A s \in Segs \ excused : \A o1 \in store, o2 \in store :
          s \in o1[2] /\ s \in o2[2] => o1 = o2

\* A view's segment is retired no longer ago than the view was opened, and has no
\* older marker than a live segment may have.
ViewInv ==
    \A q \in Queries :
        /\ On(q, "pod") => up
        /\ On(q, "pod") => \A s \in query[q].view :
              \/ s \in live
              \/ s \in dirs /\ retired[s] <= query[q].at
              \/ query[q].at >= HoldLimit
        /\ query[q].stage = "viewed" =>
              /\ query[q].at <= Lag
              /\ \A s \in query[q].view \ excused :
                    marker[s] <= Grace + Check + Delay + query[q].at

Inv == Types /\ SegInv /\ StoreInv /\ ViewInv

\* A listed query has no object with rows of its view.
ApartInv ==
    \A q \in Queries : query[q].stage = "listed" =>
        \A s \in query[q].view \ excused : ~Has(query[q].files, s)

\* What the listings of a select pod have: all that was committed before they began.
SelectInv ==
    "select" \in Readers =>
        /\ listing["select"].at <= fresh["select"]
        /\ \A s \in Segs : Committed(s) =>
              /\ Has(man["select"], s) \/ commit[s] <= fresh["select"]
              /\ \/ listing["select"] = NoListing
                 \/ Has(listing["select"].objs, s)
                 \/ commit[s] <= listing["select"].at

\* The pod's listing in flight also has what is stored after it began, so that its
\* manifest lacks only what was committed since the last one began.
PodInv ==
    /\ ~up => listing["pod"] = NoListing
    /\ listing["pod"] = NoListing \/
          \A s \in Segs : Has(store, s) => Has(listing["pod"].objs, s)
    /\ \A s \in live \ held : Committed(s) =>
          Has(man["pod"], s) \/ commit[s] <= fresh["pod"]
    /\ up => \A s \in served \ live : Has(man["pod"], s)

\* A query under way on the pod has, or will list, what its view lacks.
PodAnswers ==
    \A q \in Queries : On(q, "pod") => \A s \in served \ query[q].view :
        \/ query[q].stage = "viewed" /\ s \notin live
        \/ query[q].stage = "listed" /\ Has(query[q].files, s)

\* The same on a select pod, if the pod answered.
SelectAnswers ==
    \A q \in Queries : On(q, "select") /\ query[q].peer => \A s \in Segs \ query[q].view :
        \/ query[q].stage = "viewed" /\ commit[s] >= Grace
        \/ query[q].stage = "listed" /\ Has(query[q].files, s)

-----------------------------------------------------------------------------
(* Lemmas about the operators. *)

\* The constants, as numbers.
LEMMA Numbers ==
    /\ Grace \in Nat /\ Grace > 0 /\ RefreshGap \in Nat /\ RefreshGap > 0
    /\ HoldLimit \in Nat /\ HoldLimit > 0
    /\ Check \in Nat /\ Delay \in Nat /\ Skew \in Nat /\ Lag \in Nat
    /\ \A s \in Segs : s \in Nat /\ s # 0
    /\ 0 \notin Segs
  BY HandoffAssumption, SMT

\* The ages actions set.
LEMMA Zeros ==
    /\ 0 \in 0..RefreshGap /\ 0 \in -1..HoldLimit /\ NotYet \in -1..HoldLimit
    /\ 0 \in -1..(Grace + Check) /\ 0 \in -1..(2 * Grace)
  BY Numbers, SMT DEF NotYet

\* An object is a segment's own or a merged one (src/internal/manifest/segments.go).
LEMMA ObjectParts ==
  ASSUME NEW o \in Objects
  PROVE  \/ o[1] \in Segs /\ o[2] = {o[1]} /\ o = Raw(o[1])
         \/ o[1] = 0 /\ o[2] \subseteq Segs /\ o = Out(o[2])
  BY SMT DEF Objects, Raw, Out

\* The objects the model makes.
LEMMA ObjectsMade ==
  /\ \A s \in Segs : Raw(s) \in Objects /\ Raw(s)[1] = s /\ Raw(s)[2] = {s}
  /\ \A S \in SUBSET Segs : Out(S) \in Objects /\ Out(S)[1] = 0 /\ Out(S)[2] = S
  BY DEF Objects, Raw, Out

\* One age in a Tick: it grows by one below its cap and stays there.
LEMMA OlderAge ==
  ASSUME NEW cap \in Nat, NEW a \in -1..cap
  PROVE  /\ Older(a, cap) \in -1..cap
         /\ a <= Older(a, cap) /\ Older(a, cap) <= a + 1
         /\ Older(a, cap) = NotYet <=> a = NotYet
         /\ a # NotYet /\ a < cap => Older(a, cap) = a + 1
  BY SMT DEF Older, NotYet

\* All ages of a function.
LEMMA AllOlderAges ==
  ASSUME NEW cap \in Nat, NEW S, NEW f \in [S -> -1..cap]
  PROVE  /\ AllOlder(f, cap) \in [S -> -1..cap]
         /\ \A x \in S : AllOlder(f, cap)[x] = Older(f[x], cap)
  <1>1. \A x \in S : Older(f[x], cap) \in -1..cap
    BY OlderAge
  <1>2. AllOlder(f, cap) = [x \in S |-> Older(f[x], cap)]
    BY DEF AllOlder
  <1> QED BY <1>1, <1>2

\* The records of an idle query and of no listing.
LEMMA Blank ==
  /\ Idle \in QueryType /\ Idle.stage = "idle" /\ Idle.node = "pod" /\ Idle.view = {}
  /\ NoListing \in ListingType /\ NoListing.at = -1 /\ NoListing.objs = {}
  <1>1. "pod" \in Readers
    BY HandoffAssumption
  <1> QED BY <1>1, Numbers, SMT DEF Idle, QueryType, NoListing, ListingType, NotYet

-----------------------------------------------------------------------------
(* Types. *)

\* What Segments.Reap does to each segment.
LEMMA ReapTypes ==
  ASSUME Types, NEW H, Reap(H)
  PROVE  /\ live' \subseteq live /\ dirs' \subseteq dirs /\ live' \subseteq dirs'
         /\ retired' \in [Segs -> -1..HoldLimit]
         /\ live' = live \ Expired(H)
         /\ dirs \ dirs' \subseteq Removable((dirs \ live) \cup Expired(H))
         /\ \A s \in Segs : retired'[s] = IF s \in Expired(H) THEN 0 ELSE retired[s]
  <1>1. /\ live' = live \ Expired(H)
        /\ retired' = [s \in Segs |-> IF s \in Expired(H) THEN 0 ELSE retired[s]]
        /\ dirs' = dirs \ Removable((dirs \ live) \cup Expired(H))
    BY DEF Reap
  <1>2. Removable((dirs \ live) \cup Expired(H)) \subseteq (dirs \ live) \cup Expired(H)
    BY DEF Removable
  <1>3. 0 \in -1..HoldLimit /\ live \subseteq dirs /\ retired \in [Segs -> -1..HoldLimit]
    BY Numbers, SMT DEF Types
  <1>4. live' \subseteq dirs'
    BY <1>1, <1>2, <1>3
  <1> QED BY <1>1, <1>3, <1>4

LEMMA TypesInit == Init => Types
  <1> SUFFICES ASSUME Init PROVE Types
    OBVIOUS
  <1>1. /\ listing \in [Readers -> ListingType] /\ query \in [Queries -> QueryType]
    BY Blank DEF Init
  <1>2. /\ retired \in [Segs -> -1..HoldLimit]
        /\ commit \in [Segs -> -1..(Grace + Check)]
        /\ marker \in [Segs -> -1..(2 * Grace)]
        /\ fresh \in [Readers -> 0..RefreshGap]
    BY Numbers, SMT DEF Init, NotYet
  <1>3. man \in [Readers -> SUBSET Objects] /\ store \subseteq Objects /\ saved \subseteq Objects
    BY DEF Init
  <1>4. /\ up \in BOOLEAN /\ live \subseteq dirs /\ dirs \subseteq Segs /\ held \subseteq live
        /\ marking \in Segs \cup {0} /\ excused \subseteq Segs /\ served \subseteq Segs
    BY DEF Init
  <1> QED BY <1>1, <1>2, <1>3, <1>4 DEF Types

\* The drain's steps keep the types.
LEMMA TypesDrain ==
  ASSUME Types,
         \/ \E s \in Segs : UploadObject(s) \/ PutMarker(s)
         \/ Commit \/ CommitError
  PROVE  Types'
<1>1. ASSUME NEW s \in Segs, UploadObject(s) PROVE Types'
  <2>1. /\ store' = store \cup {Raw(s)}
        /\ man' = [man EXCEPT !["pod"] = @ \cup {Raw(s)}]
        /\ listing' = [listing EXCEPT !["pod"].objs =
                      IF listing["pod"].at = NotYet THEN @ ELSE @ \cup {Raw(s)}]
        /\ UNCHANGED <<podVars, marker, fresh, query, histVars>>
    BY <1>1 DEF UploadObject
  <2>2. "pod" \in Readers /\ Raw(s) \in Objects
    BY HandoffAssumption, ObjectsMade
  <2>3. listing' \in [Readers -> ListingType]
    <3>1. listing["pod"] \in ListingType
      BY <2>2 DEF Types
    <3> DEFINE O == IF listing["pod"].at = NotYet THEN listing["pod"].objs
                    ELSE listing["pod"].objs \cup {Raw(s)}
    <3>2. [listing["pod"] EXCEPT !.objs = O] \in ListingType
      <4>1. CASE listing["pod"] = NoListing
        BY <4>1, SMT DEF ListingType, NoListing
      <4>2. CASE listing["pod"] # NoListing
        BY <2>2, <3>1, <4>2 DEF ListingType
      <4> QED BY <4>1, <4>2
    <3>3. listing' = [listing EXCEPT !["pod"] = [listing["pod"] EXCEPT !.objs = O]]
      BY <2>1, <2>2 DEF Types
    <3> QED BY <3>2, <3>3 DEF Types
  <2>4. man' \in [Readers -> SUBSET Objects] /\ store' \subseteq Objects
    BY <2>1, <2>2 DEF Types
  <2> QED BY <2>1, <2>3, <2>4 DEF Types, podVars, histVars
<1>2. ASSUME NEW s \in Segs, PutMarker(s) PROVE Types'
  <2>1. marker' = [marker EXCEPT ![s] = 0] /\ marking' = s
        /\ UNCHANGED <<up, live, retired, dirs, commit, held, saved, store, readVars,
                       query, histVars>>
    BY <1>2 DEF PutMarker
  <2>2. marker' \in [Segs -> -1..(2 * Grace)]
    BY <2>1, Zeros DEF Types
  <2> QED BY <2>1, <2>2 DEF Types, readVars, histVars
<1>3. CASE Commit
  <2>1. commit' = [commit EXCEPT ![marking] = 0] /\ marking' = 0
        /\ UNCHANGED <<up, live, retired, dirs, held, saved, bucketVars, readVars,
                       query, histVars>>
    BY <1>3 DEF Commit
  <2>2. commit' \in [Segs -> -1..(Grace + Check)]
    BY <2>1, Zeros DEF Types
  <2> QED BY <2>1, <2>2 DEF Types, readVars, histVars, bucketVars
<1>4. CASE CommitError
  <2>1. marking \in Segs
    BY <1>4 DEF Types, CommitError
  <2>2. excused' \subseteq Segs
    BY <1>4, <2>1 DEF Types, CommitError
  <2> QED BY <1>4, <2>2 DEF Types, CommitError, readVars, bucketVars
<1> QED BY <1>1, <1>2, <1>3, <1>4

\* Reaping, listings, merges and the manifest snapshot keep the types.
LEMMA TypesListing ==
  ASSUME Types,
         \/ ReapTick \/ ApplyOnSelect \/ ApplyOnPod \/ SaveManifest
         \/ \E n \in Readers : StartListing(n) \/ ListingError(n)
         \/ \E S \in SUBSET Segs : Merge(S)
  PROVE  Types'
<1>1. CASE ReapTick
  <2>1. Reap(held) /\ UNCHANGED <<up, commit, held, marking, saved, bucketVars,
                   readVars, query, histVars>>
    BY <1>1 DEF ReapTick
  <2>2. held \subseteq live'
    BY <2>1, ReapTypes, SMT DEF Types, Expired
  <2>3. PICK H : H = held
    OBVIOUS
  <2>4. /\ live' \subseteq dirs' /\ dirs' \subseteq dirs
        /\ retired' \in [Segs -> -1..HoldLimit]
    BY <2>1, <2>3, ReapTypes
  <2> QED BY <2>1, <2>2, <2>4 DEF Types, readVars, bucketVars, histVars
<1>2. ASSUME NEW n \in Readers, Applied(n)
      PROVE  /\ man' \in [Readers -> SUBSET Objects]
             /\ fresh' \in [Readers -> 0..RefreshGap]
             /\ listing' \in [Readers -> ListingType]
  <2>1. listing[n] # NoListing
        /\ man' = [man EXCEPT ![n] = listing[n].objs]
        /\ fresh' = [fresh EXCEPT ![n] = listing[n].at]
        /\ listing' = [listing EXCEPT ![n] = NoListing]
    BY <1>2 DEF Applied
  <2>2. listing[n] \in ListingType
    BY DEF Types
  <2>3. listing[n].objs \subseteq Objects /\ listing[n].at \in 0..RefreshGap
    BY <2>1, <2>2 DEF ListingType
  <2>4. man' \in [Readers -> SUBSET Objects]
    BY <2>1, <2>3 DEF Types
  <2>5. listing' \in [Readers -> ListingType]
    BY <2>1, Blank DEF Types
  <2>6. fresh' \in [Readers -> 0..RefreshGap]
    BY <2>1, <2>3 DEF Types
  <2> QED BY <2>4, <2>5, <2>6
<1>3. CASE ApplyOnSelect
  <2>1. "select" \in Readers /\ Applied("select") /\ UNCHANGED <<podVars, bucketVars, query, histVars>>
    BY <1>3 DEF ApplyOnSelect
  <2>2. /\ man' \in [Readers -> SUBSET Objects]
        /\ fresh' \in [Readers -> 0..RefreshGap]
        /\ listing' \in [Readers -> ListingType]
    BY <1>2, <2>1
  <2> QED BY <2>1, <2>2 DEF Types, podVars, bucketVars, histVars
<1>4. CASE ApplyOnPod
  <2>1. /\ Applied("pod") /\ held' = {}
        /\ IF held = {} THEN UNCHANGED <<live, retired, dirs>> ELSE Reap({})
        /\ UNCHANGED <<up, commit, marking, saved, bucketVars, query, histVars>>
    BY <1>4 DEF ApplyOnPod
  <2>2. /\ man' \in [Readers -> SUBSET Objects]
        /\ fresh' \in [Readers -> 0..RefreshGap]
        /\ listing' \in [Readers -> ListingType]
    BY <1>2, <2>1, HandoffAssumption
  <2>3. PICK H : H = {}
    OBVIOUS
  <2>4. /\ live' \subseteq dirs' /\ dirs' \subseteq dirs
        /\ retired' \in [Segs -> -1..HoldLimit]
    BY <2>1, <2>3, ReapTypes DEF Types
  <2>5. held' \subseteq live'
    BY <2>1
  <2> QED BY <2>1, <2>2, <2>4, <2>5 DEF Types, bucketVars, histVars
<1>5. CASE SaveManifest
  <2>1. saved' \subseteq Objects
    BY <1>5, HandoffAssumption DEF SaveManifest, Types
  <2> QED BY <1>5, <2>1 DEF SaveManifest, Types, bucketVars, readVars, histVars
<1>6. ASSUME NEW n \in Readers, StartListing(n) PROVE Types'
  <2>1. [at |-> 0, objs |-> store] \in ListingType
    BY Numbers, SMT DEF ListingType, Types
  <2>2. listing' \in [Readers -> ListingType]
    BY <1>6, <2>1 DEF StartListing, Types
  <2> QED BY <1>6, <2>2 DEF StartListing, Types, podVars, bucketVars, histVars
<1>7. ASSUME NEW n \in Readers, ListingError(n) PROVE Types'
  <2>1. listing' \in [Readers -> ListingType]
    BY <1>7, Blank DEF ListingError, Types
  <2> QED BY <1>7, <2>1 DEF ListingError, Types, podVars, bucketVars, histVars
<1>8. ASSUME NEW S \in SUBSET Segs, Merge(S) PROVE Types'
  <2>1. store' \subseteq Objects
    BY <1>8, ObjectsMade DEF Merge, Types
  <2> QED BY <1>8, <2>1 DEF Merge, Types, podVars, readVars, histVars
<1> QED BY <1>1, <1>3, <1>4, <1>5, <1>6, <1>7, <1>8

\* Queries, the end of the process, the next one and time keep the types.
LEMMA TypesQueries ==
  ASSUME Types,
         \/ \E q \in Queries : ListFiles(q) \/ Finish(q) \/ \E n \in Asked : OpenView(q, n)
         \/ Stop \/ Restart \/ Tick
  PROVE  Types'
<1>1. ASSUME NEW q \in Queries, ListFiles(q) PROVE Types'
  <2> DEFINE F == {o \in man[query[q].node] : ~Excluded(o, query[q].view)}
  <2>1. query[q] \in QueryType
    BY DEF Types
  <2>2. F \subseteq Objects
    BY <2>1 DEF QueryType, Types
  <2>3. [query[q] EXCEPT !.stage = "listed", !.files = F] \in QueryType
    BY <2>1, <2>2 DEF QueryType
  <2>4. query' = [query EXCEPT ![q] = [query[q] EXCEPT !.stage = "listed", !.files = F]]
    BY <1>1 DEF ListFiles, Types
  <2>5. query' \in [Queries -> QueryType]
    BY <2>3, <2>4 DEF Types
  <2> QED BY <1>1, <2>5 DEF ListFiles, Types, podVars, bucketVars, readVars, histVars
<1>2. ASSUME NEW q \in Queries, Finish(q) PROVE Types'
  <2>1. query' \in [Queries -> QueryType]
    BY <1>2, Blank DEF Finish, Types
  <2> QED BY <1>2, <2>1 DEF Finish, Types, podVars, bucketVars, readVars, histVars
<1>3. ASSUME NEW q \in Queries, NEW n \in Asked, OpenView(q, n) PROVE Types'
  <2> DEFINE V == IF up THEN live ELSE {}
  <2>1. n \in Readers /\ V \subseteq Segs /\ up \in BOOLEAN /\ 0 \in 0..(HoldLimit + Lag)
    BY HandoffAssumption, Numbers, SMT DEF Types
  <2>2. [stage |-> "viewed", node |-> n, at |-> 0, peer |-> up, view |-> V, files |-> {}]
           \in QueryType
    BY <2>1 DEF QueryType
  <2>3. query' \in [Queries -> QueryType]
    BY <1>3, <2>2 DEF OpenView, Types
  <2> QED BY <1>3, <2>3 DEF OpenView, Types, podVars, bucketVars, readVars, histVars
<1>4. CASE Stop
  <2>1. query' \in [Queries -> QueryType]
    BY <1>4, Blank DEF Stop, Types
  <2>2. listing' \in [Readers -> ListingType] /\ man' \in [Readers -> SUBSET Objects]
    BY <1>4, Blank, HandoffAssumption DEF Stop, Types
  <2>3. retired' \in [Segs -> -1..HoldLimit] /\ fresh' \in [Readers -> 0..RefreshGap]
    BY <1>4, Zeros DEF Stop, Types
  <2>4. saved' \subseteq Objects /\ excused' \subseteq Segs /\ marking' \in Segs \cup {0}
    BY <1>4, HandoffAssumption DEF Stop, Types
  <2>5. up' \in BOOLEAN /\ live' = {} /\ held' = {} /\ served' = {}
        /\ UNCHANGED <<dirs, commit, bucketVars>>
    BY <1>4 DEF Stop
  <2> QED BY <2>1, <2>2, <2>3, <2>4, <2>5 DEF Types, bucketVars
<1>5. CASE Restart
  <2>1. fresh' \in [Readers -> 0..RefreshGap] /\ man' \in [Readers -> SUBSET Objects]
    BY <1>5, Zeros DEF Restart, Types
  <2>2. held' \subseteq live' /\ live' = dirs /\ served' = dirs /\ up' \in BOOLEAN
    BY <1>5 DEF Restart, Restored
  <2> QED BY <1>5, <2>1, <2>2 DEF Restart, Types, bucketVars
<1>6. CASE Tick
  <2>1. /\ marker' = AllOlder(marker, 2 * Grace)
        /\ commit' = AllOlder(commit, Grace + Check)
        /\ retired' = AllOlder(retired, HoldLimit)
        /\ fresh' = AllOlder(fresh, RefreshGap)
    BY <1>6 DEF Tick
  <2>2. /\ marker' \in [Segs -> -1..(2 * Grace)]
        /\ commit' \in [Segs -> -1..(Grace + Check)]
        /\ retired' \in [Segs -> -1..HoldLimit]
    <3>1. 2 * Grace \in Nat /\ Grace + Check \in Nat /\ HoldLimit \in Nat
      BY Numbers, SMT
    <3>2. /\ marker \in [Segs -> -1..(2 * Grace)]
          /\ commit \in [Segs -> -1..(Grace + Check)]
          /\ retired \in [Segs -> -1..HoldLimit]
      BY DEF Types
    <3> QED BY <2>1, <3>1, <3>2, AllOlderAges
  <2>3. fresh' \in [Readers -> 0..RefreshGap]
    <3>1. fresh \in [Readers -> 0..RefreshGap]
      BY DEF Types
    <3>2. fresh' = [n \in Readers |-> Older(fresh[n], RefreshGap)]
      BY <2>1, <3>1 DEF AllOlder
    <3>3. \A a \in 0..RefreshGap : Older(a, RefreshGap) \in 0..RefreshGap
      BY Numbers, SMT DEF Older, NotYet
    <3> QED BY <3>1, <3>2, <3>3
  <2>4. listing' \in [Readers -> ListingType]
    <3>1. ASSUME NEW n \in Readers
          PROVE  [listing[n] EXCEPT !.at = Older(@, RefreshGap)] \in ListingType
      <4>1. listing[n] \in ListingType
        BY DEF Types
      <4> QED BY <4>1, Numbers, SMT DEF ListingType, NoListing, Older, NotYet
    <3>2. listing' = [n \in Readers |-> [listing[n] EXCEPT !.at = Older(@, RefreshGap)]]
      BY <1>6 DEF Tick
    <3> QED BY <3>1, <3>2
  <2>5. query' \in [Queries -> QueryType]
    <3>1. ASSUME NEW q \in Queries
          PROVE  [query[q] EXCEPT !.at = Older(@, HoldLimit + Lag)] \in QueryType
                 /\ query[q] \in QueryType
      <4>1. query[q] \in QueryType
        BY DEF Types
      <4>2. Older(query[q].at, HoldLimit + Lag) \in 0..(HoldLimit + Lag)
        BY <4>1, Numbers, SMT DEF QueryType, Older, NotYet
      <4> QED BY <4>1, <4>2 DEF QueryType
    <3>2. query' = [q \in Queries |-> IF query[q].stage = "idle" THEN query[q]
                    ELSE [query[q] EXCEPT !.at = Older(@, HoldLimit + Lag)]]
      BY <1>6 DEF Tick
    <3> QED BY <3>1, <3>2
  <2> QED BY <1>6, <2>2, <2>3, <2>4, <2>5 DEF Tick, Types, histVars
<1> QED BY <1>1, <1>2, <1>3, <1>4, <1>5, <1>6

\* Every step keeps the types.
LEMMA TypesStep ==
  ASSUME Types, [Next]_vars
  PROVE  Types'
<1>1. CASE Next
  BY <1>1, TypesDrain, TypesListing, TypesQueries DEF Next
<1>2. CASE UNCHANGED vars
  BY <1>2 DEF Types, vars, podVars, bucketVars, readVars, histVars
<1> QED BY <1>1, <1>2

\* The run's type invariant: ages stay below their caps, and views, listings and
\* manifests hold objects that exist (src/internal/membuffer/segments.go:77).
THEOREM TypesHold == Spec => []TypeOK
<1>1. Types => TypeOK
  <2> SUFFICES ASSUME Types PROVE TypeOK
    OBVIOUS
  <2>1. /\ 0..RefreshGap \subseteq Age /\ -1..HoldLimit \subseteq Age \cup {NotYet}
        /\ -1..(Grace + Check) \subseteq Age \cup {NotYet}
        /\ -1..(2 * Grace) \subseteq Age \cup {NotYet}
    BY Numbers, SMT DEF Age, MaxAge, NotYet
  <2>2. {retired, commit, marker} \subseteq [Segs -> Age \cup {NotYet}]
    BY <2>1 DEF Types
  <2>3. fresh \in [Readers -> Age]
    BY <2>1 DEF Types
  <2>4. ASSUME NEW n \in Readers
        PROVE  listing[n].at \in Age \cup {NotYet} /\ listing[n].objs \subseteq Objects
    <3>1. listing[n] \in ListingType
      BY DEF Types
    <3> QED BY <2>1, <3>1, SMT DEF ListingType, NoListing
  <2>5. ASSUME NEW q \in Queries
        PROVE  query[q].stage \in {"idle", "viewed", "listed"}
               /\ query[q].view \subseteq Segs /\ query[q].files \subseteq Objects
    <3>1. query[q] \in QueryType
      BY DEF Types
    <3> QED BY <3>1 DEF QueryType
  <2> QED BY <2>2, <2>3, <2>4, <2>5 DEF Types, TypeOK
<1> QED BY <1>1, TypesInit, TypesStep, PTL DEF Spec

-----------------------------------------------------------------------------
(* Segments. *)

\* What time does to ages.
LEMMA TickAges ==
  ASSUME Types, Tick, NEW s \in Segs
  PROVE  /\ marker'[s] = NotYet <=> marker[s] = NotYet
         /\ marker[s] <= marker'[s] /\ marker'[s] <= marker[s] + 1
         /\ commit'[s] = NotYet <=> commit[s] = NotYet
         /\ commit[s] <= commit'[s] /\ commit'[s] <= commit[s] + 1
         /\ commit[s] # NotYet /\ commit[s] < Grace + Check => commit'[s] = commit[s] + 1
         /\ retired'[s] = NotYet <=> retired[s] = NotYet
         /\ retired[s] <= retired'[s] /\ retired'[s] <= retired[s] + 1
  <1>1. 2 * Grace \in Nat /\ Grace + Check \in Nat /\ HoldLimit \in Nat
    BY Numbers, SMT
  <1>2. /\ marker \in [Segs -> -1..(2 * Grace)]
        /\ commit \in [Segs -> -1..(Grace + Check)]
        /\ retired \in [Segs -> -1..HoldLimit]
    BY DEF Types
  <1>3. /\ marker' = AllOlder(marker, 2 * Grace)
        /\ commit' = AllOlder(commit, Grace + Check)
        /\ retired' = AllOlder(retired, HoldLimit)
    BY DEF Tick
  <1>4. /\ marker'[s] = Older(marker[s], 2 * Grace)
        /\ commit'[s] = Older(commit[s], Grace + Check)
        /\ retired'[s] = Older(retired[s], HoldLimit)
    <2>1. marker'[s] = Older(marker[s], 2 * Grace)
      BY <1>2, <1>3 DEF AllOlder
    <2>2. commit'[s] = Older(commit[s], Grace + Check)
      BY <1>2, <1>3 DEF AllOlder
    <2>3. retired'[s] = Older(retired[s], HoldLimit)
      BY <1>2, <1>3 DEF AllOlder
    <2> QED BY <2>1, <2>2, <2>3
  <1>5. /\ marker[s] \in -1..(2 * Grace) /\ commit[s] \in -1..(Grace + Check)
        /\ retired[s] \in -1..HoldLimit
    BY <1>2
  <1> QED BY <1>1, <1>4, <1>5, OlderAge

\* The ages of a segment are numbers.
LEMMA Ages ==
  ASSUME Types, NEW s \in Segs
  PROVE  /\ marker[s] \in Int /\ marker[s] >= -1
         /\ commit[s] \in Int /\ commit[s] >= -1 /\ commit[s] <= Grace + Check
         /\ retired[s] \in Int /\ retired[s] >= -1 /\ retired[s] <= HoldLimit
  BY Numbers, SMT DEF Types

LEMMA SegInit == Init => SegInv
  BY HandoffAssumption
     DEF Init, SegInv, DownInv, MarkingInv, RetiredInv, GoneInv, YoungInv, Gone,
         Committed, NotYet

\* A step that leaves the segments alone.
LEMMA SegFrame ==
  ASSUME SegInv, UNCHANGED segVars
  PROVE  SegInv'
  BY DEF SegInv, DownInv, MarkingInv, RetiredInv, GoneInv, YoungInv, Gone,
         Committed, segVars

\* Reaping keeps the invariant: what is retired was committed a grace ago.
LEMMA SegReap ==
  ASSUME Types, SegInv, NEW H, up, Reap(H), held' \subseteq held,
         UNCHANGED <<up, commit, marking, marker, excused>>
  PROVE  SegInv'
<1>1. /\ live' \subseteq live /\ dirs' \subseteq dirs /\ live' \subseteq dirs'
      /\ live' = live \ Expired(H)
      /\ dirs \ dirs' \subseteq Removable((dirs \ live) \cup Expired(H))
      /\ \A s \in Segs : retired'[s] = IF s \in Expired(H) THEN 0 ELSE retired[s]
  BY ReapTypes
<1>2. \A s \in Expired(H) : s \in live /\ s \in Segs /\ Committed(s) /\ commit[s] >= Grace
  BY DEF Expired, Types
<1>3. DownInv' /\ MarkingInv'
  BY <1>1, <1>2 DEF SegInv, DownInv, MarkingInv, Committed
<1>4. RetiredInv'
  <2>1. \A s \in Segs : (up' /\ s \notin live') \/ retired'[s] = NotYet
    BY <1>1, <1>2 DEF SegInv, RetiredInv
  <2>2. ASSUME NEW s \in dirs' \ live' PROVE retired'[s] # NotYet
    <3>1. s \in Segs /\ s \in dirs
      BY <1>1 DEF Types
    <3>2. CASE s \in Expired(H)
      BY <1>1, <3>1, <3>2, SMT DEF NotYet
    <3>3. CASE s \notin Expired(H)
      BY <1>1, <3>1, <3>3 DEF SegInv, RetiredInv
    <3> QED BY <3>2, <3>3
  <2> QED BY <2>1, <2>2 DEF RetiredInv
<1>5. GoneInv'
  <2> SUFFICES ASSUME NEW s \in Segs, Gone(s)' PROVE commit[s] >= Grace
    BY DEF GoneInv
  <2>1. Gone(s) \/ s \in Expired(H)
    BY <1>1 DEF Gone, Removable
  <2> QED BY <1>2, <2>1 DEF SegInv, GoneInv
<1>6. YoungInv'
  BY <1>1 DEF SegInv, YoungInv, Committed
<1> QED BY <1>3, <1>4, <1>5, <1>6 DEF SegInv

\* The drain: only the pending segment's marker and commit change.
LEMMA SegDrain ==
  ASSUME Types, SegInv,
         \/ \E s \in Segs : UploadObject(s) \/ PutMarker(s)
         \/ Commit \/ CommitError
  PROVE  SegInv'
<1>1. ASSUME NEW s \in Segs, UploadObject(s) PROVE SegInv'
  BY <1>1, SegFrame DEF UploadObject, podVars, histVars, segVars
<1>2. ASSUME NEW s \in Segs, PutMarker(s) PROVE SegInv'
  <2>1. /\ up /\ marking = 0 /\ s \in live /\ ~Committed(s)
        /\ marker' = [marker EXCEPT ![s] = 0] /\ marking' = s
        /\ UNCHANGED <<up, live, retired, dirs, commit, held, excused>>
    BY <1>2 DEF PutMarker, Draining, histVars
  <2>2. \A x \in Segs : marker'[x] = IF x = s THEN 0 ELSE marker[x]
    BY <2>1 DEF Types
  <2>3. DownInv' /\ RetiredInv' /\ GoneInv'
    BY <2>1 DEF SegInv, DownInv, RetiredInv, GoneInv, Gone
  <2>4. MarkingInv'
    <3>1. marker'[s] = 0 /\ 0 # NotYet /\ 0 <= Delay
      BY <2>2, Numbers, SMT DEF NotYet
    <3> QED BY <2>1, <3>1 DEF MarkingInv, Committed
  <2>5. YoungInv'
    <3>1. \A x \in Segs : marker'[x] # NotYet => marker[x] # NotYet \/ x = s
      BY <2>2
    <3>2. 0 # NotYet /\ s \in Segs /\ live \subseteq Segs /\ 0 \notin Segs
      BY Numbers, SMT DEF NotYet, Types
    <3>3. \A x \in Segs : Committed(x)' => marker'[x] # NotYet
      BY <2>1, <2>2, <3>2 DEF SegInv, YoungInv, Committed
    <3>4. ASSUME NEW x \in live \ excused, marker'[x] # NotYet, x # s
          PROVE  Committed(x) /\ x \notin held /\ marker'[x] <= commit[x] + Delay
      <4>1. marker[x] # NotYet /\ marker'[x] = marker[x] /\ marking # x
        BY <2>1, <2>2, <3>2, <3>4
      <4> QED BY <4>1 DEF SegInv, YoungInv
    <3> QED BY <2>1, <3>3, <3>4 DEF SegInv, YoungInv, Committed
  <2> QED BY <2>3, <2>4, <2>5 DEF SegInv
<1>3. CASE Commit
  <2>1. /\ up /\ marking # 0
        /\ commit' = [commit EXCEPT ![marking] = 0] /\ marking' = 0
        /\ UNCHANGED <<up, live, retired, dirs, held, marker, excused>>
    BY <1>3 DEF Commit, bucketVars, histVars
  <2>2. /\ marking \in live /\ ~Committed(marking) /\ marking \in Segs
        /\ marker[marking] # NotYet /\ marker[marking] <= Delay
    BY <2>1 DEF SegInv, MarkingInv, Types
  <2>3. \A x \in Segs : commit'[x] = IF x = marking THEN 0 ELSE commit[x]
    BY <2>1 DEF Types
  <2>4. DownInv' /\ RetiredInv' /\ MarkingInv'
    BY <2>1 DEF SegInv, DownInv, RetiredInv, MarkingInv
  <2>5. GoneInv'
    <3>1. ~Gone(marking)
      BY <2>1, <2>2 DEF Gone, Types
    <3> QED BY <2>1, <2>3, <3>1 DEF SegInv, GoneInv, Gone
  <2>6. YoungInv'
    <3>1. \A x \in Segs : Committed(x)' => marker'[x] # NotYet
      BY <2>1, <2>2, <2>3 DEF SegInv, YoungInv, Committed
    <3>2. ASSUME NEW x \in live \ excused, marker[x] # NotYet
          PROVE  Committed(x)' /\ x \notin held /\ marker[x] <= commit'[x] + Delay
      <4>1. CASE x = marking
        <5>1. x \notin held
          BY <2>2, <4>1 DEF SegInv, YoungInv
        <5> QED BY <2>2, <2>3, <4>1, <5>1, Ages, Numbers, SMT DEF Committed, NotYet
      <4>2. CASE x # marking
        <5>1. x \in Segs
          BY DEF Types
        <5> QED BY <2>3, <3>2, <4>2, <5>1 DEF SegInv, YoungInv, Committed
      <4> QED BY <4>1, <4>2
    <3>3. \A x \in held : Committed(x)'
      BY <2>2, <2>3 DEF SegInv, YoungInv, Committed, Types
    <3> QED BY <2>1, <3>1, <3>2, <3>3 DEF YoungInv
  <2> QED BY <2>4, <2>5, <2>6 DEF SegInv
<1>4. CASE CommitError
  <2>1. /\ up /\ marking # 0 /\ excused' = excused \cup {marking} /\ marking' = 0
        /\ UNCHANGED <<up, live, retired, dirs, commit, held, marker>>
    BY <1>4 DEF CommitError, bucketVars
  <2> QED BY <2>1 DEF SegInv, DownInv, MarkingInv, RetiredInv, GoneInv, YoungInv,
                             Gone, Committed
<1> QED BY <1>1, <1>2, <1>3, <1>4

\* Stopping, starting again and the passage of time.
LEMMA SegTime ==
  ASSUME Types, SegInv, Stop \/ Restart \/ Tick
  PROVE  SegInv'
<1>1. CASE Stop
  <2>1. /\ up /\ ~up' /\ live' = {} /\ held' = {} /\ marking' = 0
        /\ retired' = [s \in Segs |-> NotYet]
        /\ excused' = excused \cup {s \in dirs : marker[s] # NotYet}
        /\ UNCHANGED <<dirs, commit, marker>>
    BY <1>1 DEF Stop, bucketVars
  <2>2. DownInv' /\ MarkingInv' /\ RetiredInv'
    BY <2>1 DEF DownInv, MarkingInv, RetiredInv
  <2>3. GoneInv'
    BY <2>1 DEF SegInv, GoneInv, Gone
  <2>4. YoungInv'
    BY <2>1 DEF SegInv, YoungInv, Committed
  <2> QED BY <2>2, <2>3, <2>4 DEF SegInv
<1>2. CASE Restart
  <2>1. /\ ~up /\ up' /\ live' = dirs /\ held' = Restored
        /\ UNCHANGED <<retired, dirs, commit, marking, marker, excused>>
    BY <1>2 DEF Restart, bucketVars
  <2>2. marking = 0 /\ dirs \subseteq Segs
    BY <2>1 DEF SegInv, DownInv, Types
  <2>3. DownInv' /\ MarkingInv' /\ RetiredInv' /\ GoneInv'
    BY <2>1, <2>2 DEF SegInv, DownInv, MarkingInv, RetiredInv, GoneInv, Gone
  <2>4. YoungInv'
    BY <2>1 DEF SegInv, YoungInv, Committed, Restored
  <2> QED BY <2>3, <2>4 DEF SegInv
<1>3. CASE Tick
  <2>1. /\ up => \A s \in live \ held : commit[s] < Grace + Check
        /\ marking # 0 => marker[marking] < Delay
        /\ UNCHANGED <<up, live, dirs, held, marking, excused>>
    BY <1>3 DEF Tick, histVars
  <2>2. \A s \in Segs : /\ marker'[s] = NotYet <=> marker[s] = NotYet
                        /\ Committed(s)' <=> Committed(s)
                        /\ retired'[s] = NotYet <=> retired[s] = NotYet
    BY <1>3, TickAges DEF Committed
  <2>3. DownInv' /\ RetiredInv'
    BY <2>1, <2>2 DEF SegInv, DownInv, RetiredInv, Types
  <2>4. MarkingInv'
    <3> SUFFICES ASSUME marking # 0 PROVE MarkingInv'
      BY <2>1 DEF MarkingInv
    <3>1. /\ marking \in live /\ ~Committed(marking) /\ marking \in Segs
          /\ marker[marking] # NotYet /\ marker[marking] < Delay
      BY <2>1 DEF SegInv, MarkingInv, Types
    <3>2. marker'[marking] <= Delay
      <4>1. PICK s : s = marking
        OBVIOUS
      <4>2. marker'[s] <= marker[s] + 1 /\ marker'[s] \in Int /\ marker[s] \in Int
        BY <1>3, <3>1, <4>1, TickAges, TypesStep, Ages, SMT DEF Next, Types
      <4> QED BY <3>1, <4>1, <4>2, Numbers, SMT
    <3> QED BY <2>1, <2>2, <3>1, <3>2 DEF MarkingInv
  <2>5. GoneInv'
    <3> SUFFICES ASSUME NEW s \in Segs, Gone(s) PROVE commit'[s] >= Grace
      BY <2>1 DEF GoneInv, Gone
    <3>1. Types'
      BY <1>3, TypesQueries
    <3>2. commit[s] >= Grace /\ commit[s] <= commit'[s]
      BY <1>3, TickAges DEF SegInv, GoneInv
    <3>3. commit[s] \in Int /\ commit'[s] \in Int
      BY <3>1, Numbers, SMT DEF Types
    <3> QED BY <3>2, <3>3, Numbers, SMT
  <2>6. YoungInv'
    <3>1. live \subseteq Segs /\ held \subseteq Segs /\ dirs \subseteq Segs
      BY DEF Types
    <3>2. ASSUME NEW s \in live \ excused, marker[s] # NotYet, marking # s
          PROVE  Committed(s) /\ s \notin held /\ marker'[s] <= commit'[s] + Delay
      <4>1. Committed(s) /\ s \notin held /\ marker[s] <= commit[s] + Delay
        BY <3>2 DEF SegInv, YoungInv
      <4>2. commit[s] < Grace + Check /\ commit[s] # NotYet /\ s \in Segs
        BY <2>1, <3>1, <4>1 DEF SegInv, DownInv, Committed
      <4>3. marker'[s] <= marker[s] + 1 /\ commit'[s] = commit[s] + 1
        BY <1>3, <4>2, TickAges
      <4>4. marker[s] \in Int /\ commit[s] \in Int /\ marker'[s] \in Int
        <5>1. Types'
          BY <1>3, TypesQueries
        <5> QED BY <4>2, <5>1, Numbers, SMT DEF Types
      <4>5. marker'[s] <= commit'[s] + Delay
        BY ONLY <4>1, <4>3, <4>4, Numbers, SMT
      <4> QED BY <4>1, <4>5
    <3> QED BY <2>1, <2>2, <3>1, <3>2 DEF SegInv, YoungInv
  <2> QED BY <2>3, <2>4, <2>5, <2>6 DEF SegInv
<1> QED BY <1>1, <1>2, <1>3

\* Every step keeps what is known of the segments.
LEMMA SegStep ==
  ASSUME Types, SegInv, [Next]_vars
  PROVE  SegInv'
<1>1. CASE ReapTick
  <2>1. up /\ Reap(held) /\ UNCHANGED <<up, commit, held, marking, marker, excused>>
    BY <1>1 DEF ReapTick, bucketVars, histVars
  <2>2. PICK H : H = held
    OBVIOUS
  <2> QED BY <2>1, <2>2, SegReap
<1>2. CASE ApplyOnPod
  <2>1. /\ up /\ held' = {} /\ UNCHANGED <<up, commit, marking, marker, excused>>
        /\ IF held = {} THEN UNCHANGED <<live, retired, dirs>> ELSE Reap({})
    BY <1>2 DEF ApplyOnPod, bucketVars, histVars
  <2>2. CASE held = {}
    BY <2>1, <2>2, SegFrame DEF segVars
  <2>3. CASE held # {}
    <3>1. PICK H : H = {}
      OBVIOUS
    <3> QED BY <2>1, <2>3, <3>1, SegReap
  <2> QED BY <2>2, <2>3
<1>3. CASE \/ ApplyOnSelect \/ SaveManifest
           \/ \E n \in Readers : StartListing(n) \/ ListingError(n)
           \/ \E S \in SUBSET Segs : Merge(S)
           \/ \E q \in Queries : ListFiles(q) \/ Finish(q) \/ \E n \in Asked : OpenView(q, n)
           \/ UNCHANGED vars
  <2>1. UNCHANGED segVars
    BY <1>3 DEF ApplyOnSelect, SaveManifest, StartListing, ListingError, Merge,
         ListFiles, Finish, OpenView, vars, podVars, bucketVars, histVars, segVars
  <2> QED BY <2>1, SegFrame
<1> QED BY <1>1, <1>2, <1>3, SegDrain, SegTime DEF Next

-----------------------------------------------------------------------------
(* Objects. *)

\* A live segment that is pending and not excused has no marker.
LEMMA PendingIsUnmarked ==
  ASSUME Types, SegInv, NEW s \in Segs \ excused, Draining(s)
  PROVE  marker[s] = NotYet
  <1>1. s \in live /\ ~Committed(s) /\ marking = 0 /\ s # 0
    BY Numbers DEF Draining
  <1> QED BY <1>1 DEF SegInv, YoungInv

\* Objects of the bucket, of a manifest, of a listing and of the snapshot are known.
LEMMA KnownObjects ==
  ASSUME Types
  PROVE  /\ store \subseteq Known /\ saved \subseteq Known
         /\ \A n \in Readers : man[n] \subseteq Known /\ listing[n].objs \subseteq Known
  <1>1. \A n \in Readers : man[n] \subseteq Objects /\ listing[n].objs \subseteq Objects
    BY Blank DEF Types, ListingType
  <1> QED BY <1>1 DEF Known, Types

LEMMA StoreInit == Init => StoreInv
  <1> SUFFICES ASSUME Init PROVE StoreInv
    OBVIOUS
  <1>1. store = {} /\ saved = {} /\ \A s \in Segs : marker[s] = NotYet
    BY DEF Init
  <1>2. \A n \in Readers : man[n] = {} /\ listing[n].objs = {}
    BY DEF Init, NoListing
  <1>3. Known = {}
    BY <1>1, <1>2 DEF Known
  <1> QED BY <1>1, <1>3 DEF StoreInv

\* A step that stores nothing and learns of nothing new.
LEMMA StoreFrame ==
  ASSUME StoreInv, store' = store, Known' \subseteq Known, excused \subseteq excused',
         \A s \in Segs : marker'[s] # NotYet => marker[s] # NotYet,
         \A s \in Segs : Released(s) => Released(s)',
         \A o \in Known : o[2] \subseteq Segs
  PROVE  StoreInv'
<1>1. \A s \in Segs : marker'[s] # NotYet => Has(store', s)
  BY DEF StoreInv
<1>2. ASSUME NEW o \in Known', NEW s \in o[2]
      PROVE  Has(store', s) /\ (o[1] = 0 => s \in excused' \/ Released(s)')
  <2>1. o \in Known /\ s \in Segs
    BY <1>2
  <2>2. Has(store, s) /\ (o[1] = 0 => s \in excused \/ Released(s))
    BY <2>1 DEF StoreInv
  <2> QED BY <2>1, <2>2
<1>3. \A s \in Segs \ excused' : \A o1 \in store', o2 \in store' :
          s \in o1[2] /\ s \in o2[2] => o1 = o2
  BY DEF StoreInv
<1> QED BY <1>1, <1>2, <1>3 DEF StoreInv, Has

\* The segments of a known object.
LEMMA KnownTypes == \A o \in Known : o[2] \subseteq Segs
  BY ObjectParts DEF Known

\* uploadLogGroup: the segment's object is the first with its rows.
LEMMA StoreUpload ==
  ASSUME Types, SegInv, StoreInv, NEW s \in Segs, UploadObject(s)
  PROVE  StoreInv'
<1>1. /\ Draining(s) /\ Raw(s) \notin store /\ store' = store \cup {Raw(s)}
      /\ man' = [man EXCEPT !["pod"] = @ \cup {Raw(s)}]
      /\ listing' = [listing EXCEPT !["pod"].objs =
                      IF listing["pod"].at = NotYet THEN @ ELSE @ \cup {Raw(s)}]
      /\ UNCHANGED <<saved, marker, excused>>
  BY DEF UploadObject, SettledObject, podVars, histVars
<1>2. Raw(s) \in Objects /\ Raw(s)[1] = s /\ Raw(s)[2] = {s} /\ s # 0
  BY ObjectsMade, Numbers
<1>3. \A n \in Readers : man'[n] \subseteq man[n] \cup {Raw(s)}
                         /\ listing'[n].objs \subseteq listing[n].objs \cup {Raw(s)}
  BY <1>1, SMT DEF Types
<1>4. Known' \subseteq Known \cup {Raw(s)}
  BY <1>1, <1>3 DEF Known
<1>5. \A x \in Segs : Has(store, x) => Has(store', x)
  BY <1>1 DEF Has
<1>6. Has(store', s)
  BY <1>1, <1>2 DEF Has
<1>7. \A x \in Segs : marker'[x] # NotYet => Has(store', x)
  BY <1>1, <1>5 DEF StoreInv
<1>8. ASSUME NEW o \in Known', NEW x \in o[2]
      PROVE  Has(store', x) /\ (o[1] = 0 => x \in excused' \/ Released(x)')
  <2>1. CASE o \in Known
    BY <1>1, <1>5, <1>8, <2>1, KnownTypes DEF StoreInv, Released
  <2>2. CASE o = Raw(s)
    BY <1>2, <1>6, <1>8, <2>2
  <2> QED BY <1>4, <1>8, <2>1, <2>2
<1>9. ASSUME NEW x \in Segs \ excused, NEW o1 \in store', NEW o2 \in store',
             x \in o1[2], x \in o2[2]
      PROVE  o1 = o2
  <2>1. ASSUME NEW o \in store, s \in o[2], s \notin excused PROVE FALSE
    <3>1. marker[s] = NotYet
      BY <1>1, <2>1, PendingIsUnmarked
    <3>2. o[1] # 0
      BY <2>1, <3>1, KnownObjects DEF StoreInv, Released
    <3>3. o \in Objects
      BY <2>1 DEF Types
    <3>4. o = Raw(s)
      BY <2>1, <3>2, <3>3, ObjectParts
    <3> QED BY <1>1, <2>1, <3>4
  <2>2. CASE x = s
    BY <1>1, <1>9, <2>1, <2>2
  <2>3. CASE x # s
    <3>1. o1 # Raw(s) /\ o2 # Raw(s)
      BY <1>2, <1>9, <2>3
    <3>2. o1 \in store /\ o2 \in store
      BY <1>1, <3>1
    <3> QED BY <1>9, <3>2 DEF StoreInv
  <2> QED BY <2>2, <2>3
<1> QED BY <1>1, <1>7, <1>8, <1>9 DEF StoreInv

\* A merge puts one object with the same rows in the place of several.
LEMMA StoreMerge ==
  ASSUME Types, StoreInv, NEW S \in SUBSET Segs, Merge(S)
  PROVE  StoreInv'
<1>1. /\ \A s \in S : Raw(s) \in store /\ Released(s)
      /\ store' = (store \ {Raw(s) : s \in S}) \cup {Out(S)}
      /\ UNCHANGED <<saved, marker, excused, man, listing>>
  BY DEF Merge, podVars, readVars, histVars
<1>2. Out(S)[1] = 0 /\ Out(S)[2] = S /\ \A s \in S : Raw(s)[1] = s /\ Raw(s)[2] = {s} /\ s # 0
  BY ObjectsMade, Numbers
<1>3. Known' \subseteq Known \cup {Out(S)}
  BY <1>1 DEF Known
<1>4. ASSUME NEW x \in Segs, Has(store, x) PROVE Has(store', x)
  <2>1. PICK o \in store : x \in o[2]
    BY <1>4 DEF Has
  <2>2. CASE o \in {Raw(s) : s \in S}
    BY <1>1, <1>2, <2>1, <2>2, SMT DEF Has
  <2>3. CASE o \notin {Raw(s) : s \in S}
    BY <1>1, <2>1, <2>3 DEF Has
  <2> QED BY <2>2, <2>3
<1>5. \A x \in Segs : marker'[x] # NotYet => Has(store', x)
  BY <1>1, <1>4 DEF StoreInv
<1>6. ASSUME NEW o \in Known', NEW x \in o[2]
      PROVE  Has(store', x) /\ (o[1] = 0 => x \in excused' \/ Released(x)')
  <2>1. CASE o \in Known
    BY <1>1, <1>4, <1>6, <2>1, KnownTypes DEF StoreInv, Released
  <2>2. CASE o = Out(S)
    <3>1. Out(S) \in store' /\ x \in S
      BY <1>1, <1>2, <1>6, <2>2
    <3> QED BY <1>1, <1>2, <3>1 DEF Has, Released
  <2> QED BY <1>3, <1>6, <2>1, <2>2
<1>7. ASSUME NEW x \in Segs \ excused, NEW o1 \in store', NEW o2 \in store',
             x \in o1[2], x \in o2[2]
      PROVE  o1 = o2
  <2>1. ASSUME NEW o \in store', x \in o[2], x \in S PROVE o = Out(S)
    <3>1. SUFFICES ASSUME o \in store, o \notin {Raw(s) : s \in S} PROVE FALSE
      BY <1>1, <2>1
    <3>2. Raw(x) \in store /\ x \in Raw(x)[2]
      BY <1>1, <1>2, <2>1
    <3>3. o = Raw(x)
      BY <2>1, <3>1, <3>2 DEF StoreInv
    <3> QED BY <2>1, <3>1, <3>3
  <2>2. CASE x \in S
    BY <1>7, <2>1, <2>2
  <2>3. CASE x \notin S
    <3>1. o1 \in store /\ o2 \in store
      BY <1>1, <1>2, <1>7, <2>3
    <3> QED BY <1>7, <3>1 DEF StoreInv
  <2> QED BY <2>2, <2>3
<1> QED BY <1>1, <1>5, <1>6, <1>7 DEF StoreInv

\* A marker is written for a segment whose object is stored.
LEMMA StoreMarker ==
  ASSUME Types, SegInv, StoreInv, NEW s \in Segs, PutMarker(s)
  PROVE  StoreInv'
<1>1. /\ Draining(s) /\ Raw(s) \in man["pod"] \cup store
      /\ marker' = [marker EXCEPT ![s] = 0]
      /\ UNCHANGED <<saved, store, man, listing, excused>>
  BY DEF PutMarker, SettledObject, readVars, histVars
<1>2. \A x \in Segs : marker'[x] = IF x = s THEN 0 ELSE marker[x]
  BY <1>1 DEF Types
<1>3. Known' = Known
  BY <1>1 DEF Known
<1>4. Has(store, s)
  <2>1. Raw(s) \in Known
    BY <1>1, KnownObjects, HandoffAssumption
  <2>2. s \in Raw(s)[2]
    BY ObjectsMade
  <2> QED BY <2>1, <2>2 DEF StoreInv
<1>5. \A x \in Segs : marker'[x] # NotYet => Has(store', x)
  BY <1>1, <1>2, <1>4 DEF StoreInv
<1>6. ASSUME NEW o \in Known, NEW x \in o[2], o[1] = 0, x \notin excused
      PROVE  Released(x)'
  <2>1. Released(x) /\ x \in Segs
    BY <1>6, KnownTypes DEF StoreInv
  <2>2. x # s
    BY <1>1, <1>6, <2>1, PendingIsUnmarked DEF Released
  <2> QED BY <1>2, <2>1, <2>2 DEF Released
<1> QED BY <1>1, <1>3, <1>5, <1>6 DEF StoreInv

\* Every step keeps what is known of the objects.
LEMMA StoreStep ==
  ASSUME Types, SegInv, StoreInv, [Next]_vars
  PROVE  StoreInv'
<1>1. CASE Commit \/ CommitError \/ ReapTick \/ UNCHANGED vars
           \/ \E q \in Queries : ListFiles(q) \/ Finish(q) \/ \E n \in Asked : OpenView(q, n)
  <2>1. UNCHANGED <<store, saved, man, listing, marker>> /\ excused \subseteq excused'
    BY <1>1 DEF Commit, CommitError, ReapTick, ListFiles, Finish, OpenView, vars,
                       podVars, bucketVars, readVars, histVars
  <2>2. Known' = Known
    BY <2>1 DEF Known
  <2> QED BY <2>1, <2>2, StoreFrame, KnownTypes DEF Released
<1>2. ASSUME UNCHANGED <<store, marker, excused>>,
             saved' \subseteq Known,
             \A n \in Readers : man'[n] \subseteq Known /\ listing'[n].objs \subseteq Known
      PROVE  StoreInv'
  <2>1. Known' \subseteq Known
    BY <1>2, KnownObjects DEF Known
  <2> QED BY <1>2, <2>1, StoreFrame, KnownTypes DEF Released
<1>3. ASSUME NEW n \in Readers, Applied(n)
      PROVE  \A i \in Readers : man'[i] \subseteq Known /\ listing'[i].objs \subseteq Known
  <2>1. \A i \in Readers : /\ man'[i] = IF i = n THEN listing[n].objs ELSE man[i]
                           /\ listing'[i] = IF i = n THEN NoListing ELSE listing[i]
    BY <1>3 DEF Applied, Types
  <2>2. NoListing.objs \subseteq Known
    BY Blank
  <2> QED BY <2>1, <2>2, KnownObjects
<1>4. CASE ApplyOnSelect
  <2>1. "select" \in Readers /\ Applied("select") /\ UNCHANGED <<store, marker, excused, saved>>
    BY <1>4 DEF ApplyOnSelect, podVars, bucketVars, histVars
  <2> QED BY <1>2, <1>3, <2>1, KnownObjects
<1>5. CASE ApplyOnPod
  <2>1. "pod" \in Readers /\ Applied("pod") /\ UNCHANGED <<store, marker, excused, saved>>
    BY <1>5, HandoffAssumption DEF ApplyOnPod, bucketVars, histVars
  <2> QED BY <1>2, <1>3, <2>1, KnownObjects
<1>6. CASE SaveManifest
  <2>1. saved' = man["pod"] /\ UNCHANGED <<store, marker, excused, man, listing>>
    BY <1>6 DEF SaveManifest, bucketVars, readVars, histVars
  <2> QED BY <1>2, <2>1, KnownObjects, HandoffAssumption
<1>7. ASSUME NEW n \in Readers, StartListing(n) \/ ListingError(n) PROVE StoreInv'
  <2>1. UNCHANGED <<store, marker, excused, man, saved>>
    BY <1>7 DEF StartListing, ListingError, podVars, bucketVars, histVars
  <2>2. \A i \in Readers : \/ listing'[i] = listing[i]
                           \/ listing'[i] = NoListing
                           \/ listing'[i] = [at |-> 0, objs |-> store]
    BY <1>7 DEF StartListing, ListingError, Types
  <2>3. \A i \in Readers : listing'[i].objs \subseteq Known
    BY <2>2, KnownObjects, Blank, SMT
  <2> QED BY <1>2, <2>1, <2>3, KnownObjects
<1>8. CASE Stop
  <2>1. /\ UNCHANGED <<store, marker>> /\ excused \subseteq excused'
        /\ saved' \in {saved, man["pod"]}
        /\ man' = [man EXCEPT !["pod"] = {}] /\ listing' = [listing EXCEPT !["pod"] = NoListing]
    BY <1>8 DEF Stop, bucketVars
  <2>2. \A i \in Readers : man'[i] \subseteq man[i] /\ listing'[i].objs \subseteq listing[i].objs
    BY <2>1, Blank DEF Types
  <2>3. Known' \subseteq Known
    BY <2>1, <2>2, HandoffAssumption DEF Known
  <2> QED BY <2>1, <2>3, StoreFrame, KnownTypes DEF Released
<1>9. CASE Restart
  <2>1. /\ UNCHANGED <<store, marker, excused, saved, listing>>
        /\ man' = [man EXCEPT !["pod"] = saved]
    BY <1>9 DEF Restart, bucketVars
  <2>2. \A i \in Readers : man'[i] \subseteq Known
    BY <2>1, KnownObjects DEF Types
  <2> QED BY <1>2, <2>1, <2>2, KnownObjects
<1>10. CASE Tick
  <2>1. UNCHANGED <<store, saved, man, excused>>
    BY <1>10 DEF Tick, histVars
  <2>2. \A i \in Readers : listing'[i].objs = listing[i].objs
    <3>1. listing' = [n \in Readers |-> [listing[n] EXCEPT !.at = Older(@, RefreshGap)]]
      BY <1>10 DEF Tick
    <3>2. \A n \in Readers : listing[n] \in ListingType
      BY DEF Types
    <3> QED BY <3>1, <3>2, SMT DEF ListingType, NoListing
  <2>3. Known' \subseteq Known
    BY <2>1, <2>2 DEF Known
  <2>4. ASSUME NEW s \in Segs PROVE marker'[s] # NotYet => marker[s] # NotYet
    BY <1>10, TickAges
  <2>5. ASSUME NEW s \in Segs, Released(s) PROVE Released(s)'
    <3>1. Types'
      BY <1>10, TypesQueries
    <3>2. marker[s] <= marker'[s] /\ marker'[s] # NotYet /\ marker[s] + Skew >= 2 * Grace
      BY <1>10, <2>5, TickAges DEF Released
    <3>3. marker[s] \in Int /\ marker'[s] \in Int
      BY <3>1, Numbers, SMT DEF Types
    <3>4. marker'[s] + Skew >= 2 * Grace
      BY ONLY <3>2, <3>3, Numbers, SMT
    <3> QED BY <3>2, <3>4 DEF Released
  <2> QED BY <2>1, <2>3, <2>4, <2>5, StoreFrame, KnownTypes
<1> QED BY <1>1, <1>4, <1>5, <1>6, <1>7, <1>8, <1>9, <1>10, StoreUpload, StoreMerge,
           StoreMarker DEF Next

-----------------------------------------------------------------------------
(* Views. *)

\* The parts of a query's record.
LEMMA QueryParts ==
  ASSUME Types, NEW q \in Queries
  PROVE  /\ query[q].stage \in {"idle", "viewed", "listed"} /\ query[q].node \in Readers
         /\ query[q].at \in Nat /\ query[q].at <= HoldLimit + Lag
         /\ query[q].view \subseteq Segs /\ query[q].files \subseteq Objects
  <1>1. query[q] \in QueryType
    BY DEF Types
  <1> QED BY <1>1, Numbers, SMT DEF QueryType

\* Time leaves a query as it is, except for its age.
LEMMA TickQuery ==
  ASSUME Types, Tick, NEW q \in Queries
  PROVE  /\ query'[q].stage = query[q].stage /\ query'[q].node = query[q].node
         /\ query'[q].peer = query[q].peer /\ query'[q].view = query[q].view
         /\ query'[q].files = query[q].files
         /\ query[q].at <= query'[q].at /\ query'[q].at <= query[q].at + 1
         /\ query[q].stage # "idle" /\ query[q].at < HoldLimit + Lag
               => query'[q].at = query[q].at + 1
  <1>1. query'[q] = IF query[q].stage = "idle" THEN query[q]
                    ELSE [query[q] EXCEPT !.at = Older(query[q].at, HoldLimit + Lag)]
    BY DEF Tick
  <1>2. query[q] \in QueryType
    BY DEF Types
  <1>3. query[q].at \in -1..(HoldLimit + Lag) /\ query[q].at # NotYet /\ HoldLimit + Lag \in Nat
    BY <1>2, Numbers, SMT DEF QueryType, NotYet
  <1>4. /\ query[q].at <= Older(query[q].at, HoldLimit + Lag)
        /\ Older(query[q].at, HoldLimit + Lag) <= query[q].at + 1
        /\ query[q].at < HoldLimit + Lag => Older(query[q].at, HoldLimit + Lag) = query[q].at + 1
    BY <1>3, OlderAge
  <1>5. CASE query[q].stage = "idle"
    BY <1>1, <1>3, <1>5, SMT
  <1>6. CASE query[q].stage # "idle"
    <2>1. query'[q] = [query[q] EXCEPT !.at = Older(query[q].at, HoldLimit + Lag)]
      BY <1>1, <1>6
    <2>2. /\ query'[q].stage = query[q].stage /\ query'[q].node = query[q].node
          /\ query'[q].peer = query[q].peer /\ query'[q].view = query[q].view
          /\ query'[q].files = query[q].files
          /\ query'[q].at = Older(query[q].at, HoldLimit + Lag)
      BY <1>2, <2>1 DEF QueryType
    <2> QED BY <1>4, <2>2
  <1> QED BY <1>5, <1>6

\* What a view's segments are, for one query.
ViewOK(q) ==
    /\ On(q, "pod") => up
    /\ On(q, "pod") => \A s \in query[q].view :
          \/ s \in live
          \/ s \in dirs /\ retired[s] <= query[q].at
          \/ query[q].at >= HoldLimit
    /\ query[q].stage = "viewed" =>
          /\ query[q].at <= Lag
          /\ \A s \in query[q].view \ excused :
                marker[s] <= Grace + Check + Delay + query[q].at

LEMMA ViewIsOK == ViewInv <=> \A q \in Queries : ViewOK(q)
  BY DEF ViewInv, ViewOK

LEMMA ViewInit == Init => ViewInv
  BY Blank DEF Init, ViewInv, On

\* A step that leaves the query and the retired segments alone.
LEMMA ViewFrame ==
  ASSUME Types, NEW q \in Queries, ViewOK(q), query'[q] = query[q],
         UNCHANGED <<up, live, dirs, retired>>, excused \subseteq excused',
         \A s \in Segs : marker'[s] = marker[s] \/ marker'[s] = 0
  PROVE  ViewOK(q)'
<1>1. /\ On(q, "pod")' => up'
      /\ On(q, "pod")' => \A s \in query'[q].view :
          \/ s \in live'
          \/ s \in dirs' /\ retired'[s] <= query'[q].at
          \/ query'[q].at >= HoldLimit
  BY DEF ViewOK, On
<1>2. ASSUME query[q].stage = "viewed", NEW s \in query[q].view \ excused
      PROVE  marker'[s] <= Grace + Check + Delay + query[q].at
  <2>1. marker[s] <= Grace + Check + Delay + query[q].at
    BY <1>2 DEF ViewOK
  <2>2. s \in Segs /\ query[q].at \in Nat
    BY QueryParts
  <2>3. 0 <= Grace + Check + Delay + query[q].at
    BY ONLY <2>2, Numbers, SMT
  <2> QED BY <2>1, <2>2, <2>3
<1> QED BY <1>1, <1>2 DEF ViewOK

\* Reaping leaves what a query holds, unless the query has had its time.
LEMMA ViewReap ==
  ASSUME Types, SegInv, NEW q \in Queries, ViewOK(q), NEW H, Reap(H), up,
         UNCHANGED <<up, query, marker, excused>>
  PROVE  ViewOK(q)'
<1>1. /\ live' = live \ Expired(H)
      /\ dirs \ dirs' \subseteq Removable((dirs \ live) \cup Expired(H))
      /\ \A s \in Segs : retired'[s] = IF s \in Expired(H) THEN 0 ELSE retired[s]
      /\ live \subseteq dirs
  BY ReapTypes DEF Types
<1>2. ASSUME On(q, "pod"), NEW s \in query[q].view
      PROVE  \/ s \in live'
             \/ s \in dirs' /\ retired'[s] <= query[q].at
             \/ query[q].at >= HoldLimit
  <2>1. s \in Segs /\ query[q].at \in Nat /\ retired[s] \in Int
    BY QueryParts, Ages
  <2>2. Refs(s) # {}
    BY <1>2 DEF Refs, On
  <2>3. s \notin dirs' /\ s \in dirs => retired[s] >= HoldLimit
    BY <1>1, <2>2 DEF Removable
  <2>4. CASE s \in live
    <3>1. retired[s] = NotYet /\ ~(retired[s] >= HoldLimit)
      BY <2>1, <2>4, Numbers, SMT DEF SegInv, RetiredInv, NotYet
    <3>2. s \in dirs'
      BY <1>1, <2>3, <2>4, <3>1
    <3>3. s \in Expired(H) => retired'[s] <= query[q].at
      BY <1>1, <2>1, SMT
    <3> QED BY <1>1, <2>4, <3>2, <3>3
  <2>5. CASE s \notin live /\ s \in dirs /\ retired[s] <= query[q].at
    <3>1. retired'[s] = retired[s]
      BY <1>1, <2>1, <2>5 DEF Expired
    <3>2. retired[s] >= HoldLimit => query[q].at >= HoldLimit
      BY <2>1, <2>5, Numbers, SMT
    <3> QED BY <2>3, <2>5, <3>1, <3>2
  <2> QED BY <1>2, <2>4, <2>5 DEF ViewOK
<1>3. On(q, "pod")' = On(q, "pod")
  BY DEF On
<1> QED BY <1>2, <1>3 DEF ViewOK

\* A live segment's marker is young.
LEMMA LiveIsYoung ==
  ASSUME Types, SegInv, NEW s \in live \ excused
  PROVE  marker[s] <= Grace + Check + Delay
  <1>1. s \in Segs
    BY DEF Types
  <1>2. \/ marker[s] = NotYet
        \/ marking = s /\ marking # 0 /\ marker[s] <= Delay
        \/ marker[s] <= commit[s] + Delay
    BY <1>1, Numbers DEF SegInv, YoungInv, MarkingInv
  <1>3. marker[s] \in Int /\ commit[s] \in Int /\ commit[s] <= Grace + Check
    BY <1>1, Ages
  <1> QED BY ONLY <1>2, <1>3, Numbers, SMT DEF NotYet

\* The steps of a query.
LEMMA ViewQuery ==
  ASSUME Types, SegInv, ViewInv, NEW q \in Queries,
         ListFiles(q) \/ Finish(q) \/ \E n \in Asked : OpenView(q, n)
  PROVE  ViewInv'
<1> SUFFICES ASSUME NEW p \in Queries PROVE ViewOK(p)'
  BY DEF ViewInv, ViewOK
<1>1. UNCHANGED <<up, live, dirs, retired, excused, marker>>
      /\ \A i \in Queries : i # q => query'[i] = query[i]
  BY DEF ListFiles, Finish, OpenView, podVars, histVars, bucketVars, Types
<1>2. CASE p # q
  BY <1>1, <1>2, ViewFrame, ViewIsOK
<1>3. CASE p = q /\ ListFiles(q)
  <2>1. /\ query[q].stage = "viewed" /\ query'[q].stage = "listed"
        /\ query'[q].node = query[q].node /\ query'[q].view = query[q].view
        /\ query'[q].at = query[q].at
    BY <1>3, QueryParts DEF ListFiles, Types, QueryType
  <2>2. On(q, "pod")' = On(q, "pod")
    BY <2>1 DEF On
  <2>3. ViewOK(q)
    BY ViewIsOK
  <2>4. query'[q].stage # "viewed"
    BY <2>1
  <2> QED BY <1>1, <1>3, <2>1, <2>2, <2>3, <2>4 DEF ViewOK
<1>4. CASE p = q /\ Finish(q)
  <2>1. query'[q] = Idle
    BY <1>4 DEF Finish, Types
  <2> QED BY <1>4, <2>1, Blank DEF ViewOK, On
<1>5. ASSUME NEW n \in Asked, p = q, OpenView(q, n) PROVE ViewOK(p)'
  <2>1. /\ query'[q].stage = "viewed" /\ query'[q].node = n /\ query'[q].at = 0
        /\ query'[q].view = IF up THEN live ELSE {}
    BY <1>5 DEF OpenView, Types
  <2>2. n = "pod" => up
    BY <1>5 DEF OpenView, Alive
  <2>3. \A s \in query'[q].view : s \in live
    BY <2>1
  <2>4. \A s \in query'[q].view \ excused : marker[s] <= Grace + Check + Delay + 0
    <3>1. Grace + Check + Delay + 0 = Grace + Check + Delay
      BY Numbers, SMT
    <3> QED BY <2>3, <3>1, LiveIsYoung
  <2>5. 0 <= Lag
    BY Numbers, SMT
  <2> QED BY <1>1, <1>5, <2>1, <2>2, <2>3, <2>4, <2>5 DEF ViewOK, On
<1> QED BY <1>2, <1>3, <1>4, <1>5

\* Stopping, starting again and time.
LEMMA ViewTime ==
  ASSUME Types, SegInv, ViewInv, NEW q \in Queries, Stop \/ Restart \/ Tick
  PROVE  ViewOK(q)'
<1>0. ViewOK(q)
  BY ViewIsOK
<1>1. CASE Stop
  <2>1. /\ query'[q] = IF query[q].node = "pod" THEN Idle ELSE query[q]
        /\ excused \subseteq excused' /\ marker' = marker
    BY <1>1 DEF Stop, bucketVars
  <2>2. CASE query[q].node = "pod"
    BY <2>1, <2>2, Blank DEF ViewOK, On
  <2>3. CASE query[q].node # "pod"
    BY <1>0, <2>1, <2>3 DEF ViewOK, On
  <2> QED BY <2>2, <2>3
<1>2. CASE Restart
  <2>1. ~up /\ UNCHANGED <<query, marker, excused>>
    BY <1>2 DEF Restart, bucketVars
  <2> QED BY <1>0, <2>1 DEF ViewOK, On
<1>3. CASE Tick
  <2>1. /\ query[q].stage = "viewed" => query[q].at < Lag
        /\ UNCHANGED <<up, live, dirs, excused>>
    BY <1>3 DEF Tick, histVars
  <2>2. /\ query'[q].stage = query[q].stage /\ query'[q].node = query[q].node
        /\ query'[q].view = query[q].view
        /\ query[q].at <= query'[q].at /\ query'[q].at <= query[q].at + 1
        /\ query[q].stage # "idle" /\ query[q].at < HoldLimit + Lag
               => query'[q].at = query[q].at + 1
    BY <1>3, TickQuery
  <2>3. On(q, "pod")' = On(q, "pod")
    BY <2>2 DEF On
  <2>4. Types'
    BY <1>3, TypesQueries
  <2>5. query[q].at \in Nat /\ query'[q].at \in Nat /\ query[q].at <= HoldLimit + Lag
    BY <2>4, QueryParts, Numbers, SMT DEF Types, QueryType
  <2>6. ASSUME On(q, "pod"), NEW s \in query[q].view
        PROVE  \/ s \in live
               \/ s \in dirs /\ retired'[s] <= query'[q].at
               \/ query'[q].at >= HoldLimit
    <3>1. s \in Segs
      BY QueryParts
    <3>2. retired'[s] <= retired[s] + 1 /\ retired'[s] \in Int /\ retired[s] \in Int
      BY <1>3, <2>4, <3>1, TickAges, Ages, SMT DEF Types
    <3>3. query[q].at >= HoldLimit => query'[q].at >= HoldLimit
      BY ONLY <2>2, <2>5, Numbers, SMT
    <3>4. retired[s] <= query[q].at =>
            retired'[s] <= query'[q].at \/ query'[q].at >= HoldLimit
      <4>1. query[q].stage # "idle"
        BY <2>6 DEF On
      <4> QED BY ONLY <2>2, <2>5, <3>2, <4>1, Numbers, SMT
    <3> QED BY <1>0, <2>6, <3>3, <3>4 DEF ViewOK
  <2>7. ASSUME query[q].stage = "viewed"
        PROVE  /\ query'[q].at <= Lag
               /\ \A s \in query[q].view \ excused :
                     marker'[s] <= Grace + Check + Delay + query'[q].at
    <3>1. query'[q].at = query[q].at + 1 /\ query'[q].at <= Lag
      <4>1. query[q].stage # "idle"
        BY <2>7
      <4> QED BY <2>1, <2>2, <2>5, <2>7, <4>1, Numbers, SMT
    <3>2. ASSUME NEW s \in query[q].view \ excused
          PROVE  marker'[s] <= Grace + Check + Delay + query'[q].at
      <4>1. marker[s] <= Grace + Check + Delay + query[q].at /\ s \in Segs
        BY <1>0, <2>7, QueryParts DEF ViewOK
      <4>2. marker'[s] <= marker[s] + 1 /\ marker[s] \in Int
        BY <1>3, <4>1, TickAges, Ages
      <4>3. marker'[s] \in Int
        BY <2>4, <4>1, Numbers, SMT DEF Types
      <4> QED BY ONLY <2>5, <3>1, <4>1, <4>2, <4>3, Numbers, SMT
    <3> QED BY <3>1, <3>2
  <2> QED BY <1>0, <2>1, <2>2, <2>3, <2>6, <2>7 DEF ViewOK
<1> QED BY <1>1, <1>2, <1>3

\* Every step keeps what is known of the views.
LEMMA ViewStep ==
  ASSUME Types, SegInv, ViewInv, [Next]_vars
  PROVE  ViewInv'
<1>1. CASE \E q \in Queries : ListFiles(q) \/ Finish(q) \/ \E n \in Asked : OpenView(q, n)
  BY <1>1, ViewQuery
<1> SUFFICES ASSUME NEW q \in Queries,
                    ~\E p \in Queries : ListFiles(p) \/ Finish(p) \/ \E n \in Asked : OpenView(p, n)
             PROVE  ViewOK(q)'
  BY <1>1 DEF ViewInv, ViewOK
<1>2. ViewOK(q)
  BY ViewIsOK
<1>3. CASE ReapTick
  <2>1. up /\ Reap(held) /\ UNCHANGED <<up, query, marker, excused>>
    BY <1>3 DEF ReapTick, bucketVars, histVars
  <2>2. PICK H : H = held
    OBVIOUS
  <2> QED BY <1>2, <2>1, <2>2, ViewReap
<1>4. CASE ApplyOnPod
  <2>1. /\ up /\ UNCHANGED <<up, query, marker, excused>>
        /\ IF held = {} THEN UNCHANGED <<live, retired, dirs>> ELSE Reap({})
    BY <1>4 DEF ApplyOnPod, bucketVars, histVars
  <2>2. CASE held = {}
    BY <1>2, <2>1, <2>2, ViewFrame
  <2>3. CASE held # {}
    <3>1. PICK H : H = {}
      OBVIOUS
    <3> QED BY <1>2, <2>1, <2>3, <3>1, ViewReap
  <2> QED BY <2>2, <2>3
<1>5. CASE \/ \E s \in Segs : UploadObject(s) \/ PutMarker(s)
           \/ Commit \/ CommitError \/ ApplyOnSelect \/ SaveManifest
           \/ \E n \in Readers : StartListing(n) \/ ListingError(n)
           \/ \E S \in SUBSET Segs : Merge(S)
           \/ UNCHANGED vars
  <2>1. UNCHANGED <<query, up, live, dirs, retired>> /\ excused \subseteq excused'
        /\ \A s \in Segs : marker'[s] = marker[s] \/ marker'[s] = 0
    BY <1>5 DEF UploadObject, PutMarker, Commit, CommitError, ApplyOnSelect,
         SaveManifest, StartListing, ListingError, Merge, vars, podVars, bucketVars,
         histVars, Types
  <2> QED BY <1>2, <2>1, ViewFrame
<1> QED BY <1>3, <1>4, <1>5, ViewTime DEF Next

\* What holds whatever the margins are is an invariant.
LEMMA Invariance == Spec => []Inv
<1>1. Init => Inv
  BY TypesInit, SegInit, StoreInit, ViewInit DEF Inv
<1>2. Inv /\ [Next]_vars => Inv'
  BY TypesStep, SegStep, StoreStep, ViewStep DEF Inv
<1> QED BY <1>1, <1>2, PTL DEF Spec

\* A query reads the segments of its view until RetiredHoldLimit: Segments.Reap
\* removes a held directory only when the query has had that long.
THEOREM ViewsStayOpen == Spec => []ViewStaysOpen
<1>1. Inv => ViewStaysOpen
  <2> SUFFICES ASSUME Inv, NEW q \in Queries, On(q, "pod"), NEW s \in query[q].view
               PROVE  s \in dirs \/ query[q].at >= HoldLimit
    BY DEF ViewStaysOpen, On
  <2>1. live \subseteq dirs
    BY DEF Inv, Types
  <2> QED BY <2>1 DEF Inv, ViewInv
<1> QED BY <1>1, Invariance, PTL

-----------------------------------------------------------------------------
(* What the margins buy. *)

\* A live segment, with the longest commit and the fastest clock, is released later
\* than it is retired (SegmentGuard.Released waits for twice the grace).
ReleaseMargin == Check + Delay + Skew < Grace

\* The same holds for a view taken just before the retirement.
ViewMargin == Lag + Check + Delay + Skew < Grace

\* Readers list the bucket, completely, more often than once in a grace.
ListingMargin == Timely /\ RefreshGap < Grace

\* A merge takes no object of a segment the pod still serves: the marker is too
\* young for the compactor's guard (src/internal/manifest/segments.go:92).
THEOREM MergesFollowRetirement ==
  ASSUME ReleaseMargin
  PROVE  Spec => MergedAfterRetired
<1>1. Inv /\ [Next]_vars => [\A s \in live' \ excused : Raw(s) \in store => Raw(s) \in store']_vars
  <2> SUFFICES ASSUME Inv, Next, NEW s \in live' \ excused, Raw(s) \in store
               PROVE  Raw(s) \in store'
    BY DEF vars
  <2>1. CASE \E S \in SUBSET Segs : Merge(S)
    <3>1. PICK S \in SUBSET Segs : Merge(S)
      BY <2>1
    <3>2. live' = live /\ store' = (store \ {Raw(x) : x \in S}) \cup {Out(S)}
          /\ \A x \in S : Released(x)
      BY <3>1 DEF Merge, podVars
    <3>3. s \in Segs /\ ~Released(s)
      <4>1. s \in live \ excused /\ s \in Segs /\ Types /\ SegInv
        BY <3>2 DEF Inv, Types
      <4>2. marker[s] <= Grace + Check + Delay /\ marker[s] \in Int
        BY <4>1, LiveIsYoung, Ages
      <4>3. ~(marker[s] + Skew >= 2 * Grace)
        BY ONLY <4>2, ReleaseMargin, Numbers, SMT DEF ReleaseMargin
      <4> QED BY <4>1, <4>3 DEF Released
    <3>4. \A x \in S : Raw(x) # Raw(s)
      BY <3>2, <3>3 DEF Raw
    <3> QED BY <3>2, <3>4
  <2>2. CASE ~\E S \in SUBSET Segs : Merge(S)
    <3>1. store \subseteq store'
      BY <2>2 DEF Next, UploadObject, PutMarker, Commit, CommitError, ReapTick,
           StartListing, ListingError, ApplyOnSelect, ApplyOnPod, SaveManifest, ListFiles,
           Finish, OpenView, Stop, Restart, Tick, bucketVars
    <3> QED BY <3>1
  <2> QED BY <2>1, <2>2
<1> QED BY <1>1, Invariance, PTL DEF Spec, MergedAfterRetired

-----------------------------------------------------------------------------
(* No row twice. *)

\* What a listing under the view margin adds to the view.
LEMMA ListedApart ==
  ASSUME ViewMargin, Inv, NEW q \in Queries, ListFiles(q)
  PROVE  /\ query'[q].view = query[q].view
         /\ \A s \in query[q].view \ excused : ~Has(query'[q].files, s)
<1>1. /\ query[q].stage = "viewed" /\ query'[q].view = query[q].view
      /\ query'[q].files = {o \in man[query[q].node] : ~Excluded(o, query[q].view)}
  BY DEF ListFiles, Inv, Types, QueryType
<1>2. ASSUME NEW s \in query[q].view \ excused, NEW o \in query'[q].files, s \in o[2]
      PROVE  FALSE
  <2>1. query[q].node \in Readers /\ query[q].view \subseteq Segs /\ query[q].at \in Nat
        /\ Types
    BY QueryParts DEF Inv
  <2>2. o \in man[query[q].node] /\ o[1] \notin query[q].view
    BY <1>1, <1>2 DEF Excluded
  <2>3. o \in Known /\ o \in Objects
    BY <2>1, <2>2, KnownObjects DEF Types
  <2>4. o[1] = 0
    BY <1>2, <2>2, <2>3, ObjectParts
  <2>5. Released(s) /\ s \in Segs
    BY <1>2, <2>1, <2>3, <2>4 DEF Inv, StoreInv
  <2>6. marker[s] <= Grace + Check + Delay + query[q].at /\ query[q].at <= Lag
    BY <1>1, <1>2 DEF Inv, ViewInv
  <2>7. marker[s] \in Int /\ marker[s] + Skew >= 2 * Grace
    BY <2>1, <2>5, Ages DEF Released
  <2> QED BY ONLY <2>1, <2>6, <2>7, ViewMargin, Numbers, SMT DEF ViewMargin
<1> QED BY <1>1, <1>2 DEF Has

\* What a step does to a query.
LEMMA QueryChange ==
  ASSUME Types, [Next]_vars, NEW q \in Queries
  PROVE  \/ query'[q] = query[q] \/ query'[q] = Idle \/ ListFiles(q) \/ Tick
         \/ \E n \in Asked : OpenView(q, n)
<1>1. ASSUME NEW p \in Queries, p # q,
             ListFiles(p) \/ Finish(p) \/ \E n \in Asked : OpenView(p, n)
      PROVE  query'[q] = query[q]
  BY <1>1 DEF ListFiles, Finish, OpenView, Types
<1>2. CASE Finish(q)
  BY <1>2 DEF Finish, Types
<1>3. CASE Stop
  BY <1>3 DEF Stop
<1>4. CASE \/ \E x \in Segs : UploadObject(x) \/ PutMarker(x)
           \/ Commit \/ CommitError \/ ReapTick \/ ApplyOnSelect \/ ApplyOnPod
           \/ \E n \in Readers : StartListing(n) \/ ListingError(n)
           \/ SaveManifest \/ Restart \/ UNCHANGED vars
           \/ \E S \in SUBSET Segs : Merge(S)
  BY <1>4 DEF UploadObject, PutMarker, Commit, CommitError, ReapTick,
       ApplyOnSelect, ApplyOnPod, StartListing, ListingError, SaveManifest, Restart,
       Merge, vars
<1> QED BY <1>1, <1>2, <1>3, <1>4 DEF Next

\* Every step keeps listed queries apart from their views.
LEMMA ApartStep ==
  ASSUME ViewMargin, Inv, ApartInv, [Next]_vars
  PROVE  ApartInv'
<1> SUFFICES ASSUME NEW q \in Queries, query'[q].stage = "listed",
                    NEW s \in query'[q].view \ excused'
             PROVE  ~Has(query'[q].files, s)
  BY DEF ApartInv
<1>0. excused \subseteq excused'
  BY DEF Next, UploadObject, PutMarker, Commit, CommitError, ReapTick,
       StartListing, ListingError, ApplyOnSelect, ApplyOnPod, SaveManifest, ListFiles,
       Finish, OpenView, Stop, Restart, Tick, Merge, vars, histVars
<1>1. CASE ListFiles(q)
  BY <1>0, <1>1, ListedApart
<1>2. CASE query'[q] = query[q]
  BY <1>0, <1>2 DEF ApartInv
<1>3. CASE Tick
  <2>1. /\ query'[q].stage = query[q].stage /\ query'[q].view = query[q].view
        /\ query'[q].files = query[q].files
    BY <1>3, TickQuery DEF Inv
  <2> QED BY <1>0, <2>1 DEF ApartInv
<1>4. CASE query'[q] = Idle
  BY <1>4, Blank
<1>5. ASSUME NEW n \in Asked, OpenView(q, n) PROVE FALSE
  <2>1. query'[q].stage = "viewed"
    BY <1>5 DEF OpenView, Inv, Types
  <2> QED BY <2>1
<1> QED BY <1>1, <1>2, <1>3, <1>4, <1>5, QueryChange DEF Inv

\* Sets of objects are finite, since the segments are.
LEMMA ObjectsFinite == IsFiniteSet(Objects)
<1>1. IsFiniteSet(Segs) /\ IsFiniteSet(SUBSET Segs)
  BY HandoffAssumption, FS_SUBSET
<1> DEFINE R == {Raw(s) : s \in Segs}
           O == {Out(S) : S \in SUBSET Segs}
           f == [s \in Segs |-> Raw(s)]
           g == [S \in SUBSET Segs |-> Out(S)]
<1>2. f \in Surjection(Segs, R)
  BY DEF Surjection
<1>3. g \in Surjection(SUBSET Segs, O)
  BY DEF Surjection
<1>4. IsFiniteSet(R) /\ IsFiniteSet(O)
  <2> HIDE DEF R, O, f, g
  <2> QED BY <1>1, <1>2, <1>3, FS_Surjection
<1>5. IsFiniteSet(R \cup O)
  BY <1>4, FS_Union
<1>6. Objects = R \cup O
  BY DEF Objects
<1> QED BY <1>5, <1>6

\* A set with at most one element has at most one.
LEMMA AtMostOne ==
  ASSUME NEW T, \A x \in T, y \in T : x = y
  PROVE  Cardinality(T) \in {0, 1}
<1>1. CASE T = {}
  BY <1>1, FS_EmptySet
<1>2. CASE T # {}
  <2>1. PICK x : T = {x}
    BY <1>2, SMT
  <2> QED BY <2>1, FS_Singleton
<1> QED BY <1>1, <1>2

\* No answer has a row of a segment twice, once from the pod's segment and once from
\* an object, or from two objects: an object of a segment in the view is left out by
\* its nonce, and none is merged while a view of the segment is in use
\* (src/internal/storage/parquets3/buffer_view.go:92).
THEOREM RowsAreReadOnce ==
  ASSUME ViewMargin
  PROVE  Spec => []NoRowTwice
<1>1. Init => ApartInv
  BY Blank DEF Init, ApartInv
<1>2. Inv /\ ApartInv /\ [Next]_vars => ApartInv'
  BY ApartStep
<1>3. Inv /\ ApartInv => NoRowTwice
  <2> SUFFICES ASSUME Inv, ApartInv, NEW q \in Queries, NEW n \in Readers, Answers(q, n),
                      NEW s \in Segs \ excused
               PROVE  Count(q, s) <= 1
    BY DEF NoRowTwice
  <2> DEFINE T == {o \in query[q].files : s \in o[2]}
  <2>1. query[q].stage = "listed" /\ query[q].files \subseteq store
    BY DEF Answers
  <2>2. CASE s \in query[q].view
    <3>1. ~Has(query[q].files, s)
      BY <2>1, <2>2 DEF ApartInv
    <3>2. T = {}
      BY <3>1 DEF Has
    <3> QED BY <2>2, <3>2, FS_EmptySet, SMT DEF Count
  <2>3. CASE s \notin query[q].view
    <3>1. \A x \in T, y \in T : x = y
      BY <2>1 DEF Inv, StoreInv
    <3>2. Cardinality(T) \in {0, 1}
      <4> HIDE DEF T
      <4> QED BY <3>1, AtMostOne
    <3> QED BY <2>3, <3>2, SMT DEF Count
  <2> QED BY <2>2, <2>3
<1> QED BY <1>1, <1>2, <1>3, Invariance, PTL DEF Spec

-----------------------------------------------------------------------------
(* Nothing hidden: the select pods. *)

\* A step that leaves a select pod's manifest and listing alone.
LEMMA SelectFrame ==
  ASSUME SelectInv, commit' = commit,
         "select" \in Readers => /\ listing'["select"] = listing["select"]
                                 /\ man'["select"] = man["select"]
                                 /\ fresh'["select"] = fresh["select"]
  PROVE  SelectInv'
  BY DEF SelectInv, Committed, Has

\* What a listing is.
LEMMA ListingParts ==
  ASSUME Types, NEW n \in Readers
  PROVE  /\ fresh[n] \in Nat /\ fresh[n] <= RefreshGap
         /\ listing[n] = NoListing => listing[n].at = -1
         /\ listing[n] # NoListing => listing[n].at \in Nat /\ listing[n].at <= RefreshGap
  <1>1. listing[n] \in ListingType /\ fresh[n] \in 0..RefreshGap
    BY DEF Types
  <1> QED BY <1>1, Blank, Numbers, SMT DEF ListingType

\* What time does to a listing.
LEMMA TickListing ==
  ASSUME Types, Tick, NEW n \in Readers
  PROVE  /\ listing'[n].objs = listing[n].objs
         /\ listing'[n] = NoListing <=> listing[n] = NoListing
         /\ listing[n] = NoListing => listing'[n].at = -1
         /\ listing[n] # NoListing /\ listing[n].at < RefreshGap =>
               listing'[n].at = listing[n].at + 1
         /\ fresh[n] < RefreshGap => fresh'[n] = fresh[n] + 1
  <1>1. /\ listing'[n] = [listing[n] EXCEPT !.at = Older(listing[n].at, RefreshGap)]
        /\ fresh'[n] = Older(fresh[n], RefreshGap)
    BY DEF Tick, AllOlder, Types
  <1>2. listing[n] \in ListingType /\ fresh[n] \in 0..RefreshGap
    BY DEF Types
  <1>3. CASE listing[n] = NoListing
    BY <1>1, <1>2, <1>3, Numbers, SMT DEF NoListing, Older, NotYet
  <1>4. CASE listing[n] # NoListing
    <2>1. listing[n] \in [at : 0..RefreshGap, objs : SUBSET Objects]
      BY <1>2, <1>4 DEF ListingType
    <2>2. listing'[n].objs = listing[n].objs
          /\ listing'[n].at = Older(listing[n].at, RefreshGap)
      BY <1>1, <2>1
    <2>3. listing'[n].at \in Nat
          /\ (listing[n].at < RefreshGap => listing'[n].at = listing[n].at + 1)
      BY <2>1, <2>2, Numbers, SMT DEF Older, NotYet
    <2>4. listing'[n] # NoListing
      BY <2>3, Blank, SMT
    <2> QED BY <1>1, <1>2, <1>4, <2>2, <2>3, <2>4, Numbers, SMT DEF Older, NotYet
  <1> QED BY <1>3, <1>4

\* Every step keeps what a select pod knows.
LEMMA SelectStep ==
  ASSUME ListingMargin, Inv, SelectInv, [Next]_vars
  PROVE  SelectInv'
<1> SUFFICES ASSUME "select" \in Readers PROVE SelectInv'
  BY DEF SelectInv
<1>0. Types /\ "pod" \in Readers /\ "select" # "pod"
  BY HandoffAssumption DEF Inv
<1>1. /\ listing["select"].at <= fresh["select"]
      /\ \A s \in Segs : Committed(s) =>
              /\ Has(man["select"], s) \/ commit[s] <= fresh["select"]
              /\ \/ listing["select"] = NoListing
                 \/ Has(listing["select"].objs, s)
                 \/ commit[s] <= listing["select"].at
  BY DEF SelectInv
<1>2. /\ fresh["select"] \in Nat /\ fresh["select"] <= RefreshGap
      /\ listing["select"] = NoListing => listing["select"].at = -1
      /\ listing["select"] # NoListing => listing["select"].at \in Nat
  BY <1>0, ListingParts
<1>3. CASE Commit
  <2>1. /\ commit' = [commit EXCEPT ![marking] = 0] /\ UNCHANGED <<listing, man, fresh>>
    BY <1>3 DEF Commit, readVars
  <2>2. \A s \in Segs : commit'[s] = commit[s] \/ commit'[s] = 0
    BY <1>0, <2>1 DEF Types
  <2>3. 0 <= fresh["select"] /\ (listing["select"] # NoListing => 0 <= listing["select"].at)
    BY <1>2, SMT
  <2> QED BY <1>1, <2>1, <2>2, <2>3 DEF SelectInv, Committed
<1>4. ASSUME NEW n \in Readers, StartListing(n) PROVE SelectInv'
  <2>1. /\ listing' = [listing EXCEPT ![n] = [at |-> 0, objs |-> store]]
        /\ UNCHANGED <<commit, man, fresh>>
    BY <1>4 DEF StartListing, podVars
  <2>2. CASE n # "select"
    BY <1>0, <2>1, <2>2, SelectFrame DEF Types
  <2>3. CASE n = "select"
    <3>1. listing'["select"] = [at |-> 0, objs |-> store]
      BY <1>0, <2>1, <2>3 DEF Types
    <3>2. listing'["select"].objs = store /\ listing'["select"].at <= fresh["select"]
      BY <1>2, <3>1, SMT
    <3>3. \A s \in Segs : Committed(s) => Has(store, s)
      BY DEF Inv, SegInv, YoungInv, StoreInv
    <3> QED BY <1>1, <2>1, <3>2, <3>3 DEF SelectInv, Committed, Has
  <2> QED BY <2>2, <2>3
<1>5. ASSUME NEW n \in Readers, ListingError(n) PROVE SelectInv'
  <2>1. listing' = [listing EXCEPT ![n] = NoListing] /\ UNCHANGED <<commit, man, fresh>>
    BY <1>5 DEF ListingError, podVars
  <2>2. CASE n # "select"
    BY <1>0, <2>1, <2>2, SelectFrame DEF Types
  <2>3. CASE n = "select"
    <3>1. listing'["select"] = NoListing
      BY <1>0, <2>1, <2>3 DEF Types
    <3>2. listing'["select"].at <= fresh["select"]
      BY <1>2, <3>1, Blank, SMT
    <3> QED BY <1>1, <2>1, <3>1, <3>2 DEF SelectInv, Committed
  <2> QED BY <2>2, <2>3
<1>6. CASE ApplyOnSelect
  <2>1. /\ listing["select"] # NoListing /\ commit' = commit
        /\ man'["select"] = listing["select"].objs
        /\ fresh'["select"] = listing["select"].at /\ listing'["select"] = NoListing
    BY <1>0, <1>6 DEF ApplyOnSelect, Applied, Types, podVars
  <2>2. listing'["select"].at <= fresh'["select"]
    BY <1>2, <2>1, Blank, SMT
  <2> QED BY <1>1, <2>1, <2>2 DEF SelectInv, Committed, Has
<1>7. CASE Tick
  <2>1. fresh["select"] < RefreshGap
    BY <1>7 DEF Tick, Alive, ListingMargin
  <2>2. /\ listing'["select"].objs = listing["select"].objs
        /\ listing'["select"] = NoListing <=> listing["select"] = NoListing
        /\ listing["select"] = NoListing => listing'["select"].at = -1
        /\ listing["select"] # NoListing => listing'["select"].at = listing["select"].at + 1
        /\ fresh'["select"] = fresh["select"] + 1
    <3>1. listing["select"] # NoListing => listing["select"].at < RefreshGap
      BY <1>1, <1>2, <2>1, Numbers, SMT
    <3>2. PICK n \in Readers : n = "select"
      OBVIOUS
    <3> QED BY <1>0, <1>7, <2>1, <3>1, <3>2, TickListing
  <2>3. listing'["select"].at <= fresh'["select"]
    BY <1>1, <1>2, <2>2, SMT
  <2>4. man' = man
    BY <1>7 DEF Tick
  <2>5. ASSUME NEW s \in Segs, Committed(s)'
        PROVE  /\ Has(man["select"], s) \/ commit'[s] <= fresh'["select"]
               /\ \/ listing'["select"] = NoListing
                  \/ Has(listing["select"].objs, s)
                  \/ commit'[s] <= listing'["select"].at
    <3>1. Committed(s) /\ commit'[s] <= commit[s] + 1
      BY <1>0, <1>7, <2>5, TickAges DEF Committed
    <3>2. commit[s] \in Int /\ commit'[s] \in Int
      <4>1. Types'
        BY <1>0, <1>7, TypesQueries
      <4> QED BY <1>0, <4>1, Numbers, SMT DEF Types
    <3>3. commit[s] <= fresh["select"] => commit'[s] <= fresh'["select"]
      BY ONLY <1>2, <2>2, <3>1, <3>2, SMT
    <3>4. listing["select"] # NoListing /\ commit[s] <= listing["select"].at =>
            commit'[s] <= listing'["select"].at
      BY ONLY <1>2, <2>2, <3>1, <3>2, SMT
    <3> QED BY <1>1, <2>2, <3>1, <3>3, <3>4
  <2> QED BY <2>2, <2>3, <2>4, <2>5 DEF SelectInv, Has
<1>8. CASE \/ \E s \in Segs : UploadObject(s) \/ PutMarker(s)
           \/ CommitError \/ ReapTick \/ ApplyOnPod \/ SaveManifest \/ Stop \/ Restart
           \/ \E S \in SUBSET Segs : Merge(S)
           \/ \E q \in Queries : ListFiles(q) \/ Finish(q) \/ \E n \in Asked : OpenView(q, n)
           \/ UNCHANGED vars
  <2>1. /\ commit' = commit /\ listing'["select"] = listing["select"]
        /\ man'["select"] = man["select"] /\ fresh'["select"] = fresh["select"]
    <3>1. CASE Stop \/ Restart \/ ApplyOnPod
      BY <1>0, <3>1 DEF Stop, Restart, ApplyOnPod, Applied, Types
    <3>2. CASE \E s \in Segs : UploadObject(s)
      BY <1>0, <3>2 DEF UploadObject, Types, podVars
    <3>3. CASE \/ \E s \in Segs : PutMarker(s)
               \/ CommitError \/ ReapTick \/ SaveManifest
               \/ \E S \in SUBSET Segs : Merge(S)
               \/ \E q \in Queries : ListFiles(q) \/ Finish(q) \/ \E n \in Asked : OpenView(q, n)
               \/ UNCHANGED vars
      BY <3>3 DEF PutMarker, CommitError, ReapTick, SaveManifest, Merge, ListFiles,
           Finish, OpenView, vars, podVars, readVars
    <3> QED BY <1>8, <3>1, <3>2, <3>3
  <2> QED BY <2>1, SelectFrame
<1> QED BY <1>3, <1>4, <1>5, <1>6, <1>7, <1>8 DEF Next

-----------------------------------------------------------------------------
(* Nothing hidden: the pod. *)

\* A step that adds no row to the bucket and leaves the pod's manifest, its listing
\* and its segments alone.
LEMMA PodFrame ==
  ASSUME PodInv, UNCHANGED <<up, live, held, served, commit>>,
         listing'["pod"] = listing["pod"], man'["pod"] = man["pod"],
         fresh'["pod"] = fresh["pod"], \A s \in Segs : Has(store', s) => Has(store, s)
  PROVE  PodInv'
<1> DEFINE L == listing["pod"]
           M == man["pod"]
           F == fresh["pod"]
<1>1. /\ ~up => L = NoListing
      /\ L = NoListing \/ \A s \in Segs : Has(store, s) => Has(L.objs, s)
      /\ \A s \in live \ held : Committed(s) => Has(M, s) \/ commit[s] <= F
      /\ up => \A s \in served \ live : Has(M, s)
  BY DEF PodInv
<1>2. L = NoListing \/ \A s \in Segs : Has(store', s) => Has(L.objs, s)
  BY <1>1
<1> QED BY <1>1, <1>2 DEF PodInv, Committed, Has

\* What is committed, or in the pod's manifest, is in the bucket.
LEMMA StoredRows ==
  ASSUME Inv, NEW s \in Segs
  PROVE  Committed(s) \/ Has(man["pod"], s) => Has(store, s)
  <1>1. Committed(s) => Has(store, s)
    BY DEF Inv, SegInv, YoungInv, StoreInv
  <1>2. man["pod"] \subseteq Known
    BY HandoffAssumption, KnownObjects DEF Inv
  <1>3. \A o \in Known : s \in o[2] => Has(store, s)
    BY DEF Inv, StoreInv
  <1> QED BY <1>1, <1>2, <1>3 DEF Has

\* A reap takes only segments the pod's manifest has the rows of.
LEMMA PodReap ==
  ASSUME ListingMargin, Inv, PodInv, ReapTick
  PROVE  PodInv'
<1>0. Types /\ "pod" \in Readers
  BY HandoffAssumption DEF Inv
<1>1. /\ Reap(held) /\ UNCHANGED <<up, commit, held, served, store, listing, man, fresh>>
  BY DEF ReapTick, bucketVars, readVars, histVars
<1>2. live' = live \ Expired(held)
  BY <1>0, <1>1, ReapTypes
<1>3. ASSUME NEW s \in Expired(held) PROVE Has(man["pod"], s)
  <2>1. s \in live \ held /\ Committed(s) /\ commit[s] >= Grace /\ s \in Segs
    BY <1>0, <1>3 DEF Expired, Types
  <2>2. Has(man["pod"], s) \/ commit[s] <= fresh["pod"]
    BY <2>1 DEF PodInv
  <2>3. commit[s] \in Int /\ fresh["pod"] \in Nat /\ fresh["pod"] <= RefreshGap
    BY <1>0, <2>1, Numbers, ListingParts, SMT DEF Types
  <2>4. RefreshGap < Grace
    BY DEF ListingMargin
  <2>5. ~(commit[s] <= fresh["pod"])
    BY ONLY <2>1, <2>3, <2>4, Numbers, SMT
  <2> QED BY <2>2, <2>5
<1>4. up => \A s \in served \ live' : Has(man["pod"], s)
  BY <1>2, <1>3 DEF PodInv
<1>5. \A s \in live' \ held : Committed(s) => Has(man["pod"], s) \/ commit[s] <= fresh["pod"]
  BY <1>2 DEF PodInv
<1> QED BY <1>1, <1>4, <1>5 DEF PodInv, Committed, Has

\* A listing of the pod that is applied has every row that was stored.
LEMMA PodApply ==
  ASSUME Inv, PodInv, ApplyOnPod
  PROVE  PodInv'
<1>0. Types /\ "pod" \in Readers
  BY HandoffAssumption DEF Inv
<1>1. /\ up /\ listing["pod"] # NoListing /\ UNCHANGED <<up, commit, served, store>>
      /\ man'["pod"] = listing["pod"].objs /\ listing'["pod"] = NoListing
  BY <1>0 DEF ApplyOnPod, Applied, Types, bucketVars, histVars
<1>2. \A s \in Segs : Has(store, s) => Has(man'["pod"], s)
  BY <1>1 DEF PodInv, Has
<1>3. live' = live \/ live' = live \ Expired({})
  BY <1>0, ReapTypes DEF ApplyOnPod
<1>4. \A s \in live \ live' : Committed(s)
  BY <1>3 DEF Expired
<1>5. live \subseteq Segs /\ live' \subseteq Segs /\ served \subseteq Segs
  BY <1>0, <1>3 DEF Types
<1>6. \A s \in Segs : Committed(s) => Has(man'["pod"], s)
  BY <1>2, StoredRows
<1>7. \A s \in served \ live : Has(man'["pod"], s)
  BY <1>1, <1>2, <1>5, StoredRows DEF PodInv
<1>8. \A s \in served \ live' : Has(man'["pod"], s)
  BY <1>4, <1>5, <1>6, <1>7
<1> QED BY <1>1, <1>5, <1>6, <1>8 DEF PodInv, Committed, Has

\* An upload adds its object to the manifest and to the listing in flight.
LEMMA PodUpload ==
  ASSUME Inv, PodInv, NEW s \in Segs, UploadObject(s)
  PROVE  PodInv'
<1>0. Types /\ "pod" \in Readers
  BY HandoffAssumption DEF Inv
<1> DEFINE L == listing["pod"]
<1>1. /\ UNCHANGED <<up, live, held, served, commit, fresh>>
      /\ store' = store \cup {Raw(s)} /\ man'["pod"] = man["pod"] \cup {Raw(s)}
      /\ listing'["pod"] = [L EXCEPT !.objs = IF L.at = NotYet THEN L.objs
                                               ELSE L.objs \cup {Raw(s)}]
  BY <1>0 DEF UploadObject, Types, podVars, histVars
<1>2. \A x \in Segs : Has(man["pod"], x) => Has(man'["pod"], x)
  BY <1>1 DEF Has
<1>3. L = NoListing => listing'["pod"] = NoListing
  BY <1>1, SMT DEF NoListing
<1>4. ASSUME L # NoListing, NEW x \in Segs, Has(store', x)
      PROVE  Has(listing'["pod"].objs, x)
  <2>1. L.at # NotYet /\ L \in [at : 0..RefreshGap, objs : SUBSET Objects]
    BY <1>0, <1>4, Numbers, SMT DEF Types, ListingType, NotYet
  <2>2. listing'["pod"].objs = L.objs \cup {Raw(s)}
    BY <1>1, <2>1
  <2>3. Has(store, x) => Has(L.objs, x)
    BY <1>4 DEF PodInv
  <2>4. Has(store, x) \/ x \in Raw(s)[2]
    BY <1>1, <1>4 DEF Has
  <2> QED BY <2>2, <2>3, <2>4 DEF Has
<1>5. /\ ~up => L = NoListing
      /\ \A x \in live \ held : Committed(x) => Has(man["pod"], x) \/ commit[x] <= fresh["pod"]
      /\ up => \A x \in served \ live : Has(man["pod"], x)
  BY DEF PodInv
<1>6. live \subseteq Segs /\ served \subseteq Segs
  BY <1>0 DEF Types
<1>7. \A x \in live \ held : Committed(x) => Has(man'["pod"], x) \/ commit[x] <= fresh["pod"]
  BY <1>2, <1>5, <1>6
<1>8. up => \A x \in served \ live : Has(man'["pod"], x)
  BY <1>2, <1>5, <1>6
<1>9. listing'["pod"] = NoListing \/ \A x \in Segs : Has(store', x) => Has(listing'["pod"].objs, x)
  BY <1>3, <1>4
<1>10. ~up => listing'["pod"] = NoListing
  BY <1>3, <1>5
<1> QED BY <1>1, <1>7, <1>8, <1>9, <1>10 DEF PodInv, Committed, Has

\* Time: a refresh in time keeps the age of the manifest up with the commits.
LEMMA PodTime ==
  ASSUME ListingMargin, Inv, PodInv, Tick
  PROVE  PodInv'
<1>0. Types /\ "pod" \in Readers
  BY HandoffAssumption DEF Inv
<1>1. /\ listing'["pod"].objs = listing["pod"].objs
      /\ listing'["pod"] = NoListing <=> listing["pod"] = NoListing
      /\ fresh["pod"] < RefreshGap => fresh'["pod"] = fresh["pod"] + 1
  BY <1>0, TickListing
<1>2. UNCHANGED <<up, live, held, served, store, man>>
  BY DEF Tick, histVars
<1>3. ASSUME NEW s \in live \ held, Committed(s)'
      PROVE  Has(man["pod"], s) \/ commit'[s] <= fresh'["pod"]
  <2>1. s \in Segs /\ up
    BY <1>0, <1>3 DEF Types, Inv, SegInv, DownInv
  <2>2. fresh'["pod"] = fresh["pod"] + 1
    BY <1>0, <1>1, <2>1 DEF Tick, Alive, ListingMargin
  <2>3. Committed(s) /\ commit'[s] <= commit[s] + 1
    BY <1>0, <1>3, <2>1, TickAges DEF Committed
  <2>4. Types'
    BY <1>0, TypesQueries
  <2>5. commit[s] \in Int /\ commit'[s] \in Int /\ fresh["pod"] \in Nat
    BY <1>0, <2>1, <2>4, Numbers, ListingParts, SMT DEF Types
  <2>6. commit[s] <= fresh["pod"] => commit'[s] <= fresh'["pod"]
    BY ONLY <2>2, <2>3, <2>5, SMT
  <2> QED BY <1>3, <2>3, <2>6 DEF PodInv
<1>4. /\ ~up => listing["pod"] = NoListing
      /\ listing["pod"] = NoListing \/
           \A s \in Segs : Has(store, s) => Has(listing["pod"].objs, s)
      /\ up => \A s \in served \ live : Has(man["pod"], s)
  BY DEF PodInv
<1> QED BY <1>1, <1>2, <1>3, <1>4 DEF PodInv, Committed, Has

\* Every step keeps what the pod knows.
LEMMA PodStep ==
  ASSUME ListingMargin, Inv, PodInv, [Next]_vars
  PROVE  PodInv'
<1>0. Types /\ "pod" \in Readers /\ "select" # "pod"
  BY HandoffAssumption DEF Inv
<1>1. CASE Commit
  <2>1. /\ commit' = [commit EXCEPT ![marking] = 0]
        /\ UNCHANGED <<up, live, held, served, store, listing, man, fresh>>
    BY <1>1 DEF Commit, readVars, bucketVars, histVars
  <2>2. \A s \in Segs : commit'[s] = commit[s] \/ commit'[s] = 0
    BY <1>0, <2>1 DEF Types
  <2>3. 0 <= fresh["pod"]
    BY <1>0, ListingParts, SMT
  <2>4. live \subseteq Segs
    BY <1>0 DEF Types
  <2>5. \A s \in live \ held : Committed(s)' => Has(man["pod"], s) \/ commit'[s] <= fresh["pod"]
    BY <2>2, <2>3, <2>4 DEF PodInv, Committed
  <2> QED BY <2>1, <2>5 DEF PodInv, Committed, Has
<1>2. ASSUME NEW n \in Readers, StartListing(n) \/ ListingError(n) PROVE PodInv'
  <2>1. /\ listing' = [listing EXCEPT ![n] = [at |-> 0, objs |-> store]] \/
             listing' = [listing EXCEPT ![n] = NoListing]
        /\ listing' = [listing EXCEPT ![n] = [at |-> 0, objs |-> store]] => Alive(n)
                \/ listing' = [listing EXCEPT ![n] = NoListing]
        /\ UNCHANGED <<up, live, held, served, commit, store, man, fresh>>
    BY <1>2 DEF StartListing, ListingError, podVars, bucketVars, histVars
  <2>2. CASE n # "pod"
    <3>1. listing'["pod"] = listing["pod"]
      BY <1>0, <2>1, <2>2 DEF Types
    <3> QED BY <2>1, <3>1, PodFrame
  <2>3. CASE n = "pod"
    <3>1. listing'["pod"] = NoListing \/ (up /\ listing'["pod"] = [at |-> 0, objs |-> store])
      BY <1>0, <2>1, <2>3 DEF Types, Alive
    <3>2. listing'["pod"] = NoListing \/ (up /\ listing'["pod"].objs = store)
      BY <3>1, SMT
    <3> QED BY <2>1, <3>2 DEF PodInv, Committed, Has
  <2> QED BY <2>2, <2>3
<1>3. CASE Stop
  <2>1. ~up' /\ live' = {} /\ listing'["pod"] = NoListing
    BY <1>0, <1>3 DEF Stop, Types
  <2> QED BY <2>1 DEF PodInv
<1>4. CASE Restart
  <2>1. /\ up' /\ ~up /\ live' = dirs /\ served' = dirs /\ held' = Restored
        /\ UNCHANGED <<commit, listing>>
    BY <1>4 DEF Restart
  <2>2. listing["pod"] = NoListing
    BY <2>1 DEF PodInv
  <2>3. \A s \in live' \ held' : ~Committed(s)'
    BY <2>1 DEF Restored, Committed
  <2> QED BY <2>1, <2>2, <2>3 DEF PodInv
<1>5. ASSUME NEW S \in SUBSET Segs, Merge(S) PROVE PodInv'
  <2>1. /\ \A s \in S : Raw(s) \in store
        /\ store' = (store \ {Raw(s) : s \in S}) \cup {Out(S)}
        /\ UNCHANGED <<up, live, held, served, commit, listing, man, fresh>>
    BY <1>5 DEF Merge, podVars, readVars, histVars
  <2>2. Out(S)[2] = S /\ \A s \in S : s \in Raw(s)[2]
    BY ObjectsMade
  <2>3. \A o \in store' : o \in store \/ o = Out(S)
    BY <2>1
  <2>4. \A s \in Segs : Has(store', s) => Has(store, s)
    BY <2>1, <2>2, <2>3 DEF Has
  <2> QED BY <2>1, <2>4, PodFrame
<1>6. CASE ApplyOnSelect
  <2>1. /\ UNCHANGED <<up, live, held, served, commit, store>>
        /\ listing'["pod"] = listing["pod"] /\ man'["pod"] = man["pod"]
        /\ fresh'["pod"] = fresh["pod"]
    BY <1>0, <1>6 DEF ApplyOnSelect, Applied, Types, podVars, bucketVars, histVars
  <2> QED BY <2>1, PodFrame
<1>7. CASE \/ \E s \in Segs : PutMarker(s)
           \/ CommitError \/ SaveManifest
           \/ \E q \in Queries : ListFiles(q) \/ Finish(q) \/ \E n \in Asked : OpenView(q, n)
           \/ UNCHANGED vars
  <2>1. UNCHANGED <<up, live, held, served, commit, store, listing, man, fresh>>
    BY <1>7 DEF PutMarker, CommitError, SaveManifest, ListFiles, Finish, OpenView,
         vars, podVars, bucketVars, readVars, histVars
  <2> QED BY <2>1, PodFrame
<1> QED BY <1>1, <1>2, <1>3, <1>4, <1>5, <1>6, <1>7, PodReap, PodApply, PodUpload, PodTime,
          Zenon DEF Next
-----------------------------------------------------------------------------
(* Nothing hidden: the answers. *)

\* A manifest's object with rows of s stays in the scan of a query whose view lacks s.
LEMMA ListedWhole ==
  ASSUME Types, NEW q \in Queries, ListFiles(q),
         NEW s \in Segs \ query[q].view, Has(man[query[q].node], s)
  PROVE  Has(query'[q].files, s)
<1>1. query[q].node \in Readers /\ query[q].view \subseteq Segs
  BY QueryParts
<1>2. query'[q].files = {o \in man[query[q].node] : ~Excluded(o, query[q].view)}
  BY DEF ListFiles, Types, QueryType
<1>3. PICK o \in man[query[q].node] : s \in o[2]
  BY DEF Has
<1>4. o \in Objects
  BY <1>1, <1>3 DEF Types
<1>5. o[1] = s \/ o[1] = 0
  BY <1>3, <1>4, ObjectParts
<1>6. 0 \notin query[q].view
  BY <1>1, Numbers
<1> QED BY <1>2, <1>3, <1>5, <1>6 DEF Has, Excluded

\* What ListFiles keeps of a query.
LEMMA ListedQuery ==
  ASSUME Types, NEW q \in Queries, ListFiles(q)
  PROVE  /\ query[q].stage = "viewed" /\ query'[q].stage = "listed"
         /\ query'[q].node = query[q].node /\ query'[q].peer = query[q].peer
         /\ query'[q].view = query[q].view
  BY DEF ListFiles, Types, QueryType

\* What a step does to the segments a query may lack.
LEMMA SegmentChange ==
  ASSUME Types, [Next]_vars
  PROVE  /\ Stop \/ Restart \/ served' = served
         /\ Stop \/ Restart \/ live' \subseteq live
         /\ Commit \/ Tick \/ commit' = commit
<1>1. CASE ReapTick
  BY <1>1, ReapTypes DEF ReapTick, histVars
<1>2. CASE ApplyOnPod
  BY <1>2, ReapTypes DEF ApplyOnPod, histVars
<1>3. CASE Stop \/ Restart
  BY <1>3 DEF Stop, Restart
<1>4. CASE \/ \E s \in Segs : UploadObject(s) \/ PutMarker(s)
           \/ Commit \/ CommitError \/ ApplyOnSelect
           \/ \E n \in Readers : StartListing(n) \/ ListingError(n)
           \/ SaveManifest \/ Tick \/ UNCHANGED vars
           \/ \E S \in SUBSET Segs : Merge(S)
           \/ \E q \in Queries : ListFiles(q) \/ Finish(q) \/ \E n \in Asked : OpenView(q, n)
  BY <1>4 DEF UploadObject, PutMarker, Commit, CommitError, ApplyOnSelect,
       StartListing, ListingError, SaveManifest, Tick, Merge, ListFiles, Finish, OpenView,
       vars, podVars, histVars
<1> QED BY <1>1, <1>2, <1>3, <1>4 DEF Next

\* Every step keeps the pod's queries whole.
LEMMA PodAnswersStep ==
  ASSUME Inv, PodInv, PodAnswers, [Next]_vars
  PROVE  PodAnswers'
<1>0. Types
  BY DEF Inv
<1> SUFFICES ASSUME NEW q \in Queries, On(q, "pod")', NEW s \in served', s \notin query'[q].view
             PROVE  \/ query'[q].stage = "viewed" /\ s \notin live'
                    \/ query'[q].stage = "listed" /\ Has(query'[q].files, s)
  BY DEF PodAnswers, On, Has
<1>1. query'[q].stage # "idle" /\ query'[q].node = "pod"
  BY DEF On
<1>2. query'[q] # Idle
  BY <1>1, Blank
<1>3. ~Stop
  <2>1. ASSUME Stop PROVE query'[q] = IF query[q].node = "pod" THEN Idle ELSE query[q]
    BY <2>1 DEF Stop
  <2> QED BY <1>1, <1>2, <2>1
<1>4. ~Restart
  <2>1. ASSUME Restart PROVE query' = query /\ ~up
    BY <2>1 DEF Restart
  <2> QED BY <1>1, <2>1 DEF Inv, ViewInv, On
<1>5. served' = served /\ live' \subseteq live
  BY <1>0, <1>3, <1>4, SegmentChange
<1>6. ASSUME query'[q].stage = query[q].stage, query'[q].node = query[q].node,
             query'[q].view = query[q].view, query'[q].files = query[q].files
      PROVE  \/ query'[q].stage = "viewed" /\ s \notin live'
             \/ query'[q].stage = "listed" /\ Has(query'[q].files, s)
  BY <1>1, <1>5, <1>6 DEF PodAnswers, On
<1>7. CASE query'[q] = query[q]
  BY <1>6, <1>7
<1>8. CASE Tick
  BY <1>0, <1>6, <1>8, TickQuery
<1>9. CASE ListFiles(q)
  <2>1. /\ query[q].stage = "viewed" /\ query'[q].stage = "listed"
        /\ query'[q].node = query[q].node /\ query'[q].view = query[q].view
    BY <1>0, <1>9, ListedQuery
  <2>2. On(q, "pod")
    BY <1>1, <2>1 DEF On
  <2>3. s \notin live /\ s \in served /\ s \in Segs
    BY <1>0, <1>5, <2>1, <2>2 DEF PodAnswers, Types
  <2>4. Has(man["pod"], s)
    BY <2>2, <2>3 DEF PodInv, Inv, ViewInv
  <2> QED BY <1>0, <1>1, <1>9, <2>1, <2>3, <2>4, ListedWhole
<1>10. ASSUME NEW n \in Asked, OpenView(q, n) PROVE query'[q].stage = "viewed" /\ s \notin live'
  <2>1. /\ query'[q] = [stage |-> "viewed", node |-> n, at |-> 0, peer |-> up,
                        view |-> IF up THEN live ELSE {}, files |-> {}]
        /\ Alive(n)
    BY <1>0, <1>10 DEF OpenView, Types
  <2>2. query'[q].stage = "viewed" /\ query'[q].node = n /\ query'[q].view = IF up THEN live ELSE {}
    BY <2>1, SMT
  <2>3. up
    BY <1>1, <2>1, <2>2 DEF Alive
  <2> QED BY <1>5, <2>2, <2>3
<1> QED BY <1>0, <1>2, <1>7, <1>8, <1>9, <1>10, QueryChange

\* Every step keeps the queries of the select pods whole.
LEMMA SelectAnswersStep ==
  ASSUME ListingMargin, Inv, SelectInv, SelectAnswers, [Next]_vars
  PROVE  SelectAnswers'
<1>0. Types
  BY DEF Inv
<1> SUFFICES ASSUME NEW q \in Queries, On(q, "select")', query'[q].peer,
                    NEW s \in Segs, s \notin query'[q].view
             PROVE  \/ query'[q].stage = "viewed" /\ commit'[s] >= Grace
                    \/ query'[q].stage = "listed" /\ Has(query'[q].files, s)
  BY DEF SelectAnswers, On, Has
<1>1. query'[q].stage # "idle" /\ query'[q].node = "select"
  BY DEF On
<1>2. query'[q] # Idle
  BY <1>1, Blank
<1>3. commit[s] \in Int /\ Grace \in Nat
  BY <1>0, Numbers, SMT DEF Types
<1>4. commit[s] >= Grace => commit'[s] >= Grace
  <2>1. CASE Commit
    <3>1. marking \in Segs /\ commit[marking] = -1 /\ commit' = [commit EXCEPT ![marking] = 0]
      BY <1>0, <2>1 DEF Commit, Inv, SegInv, MarkingInv, Committed, NotYet, Types
    <3>2. s # marking => commit'[s] = commit[s]
      BY <1>0, <3>1 DEF Types
    <3>3. s = marking => ~(commit[s] >= Grace)
      BY <1>3, <3>1, SMT
    <3> QED BY <3>2, <3>3
  <2>2. CASE Tick
    <3>1. Types'
      BY <1>0, <2>2, TypesQueries
    <3>2. commit'[s] \in Int
      BY <3>1, Numbers, SMT DEF Types
    <3>3. commit[s] <= commit'[s]
      BY <1>0, <2>2, TickAges
    <3> QED BY ONLY <1>3, <3>2, <3>3, SMT
  <2> QED BY <1>0, <2>1, <2>2, SegmentChange
<1>5. ASSUME query'[q].stage = query[q].stage, query'[q].node = query[q].node,
             query'[q].peer = query[q].peer,
             query'[q].view = query[q].view, query'[q].files = query[q].files
      PROVE  \/ query'[q].stage = "viewed" /\ commit'[s] >= Grace
             \/ query'[q].stage = "listed" /\ Has(query'[q].files, s)
  BY <1>1, <1>4, <1>5 DEF SelectAnswers, On
<1>6. CASE query'[q] = query[q]
  BY <1>5, <1>6
<1>7. CASE Tick
  BY <1>0, <1>5, <1>7, TickQuery
<1>8. CASE ListFiles(q)
  <2>1. /\ query[q].stage = "viewed" /\ query'[q].stage = "listed"
        /\ query'[q].node = query[q].node /\ query'[q].peer = query[q].peer
        /\ query'[q].view = query[q].view
    BY <1>0, <1>8, ListedQuery
  <2>2. On(q, "select") /\ query[q].peer
    BY <1>1, <2>1 DEF On
  <2>3. commit[s] >= Grace
    BY <2>1, <2>2 DEF SelectAnswers
  <2>4. "select" \in Readers
    BY <1>0, <1>1, <2>1, QueryParts
  <2>5. fresh["select"] \in Nat /\ fresh["select"] <= RefreshGap
    BY <1>0, <2>4, ListingParts
  <2>6. Committed(s) /\ ~(commit[s] <= fresh["select"])
    BY <1>3, <2>3, <2>5, Numbers, SMT DEF Committed, NotYet, ListingMargin
  <2>7. Has(man["select"], s)
    BY <2>4, <2>6 DEF SelectInv
  <2> QED BY <1>0, <1>1, <1>8, <2>1, <2>7, ListedWhole
<1>9. ASSUME NEW n \in Asked, OpenView(q, n)
      PROVE  query'[q].stage = "viewed" /\ commit'[s] >= Grace
  <2>1. query'[q] = [stage |-> "viewed", node |-> n, at |-> 0, peer |-> up,
                     view |-> IF up THEN live ELSE {}, files |-> {}]
    BY <1>0, <1>9 DEF OpenView, Types
  <2>2. query'[q].stage = "viewed" /\ query'[q].peer = up
        /\ query'[q].view = IF up THEN live ELSE {}
    BY <2>1, SMT
  <2>3. up /\ s \notin live
    BY <2>2
  <2>4. commit[s] >= Grace
    BY <2>3 DEF Inv, SegInv, GoneInv, Gone
  <2> QED BY <1>4, <2>2, <2>4
<1> QED BY <1>0, <1>2, <1>6, <1>7, <1>8, <1>9, QueryChange

\* The initial states.
LEMMA AnswersInit ==
  Init => SelectInv /\ PodInv /\ PodAnswers /\ SelectAnswers
<1> SUFFICES ASSUME Init PROVE SelectInv /\ PodInv /\ PodAnswers /\ SelectAnswers
  OBVIOUS
<1>1. "pod" \in Readers
  BY HandoffAssumption
<1>2. /\ up /\ live = Segs /\ served = Segs
      /\ \A n \in Readers : listing[n] = NoListing /\ fresh[n] = 0
      /\ \A s \in Segs : ~Committed(s)
      /\ \A q \in Queries : query[q] = Idle
  BY DEF Init, Committed
<1>3. PodInv
  BY <1>1, <1>2 DEF PodInv
<1>4. PodAnswers /\ SelectAnswers
  BY <1>2, Blank DEF PodAnswers, SelectAnswers, On
<1>5. \A n \in Readers : listing[n].at <= fresh[n]
  BY <1>2, Blank, SMT
<1>6. SelectInv
  BY <1>2, <1>5 DEF SelectInv
<1> QED BY <1>3, <1>4, <1>6

\* A query that has an object with the rows of s counts them.
LEMMA AtLeastOne ==
  ASSUME Types, NEW q \in Queries, NEW s \in Segs,
         s \in query[q].view \/ Has(query[q].files, s)
  PROVE  Count(q, s) >= 1
<1> DEFINE F == {o \in query[q].files : s \in o[2]}
<1>1. IsFiniteSet(F)
  BY QueryParts, ObjectsFinite, FS_Subset
<1>2. Cardinality(F) \in Nat /\ (Cardinality(F) = 0 <=> F = {})
  BY <1>1, FS_CardinalityType, FS_EmptySet
<1>3. s \in query[q].view \/ F # {}
  BY DEF Has
<1> QED BY <1>2, <1>3, SMT DEF Count

\* A pod that serves its own segments answers with every row it had when it started,
\* if its listings are complete, come in time and take less than the grace
\* (PodHidesNoRow: the reap follows the refresh that has the segment's objects).
THEOREM PodAnswersAreWhole ==
  ASSUME ListingMargin
  PROVE  Spec => []PodHidesNoRow
<1>1. Init => PodInv /\ PodAnswers
  BY AnswersInit
<1>2. Inv /\ PodInv /\ PodAnswers /\ [Next]_vars => PodInv' /\ PodAnswers'
  BY PodStep, PodAnswersStep
<1>3. Inv /\ PodAnswers => PodHidesNoRow
  <2> SUFFICES ASSUME Inv, PodAnswers, NEW q \in Queries, Answers(q, "pod"), NEW s \in served
               PROVE  Count(q, s) >= 1
    BY DEF PodHidesNoRow
  <2>1. Types /\ s \in Segs
    BY DEF Inv, Types
  <2>2. On(q, "pod") /\ query[q].stage # "viewed"
    BY DEF Answers, On
  <2>3. s \in query[q].view \/ Has(query[q].files, s)
    BY <2>2 DEF PodAnswers
  <2> QED BY <2>1, <2>3, AtLeastOne
<1> QED BY <1>1, <1>2, <1>3, Invariance, PTL DEF Spec

\* A select pod whose insert pod answers has every row, under the same condition
\* (SelectHidesNoRow: a segment leaves the view only after a grace, by when the
\* select pod's manifest has its objects).
THEOREM SelectAnswersAreWhole ==
  ASSUME ListingMargin
  PROVE  Spec => []SelectHidesNoRow
<1>1. Init => SelectInv /\ SelectAnswers
  BY AnswersInit
<1>2. Inv /\ SelectInv /\ SelectAnswers /\ [Next]_vars => SelectInv' /\ SelectAnswers'
  BY SelectStep, SelectAnswersStep
<1>3. Inv /\ SelectAnswers => SelectHidesNoRow
  <2> SUFFICES ASSUME Inv, SelectAnswers, NEW q \in Queries, Answers(q, "select"), NEW s \in Segs
               PROVE  Count(q, s) >= 1
    BY DEF SelectHidesNoRow
  <2>1. Types
    BY DEF Inv
  <2>2. On(q, "select") /\ query[q].peer /\ query[q].stage # "viewed"
    BY DEF Answers, On
  <2>3. s \in query[q].view \/ Has(query[q].files, s)
    BY <2>2 DEF SelectAnswers
  <2> QED BY <2>1, <2>3, AtLeastOne
<1> QED BY <1>1, <1>2, <1>3, Invariance, PTL DEF Spec
=============================================================================
