# victoria-lakehouse in TLA+

Victoria Lakehouse keeps logs and traces as Parquet objects in an S3 bucket. Insert
pods buffer acknowledged rows on their disks and write them to objects; every pod has
a manifest that says which objects exist; compactors merge objects; deletes are keys
in the bucket that every reader applies; queries read the buffer and the objects.
None of these parts shares a lock or a clock with its peers in other pods. The
specifications here say what the parts promise each other and check it where
interleavings, crashes, lost messages and time make it hard to test.

Paths below are relative to `src/`; `PROJECT.json` maps every definition to its lines.

## The parts and their modules

| Module | Code | The question |
|---|---|---|
| `InsertBuffer` | `internal/membuffer`, `parquets3/buffer_flusher.go`, `writer.go` | Does a row survive its way from the buffer to the bucket? |
| `DurableLog` | (the promise) | What a row's life looks like from outside. |
| `ReadHandoff` | `buffer_view.go`, `membuffer/segments.go`, `manifest/segments.go` | Is a row answered by exactly one of buffer and bucket while it moves? |
| `Manifest` | `internal/manifest`, `compaction/compactor.go`, `orphan_sweep.go` | Do the manifests agree with the bucket while objects are merged and deleted? |
| `Tombstones` | `internal/delete` | Does every pod hide what was deleted, and only that? |
| `QueryScan` | `parquets3/storage_query.go`, `query_memory_budget.go`, `resourcebounds` | Is an answer complete, and does every query end? |
| `Compaction` | `compaction/planner.go`, `scheduler.go`, `backoff.go`, `fair_share.go`, `ownership.go`, `orphan_sweep.go` | Is every hour merged, each row kept once, and what may a drain count on? |

They meet at the bucket and at the manifest:

- `InsertBuffer` writes objects named after a segment's nonce and a slice, and a marker
  when a segment is complete. `ReadHandoff` takes a segment as one object and adds the
  clock: the grace for which a committed segment is still served, the listings of
  readers, the guard that keeps a merge away until twice the grace.
- `Manifest` takes flushed objects as given, and has all of a merge's steps with all of
  the bookkeeping that keeps a listing from resurrecting what a merge removed.
- `Compaction` takes a merge as two steps (read, publish) and has everything that
  decides which merge runs when.
- `Tombstones` and `QueryScan` are independent of the rest: the first of the content of
  objects, the second of who wrote them.

`MC*.tla` and `MC*.cfg` are the instances for TLC. `*Proofs`,
`QueryScanTypes` and `TombstonesUndo` hold the theorems and the lemmas they rest on.

## How the modules correspond to the code

**InsertBuffer.** `AddRow`, `SealSwap`/`SealReopen`, `Reap`, `RemoveDir` and `Restart`
are the methods of `Segments`. A drain is `drainAttempt` cut at each point where a crash
leaves a different disk or bucket: the intent in the state file (`BeginDrain`), one
`NextGroup` per group (found settled, or uploaded), the mark (`MarkStored`), the manifest
entry (`CommitFile`), the commit marker (`PutMarker`), the commit in the state file
(`RecordCommit`). Each has its error. The state file has a `.prev` mirror, and either may
be unreadable at a restart (`Loadable`); a restart may come with another target file
size, so groups that were planned for one size must be continued with it. `Merge` is
compaction, here or on another pod, which deletes objects the drain may be about to
look for. `SliceOf` keeps the slices of a segment apart; rows are numbers in time order.

**ReadHandoff.** A segment is committed, served for `Grace`, retired by the reap loop,
and removed when no query holds it. A query opens its view, lists its manifest later
(`Lag`), and excludes the objects that carry a nonce of its view (`Excluded`). The pod
answers from its own segments; a select pod reads the pod's view over the bridge and
has a manifest of its own. After a restart, committed segments are held until a
complete listing. Times are ages that stop growing where no comparison tells the
difference, so behaviours are unbounded.

**Manifest.** Per pod: tracked, retired and pending keys, the listing in flight, the
snapshot on disk. A listing is read page by page (`ReadPage`), so it can see the state of
the bucket at different moments; `Merged` and `Settled` are what `applyRefreshedFiles`
makes of it. A merge claims its output, stores it (or fails, with or without the object
in the bucket), publishes by `ReplaceFiles` under `MayReplace`, deletes its sources one
by one, and notifies the other pods by a message that may be lost, late, or applied in
two steps. `Evictions` is the cap `maxRetiredKeys`: keys known to be deleted go first,
then those whose delete nobody here owes, owed ones last; the oldest first within each.

**Tombstones.** `BeginCreate`/`PutDefinition`/`FinishCreate` and the three steps of an
undelete are an API call; `StartSync`, `List`, `Learn*`, `Apply` and the collection of
expired keys are a pod's poll loop. A key's time is the clock of the pod that wrote it; a
poll lists keys after a window, a full listing lists all. What a full listing lacks is
asked for by HEAD before it is forgotten (`Absent`). `Gate` is the read gate: closed for
everyone when the view is stale, and for a tenant whose definition is undecodable.

**QueryScan.** One `pc` per file worker, from the channel of objects through the slot,
the file budget, the gate on decoded bytes, the decoder, the filter, the row counter and
the consumer, and back through every release. The gate (`liveBytesGate`) is modelled at
its atomic operations (`TryReserve`, `Lock`, `Retry`, `Wait`, `Relock`, `Free`, `Signal`,
`Wake`), because its correctness is about their order. `RowCeilings` are row ceilings
counted in row groups, each handed on as one block.

**Compaction.** Three mergers on one manifest: the scan, a forced recompaction, and the
steal of a partition that this pod is second in line for. Plans are computed by
`Plans` (every branch of `planGroup` and `planHint`) when a scan starts and are checked
again before each merge (`CompactableNow`). The fair share takes its cursor from one
scan to the next; a failing merge waits a doubling number of scans. `draining` is read
before a merge is counted in flight, as in the code.

## The runs

Run one with `tlc -config <cfg> <module>` in this directory.

**drain** (`MCInsertBuffer.cfg`). Ingest, sealing, draining, merging and reaping, with a
crash or a failed write possible at every step and a restart with another file size.
`NoRowLost`: a segment directory that is being removed, or gone, holds no kept row that
the bucket lacks. `KeyContentStable`: no key is uploaded twice with different rows.
`StoredOnce`: no row is in two objects. `MarkerMeansComplete`, `CommittedHasMarker`: the
marker is written after the last object and before the commit. `ActiveNotCommitted`: no
new segment takes a number that a state file calls committed. `CommitNeverForgotten`: no
failed write and no fallback to the mirror takes back a commit. `ImplementsLog`: all of
this refines `DurableLog`, in which only rows that are not durable can be lost.
`EventuallyRemoved`: once outages end, every segment that stopped taking writes is written,
committed and removed.

**handoff** (`MCReadHandoff.cfg`). `PodHidesNoRow` and `SelectHidesNoRow`: an answer has
the rows of every segment. `NoRowTwice`: it has them once. `ViewStaysOpen`: the reaper
does not close a segment that a query reads, up to `RetiredHoldLimit`.
`MergedAfterRetired`: a merge takes an object only after the pod stopped serving its
segment.

**handoff_stale** (`MCReadHandoffStale.cfg`, a violation). See Findings.

**manifest** (`MCManifest.cfg`). Two merges on one pod that may choose the same sources,
with failed uploads and deletes, a listing in two pages, a cap of two retirements and a
crash. `NoRowGone`: no delete loses a row. `NoRowTwice`: the pod that merges never
tracks two objects with a row in common.

**manifest_push** (`MCManifestPush.cfg`). Two pods. `RowsKnown`: no update, lost, late or
half applied, makes a manifest lose a row that it had listed.

**manifest_live** (`MCManifestLive.cfg`). A cap of one retirement. `Converges`: after
failed deletes, dropped listings and a crash, the manifest comes to be the bucket, and no
two objects left in the bucket have a row in common: no replaced object is forgotten there.
Four cases are excused, row by row (`excused`), since nothing in the code remembers the
object: a crash before the snapshot that has its retirement, an upload that failed for the
client only, a cap that is smaller than the number of deletes that are owed (`Overflows`),
and a snapshot that evicts a key which the listing in flight has already read. An eviction while the cap has room for every owed delete is not excused, so
an eviction in the wrong order violates the property. `NoRowTwice` has the same excuses.

**tombstones** (`MCTombstones.cfg`). Two pods whose clocks differ by one unit, a task's
delete that clients create with two contents, a definition that an older version cannot
decode, and a fault. One pod has a cache of bodies, each write of which may fail without an
error. `OnlyDeletedIsHidden`: what a view holds is what the bucket has under that key, and
counts as undone only if it was undeleted. `DeletedIsHidden`: after a stale age and a sync, a pod whose gate is open hides what was deleted.
`UndoneIsVisible`: and shows what was undeleted.

**tombstones_live** (`MCTombstonesLive.cfg`). Listings that are short without an error,
expiry, collection, a removal by hand. `TypeOK` includes that what a pod takes for expired,
and may remove from the bucket, has expired. `Converges`: every view comes to be what the
bucket says. `NeverForgets`: no listing makes a pod forget a delete whose definition exists.

**tombstones_gate** (`MCTombstonesBad.cfg`, a violation). See Findings.

**query** (`MCQueryScan.cfg`). Two queries, three workers, two slots, two files, two
decoders, a gate of two bytes, an object larger than the file budget and a row group
larger than the gate. `Complete`: an answer without an error has every row group.
`NoLostWakeup`, `LiveCeiling`, `PoolsAccounted`, `CeilingOvershoot`: the limits are kept
and everything taken is returned on every path. `EveryQueryEnds`: no wait is circular.

**compaction** (`MCCompaction.cfg`). Two hours of three tenants with files of three levels
and two schemas; one merge fails on every try, one object is fenced. `RowsOnce`: no step
leaves a row in two files or takes a row, stored or merged, out of the manifest.
`MergesOnlyCompactable`: a stale plan merges nothing that it may not. `Settles`: every
closed hour that is owned ends merged, whatever fails next to it. `MovesPast`: when its budget
stops a scan before it has reached every tenant, the turn goes to a tenant that it has
not served (`scheduler.go`: "the next scan starts with the ones this scan did not reach").

**compaction_drain** (`MCCompactionDrain.cfg`, a violation). See Findings.

Deadlock is not checked: every bound, and every pod that has nothing left to do, stops a
behaviour, and in the fair runs the liveness properties say what must have happened.

### Bounds

Each is a constant of its module.

- `InsertBuffer`: `MaxSeq = 3` segments allow a sealed segment, a crash in its drain and
  the segment of the next process; two rows make a group of two or two groups, so that
  the file size matters; one merge suffices, since it takes any set of objects. Two
  tenants in one segment and rows that the flush filter drops are covered by the proofs,
  which hold for any `TenantOf` and `Dropped`.
- `ReadHandoff`: one segment (segments do not interact in a view) and one query. Grace 3,
  reap interval 1, lag 1, refresh gap 2 are the smallest numbers with
  Lag + Check + Delay + Skew < Grace and RefreshGap < Grace in which each of them matters.
  The code chooses the grace as two refresh intervals and thirty seconds (`bufferGrace`,
  `cmd/lakehouse-logs/main.go:2398`).
- `Manifest`: two flushed objects and one or two outputs: a merge and a merge of its
  output, or two that compete. A listing has two pages, so that it can straddle a publish.
  The state without history (`NoHistory`) is the view, and jobs are symmetric.
- `Tombstones`: two calls, five time units with a window of four, one fault. With clocks
  two apart `DeletedIsHidden` fails, as it must: the window covers the longest PUT and the
  difference of the clocks only up to its size.
- `QueryScan`: as above; every limit is smaller than what the workers ask for together.
- `Compaction`: two disturbances out of other failed merges, ageing, archiving, ring
  changes, forces, steals and a drain; thresholds of two files; four rows are mature.

### Fairness

- `InsertBuffer`: outages end; the process is restarted; the flusher ticks and retries
  (`BufferFlusher.tick` with bounded backoff); reap loop and refresh are periodic.
- `Manifest`: refresh timers fire; a page or an application that is possible again and
  again happens (strong fairness: `DropListing` may interfere, but not every listing
  fails); merges go on; `ReclaimRetired` retries owed deletes at every scan.
- `Tombstones`: the poll loop runs; requests end by answer or timeout; faults are finite
  (`MaxFaults`).
- `QueryScan`: goroutines run, semaphores are granted, S3 calls and consumers return. No
  fairness for a caller giving up, nor for the wakeup by its context.
- `Compaction`: the ticker fires, goroutines run, S3 calls return, the ring settles.

## Findings

**handoff_stale.** After a crash between an upload and the manifest entry, the next drain
finds the object by HEAD and commits the segment without an entry of its own
(`buffer_flusher.go:1224`), although `membuffer/segments.go:393` says that a commit
"records that every object of g is stored and in the manifest". Only segments restored as
committed wait for a listing. If none is complete for a grace, the segment is retired
while the pod's manifest lacks its object, and local queries miss its rows until the next
complete listing.

**tombstones_gate.** A definition whose read failed once stays in `bad` until it is decoded
or not found (`internal/delete/protocol.go:736`). If it turns out to be undecodable, every
later sync is incomplete, the view goes stale and the gate closes for every tenant;
`protocol.go:30` says that an undecodable definition closes it "only for the tenants it
names".

**compaction_drain.** `compaction/scheduler.go:278` says "After Drain returns, no new
partitions will be started". `draining` is read (`:493`) before the merge is counted in
flight (`:579`), so a scan that has passed the check begins its merge after `Drain` has seen
a count of zero and returned.  A forced recompaction reads `draining` only when it starts,
and goes on to its further groups.

Met while modelling, and not stated as runs:

- A query that reaches its ceiling on its last object answers without an error, where the
  comments around `storage_query.go:585` speak of a reported stop.
- The fair share keeps an index into a list of tenants that changes between scans
  (`fair_share.go`), so a tenant can be passed over once when the list has changed;
  `MovesPast` is about scans with the same list, and `Settles` holds nevertheless.
- The plan backoff has no effect when the interval is at least its cap of one hour.

## What is proved

`tlapm <module>.tla` checks the proofs. They hold for every value of the constants that
satisfies the module's named assumption (finite sets, positive limits, positive sizes),
which TLC evaluates in every run. In the modules that begin with `USE Zenon`, leaves are
Zenon's, and the few that need arithmetic or records name SMT.

**InsertBuffer.** `IInv` is inductive (`Invariance`), and with it hold `TypeOK`,
`NoRowLost`, `KeyContentStable`, `MarkerMeansComplete`, `CommittedHasMarker`,
`ActiveNotCommitted` and `CommitNeverForgotten`. What has to be added to them is the link
between three places: what a state file that a restart may read says
(`RecordsInv`, `ThroughInv`), what is on disk (`DirInv`, `SyncInv`), and how far the drain
at hand has come (`FlushInv`, `DrainInv`, `PutsInv`, `MarksInv`). A segment is called
committed only after its marker, a marker is written only after the last object, and an
intent that was recorded fixes the plan that a resumed drain must follow, which is why a
key is never stored with other rows. The second part of the module adds where each
row is (`RowsInv`, `OwnInv`, `FreshInv`), from which `StoredOnce` follows, and proves the refinement of
`DurableLog` (`LogIsImplemented`): initial states map to initial states, and each of the
actions maps to a step of the log or to a stutter.

**ReadHandoff.** The inductive invariant follows a segment through its life: still
written, marked, retired, gone (`SegInv`), says what the bucket holds at each stage
(`StoreInv`) and what a query holds (`ViewInv`). It needs no relation between the times,
and gives `TypeOK` and `ViewStaysOpen`. The others state the relation they need:
`ReleaseMargin` (Check + Delay + Skew < Grace) for `MergedAfterRetired`; `ViewMargin` (the
same with Lag) for `NoRowTwice`; `ListingMargin` (no stale listings, RefreshGap < Grace)
for `PodHidesNoRow` and `SelectHidesNoRow`. The last is the relation that the run
handoff_stale breaks.

**Manifest.** `TypeOK` (a key is never tracked and retired) and `NoRowGone`. The invariant
of the latter says that every flushed row is in a stored object that nobody may delete: one that is
neither a source of a publish that has happened nor the output of a merge that has not
been published. Objects are written once, and each job knows the rows of its sources. A
merge may be refused, repeated or raced by another with the same sources; the clause that
carries the proof orders the outputs, so that "merged into" has no cycle.

`RowsServedOnce` proves `NoRowTwice` when one pod runs all merges of the partition
(`OneMerger`), as in the runs; the other pods flush, list and delete. That the manifest
has no row twice is not inductive, because a listing replaces the manifest. `OnceInv`
says it of three sets: the manifest, its snapshot, and everything that a listing applied
now, or one that begins now, may adopt (`Adoptable`). It stays true because a retirement is
forgotten only when neither the bucket nor the listing in flight has the object, or its
rows are excused (`Condemned`, `Listed`), because the sources of a running merge are
not deleted behind its back (`SourcesLeft`), and because a row is in no second object
before its flush is over (`Flushed`).

**Tombstones.** `TypeOK` and `NeverForgets` follow from `Base`: types, one body for each
key, and times that stay within the clocks. No theorem needs a body to be cached: a write
to the cache may fail. `OnlyDeletedIsEnforced` proves `OnlyDeletedIsHidden` with
`OriginInv`: every body in a view, a cache or an answered call is in the bucket, and
whatever makes a pod take a definition for undone has an undo key there. `DeletedIsHidden` needs the protocol's argument (`HideInv`). A key carries the
clock of its writer and lands at most `PutMax` later, so a poll that starts at the last
one less the window cannot miss it (`Timely`). Hence a finished poll has learned every
delete that was answered before it began (`ListedInv`, `LearnedInv`, `PolledInv`), and a
fresh view serves every delete older than a stale age and a sync (`ServedInv`), or its
tenant's gate is closed because the body cannot be read (`PodFlag`). `DeletesAreHidden`
states what this rests on: `WindowMargin` (the overlap of two polls covers the longest PUT
and the difference of two clocks), listings that lack nothing, and `OneKeyTime` (all
creates answered for an id have one key time). The last excludes an id that is created
again with a later time, where the newer definition replaces the older one until a listing
has both; the ids of the API are UUIDs created once, and a task's id states its time.
With clocks two units apart instead of one, TLC finds the violation that `WindowMargin`
excludes.

`UndosAreVisible` (`TombstonesUndo`) is the same for undeletes. Its invariant (`UndoInv`)
says that the undo key of a definition is written when every create of that definition has
ended by every clock (`Late`), so that no poll finds the definition again after the undo
key has left the overlap; and that a pod which has polled the undo has applied it
(`Applied`): it counts an earlier definition of the id, or has marked the entry undone, or
has no entry and keeps the undo in `undoSeen` until the definition comes. It rests on
`WindowMargin`, on listings that lack nothing, and on `OneUndoneTime`: no create of an
undeleted id was answered with another key time.

**QueryScan.** Counters are sums over workers, which are stated as cardinalities of sets
with one element per unit held. `QueryScanTypes` proves types that allow counters below
zero, where a worker may be with what (`Locals`), and what the pools are charged
(`Counts`); `QueryScanProofs` adds the gate's bytes (`LiveInv`), the file budget
(`BytesInv`), the row ceiling (`CeilingInv`) and the wakeups (`GateInv`), and concludes
`TypeOK` with counters that are naturals, `PoolsAccounted`, `LiveCeiling`,
`CeilingOvershoot` and `NoLostWakeup`. `Complete` rests on an invariant of its own: while
nothing has failed, been given up or been cut short, a row group is taken, or its object
is still in the channel, or a worker still has it before it.

**Compaction.** `IInv` says that every plan has files of one schema, that a merger which
has chosen files still has their plan, that the manifest is finite, and that no row is in
two files; `RowsOnce` and the action property `MergesOnlyCompactable` follow,
for any policy and any failures.

## Only model-checked, and why

- Liveness (`EventuallyRemoved`, both `Converges`, `EveryQueryEnds`, `Settles`): temporal
  reasoning under fairness is outside the prover's reach.
- `MovesPast` (Compaction): it is about the rank of a tenant in a set, modulo the size of
  the set, which would need an induction over the tenants served.
- `RowsKnown` (Manifest): it needs what every listing in flight has read of every page,
  relative to every publish and every half-applied push since it began; `manifest_push`
  checks it on all interleavings of a merge, its push and the listings of two pods.
- The violations are of instances, and are found by TLC.

## Abstractions, and what is not modelled

`PROJECT.json` lists every part with its status. Within the modelled ones:

- **InsertBuffer**: the flush filter is the same before and after a restart; nonces are not
  released after seven days. The checks before an upload and the PUT are one step, where
  the code looks at the manifest again before it encodes the rows (`writer.go:207`); a PUT of a
  dead process that lands after the restart, which the code accepts as a residual case
  (`buffer_flusher.go:83`), is not modelled. When the key was retired during the PUT,
  `CommitFile` leaves it out of the manifest; that the retirement is recorded as owed a
  delete again (`writer.go:277`) is left out, as deletes are not modelled here.
- **ReadHandoff**: an object is released by the age of its marker; the release after seven
  days whatever the marker (`manifest/segments.go:97`) is left out; local queries right after a restart may miss objects until the first
  refresh (`served` says from when on a pod answers); the residual cases that the design
  document accepts are marked `early` and `excused`.
- **Manifest**: one partition of one tenant, no age limit of retirements, no retention
  (which deletes first and then drops the entry), no `Hold`, `Unretire`, `ReplaceFile` or
  `ExpectInListing`; the shrink rule and partial listings are listings that are dropped.
  The keys of an update are removed in one step, where the handler removes them one by one
  (`handlers.go:144`); a merged object has all rows of its sources, where `mergeLogFiles`
  leaves out rows that have the shape of traces (`compactor.go:587`).
  Between a publish and the delete of the sources, readers on other pods may see both
  (`docs/open-parquet-format.md:312`).
- **Tombstones**: the budget of HEAD requests appears as HEADs that fail; `Caching` is the
  set of pods with a cache volume, and a restart may lose it; `Apply` confirms an absence
  and forgets the definition in one step, by key, where the code forgets by id
  (`protocol.go:866`); an undecodable body always names its tenant, where one that names
  none closes the gate for every tenant (`protocol.go:362`); the run
  tombstones has full listings only at the start, after a restart and after a gap, so that
  its polls are of the window, and the other two have only full ones; no fallback for buckets without conditional
  writes; calls do not overlap in the runs; the batch size of the collection and the wait
  of the gate at startup are left out.
- **QueryScan**: objects and row groups are already selected; the timestamp-only path, the
  recovery from a 404 (`storage_query.go:597`) and the process-wide row bound are left out;
  what a worker holds at the end of an object is given back in one step, by `EndObject`; an answer after a
  recovered panic of a consumer is exempt from `Complete`.
- **Compaction**: the tenant of the fair share and the group of a plan are one set
  (`planner.go:188` derives the tenant from the group's prefix); `MinAge` and the ring-thrash gate only delay and are left out; the size
  of an output is the sum of its inputs' rows; one pod, so that two pods that steal the
  same partition, which `docs/architecture/roles.md` allows, do not occur.
- Encoding, filters, blooms, caches, statistics, HTTP and configuration are data or I/O
  around these parts. The traces module repeats the logs storage for trace rows.
