----------------------------- MODULE Tombstones -----------------------------
(***************************************************************************)
(* The deletes of one signal: write-once keys in the bucket, and the view  *)
(* that each pod builds of them by listing (internal/delete).  A           *)
(* definition says what is deleted, an undo key says that one definition   *)
(* no longer counts.  A key carries the clock of the pod that wrote it and *)
(* a poll lists only the recent keys, so a view can be late.  The read     *)
(* gate refuses the reads of a pod whose view is too old.                  *)
(*                                                                         *)
(* Time is the number `now'; the clock of pod p shows now + Skew[p].  The  *)
(* content of a definition is its mode; its tenant and the time at which   *)
(* retention makes it needless are functions of its id.  A pod that is     *)
(* down is one that takes no step before its Restart.                      *)
(***************************************************************************)
EXTENDS Integers

CONSTANTS
    Pods,
    Calls,         \* API calls in progress at once
    Ids,           \* the ids of deletes
    Tenants,
    TenantOf,      \* id -> the tenant it deletes for
    TaskTime,      \* id -> the time the id itself states, or NoTime
    ExpiresAt,     \* id -> the clock after which retention has removed its rows
    Modes,         \* the modes clients ask for
    ByHand,        \* ids whose definitions an operator may remove by hand
    Newer,         \* ids that only pods of a newer version write
    Skew,          \* pod -> its clock minus the time
    PutMax,        \* longest time from taking a key time to the end of its PUT
    SyncMax,       \* syncTimeout
    Window,        \* pollWindow
    FullEvery,     \* time between two full listings
    Stale,         \* age from which a view is stale
    Pollers,       \* pods that sync in this instance
    Caching,       \* pods with a cache directory
    Maintenance,   \* pods that collect the keys of expired deletes
    ShortLists,    \* TRUE: a listing may be short without an error
    MaxNow,        \* bound on the time
    MaxCalls,      \* bound on the creates and undeletes
    MaxFaults      \* bound on failed requests, short listings and restarts

NoTime == -100

ASSUME TombstonesAssumption ==
    /\ TenantOf \in [Ids -> Tenants]
    /\ TaskTime \in [Ids -> Nat \cup {NoTime}]
    /\ ExpiresAt \in [Ids -> Nat]
    /\ Modes \subseteq {"hide", "permanent"} /\ Newer \subseteq Ids /\ ByHand \subseteq Ids
    /\ Skew \in [Pods -> Int]
    /\ {PutMax, SyncMax, Window, FullEvery, Stale, MaxNow, MaxCalls, MaxFaults} \subseteq Nat
    /\ Pollers \subseteq Pods /\ Caching \subseteq Pods /\ Maintenance \subseteq Pods
    /\ ShortLists \in BOOLEAN

VARIABLES
    now,
    \* The bucket.
    defs,      \* definitions [id, at, mode]
    undos,     \* undo keys [id, def, at]: def is the key time of the definition
    \* The pods.
    view,      \* pod -> id -> the entry of TombstoneStore.byID, or NoEntry
    cache,     \* pod -> the definitions in its bodyCache
    sync,      \* pod -> the sync in progress, or NoSync
    proto,     \* pod -> its protocol struct
    call,      \* call -> the API call in progress, or NoCall
    calls,     \* how many were made
    faults,
    \* History.
    acked,     \* [def, at]: definitions in force at an answer to a client, and when
    undone     \* [key, at]: definitions whose undo was answered, and when

bucketVars == <<defs, undos>>
podVars    == <<view, cache, sync, proto>>
histVars   == <<acked, undone>>
vars == <<now, bucketVars, podVars, call, calls, faults, histVars>>

Clock(p) == now + Skew[p]

KeyOf(d) == <<d.id, d.at>>
KeysOf(D) == {KeyOf(d) : d \in D}
UndoneKey(u) == <<u.id, u.def>>
Decodable(d) == d.id \notin Newer

Entry(d) == [at |-> d.at, mode |-> d.mode, undone |-> FALSE]
NoEntry  == [at |-> NoTime, mode |-> "none", undone |-> FALSE]
Known(p, id) == view[p][id] # NoEntry
KnownKeys(p) == {<<id, view[p][id].at>> : id \in {i \in Ids : Known(p, i)}}

\* defs and undos are the keys in the bucket when the listing starts, then the keys
\* it lists; retried are the keys an earlier sync could not read.
NoSync == [stage |-> "off", t0 |-> 0, began |-> 0, full |-> FALSE,
           defs |-> {}, undos |-> {}, retried |-> {}, todo |-> {}]

\* closed is the copy of unreadable that Gate reads.
NoProto == [lastGood |-> NoTime, lastList |-> NoTime, lastFull |-> NoTime, bad |-> {},
            unreadable |-> {}, closed |-> {}, undoSeen |-> {}, gone |-> {}, seeded |-> {},
            expired |-> {}]

NoCall == [op |-> "none"]

\* put and remove of bodyCache: a failure is ignored, and a pod may have no cache.
CacheBecomes(p, bodies) ==
    \/ UNCHANGED cache
    \/ p \in Caching /\ cache' = [cache EXCEPT ![p] = bodies]

NewCall(c) == call[c] = NoCall /\ calls < MaxCalls /\ calls' = calls + 1
Fault == faults < MaxFaults /\ faults' = faults + 1

Init ==
    /\ now = 0
    /\ defs = {} /\ undos = {}
    /\ view = [p \in Pods |-> [id \in Ids |-> NoEntry]]
    /\ cache = [p \in Pods |-> {}]
    /\ sync = [p \in Pods |-> NoSync]
    /\ proto = [p \in Pods |-> NoProto]
    /\ call = [c \in Calls |-> NoCall]
    /\ calls = 0 /\ faults = 0
    /\ acked = {} /\ undone = {}

-----------------------------------------------------------------------------
(* Create. *)

\* The key time is the time a task id states, or the clock of the pod.
KeyTime(p, id) == IF TaskTime[id] # NoTime THEN TaskTime[id] ELSE Clock(p)

\* The PUT of a task starts, and ends, within PutMax of the task's own time.
InTime(id) == TaskTime[id] # NoTime => now \in TaskTime[id] .. TaskTime[id] + PutMax

\* An id that is not in the view is created.
BeginCreate(c, p, id, mode) ==
    /\ NewCall(c)
    /\ id \notin Newer
    /\ InTime(id)
    /\ ~Known(p, id)
    /\ call' = [call EXCEPT ![c] =
           [op |-> "create", pod |-> p, def |-> [id |-> id, at |-> KeyTime(p, id), mode |-> mode],
            began |-> IF TaskTime[id] # NoTime THEN TaskTime[id] ELSE now]]
    /\ UNCHANGED <<now, bucketVars, podVars, faults, histVars>>

\* sameOrExists: a create of an id that is in the view with the same content and not
\* undone succeeds; any other is refused.
CreateKnown(p, id) ==
    LET d == [id |-> id, at |-> view[p][id].at, mode |-> view[p][id].mode] IN
    /\ Known(p, id)
    /\ ~view[p][id].undone
    /\ \A a \in acked : a.def # d
    /\ acked' = acked \cup {[def |-> d, at |-> now]}
    /\ UNCHANGED <<now, bucketVars, podVars, call, calls, faults, undone>>

\* Mutant: a PUT whose condition fails counts as this create's.
MutPutDefinition(c) ==
    LET d == call[c].def IN
    /\ call[c].op = "create"
    /\ defs' = IF KeyOf(d) \in KeysOf(defs) THEN defs ELSE defs \cup {d}
    /\ call' = [call EXCEPT ![c].op = "created"]
    /\ UNCHANGED <<now, undos, podVars, calls, faults, histVars>>

\* PutIfAbsent; a key that exists is read, and refused when its content is another.
PutDefinition(c) ==
    LET d    == call[c].def
        same == {e \in defs : KeyOf(e) = KeyOf(d)}
    IN  /\ call[c].op = "create"
        /\ defs' = IF same = {} THEN defs \cup {d} ELSE defs
        /\ call' = [call EXCEPT ![c] = IF same \subseteq {d} THEN [@ EXCEPT !.op = "created"] ELSE NoCall]
        /\ UNCHANGED <<now, undos, podVars, calls, faults, histVars>>

\* The PUT, or the read after it, fails; the key may have been written.
PutDefinitionError(c) ==
    LET d == call[c].def IN
    /\ call[c].op = "create"
    /\ Fault
    /\ \/ UNCHANGED defs
       \/ KeyOf(d) \notin KeysOf(defs) /\ defs' = defs \cup {d}
    /\ call' = [call EXCEPT ![c] = NoCall]
    /\ UNCHANGED <<now, undos, podVars, calls, histVars>>

\* The entry replaces whatever the view has under the id by now.
FinishCreate(c) ==
    LET d == call[c].def
        p == call[c].pod
    IN  /\ call[c].op = "created"
        /\ CacheBecomes(p, cache[p] \cup {d})
        /\ view' = [view EXCEPT ![p][d.id] = Entry(d)]
        /\ acked' = acked \cup {[def |-> d, at |-> now]}
        /\ call' = [call EXCEPT ![c] = NoCall]
        /\ UNCHANGED <<now, bucketVars, sync, proto, calls, faults, undone>>

\* A pod of a newer version writes a definition that this version cannot decode.
CreateNewer(id) ==
    LET d == [id |-> id, at |-> IF TaskTime[id] # NoTime THEN TaskTime[id] ELSE now, mode |-> "newer"] IN
    /\ id \in Newer
    /\ InTime(id)
    /\ \A e \in defs : e.id # id
    /\ defs' = defs \cup {d}
    /\ acked' = acked \cup {[def |-> d, at |-> now]}
    /\ UNCHANGED <<now, undos, podVars, call, calls, faults, undone>>

-----------------------------------------------------------------------------
(* Undelete.  A pod that does not know the id runs a sync first: StartSync. *)

\* Mutant: an undo key carries the time of its definition.
MutUndoTime(p, id) == view[p][id].at

\* An undo key carries the time of the undelete, so that a poll lists it.
UndoTime(p, id) == Clock(p)

BeginUndelete(c, p, id) ==
    /\ NewCall(c)
    /\ Known(p, id)
    /\ view[p][id].mode = "hide"
    /\ call' = [call EXCEPT ![c] =
           [op |-> "undo", pod |-> p, began |-> now,
            undo |-> [id |-> id, def |-> view[p][id].at, at |-> UndoTime(p, id)]]]
    /\ UNCHANGED <<now, bucketVars, podVars, faults, histVars>>

PutUndo(c) ==
    /\ call[c].op = "undo"
    /\ undos' = undos \cup {call[c].undo}
    /\ call' = [call EXCEPT ![c].op = "undone"]
    /\ UNCHANGED <<now, defs, podVars, calls, faults, histVars>>

PutUndoError(c) ==
    /\ call[c].op = "undo"
    /\ Fault
    /\ undos' \in {undos, undos \cup {call[c].undo}}
    /\ call' = [call EXCEPT ![c] = NoCall]
    /\ UNCHANGED <<now, defs, podVars, calls, histVars>>

\* applyUndo for the definitions of the keys: an undo binds to one definition key,
\* and counts only for hide mode.
ApplyUndo(v, keys) ==
    [id \in Ids |-> IF <<id, v[id].at>> \in keys /\ v[id].mode = "hide"
                    THEN [v[id] EXCEPT !.undone = TRUE] ELSE v[id]]

FinishUndelete(c) ==
    LET k == UndoneKey(call[c].undo)
        p == call[c].pod
    IN  /\ call[c].op = "undone"
        /\ view' = [view EXCEPT ![p] = ApplyUndo(@, {k})]
        /\ undone' = undone \cup {[key |-> k, at |-> now]}
        /\ call' = [call EXCEPT ![c] = NoCall]
        /\ UNCHANGED <<now, bucketVars, cache, sync, proto, calls, faults, acked>>

-----------------------------------------------------------------------------
(* Sync. *)

\* A listing is full when there was none, when the last one started too long ago for
\* the window, and when a full one is due.
IsFull(p) ==
    \/ proto[p].lastList = NoTime
    \/ Clock(p) - proto[p].lastList > Window \div 2
    \/ Clock(p) - proto[p].lastFull >= FullEvery

\* Start forces full listings until a sync is complete.
StartSync(p, forceFull) ==
    /\ sync[p] = NoSync
    /\ forceFull => proto[p].lastGood = NoTime
    /\ sync' = [sync EXCEPT ![p] =
           [NoSync EXCEPT !.stage = "list", !.t0 = Clock(p), !.began = now,
                          !.full = forceFull \/ IsFull(p), !.defs = defs, !.undos = undos]]
    /\ UNCHANGED <<now, bucketVars, view, cache, proto, call, calls, faults, histVars>>

InWindow(p, keys) == {k \in keys : sync[p].full \/ k.at >= sync[p].t0 - Window}

\* Mutant: an id that is known is not read again.
MutNeed(p, D) == {d \in D : KeyOf(d) \notin proto[p].gone /\ ~Known(p, d.id)}

\* What learnDefinitions reads: not known, not expired, and no earlier definition of
\* the id known.
Need(p, D) ==
    {d \in D : /\ KeyOf(d) \notin proto[p].gone
               /\ Known(p, d.id) => d.at < view[p][d.id].at}

\* ListAfter with the keys D and U as its answer.
ListAfter(p, D, U) ==
    /\ sync[p].stage = "list"
    /\ sync' = [sync EXCEPT ![p] =
           [@ EXCEPT !.stage = "learn", !.defs = D, !.undos = U, !.retried = proto[p].bad,
                     !.todo = Need(p, D \cup proto[p].bad)]]
    /\ UNCHANGED <<now, bucketVars, view, cache, proto, call, calls, histVars>>

\* A key that is written or removed while the listing runs may be in it or not.
Listings(p, before, after) ==
    {K \in SUBSET InWindow(p, before \cup after) : InWindow(p, before \cap after) \subseteq K}

List(p) ==
    /\ \E D \in Listings(p, sync[p].defs, defs), U \in Listings(p, sync[p].undos, undos) :
           ListAfter(p, D, U)
    /\ UNCHANGED faults

\* A listing that lacks any keys, without an error.
ListShort(p) ==
    /\ ShortLists
    /\ Fault
    /\ \E D \in SUBSET InWindow(p, defs), U \in SUBSET InWindow(p, undos) : ListAfter(p, D, U)

\* The listing fails, or the sync has timed out when the definitions are read.
SyncError(p) ==
    /\ \/ sync[p].stage = "list"
       \/ sync[p].stage = "learn" /\ sync[p].todo = {}
    /\ Fault
    /\ sync' = [sync EXCEPT ![p] = NoSync]
    /\ UNCHANGED <<now, bucketVars, view, cache, proto, call, calls, histVars>>

\* A definition is read from the cache or the bucket.  It enters the view unless an
\* earlier one of its id is there by now, and an undo key that waited for it applies.
LearnDefinition(p, d) ==
    LET waits == {KeyOf(d)} \cap proto[p].undoSeen
        wins  == Known(p, d.id) => d.at <= view[p][d.id].at
    IN  /\ sync[p].stage = "learn"
        /\ d \in sync[p].todo
        /\ d \in defs \cup cache[p]
        /\ Decodable(d)
        /\ sync' = [sync EXCEPT ![p].todo = @ \ {d}]
        /\ CacheBecomes(p, cache[p] \cup {d})
        /\ view' = IF wins THEN [view EXCEPT ![p] = ApplyUndo([@ EXCEPT ![d.id] = Entry(d)], waits)] ELSE view
        /\ proto' = [proto EXCEPT ![p] =
               [proto[p] EXCEPT !.bad = @ \ {d}, !.unreadable = @ \ {KeyOf(d)},
                                !.undoSeen = IF wins THEN @ \ waits ELSE @,
                                !.seeded = IF wins THEN @ \ {KeyOf(d)} ELSE @]]
        /\ UNCHANGED <<now, bucketVars, call, calls, faults, histVars>>

\* markUnreadable: the definition is read and cannot be decoded.  A cached body that
\* cannot be decoded is read again from the bucket, so the model does not cache it.
LearnUnreadable(p, d) ==
    /\ sync[p].stage = "learn"
    /\ d \in sync[p].todo
    /\ d \in defs
    /\ ~Decodable(d)
    /\ sync' = [sync EXCEPT ![p].todo = @ \ {d}]
    /\ proto' = [proto EXCEPT ![p].unreadable = @ \cup {KeyOf(d)}]
    /\ UNCHANGED <<now, bucketVars, view, cache, call, calls, faults, histVars>>

\* Listed and removed since: nothing to enforce.
LearnGone(p, d) ==
    /\ sync[p].stage = "learn"
    /\ d \in sync[p].todo
    /\ d \notin defs \cup cache[p]
    /\ sync' = [sync EXCEPT ![p].todo = @ \ {d}]
    /\ proto' = [proto EXCEPT ![p].bad = @ \ {d}]
    /\ UNCHANGED <<now, bucketVars, view, cache, call, calls, faults, histVars>>

\* markBad: the read fails, and the next sync tries again.
LearnError(p, d) ==
    /\ sync[p].stage = "learn"
    /\ d \in sync[p].todo
    /\ d \notin cache[p]
    /\ Fault
    /\ sync' = [sync EXCEPT ![p].todo = @ \ {d}]
    /\ proto' = [proto EXCEPT ![p].bad = @ \cup {d}]
    /\ UNCHANGED <<now, bucketVars, view, cache, call, calls, histVars>>

\* The keys of the view, and the cached ones a restart began with, that a listing does
\* not have.
Unlisted(p) == (KnownKeys(p) \cup proto[p].seeded) \ KeysOf(sync[p].defs)

\* Mutant: what a listing lacks is taken for removed.
MutAbsent(p) == IF sync[p].full THEN Unlisted(p) ELSE {}

\* confirmAbsent asks the bucket, after a full listing, which of them do not exist.
Absent(p) == IF sync[p].full THEN Unlisted(p) \ KeysOf(defs) ELSE {}

\* Mutant: a sync that could not read a definition counts as complete.
MutEnded(p, q) ==
    [q EXCEPT !.lastList = sync[p].t0, !.closed = q.unreadable, !.lastGood = now]

\* The end of a sync: the view is complete when every definition was read.
Ended(p, q) ==
    [q EXCEPT !.lastList = sync[p].t0, !.closed = q.unreadable,
              !.lastGood = IF q.bad = {} THEN now ELSE @]

\* Mutant: a delete expires in the instant retention ends.
MutExpired(p, k) == sync[p].t0 >= ExpiresAt[k[1]]

Expired(p, k) == sync[p].t0 > ExpiresAt[k[1]]

\* learnUndos, confirmAbsent (a key whose HEAD fails is kept), what a full listing
\* prunes, and sweepExpired; gc follows on a maintenance pod.
Apply(p) ==
    LET s      == sync[p]
        keys   == {UndoneKey(u) : u \in s.undos}
        listed == KeysOf(s.defs)
        seen   == proto[p].undoSeen \cup (keys \ KnownKeys(p))
        gone   == IF s.full THEN proto[p].gone \cap listed ELSE proto[p].gone
        wanted == KeysOf(s.defs \cup s.retried) \ gone
        gc     == s.full /\ p \in Maintenance
    IN  /\ s.stage = "learn"
        /\ s.todo = {}
        /\ \E drop \in SUBSET Absent(p) :
             LET kept  == KnownKeys(p) \ drop
                 swept == {k \in kept : Expired(p, k)}
                 q     == [proto[p] EXCEPT
                     !.seeded     = IF s.full THEN @ \ (listed \cup drop) ELSE @,
                     !.gone       = gone \cup swept,
                     !.unreadable = IF s.full THEN @ \cap listed ELSE @,
                     !.undoSeen   = IF s.full THEN seen \cap (kept \cup wanted) ELSE seen,
                     !.lastFull   = IF s.full THEN s.t0 ELSE @,
                     !.expired    = IF p \in Maintenance
                                    THEN swept \cup {k \in @ : \A j \in swept : j[1] # k[1]} ELSE @]
             IN  /\ IF drop = Absent(p) THEN UNCHANGED faults ELSE Fault
                 /\ view' = [view EXCEPT ![p] = [id \in Ids |->
                       IF <<id, @[id].at>> \in kept \ swept THEN ApplyUndo(@, keys)[id] ELSE NoEntry]]
                 /\ CacheBecomes(p, {d \in cache[p] : KeyOf(d) \notin drop})
                 /\ proto' = [proto EXCEPT ![p] = IF gc THEN q ELSE Ended(p, q)]
        /\ sync' = [sync EXCEPT ![p] = IF gc THEN [@ EXCEPT !.stage = "gc"] ELSE NoSync]
        /\ UNCHANGED <<now, bucketVars, call, calls, histVars>>

\* gc: the listed undo keys of an expired definition first, the definition last.
GcUndo(p, u) ==
    /\ sync[p].stage = "gc"
    /\ UndoneKey(u) \in proto[p].expired
    /\ u \in sync[p].undos \cap undos
    /\ undos' = undos \ {u}
    /\ UNCHANGED <<now, defs, podVars, call, calls, faults, histVars>>

GcDefinition(p, k) ==
    /\ sync[p].stage = "gc"
    /\ k \in proto[p].expired
    /\ \A u \in sync[p].undos \cap undos : UndoneKey(u) # k
    /\ defs' = {d \in defs : KeyOf(d) # k}
    /\ CacheBecomes(p, {d \in cache[p] : KeyOf(d) # k})
    /\ proto' = [proto EXCEPT ![p] = [proto[p] EXCEPT !.expired = @ \ {k}, !.gone = @ \ {k}]]
    /\ UNCHANGED <<now, undos, view, sync, call, calls, faults, histVars>>

\* What a failed DELETE leaves is for the next full listing.
EndGc(p) ==
    /\ sync[p].stage = "gc"
    /\ IF proto[p].expired = {} THEN UNCHANGED faults ELSE Fault
    /\ proto' = [proto EXCEPT ![p] = Ended(p, @)]
    /\ sync' = [sync EXCEPT ![p] = NoSync]
    /\ UNCHANGED <<now, bucketVars, view, cache, call, calls, histVars>>

-----------------------------------------------------------------------------
(* Restarts and time. *)

\* Attach and seed: the cached definitions, if the volume is still there, are in
\* force at once; of two with one id the directory's order decides.
Restart(p) ==
    /\ Fault
    /\ \E kept \in {cache[p], {}} :
         /\ \E v \in [Ids -> {Entry(d) : d \in kept} \cup {NoEntry}] :
               /\ \A id \in Ids :
                     LET own == {Entry(d) : d \in {e \in kept : e.id = id}} IN
                     IF own = {} THEN v[id] = NoEntry ELSE v[id] \in own
               /\ view' = [view EXCEPT ![p] = v]
         /\ cache' = [cache EXCEPT ![p] = kept]
         /\ proto' = [proto EXCEPT ![p] = [NoProto EXCEPT !.seeded = KeysOf(kept)]]
    /\ sync' = [sync EXCEPT ![p] = NoSync]
    /\ call' = [c \in Calls |-> IF call[c] # NoCall /\ call[c].pod = p THEN NoCall ELSE call[c]]
    /\ UNCHANGED <<now, bucketVars, calls, histVars>>

\* An operator removes a definition by hand.
RemoveByHand(d) ==
    /\ d.id \in ByHand
    /\ Fault
    /\ defs' = defs \ {d}
    /\ UNCHANGED <<now, undos, podVars, call, calls, histVars>>

\* Time passes; a PUT ends within PutMax and a sync within SyncMax.
Tick ==
    /\ now < MaxNow
    /\ \A c \in Calls : call[c] # NoCall => now < call[c].began + PutMax
    /\ \A p \in Pods : sync[p] # NoSync => now < sync[p].began + SyncMax
    /\ now' = now + 1
    /\ UNCHANGED <<bucketVars, podVars, call, calls, faults, histVars>>

-----------------------------------------------------------------------------

CreateStep ==
    \/ \E c \in Calls, p \in Pods, id \in Ids, mode \in Modes : BeginCreate(c, p, id, mode)
    \/ \E p \in Pods, id \in Ids : CreateKnown(p, id)
    \/ \E c \in Calls : PutDefinition(c) \/ PutDefinitionError(c) \/ FinishCreate(c)
    \/ \E id \in Ids : CreateNewer(id)

UndeleteStep ==
    \/ \E c \in Calls, p \in Pods, id \in Ids : BeginUndelete(c, p, id)
    \/ \E c \in Calls : PutUndo(c) \/ PutUndoError(c) \/ FinishUndelete(c)

LearnStep(p) ==
    \E d \in sync[p].todo : LearnDefinition(p, d) \/ LearnUnreadable(p, d) \/ LearnGone(p, d)

GcStep(p) ==
    \/ \E u \in undos : GcUndo(p, u)
    \/ \E k \in proto[p].expired : GcDefinition(p, k)

SyncStep(p) ==
    \/ \E forceFull \in BOOLEAN : StartSync(p, forceFull)
    \/ List(p) \/ ListShort(p) \/ SyncError(p)
    \/ LearnStep(p)
    \/ \E d \in sync[p].todo : LearnError(p, d)
    \/ Apply(p)
    \/ GcStep(p)
    \/ EndGc(p)

Next ==
    \/ CreateStep
    \/ UndeleteStep
    \/ \E p \in Pollers : SyncStep(p) \/ Restart(p)
    \/ \E d \in defs : RemoveByHand(d)
    \/ Tick

Spec == Init /\ [][Next]_vars

\* The poll loop runs for ever and every request is answered or times out; the faults
\* are finitely many.
Fairness ==
    /\ WF_vars(Tick)
    /\ \A c \in Calls : WF_vars(PutDefinition(c) \/ FinishCreate(c) \/ PutUndo(c) \/ FinishUndelete(c))
    /\ \A p \in Pollers : WF_vars(SyncStep(p))

FairSpec == Spec /\ Fairness

-----------------------------------------------------------------------------
(* Properties. *)

\* The types; and what a pod takes for expired, so that it no longer reads the definition
\* and, on a maintenance pod, removes it from the bucket, has expired (sweepExpired).
TypeOK ==
    /\ now \in 0 .. MaxNow /\ calls \in 0 .. MaxCalls /\ faults \in 0 .. MaxFaults
    /\ \A d \in defs : d.id \in Ids /\ d.at \in Int /\ d.mode \in Modes \cup {"newer"}
    /\ \A u \in undos : u.id \in Ids /\ u.def \in Int /\ u.at \in Int
    /\ \A p \in Pods :
         /\ \A k \in proto[p].gone \cup proto[p].expired : Clock(p) > ExpiresAt[k[1]]
         /\ sync[p].stage \in {"off", "list", "learn", "gc"}

\* The gate lets a read of the tenant pass.
Gate(p, tenant) ==
    /\ proto[p].lastGood # NoTime
    /\ now - proto[p].lastGood <= Stale
    /\ \A k \in proto[p].closed : TenantOf[k[1]] # tenant

Needed(id) == \A p \in Pods : Clock(p) <= ExpiresAt[id]

HasUndo(k) ==
    \/ \E u \in undos : UndoneKey(u) = k
    \/ \E c \in Calls : call[c] # NoCall /\ call[c].op \in {"undo", "undone"} /\ UndoneKey(call[c].undo) = k

\* A pod enforces only what was deleted: what its view holds, learned, created here or
\* taken from its cache at a restart, is the body the bucket has under that key, and it is
\* marked undone only when an undo key of that definition was written.  Definitions that
\* have expired or may be removed by hand are exempt.
OnlyDeletedIsHidden ==
    \A p \in Pods, id \in Ids :
        (Known(p, id) /\ id \notin ByHand /\ Needed(id))
            => LET e == view[p][id] IN
               /\ [id |-> id, at |-> e.at, mode |-> e.mode] \in defs
               /\ e.undone => HasUndo(<<id, e.at>>)

\* Once a delete that is not expired was answered a stale age and a sync ago, every pod
\* whose gate is open for its tenant hides its rows: the view has this definition, or an
\* earlier one of the id, and counts it unless an undo key was written for it.  The gate
\* is what makes up for failed, late and partial syncs, restarts and undecodable
\* definitions.
DeletedIsHidden ==
    \A a \in acked, p \in Pods :
        (/\ now > a.at + Stale + SyncMax
         /\ a.def.id \notin ByHand /\ Needed(a.def.id) /\ Gate(p, TenantOf[a.def.id]))
            => LET e == view[p][a.def.id] IN
               /\ Known(p, a.def.id)
               /\ e.at <= a.def.at
               /\ e.undone => HasUndo(<<a.def.id, e.at>>)

\* Once an undelete was answered a stale age and a sync ago, and no create of the same
\* definition was answered since, no pod with an open gate hides its rows.  (A definition
\* that is removed by hand and then written again is a new delete.)
UndoneIsVisible ==
    \A b \in undone, p \in Pods :
        (/\ now > b.at + Stale + SyncMax
         /\ \A a \in acked : KeyOf(a.def) = b.key => now > a.at + Stale + SyncMax
         /\ b.key[1] \notin ByHand /\ Needed(b.key[1]) /\ Gate(p, TenantOf[b.key[1]]))
            => LET e == view[p][b.key[1]] IN
               (Known(p, b.key[1]) /\ e.at = b.key[2]) => e.undone

\* A step of a running pod takes a delete out of its view only when its definition does
\* not exist any more or has expired: a short listing, a failed one or a failed HEAD
\* never makes a pod forget a delete.
NeverForgets ==
    [][\A p \in Pods, id \in Ids :
          (Known(p, id) /\ ~Known(p, id)' /\ proto'[p].lastFull # NoTime)
              => \/ <<id, view[p][id].at>> \notin KeysOf(defs)
                 \/ Clock(p) > ExpiresAt[id]]_vars

\* The earliest definition of an id.
Earliest(D) == CHOOSE d \in D : \A e \in D : d.at <= e.at

Agrees(p, id) ==
    LET D == {d \in defs : d.id = id /\ Decodable(d)} IN
    IF D = {} \/ Clock(p) > ExpiresAt[id] THEN ~Known(p, id)
    ELSE LET d == Earliest(D) IN
         view[p][id] = [Entry(d) EXCEPT !.undone = d.mode = "hide" /\ HasUndo(KeyOf(d))]

\* Once creates, undeletes and failures stop, every pod's view is what the bucket says,
\* whatever was lost, late, short or out of order: the earliest definition of each id, as
\* undone as its undo keys make it, and nothing that has expired; and the definitions that
\* have expired for a maintenance pod are gone from the bucket.
Converges ==
    <>[](\A p \in Pollers :
            /\ \A id \in Ids : Agrees(p, id)
            /\ p \in Maintenance => \A d \in defs : Decodable(d) => Clock(p) <= ExpiresAt[d.id])

\* Once creates and failures stop, every pod serves the tenants that no undecodable
\* definition names: "a definition that cannot be decoded closes the gate only for the
\* tenants it names".
Served ==
    <>[](\A p \in Pollers, tenant \in Tenants :
            (\A d \in defs : Decodable(d) \/ TenantOf[d.id] # tenant) => Gate(p, tenant))
=============================================================================
