-------------------------- MODULE TombstonesProofs --------------------------
(***************************************************************************)
(* Tombstones, for any number of pods, ids and calls and any lengths of    *)
(* time: the types, that no listing makes a pod forget a delete, and, when *)
(* the window covers the PUTs and the clocks, that a pod with an open gate *)
(* hides what was deleted. A leaf is Zenon's unless it names SMT.          *)
(***************************************************************************)
EXTENDS Tombstones, TLAPS

USE Zenon

-----------------------------------------------------------------------------
(* Types. *)

Definition == [id : Ids, at : Int, mode : Modes \cup {"newer"}]

Undo == [id : Ids, def : Int, at : Int]

Key == Ids \X Int

EntryType == {NoEntry} \cup [at : Int, mode : Modes \cup {"newer"}, undone : BOOLEAN]

SyncType ==
    [stage : {"off", "list", "learn", "gc"}, t0 : Int, began : Int, full : BOOLEAN,
     defs : SUBSET Definition, undos : SUBSET Undo, retried : SUBSET Definition,
     todo : SUBSET Definition]

ProtoType ==
    [lastGood : Int, lastList : Int, lastFull : Int, bad : SUBSET Definition,
     unreadable : SUBSET Key, closed : SUBSET Key, undoSeen : SUBSET Key, gone : SUBSET Key,
     seeded : SUBSET Key, expired : SUBSET Key]

Creating == [op : {"create", "created"}, pod : Pods, def : Definition, began : Int]

Undoing == [op : {"undo", "undone"}, pod : Pods, began : Int, undo : Undo]

Types ==
    /\ now \in 0 .. MaxNow /\ calls \in 0 .. MaxCalls /\ faults \in 0 .. MaxFaults
    /\ defs \subseteq Definition /\ undos \subseteq Undo
    /\ view \in [Pods -> [Ids -> EntryType]]
    /\ cache \in [Pods -> SUBSET Definition]
    /\ sync \in [Pods -> SyncType]
    /\ proto \in [Pods -> ProtoType]
    /\ call \in [Calls -> {NoCall} \cup Creating \cup Undoing]
    /\ acked \subseteq [def : Definition, at : Int]
    /\ undone \subseteq [key : Key, at : Int]

\* A key has one body.
UniqueInv == \A d, e \in defs : KeyOf(d) = KeyOf(e) => d = e

Creates(c) == call[c].op \in {"create", "created"}
Undoes(c)  == call[c].op \in {"undo", "undone"}
Syncing(p) == sync[p].stage # "off"

\* No clock runs backwards: what a pod has noted, it noted before now, and a sync is as
\* old as it may be.
PodTime(p) ==
    /\ Syncing(p) => /\ sync[p].t0 = sync[p].began + Skew[p]
                     /\ sync[p].began <= now /\ now <= sync[p].began + SyncMax
                     /\ proto[p].lastList # NoTime => proto[p].lastList <= sync[p].t0
                     /\ proto[p].lastGood # NoTime => proto[p].lastGood <= sync[p].began
                     /\ ~sync[p].full => /\ proto[p].lastList # NoTime
                                         /\ sync[p].t0 - proto[p].lastList <= Window \div 2
    /\ proto[p].lastList # NoTime => proto[p].lastList <= Clock(p)
    /\ proto[p].lastGood # NoTime => proto[p].lastGood <= now
    /\ sync[p].stage = "gc" => sync[p].todo = {}

\* What a pod takes for expired is.
PodExpired(p) == \A k \in proto[p].gone \cup proto[p].expired : Clock(p) > ExpiresAt[k[1]]

PodBase(p) == PodTime(p) /\ PodExpired(p)

\* No PUT is overdue.
CallTime(c) == (Creates(c) \/ Undoes(c)) => now <= call[c].began + PutMax

Base ==
    /\ Types /\ UniqueInv
    /\ \A p \in Pods : PodBase(p)
    /\ \A c \in Calls : CallTime(c)

-----------------------------------------------------------------------------
(* Where definitions and undos come from. *)

\* Nothing may remove the definitions of the id from the bucket.
Live(id) == id \notin ByHand /\ Needed(id)

ViewDef(p, id) == [id |-> id, at |-> view[p][id].at, mode |-> view[p][id].mode]

\* What was answered is in the bucket.
AckedOrigin == \A a \in acked : Live(a.def.id) => a.def \in defs

CallOrigin(c) ==
    /\ (call[c].op = "created" /\ Live(call[c].def.id)) => call[c].def \in defs
    /\ (call[c].op = "undone" /\ Needed(call[c].undo.id)) => call[c].undo \in undos

\* What is cached or counted is in the bucket.
PodOrigin(p) ==
    /\ \A d \in cache[p] : Live(d.id) => d \in defs
    /\ \A id \in Ids : (Known(p, id) /\ Live(id)) => ViewDef(p, id) \in defs

HasKey(U, k) == \E u \in U : UndoneKey(u) = k

\* Nothing is undone without an undo key.
PodFlag(p) ==
    /\ \A u \in sync[p].undos : Needed(u.id) => u \in undos
    /\ \A k \in proto[p].undoSeen : Needed(k[1]) => HasKey(undos, k)
    /\ \A id \in Ids : (view[p][id].undone /\ Needed(id)) => HasKey(undos, <<id, view[p][id].at>>)

\* The invariant of OnlyDeletedIsHidden.
OriginInv ==
    /\ AckedOrigin /\ \A c \in Calls : CallOrigin(c)
    /\ \A p \in Pods : PodOrigin(p) /\ PodFlag(p)

\* The part of the window by which two successive polls overlap.
Overlap == Window - (Window \div 2)

\* The clocks and the PUTs that the window covers.
WindowMargin ==
    /\ \A p \in Pods : PutMax + Skew[p] <= Overlap
    /\ \A p, w \in Pods : PutMax + Skew[p] - Skew[w] <= Overlap

\* A key with the time at cannot be written after the time t.
Within(at, t) == \A p \in Pods : at >= t + Skew[p] - Overlap

\* A call puts its key within the margin.
Timely(c) ==
    /\ Creates(c) => Within(call[c].def.at, call[c].began + PutMax)
    /\ Undoes(c) => Within(call[c].undo.at, call[c].began + PutMax)

\* What a step does to the bucket and to the answers: keys are removed when they have
\* expired or by hand.
KeysStay ==
    /\ now <= now' /\ acked \subseteq acked' /\ undone \subseteq undone'
    /\ \A id \in Ids : Needed(id)' => Needed(id)
    /\ \A d \in defs : d \in defs' \/ ~Live(d.id)
    /\ \A u \in undos : u \in undos' \/ ~Needed(u.id)
    /\ \A a \in acked' : a \in acked \/ a.at = now
    /\ \A b \in undone' : b \in undone \/ b.at = now

\* Keys are written within the margin.
BucketStep ==
    /\ KeysStay
    /\ \A d \in defs' : d \in defs \/ Within(d.at, now)
    /\ \A u \in undos' : u \in undos \/ Within(u.at, now)

-----------------------------------------------------------------------------
(* What the syncs of a pod have taken. *)

\* Every answer for the id names this key time.
Sole(d) == \A a \in acked : a.def.id = d.id => a.def.at = d.at

Hidden(p, d) == Known(p, d.id) /\ view[p][d.id].at <= d.at

Taken(p, d) == Hidden(p, d) \/ d \in proto[p].bad \/ KeyOf(d) \in proto[p].unreadable

\* The gate is closed for the definition, and stays so.
Shut(p, d) == KeyOf(d) \in proto[p].closed /\ KeyOf(d) \in proto[p].unreadable

\* The definition was in the bucket when the sync of p began.
Before(p, d) ==
    \/ d.at < sync[p].t0 - Overlap
    \/ \E a \in acked : a.def = d /\ a.at < sync[p].began

\* The listing has what was there when it began, if it is full.
ListedInv(p) ==
    \A d \in defs :
        (/\ sync[p].stage = "list" \/ (Syncing(p) /\ sync[p].full)
         /\ Live(d.id) /\ Before(p, d)) => d \in sync[p].defs

\* What was there when the sync began is taken or about to be.
LearnedInv(p) ==
    \A d \in defs :
        (sync[p].stage \in {"learn", "gc"} /\ Live(d.id) /\ Sole(d) /\ Before(p, d))
            => Taken(p, d) \/ d \in sync[p].todo

\* What is too old for the next poll is taken.
PolledInv(p) ==
    \A d \in defs :
        (/\ proto[p].lastList # NoTime /\ d.at < proto[p].lastList - Overlap
         /\ Live(d.id) /\ Sole(d)) => Taken(p, d)

\* What was answered before the last complete sync is hidden, or the gate closed.
ServedInv(p) ==
    \A a \in acked :
        (/\ proto[p].lastGood # NoTime /\ a.at + SyncMax < proto[p].lastGood
         /\ Live(a.def.id) /\ Sole(a.def)) => Hidden(p, a.def) \/ Shut(p, a.def)

PodHide(p) == ListedInv(p) /\ LearnedInv(p) /\ PolledInv(p) /\ ServedInv(p)

\* The invariant of DeletedIsHidden.
HideInv ==
    /\ OriginInv /\ \A c \in Calls : Timely(c)
    /\ \A p \in Pods : PodHide(p)

-----------------------------------------------------------------------------
(* Types, step by step. *)

\* The constants' assumptions, one by one.
LEMMA Constants ==
    /\ TenantOf \in [Ids -> Tenants] /\ TaskTime \in [Ids -> Int] /\ ExpiresAt \in [Ids -> Nat]
    /\ Skew \in [Pods -> Int] /\ Modes \subseteq {"hide", "permanent"} /\ Newer \subseteq Ids
    /\ PutMax \in Nat /\ SyncMax \in Nat /\ Window \in Nat /\ FullEvery \in Nat /\ Stale \in Nat
    /\ MaxNow \in Nat /\ MaxCalls \in Nat /\ MaxFaults \in Nat
    /\ Pollers \subseteq Pods /\ Maintenance \subseteq Pods /\ NoTime \in Int
  BY TombstonesAssumption, SMT DEF NoTime

\* No sync runs and none of its undos wait.
LEMMA NoSyncFields == NoSync.stage = "off" /\ NoSync.undos = {}
  BY DEF NoSync

\* The values for nothing, of their types.
LEMMA NoThings ==
    NoEntry \in EntryType /\ NoSync \in SyncType /\ NoProto \in ProtoType
  BY SMT DEF NoEntry, NoSync, NoProto, EntryType, SyncType, ProtoType, NoTime

\* The initial state.
LEMMA TypesInit == Init => Types
  BY Constants, NoThings, SMT DEF Init, Types

\* A definition's entry is one of a known id.
LEMMA EntryFacts ==
    ASSUME NEW d \in Definition
    PROVE  /\ Entry(d) \in EntryType /\ Entry(d) # NoEntry
           /\ Entry(d).at = d.at /\ Entry(d).mode = d.mode /\ ~Entry(d).undone
           /\ KeyOf(d) \in Key /\ KeyOf(d)[1] = d.id /\ KeyOf(d)[2] = d.at
<1>1. d.mode # "none" /\ d.at \in Int /\ d.id \in Ids /\ d.mode \in Modes \cup {"newer"}
  BY Constants DEF Definition
<1> QED BY <1>1 DEF Entry, NoEntry, EntryType, KeyOf, Key

\* The keys of definitions.
LEMMA KeysType ==
    ASSUME NEW D \in SUBSET Definition
    PROVE  KeysOf(D) \subseteq Key
  BY EntryFacts DEF KeysOf

\* The fields of an entry of the view.
LEMMA ViewFacts ==
    ASSUME Types, NEW p \in Pods, NEW id \in Ids
    PROVE  /\ view[p][id] \in EntryType /\ view[p][id].at \in Int /\ view[p][id].undone \in BOOLEAN
           /\ <<id, view[p][id].at>> \in Key
           /\ Known(p, id) => ViewDef(p, id) \in Definition
<1>1. view[p][id] \in EntryType
  BY DEF Types
<1>2. CASE view[p][id] = NoEntry
  BY <1>1, <1>2, Constants, SMT DEF NoEntry, Known, Key
<1>3. CASE view[p][id] # NoEntry
  <2>1. /\ view[p][id].at \in Int /\ view[p][id].undone \in BOOLEAN
        /\ view[p][id].mode \in Modes \cup {"newer"}
    BY <1>1, <1>3 DEF EntryType
  <2> QED BY <1>1, <2>1 DEF ViewDef, Definition, Key
<1> QED BY <1>2, <1>3

\* The keys of a view.
LEMMA KnownKeysFacts ==
    ASSUME Types, NEW p \in Pods
    PROVE  /\ KnownKeys(p) \subseteq Key
           /\ \A k \in Key : k \in KnownKeys(p) <=> (Known(p, k[1]) /\ view[p][k[1]].at = k[2])
  BY ViewFacts, SMT DEF KnownKeys, Key

\* A function changed at one point.
LEMMA Except ==
    ASSUME NEW S, NEW T, NEW f \in [S -> T], NEW x \in S, NEW y \in T,
           NEW g, g = [f EXCEPT ![x] = y]
    PROVE  g \in [S -> T] /\ g[x] = y /\ \A z \in S : z # x => g[z] = f[z]
  OBVIOUS

\* The call of an action, by its kind.
LEMMA CallFacts ==
    ASSUME Types, NEW c \in Calls
    PROVE  /\ call[c] \in {NoCall} \cup Creating \cup Undoing
           /\ Creates(c) => /\ call[c] \in Creating /\ call[c].pod \in Pods /\ call[c].def \in Definition
                            /\ call[c].began \in Int /\ call[c] # NoCall
           /\ Undoes(c) => /\ call[c] \in Undoing /\ call[c].pod \in Pods /\ call[c].undo \in Undo
                           /\ call[c].began \in Int /\ call[c] # NoCall
<1>1. call[c] \in {NoCall} \cup Creating \cup Undoing
  BY DEF Types
<1>2. ASSUME Creates(c) PROVE call[c] \in Creating /\ call[c] # NoCall
  BY <1>1, <1>2, SMT DEF Creates, NoCall, Creating, Undoing
<1>3. ASSUME Undoes(c) PROVE call[c] \in Undoing /\ call[c] # NoCall
  BY <1>1, <1>3, SMT DEF Undoes, NoCall, Creating, Undoing
<1> QED BY <1>1, <1>2, <1>3 DEF Creating, Undoing

\* What each step changes.

\* A create begins: its definition carries the key time (Create, store.go).
LEMMA BeginCreateFacts ==
    ASSUME Types, NEW c \in Calls, NEW p \in Pods, NEW id \in Ids, NEW mode \in Modes,
           BeginCreate(c, p, id, mode)
    PROVE  LET d == [id |-> id, at |-> KeyTime(p, id), mode |-> mode]
               b == IF TaskTime[id] # NoTime THEN TaskTime[id] ELSE now
               r == [op |-> "create", pod |-> p, def |-> d, began |-> b]
           IN  /\ d \in Definition /\ r \in Creating /\ call[c] = NoCall
               /\ call' = [call EXCEPT ![c] = r] /\ Types'
               /\ ~Known(p, id) /\ InTime(id)
               /\ UNCHANGED <<now, bucketVars, podVars, faults, histVars>>
<1> DEFINE d == [id |-> id, at |-> KeyTime(p, id), mode |-> mode]
           b == IF TaskTime[id] # NoTime THEN TaskTime[id] ELSE now
           r == [op |-> "create", pod |-> p, def |-> d, began |-> b]
<1>1. KeyTime(p, id) \in Int /\ now \in Int /\ TaskTime[id] \in Int
  BY Constants, SMT DEF Types, KeyTime, Clock
<1>2. d \in Definition /\ b \in Int
  BY <1>1 DEF Definition
<1>3. r \in Creating
  BY <1>2 DEF Creating
<1>4. /\ call' = [call EXCEPT ![c] = r] /\ calls < MaxCalls /\ calls' = calls + 1
      /\ call[c] = NoCall /\ ~Known(p, id) /\ InTime(id)
      /\ UNCHANGED <<now, bucketVars, podVars, faults, histVars>>
  BY DEF BeginCreate, NewCall
<1> HIDE DEF r
<1>5. call' \in [Calls -> {NoCall} \cup Creating \cup Undoing]
  BY <1>3, <1>4, Except DEF Types
<1>6. Types'
  BY <1>4, <1>5, Constants, SMT DEF Types, bucketVars, podVars, histVars
<1> QED BY <1>2, <1>3, <1>4, <1>6 DEF r

\* sameOrExists answers what the view holds.
LEMMA CreateKnownFacts ==
    ASSUME Types, NEW p \in Pods, NEW id \in Ids, CreateKnown(p, id)
    PROVE  /\ acked' = acked \cup {[def |-> ViewDef(p, id), at |-> now]} /\ Known(p, id)
           /\ ViewDef(p, id) \in Definition /\ Types'
           /\ UNCHANGED <<now, bucketVars, podVars, call, calls, faults, undone>>
<1>1. /\ acked' = acked \cup {[def |-> ViewDef(p, id), at |-> now]} /\ Known(p, id)
      /\ UNCHANGED <<now, bucketVars, podVars, call, calls, faults, undone>>
  BY DEF CreateKnown, ViewDef
<1>2. ViewDef(p, id) \in Definition
  BY <1>1, ViewFacts
<1>3. Types'
  BY <1>1, <1>2, Constants, SMT DEF Types, bucketVars, podVars
<1> QED BY <1>1, <1>2, <1>3

\* The PUT of a definition writes a new key or none.
LEMMA PutDefinitionFacts ==
    ASSUME Types, NEW c \in Calls, PutDefinition(c) \/ PutDefinitionError(c)
    PROVE  LET d == call[c].def IN
           /\ Types' /\ Creates(c) /\ d \in Definition
           /\ \/ defs' = defs
              \/ defs' = defs \cup {d} /\ \A e \in defs : KeyOf(e) # KeyOf(d)
           /\ \/ call' = [call EXCEPT ![c] = NoCall]
              \/ call' = [call EXCEPT ![c] = [call[c] EXCEPT !.op = "created"]] /\ d \in defs'
           /\ UNCHANGED <<now, undos, podVars, histVars>>
<1> DEFINE d == call[c].def
           r == [call[c] EXCEPT !.op = "created"]
<1>1. Creates(c)
  BY DEF PutDefinition, PutDefinitionError, Creates
<1>2. call[c] \in Creating /\ d \in Definition
  BY <1>1, CallFacts
<1>3. r \in Creating
  BY <1>2 DEF Creating
<1>4. /\ \/ defs' = defs
         \/ defs' = defs \cup {d} /\ \A e \in defs : KeyOf(e) # KeyOf(d)
      /\ \/ call' = [call EXCEPT ![c] = NoCall]
         \/ call' = [call EXCEPT ![c] = r] /\ d \in defs'
      /\ UNCHANGED <<now, undos, podVars, calls, histVars>>
      /\ faults' = faults \/ (faults < MaxFaults /\ faults' = faults + 1)
  <2>1. CASE PutDefinition(c)
    <3> DEFINE same == {e \in defs : KeyOf(e) = KeyOf(d)}
    <3>1. /\ defs' = IF same = {} THEN defs \cup {d} ELSE defs
          /\ call' = [call EXCEPT ![c] = IF same \subseteq {d} THEN r ELSE NoCall]
          /\ UNCHANGED <<now, undos, podVars, calls, faults, histVars>>
      BY <2>1 DEF PutDefinition
    <3>2. same = {} => \A e \in defs : KeyOf(e) # KeyOf(d)
      OBVIOUS
    <3>3. (same # {} /\ same \subseteq {d}) => d \in defs
      OBVIOUS
    <3> HIDE DEF same, r, d
    <3> QED BY <3>1, <3>2, <3>3
  <2>2. CASE PutDefinitionError(c)
    BY <2>2 DEF PutDefinitionError, Fault, KeysOf
  <2> QED BY <2>1, <2>2
<1> HIDE DEF r, d
<1>5. call' \in [Calls -> {NoCall} \cup Creating \cup Undoing]
  <2>1. CASE call' = [call EXCEPT ![c] = r]
    BY <1>3, <2>1, Except DEF Types
  <2>2. CASE call' = [call EXCEPT ![c] = NoCall]
    BY <2>2, Except DEF Types
  <2> QED BY <1>4, <2>1, <2>2
<1>6. Types'
  BY <1>2, <1>4, <1>5, Constants, SMT DEF Types, podVars, histVars
<1> QED BY <1>1, <1>2, <1>4, <1>6 DEF r, d

\* A definition of a newer version.
LEMMA CreateNewerFacts ==
    ASSUME Types, NEW id \in Ids, CreateNewer(id)
    PROVE  LET d == [id |-> id, at |-> IF TaskTime[id] # NoTime THEN TaskTime[id] ELSE now,
                     mode |-> "newer"]
           IN  /\ d \in Definition /\ Types' /\ InTime(id)
               /\ defs' = defs \cup {d} /\ acked' = acked \cup {[def |-> d, at |-> now]}
               /\ \A e \in defs : e.id # id
               /\ UNCHANGED <<now, undos, podVars, call, calls, faults, undone>>
<1> DEFINE d == [id |-> id, at |-> IF TaskTime[id] # NoTime THEN TaskTime[id] ELSE now,
                 mode |-> "newer"]
<1>1. d \in Definition /\ now \in Int
  BY Constants, SMT DEF Types, Definition
<1>2. /\ defs' = defs \cup {d} /\ acked' = acked \cup {[def |-> d, at |-> now]}
      /\ InTime(id) /\ \A e \in defs : e.id # id
      /\ UNCHANGED <<now, undos, podVars, call, calls, faults, undone>>
  BY DEF CreateNewer
<1> HIDE DEF d
<1>3. Types'
  BY <1>1, <1>2, Constants, SMT DEF Types, podVars
<1> QED BY <1>1, <1>2, <1>3 DEF d

\* applyUndo changes only what is undone.
LEMMA ApplyUndoFacts ==
    ASSUME NEW v \in [Ids -> EntryType], NEW keys
    PROVE  /\ ApplyUndo(v, keys) \in [Ids -> EntryType]
           /\ \A id \in Ids :
                /\ ApplyUndo(v, keys)[id].at = v[id].at /\ ApplyUndo(v, keys)[id].mode = v[id].mode
                /\ ApplyUndo(v, keys)[id] = NoEntry <=> v[id] = NoEntry
                /\ v[id].undone => ApplyUndo(v, keys)[id].undone
                /\ ApplyUndo(v, keys)[id].undone => v[id].undone \/ <<id, v[id].at>> \in keys
                /\ (<<id, v[id].at>> \in keys /\ v[id].mode = "hide") => ApplyUndo(v, keys)[id].undone
<1> DEFINE w == ApplyUndo(v, keys)
<1>1. \A id \in Ids : w[id] = IF <<id, v[id].at>> \in keys /\ v[id].mode = "hide"
                              THEN [v[id] EXCEPT !.undone = TRUE] ELSE v[id]
  BY DEF ApplyUndo
<1>2. w = [id \in Ids |-> w[id]]
  BY DEF ApplyUndo
<1>3. ASSUME NEW id \in Ids, <<id, v[id].at>> \in keys /\ v[id].mode = "hide"
      PROVE  /\ w[id] \in EntryType /\ w[id] # NoEntry /\ v[id] # NoEntry
             /\ w[id].at = v[id].at /\ w[id].mode = v[id].mode /\ w[id].undone
  <2>1. w[id] = [v[id] EXCEPT !.undone = TRUE]
    BY <1>1, <1>3
  <2>2. v[id] # NoEntry
    BY <1>3, SMT DEF NoEntry
  <2>3. v[id] \in [at : Int, mode : Modes \cup {"newer"}, undone : BOOLEAN]
    BY <2>2 DEF EntryType
  <2>4. /\ w[id] \in [at : Int, mode : Modes \cup {"newer"}, undone : BOOLEAN]
        /\ w[id].at = v[id].at /\ w[id].mode = v[id].mode /\ w[id].undone
    BY ONLY <2>1, <2>3, Zenon
  <2>5. w[id] # NoEntry
    BY <1>3, <2>4, SMT DEF NoEntry
  <2> QED BY <2>2, <2>4, <2>5 DEF EntryType
<1>4. ASSUME NEW id \in Ids, ~(<<id, v[id].at>> \in keys /\ v[id].mode = "hide")
      PROVE  w[id] = v[id]
  BY <1>1, <1>4
<1> HIDE DEF w
<1>5. \A id \in Ids : w[id] \in EntryType
  BY <1>3, <1>4
<1>6. w \in [Ids -> EntryType]
  BY <1>2, <1>5
<1>7. ASSUME NEW id \in Ids
      PROVE  /\ w[id].at = v[id].at /\ w[id].mode = v[id].mode
             /\ w[id] = NoEntry <=> v[id] = NoEntry
             /\ v[id].undone => w[id].undone
             /\ w[id].undone => v[id].undone \/ <<id, v[id].at>> \in keys
             /\ (<<id, v[id].at>> \in keys /\ v[id].mode = "hide") => w[id].undone
  BY <1>3, <1>4
<1> QED BY <1>6, <1>7 DEF w

\* What a step does to the pods it is not about.
Elsewhere(p) ==
    \A q \in Pods \ {p} : /\ view'[q] = view[q] /\ cache'[q] = cache[q]
                          /\ sync'[q] = sync[q] /\ proto'[q] = proto[q]

\* A write of the cache is done or lost, and is the pod's own.
LEMMA CacheFacts ==
    ASSUME Types, NEW p \in Pods, NEW B \in SUBSET Definition, CacheBecomes(p, B)
    PROVE  /\ cache' \in [Pods -> SUBSET Definition] /\ cache'[p] \in {cache[p], B}
           /\ \A q \in Pods : q # p => cache'[q] = cache[q]
<1>1. CASE UNCHANGED cache
  BY <1>1 DEF Types
<1>2. CASE cache' = [cache EXCEPT ![p] = B]
  BY <1>2, Except DEF Types
<1> QED BY <1>1, <1>2 DEF CacheBecomes

\* Undelete.
LEMMA BeginUndeleteFacts ==
    ASSUME Types, NEW c \in Calls, NEW p \in Pods, NEW id \in Ids, BeginUndelete(c, p, id)
    PROVE  LET u == [id |-> id, def |-> view[p][id].at, at |-> Clock(p)]
               r == [op |-> "undo", pod |-> p, began |-> now, undo |-> u]
           IN  /\ u \in Undo /\ r \in Undoing /\ call[c] = NoCall
               /\ call' = [call EXCEPT ![c] = r] /\ Types'
               /\ Known(p, id) /\ view[p][id].mode = "hide"
               /\ UNCHANGED <<now, bucketVars, podVars, faults, histVars>>
<1> DEFINE u == [id |-> id, def |-> view[p][id].at, at |-> Clock(p)]
           r == [op |-> "undo", pod |-> p, began |-> now, undo |-> u]
<1>1. u \in Undo /\ now \in Int
  <2>1. now \in Int /\ Clock(p) \in Int
    BY Constants, SMT DEF Types, Clock
  <2>2. view[p][id].at \in Int
    BY ViewFacts
  <2> QED BY <2>1, <2>2 DEF Undo
<1>2. r \in Undoing
  BY <1>1 DEF Undoing
<1>3. /\ call' = [call EXCEPT ![c] = r] /\ calls < MaxCalls /\ calls' = calls + 1
      /\ call[c] = NoCall /\ Known(p, id) /\ view[p][id].mode = "hide"
      /\ UNCHANGED <<now, bucketVars, podVars, faults, histVars>>
  BY DEF BeginUndelete, NewCall, UndoTime
<1> HIDE DEF r
<1>4. call' \in [Calls -> {NoCall} \cup Creating \cup Undoing]
  BY <1>2, <1>3, Except DEF Types
<1>5. Types'
  BY <1>3, <1>4, Constants, SMT DEF Types, bucketVars, podVars, histVars
<1> QED BY <1>1, <1>2, <1>3, <1>5 DEF r

\* The PUT of an undo key.
LEMMA PutUndoFacts ==
    ASSUME Types, NEW c \in Calls, PutUndo(c) \/ PutUndoError(c)
    PROVE  /\ Types' /\ call[c].op = "undo" /\ Undoes(c) /\ call[c].undo \in Undo
           /\ undos' \in {undos, undos \cup {call[c].undo}}
           /\ \/ call' = [call EXCEPT ![c] = NoCall]
              \/ /\ call' = [call EXCEPT ![c] = [call[c] EXCEPT !.op = "undone"]]
                 /\ undos' = undos \cup {call[c].undo}
           /\ UNCHANGED <<now, defs, podVars, histVars>>
<1>1. call[c].op = "undo"
  BY DEF PutUndo, PutUndoError
<1>2. Undoes(c) /\ call[c] \in Undoing /\ call[c].undo \in Undo
  BY <1>1, CallFacts DEF Undoes
<1> DEFINE r == [call[c] EXCEPT !.op = "undone"]
<1>3. r \in Undoing
  BY <1>2 DEF Undoing
<1>4. CASE PutUndo(c)
  <2>1. /\ undos' = undos \cup {call[c].undo} /\ call' = [call EXCEPT ![c] = r]
        /\ UNCHANGED <<now, defs, podVars, calls, faults, histVars>>
    BY <1>4 DEF PutUndo
  <2> HIDE DEF r
  <2>2. call' \in [Calls -> {NoCall} \cup Creating \cup Undoing]
    BY <1>3, <2>1, Except DEF Types
  <2>3. Types'
    BY <1>2, <2>1, <2>2, Constants DEF Types, podVars, histVars
  <2> QED BY <1>1, <1>2, <2>1, <2>3 DEF r
<1>5. CASE PutUndoError(c)
  <2>1. /\ undos' \in {undos, undos \cup {call[c].undo}} /\ call' = [call EXCEPT ![c] = NoCall]
        /\ faults < MaxFaults /\ faults' = faults + 1
        /\ UNCHANGED <<now, defs, podVars, calls, histVars>>
    BY <1>5 DEF PutUndoError, Fault
  <2>2. call' \in [Calls -> {NoCall} \cup Creating \cup Undoing]
    BY <2>1, Except DEF Types
  <2>3. Types'
    BY <1>2, <2>1, <2>2, Constants, SMT DEF Types, podVars, histVars
  <2> QED BY <1>1, <1>2, <2>1, <2>3
<1> QED BY <1>4, <1>5

\* FinishCreate puts the definition into the cache, if it can, and over whatever the view has.
LEMMA FinishCreateFacts ==
    ASSUME Types, NEW c \in Calls, FinishCreate(c)
    PROVE  LET d == call[c].def
               p == call[c].pod
           IN  /\ Types' /\ Creates(c) /\ call[c].op = "created" /\ d \in Definition /\ p \in Pods
               /\ call' = [call EXCEPT ![c] = NoCall]
               /\ acked' = acked \cup {[def |-> d, at |-> now]}
               /\ Elsewhere(p) /\ cache'[p] \subseteq cache[p] \cup {d}
               /\ view'[p][d.id] = Entry(d) /\ \A id \in Ids \ {d.id} : view'[p][id] = view[p][id]
               /\ UNCHANGED <<now, bucketVars, sync, proto, calls, faults, undone>>
<1> DEFINE d == call[c].def
           p == call[c].pod
<1>1. Creates(c) /\ call[c].op = "created"
  BY DEF FinishCreate, Creates
<1>2. d \in Definition /\ p \in Pods /\ d.id \in Ids /\ Entry(d) \in EntryType
  BY <1>1, CallFacts, EntryFacts DEF Definition
<1>3. /\ call' = [call EXCEPT ![c] = NoCall]
      /\ CacheBecomes(p, cache[p] \cup {d})
      /\ view' = [view EXCEPT ![p][d.id] = Entry(d)]
      /\ acked' = acked \cup {[def |-> d, at |-> now]}
      /\ UNCHANGED <<now, bucketVars, sync, proto, calls, faults, undone>>
  BY DEF FinishCreate
<1> HIDE DEF d, p
<1>4. call' \in [Calls -> {NoCall} \cup Creating \cup Undoing]
  BY <1>3, Except DEF Types
<1>5. /\ view' \in [Pods -> [Ids -> EntryType]] /\ cache' \in [Pods -> SUBSET Definition]
      /\ view'[p][d.id] = Entry(d) /\ \A id \in Ids \ {d.id} : view'[p][id] = view[p][id]
      /\ cache'[p] \subseteq cache[p] \cup {d} /\ Elsewhere(p)
  <2>1. cache[p] \cup {d} \in SUBSET Definition
    BY <1>2 DEF Types
  <2>2. /\ cache' \in [Pods -> SUBSET Definition] /\ cache'[p] \subseteq cache[p] \cup {d}
        /\ \A q \in Pods : q # p => cache'[q] = cache[q]
    BY <1>2, <1>3, <2>1, CacheFacts
  <2> QED BY <1>2, <1>3, <2>2 DEF Types, Elsewhere
<1>6. Types'
  BY <1>2, <1>3, <1>4, <1>5, Constants, SMT DEF Types, bucketVars
<1> QED BY <1>1, <1>2, <1>3, <1>5, <1>6 DEF d, p

\* FinishUndelete applies the undo to the pod's own view.
LEMMA FinishUndeleteFacts ==
    ASSUME Types, NEW c \in Calls, FinishUndelete(c)
    PROVE  LET k == UndoneKey(call[c].undo)
               p == call[c].pod
           IN  /\ Types' /\ Undoes(c) /\ call[c].op = "undone" /\ call[c].undo \in Undo /\ p \in Pods
               /\ k \in Key /\ k[1] = call[c].undo.id
               /\ call' = [call EXCEPT ![c] = NoCall]
               /\ undone' = undone \cup {[key |-> k, at |-> now]}
               /\ Elsewhere(p) /\ view'[p] = ApplyUndo(view[p], {k})
               /\ UNCHANGED <<now, bucketVars, cache, sync, proto, calls, faults, acked>>
<1> DEFINE k == UndoneKey(call[c].undo)
           p == call[c].pod
<1>1. Undoes(c) /\ call[c].op = "undone"
  BY DEF FinishUndelete, Undoes
<1>2. call[c].undo \in Undo /\ p \in Pods
  BY <1>1, CallFacts
<1>3. k \in Key /\ k[1] = call[c].undo.id
  BY <1>2 DEF UndoneKey, Undo, Key
<1>4. /\ call' = [call EXCEPT ![c] = NoCall]
      /\ undone' = undone \cup {[key |-> k, at |-> now]}
      /\ view' = [view EXCEPT ![p] = ApplyUndo(view[p], {k})]
      /\ UNCHANGED <<now, bucketVars, cache, sync, proto, calls, faults, acked>>
  BY DEF FinishUndelete
<1> HIDE DEF k, p
<1>5. call' \in [Calls -> {NoCall} \cup Creating \cup Undoing]
  BY <1>4, Except DEF Types
<1>6. ApplyUndo(view[p], {k}) \in [Ids -> EntryType] /\ view \in [Pods -> [Ids -> EntryType]]
  BY <1>2, ApplyUndoFacts DEF Types
<1>7. /\ view' \in [Pods -> [Ids -> EntryType]] /\ view'[p] = ApplyUndo(view[p], {k})
      /\ \A q \in Pods : q # p => view'[q] = view[q]
  BY <1>2, <1>4, <1>6, Except
<1>8. Elsewhere(p)
  BY <1>4, <1>7 DEF Elsewhere
<1>9. Types'
  <2>1. undone' \subseteq [key : Key, at : Int]
    BY <1>3, <1>4, SMT DEF Types
  <2> QED BY <1>4, <1>5, <1>7, <2>1 DEF Types, bucketVars
<1> QED BY <1>1, <1>2, <1>3, <1>4, <1>7, <1>8, <1>9 DEF k, p

\* A sync that starts notes its time and the keys that are in the bucket.
LEMMA StartSyncFacts ==
    ASSUME Types, NEW p \in Pods, NEW forceFull \in BOOLEAN, StartSync(p, forceFull)
    PROVE  /\ Types' /\ ~Syncing(p) /\ Elsewhere(p)
           /\ sync'[p].stage = "list" /\ sync'[p].t0 = Clock(p) /\ sync'[p].began = now
           /\ sync'[p].full = (forceFull \/ IsFull(p))
           /\ sync'[p].defs = defs /\ sync'[p].undos = undos /\ sync'[p].todo = {}
           /\ UNCHANGED <<now, bucketVars, view, cache, proto, call, calls, faults, histVars>>
<1> DEFINE r == [NoSync EXCEPT !.stage = "list", !.t0 = Clock(p), !.began = now,
                               !.full = forceFull \/ IsFull(p), !.defs = defs, !.undos = undos]
<1>1. /\ sync[p] = NoSync /\ sync' = [sync EXCEPT ![p] = r]
      /\ UNCHANGED <<now, bucketVars, view, cache, proto, call, calls, faults, histVars>>
  BY DEF StartSync
<1>2. ~Syncing(p)
  BY <1>1, SMT DEF Syncing, NoSync
<1>3. (forceFull \/ IsFull(p)) \in BOOLEAN /\ Clock(p) \in Int /\ now \in Int
  BY Constants, SMT DEF IsFull, Types, Clock
<1>4. /\ r \in SyncType /\ r.stage = "list" /\ r.t0 = Clock(p) /\ r.began = now
      /\ r.full = (forceFull \/ IsFull(p))
      /\ r.defs = defs /\ r.undos = undos /\ r.todo = NoSync.todo
  <2>1. defs \in SUBSET Definition /\ undos \in SUBSET Undo
    BY DEF Types
  <2> QED BY <1>3, <2>1, NoThings DEF SyncType
<1>5. NoSync.todo = {}
  BY DEF NoSync
<1> HIDE DEF r
<1>7. /\ sync' \in [Pods -> SyncType] /\ sync'[p] = r
      /\ \A q \in Pods : q # p => sync'[q] = sync[q]
  BY <1>1, <1>4, Except DEF Types
<1>8. Elsewhere(p)
  BY <1>1, <1>7 DEF Elsewhere
<1>9. Types'
  BY <1>1, <1>7 DEF Types, bucketVars, histVars
<1> QED BY <1>1, <1>2, <1>4, <1>5, <1>7, <1>8, <1>9

\* A listing without a short answer has every key of its range that was there throughout.
LEMMA ListFacts ==
    ASSUME Types, NEW p \in Pods, List(p) \/ ListShort(p)
    PROVE  /\ Types' /\ sync[p].stage = "list" /\ Elsewhere(p)
           /\ sync'[p].stage = "learn" /\ sync'[p].t0 = sync[p].t0 /\ sync'[p].began = sync[p].began
           /\ sync'[p].full = sync[p].full
           /\ sync'[p].todo = Need(p, sync'[p].defs \cup proto[p].bad)
           /\ sync'[p].undos \subseteq sync[p].undos \cup undos
           /\ ~ShortLists => /\ InWindow(p, sync[p].defs \cap defs) \subseteq sync'[p].defs
                             /\ InWindow(p, sync[p].undos \cap undos) \subseteq sync'[p].undos
           /\ UNCHANGED <<now, bucketVars, view, cache, proto, call, calls, histVars>>
<1>1. PICK D \in SUBSET (sync[p].defs \cup defs), U \in SUBSET (sync[p].undos \cup undos) :
          /\ ListAfter(p, D, U)
          /\ ~ShortLists => /\ InWindow(p, sync[p].defs \cap defs) \subseteq D
                            /\ InWindow(p, sync[p].undos \cap undos) \subseteq U
  <2>1. CASE List(p)
    BY <2>1 DEF List, Listings, InWindow
  <2>2. CASE ListShort(p)
    BY <2>2 DEF ListShort, InWindow
  <2> QED BY <2>1, <2>2
<1>2. faults' = faults \/ (faults < MaxFaults /\ faults' = faults + 1)
  BY DEF List, ListShort, Fault
<1>3. /\ sync[p].stage = "list"
      /\ sync' = [sync EXCEPT ![p] =
             [sync[p] EXCEPT !.stage = "learn", !.defs = D, !.undos = U, !.retried = proto[p].bad,
                             !.todo = Need(p, D \cup proto[p].bad)]]
      /\ UNCHANGED <<now, bucketVars, view, cache, proto, call, calls, histVars>>
  BY <1>1 DEF ListAfter
<1>4. D \in SUBSET Definition /\ U \in SUBSET Undo /\ proto[p].bad \in SUBSET Definition
  BY <1>1 DEF Types, SyncType, ProtoType
<1>5. Need(p, D \cup proto[p].bad) \in SUBSET Definition
  BY <1>4 DEF Need
<1> DEFINE N == Need(p, D \cup proto[p].bad)
           B == proto[p].bad
           r == [sync[p] EXCEPT !.stage = "learn", !.defs = D, !.undos = U, !.retried = B, !.todo = N]
<1>6. sync[p] \in SyncType /\ N \in SUBSET Definition /\ B \in SUBSET Definition
  BY <1>4, <1>5 DEF Types
<1>7. /\ r \in SyncType
      /\ r.stage = "learn" /\ r.t0 = sync[p].t0 /\ r.began = sync[p].began /\ r.full = sync[p].full
      /\ r.todo = N /\ r.defs = D /\ r.undos = U
  <2> HIDE DEF N, B
  <2> QED BY ONLY <1>4, <1>6, Zenon DEF SyncType
<1>8. sync' = [sync EXCEPT ![p] = r]
  BY <1>3
<1> HIDE DEF r
<1>9. /\ sync' \in [Pods -> SyncType] /\ sync'[p] = r /\ \A q \in Pods : q # p => sync'[q] = sync[q]
  BY <1>7, <1>8, Except DEF Types
<1>10. Elsewhere(p)
  BY <1>3, <1>9 DEF Elsewhere
<1>11. Types'
  BY <1>2, <1>3, <1>9, Constants, SMT DEF Types, bucketVars, histVars
<1> QED BY <1>1, <1>3, <1>7, <1>9, <1>10, <1>11 DEF N

\* A sync that fails leaves the pod as it was.
LEMMA SyncErrorFacts ==
    ASSUME Types, NEW p \in Pods, SyncError(p)
    PROVE  /\ Types' /\ Elsewhere(p) /\ sync'[p] = NoSync /\ ~Syncing(p)'
           /\ UNCHANGED <<now, bucketVars, view, cache, proto, call, calls, histVars>>
<1>1. /\ sync' = [sync EXCEPT ![p] = NoSync] /\ faults < MaxFaults /\ faults' = faults + 1
      /\ UNCHANGED <<now, bucketVars, view, cache, proto, call, calls, histVars>>
  BY DEF SyncError, Fault
<1>2. /\ sync' \in [Pods -> SyncType] /\ sync'[p] = NoSync
      /\ \A q \in Pods : q # p => sync'[q] = sync[q]
  BY <1>1, NoThings, Except DEF Types
<1>3. Elsewhere(p)
  BY <1>1, <1>2 DEF Elsewhere
<1>4. Types'
  BY <1>1, <1>2, Constants, SMT DEF Types, bucketVars, histVars
<1>5. ~Syncing(p)'
  BY <1>2, SMT DEF Syncing, NoSync
<1> QED BY <1>1, <1>2, <1>3, <1>4, <1>5

\* A sync that has read one definition fewer.
LEMMA TodoFacts ==
    ASSUME Types, NEW p \in Pods, NEW d, sync' = [sync EXCEPT ![p].todo = @ \ {d}]
    PROVE  /\ sync' \in [Pods -> SyncType] /\ \A q \in Pods : q # p => sync'[q] = sync[q]
           /\ sync'[p].todo = sync[p].todo \ {d}
           /\ sync'[p].stage = sync[p].stage /\ sync'[p].t0 = sync[p].t0
           /\ sync'[p].began = sync[p].began /\ sync'[p].full = sync[p].full
           /\ sync'[p].defs = sync[p].defs /\ sync'[p].undos = sync[p].undos
<1>1. sync \in [Pods -> SyncType] /\ sync[p].todo \ {d} \in SUBSET Definition
  BY DEF Types, SyncType
<1> QED BY ONLY <1>1, p \in Pods, sync' = [sync EXCEPT ![p].todo = @ \ {d}], Zenon DEF SyncType

\* LearnDefinition puts the definition into the view unless an earlier one is there, and
\* applies an undo that waited for it.
LEMMA LearnDefinitionFacts ==
    ASSUME Types, NEW p \in Pods, NEW d \in sync[p].todo, LearnDefinition(p, d)
    PROVE  LET wins == Known(p, d.id) => d.at <= view[p][d.id].at
               e    == view'[p][d.id]
           IN  /\ Types' /\ Elsewhere(p) /\ sync[p].stage = "learn" /\ d \in Definition
               /\ d \in defs \cup cache[p] /\ cache'[p] \in {cache[p], cache[p] \cup {d}}
               /\ sync' = [sync EXCEPT ![p].todo = @ \ {d}]
               /\ \A id \in Ids \ {d.id} : view'[p][id] = view[p][id]
               /\ ~wins => e = view[p][d.id]
               /\ wins => /\ e # NoEntry /\ e.at = d.at /\ e.mode = d.mode
                          /\ e.undone => KeyOf(d) \in proto[p].undoSeen
                          /\ (KeyOf(d) \in proto[p].undoSeen /\ d.mode = "hide") => e.undone
               /\ proto'[p].bad = proto[p].bad \ {d}
               /\ proto'[p].unreadable = proto[p].unreadable \ {KeyOf(d)}
               /\ proto'[p].undoSeen = IF wins THEN proto[p].undoSeen \ {KeyOf(d)} ELSE proto[p].undoSeen
               /\ proto'[p].lastGood = proto[p].lastGood /\ proto'[p].lastList = proto[p].lastList
               /\ proto'[p].lastFull = proto[p].lastFull /\ proto'[p].closed = proto[p].closed
               /\ proto'[p].gone = proto[p].gone /\ proto'[p].expired = proto[p].expired
               /\ UNCHANGED <<now, bucketVars, call, calls, faults, histVars>>
<1> DEFINE waits == {KeyOf(d)} \cap proto[p].undoSeen
           wins  == Known(p, d.id) => d.at <= view[p][d.id].at
           S     == IF wins THEN proto[p].undoSeen \ waits ELSE proto[p].undoSeen
           F     == IF wins THEN proto[p].seeded \ {KeyOf(d)} ELSE proto[p].seeded
           q     == [proto[p] EXCEPT !.bad = @ \ {d}, !.unreadable = @ \ {KeyOf(d)},
                                     !.undoSeen = IF wins THEN @ \ waits ELSE @,
                                     !.seeded = IF wins THEN @ \ {KeyOf(d)} ELSE @]
           v     == [view[p] EXCEPT ![d.id] = Entry(d)]
           w     == ApplyUndo(v, waits)
<1>1. /\ sync[p].stage = "learn" /\ d \in defs \cup cache[p]
      /\ sync' = [sync EXCEPT ![p].todo = @ \ {d}]
      /\ CacheBecomes(p, cache[p] \cup {d})
      /\ view' = IF wins THEN [view EXCEPT ![p] = w] ELSE view
      /\ proto' = [proto EXCEPT ![p] = q]
      /\ UNCHANGED <<now, bucketVars, call, calls, faults, histVars>>
  <2>1. sync[p].stage = "learn" /\ d \in defs \cup cache[p]
    BY DEF LearnDefinition
  <2>2. sync' = [sync EXCEPT ![p].todo = @ \ {d}]
    BY DEF LearnDefinition
  <2>3. CacheBecomes(p, cache[p] \cup {d})
    BY DEF LearnDefinition
  <2>4. view' = IF wins THEN [view EXCEPT ![p] = w] ELSE view
    BY DEF LearnDefinition
  <2>5. proto' = [proto EXCEPT ![p] = q]
    BY DEF LearnDefinition
  <2>6. UNCHANGED <<now, bucketVars, call, calls, faults, histVars>>
    BY DEF LearnDefinition
  <2> QED BY <2>1, <2>2, <2>3, <2>4, <2>5, <2>6
<1>2. d \in Definition /\ d.id \in Ids
  BY SMT DEF Types, SyncType, Definition
<1>3. proto[p] \in ProtoType /\ view[p] \in [Ids -> EntryType] /\ cache[p] \in SUBSET Definition
  BY DEF Types
<1>4. /\ v \in [Ids -> EntryType] /\ v[d.id] = Entry(d)
      /\ \A id \in Ids : id # d.id => v[id] = view[p][id]
  BY <1>2, <1>3, EntryFacts, Except
<1>5. /\ w \in [Ids -> EntryType]
      /\ w[d.id] # NoEntry /\ w[d.id].at = d.at /\ w[d.id].mode = d.mode
      /\ w[d.id].undone => KeyOf(d) \in proto[p].undoSeen
      /\ (KeyOf(d) \in proto[p].undoSeen /\ d.mode = "hide") => w[d.id].undone
      /\ \A id \in Ids \ {d.id} : w[id] = view[p][id]
  <2>1. /\ w \in [Ids -> EntryType]
        /\ w[d.id].at = v[d.id].at /\ w[d.id].mode = v[d.id].mode
        /\ w[d.id] = NoEntry <=> v[d.id] = NoEntry
        /\ w[d.id].undone => v[d.id].undone \/ <<d.id, v[d.id].at>> \in waits
        /\ (<<d.id, v[d.id].at>> \in waits /\ v[d.id].mode = "hide") => w[d.id].undone
    <3> HIDE DEF v, waits
    <3> QED BY <1>2, <1>4, ApplyUndoFacts, SMT
  <2>2. /\ v[d.id] # NoEntry /\ v[d.id].at = d.at /\ v[d.id].mode = d.mode /\ ~v[d.id].undone
        /\ KeyOf(d) = <<d.id, d.at>>
    BY <1>2, <1>4, EntryFacts DEF KeyOf
  <2>3. ASSUME NEW id \in Ids \ {d.id} PROVE w[id] = view[p][id]
    <3>1. <<id, v[id].at>> \notin waits
      BY <2>2, SMT
    <3>2. w[id] = v[id]
      BY <3>1 DEF ApplyUndo
    <3> QED BY <1>4, <3>2
  <2>4. /\ w[d.id].undone => KeyOf(d) \in waits
        /\ (KeyOf(d) \in waits /\ d.mode = "hide") => w[d.id].undone
    BY <2>1, <2>2
  <2> QED BY <2>1, <2>2, <2>3, <2>4
<1>6. S \in SUBSET Key /\ F \in SUBSET Key /\ proto[p].bad \ {d} \in SUBSET Definition
      /\ proto[p].unreadable \ {KeyOf(d)} \in SUBSET Key
  BY <1>3 DEF ProtoType
<1>7. /\ q \in ProtoType /\ q.bad = proto[p].bad \ {d}
      /\ q.unreadable = proto[p].unreadable \ {KeyOf(d)} /\ q.undoSeen = S
      /\ q.lastGood = proto[p].lastGood /\ q.lastList = proto[p].lastList
      /\ q.lastFull = proto[p].lastFull /\ q.closed = proto[p].closed
      /\ q.gone = proto[p].gone /\ q.expired = proto[p].expired
  <2> HIDE DEF wins
  <2> QED BY <1>3, <1>6 DEF ProtoType
<1>8. S = IF wins THEN proto[p].undoSeen \ {KeyOf(d)} ELSE proto[p].undoSeen
  OBVIOUS
<1> HIDE DEF q, w, v, S, F
<1>9. /\ proto' \in [Pods -> ProtoType] /\ proto'[p] = q
      /\ \A r \in Pods : r # p => proto'[r] = proto[r]
  BY <1>1, <1>7, Except DEF Types
<1>10. /\ cache' \in [Pods -> SUBSET Definition] /\ cache'[p] \in {cache[p], cache[p] \cup {d}}
       /\ \A r \in Pods : r # p => cache'[r] = cache[r]
  <2>1. cache[p] \cup {d} \in SUBSET Definition
    BY <1>2, <1>3
  <2> QED BY <1>1, <2>1, CacheFacts
<1>11. /\ view' \in [Pods -> [Ids -> EntryType]]
       /\ wins => view'[p] = w
       /\ ~wins => view'[p] = view[p]
       /\ \A r \in Pods : r # p => view'[r] = view[r]
  <2>1. CASE wins
    BY <1>1, <1>5, <2>1, Except DEF Types
  <2>2. CASE ~wins
    BY <1>1, <2>2 DEF Types
  <2> QED BY <2>1, <2>2
<1>12. sync' \in [Pods -> SyncType] /\ \A r \in Pods : r # p => sync'[r] = sync[r]
  BY <1>1, TodoFacts
<1>13. Elsewhere(p)
  BY <1>9, <1>10, <1>11, <1>12 DEF Elsewhere
<1>14. Types'
  BY <1>1, <1>9, <1>10, <1>11, <1>12 DEF Types, bucketVars, histVars
<1>15. \A id \in Ids \ {d.id} : view'[p][id] = view[p][id]
  BY <1>5, <1>11
<1> HIDE DEF wins
<1>16. /\ ~wins => view'[p][d.id] = view[p][d.id]
       /\ wins => /\ view'[p][d.id] # NoEntry
                  /\ view'[p][d.id].at = d.at /\ view'[p][d.id].mode = d.mode
                  /\ view'[p][d.id].undone => KeyOf(d) \in proto[p].undoSeen
                  /\ (KeyOf(d) \in proto[p].undoSeen /\ d.mode = "hide") => view'[p][d.id].undone
  BY <1>5, <1>11
<1> QED BY <1>1, <1>2, <1>7, <1>8, <1>9, <1>10, <1>13, <1>14, <1>15, <1>16 DEF wins

\* A definition that is not learned: undecodable, gone, or not read.
LEMMA NotLearnedFacts ==
    ASSUME Types, NEW p \in Pods, NEW d \in sync[p].todo,
           LearnUnreadable(p, d) \/ LearnGone(p, d) \/ LearnError(p, d)
    PROVE  /\ Types' /\ Elsewhere(p) /\ sync[p].stage = "learn" /\ d \in Definition
           /\ sync' = [sync EXCEPT ![p].todo = @ \ {d}]
           /\ \/ KeyOf(d) \in proto'[p].unreadable
              \/ d \notin defs
              \/ d \in proto'[p].bad
           /\ proto[p].unreadable \subseteq proto'[p].unreadable
           /\ \A e \in proto[p].bad : e \in proto'[p].bad \/ e \notin defs
           /\ proto'[p].undoSeen = proto[p].undoSeen
           /\ proto'[p].lastGood = proto[p].lastGood /\ proto'[p].lastList = proto[p].lastList
           /\ proto'[p].lastFull = proto[p].lastFull /\ proto'[p].closed = proto[p].closed
           /\ proto'[p].gone = proto[p].gone /\ proto'[p].expired = proto[p].expired
           /\ UNCHANGED <<now, bucketVars, view, cache, call, calls, histVars>>
<1>1. d \in Definition /\ KeyOf(d) \in Key
  BY EntryFacts DEF Types, SyncType
<1>2. proto[p] \in ProtoType /\ proto \in [Pods -> ProtoType]
  BY DEF Types
<1>3. /\ sync[p].stage = "learn" /\ sync' = [sync EXCEPT ![p].todo = @ \ {d}]
      /\ UNCHANGED <<now, bucketVars, view, cache, call, calls, histVars>>
      /\ faults' = faults \/ (faults < MaxFaults /\ faults' = faults + 1)
  BY DEF LearnUnreadable, LearnGone, LearnError, Fault
<1>4. PICK q \in ProtoType :
         /\ proto' = [proto EXCEPT ![p] = q]
         /\ KeyOf(d) \in q.unreadable \/ d \notin defs \/ d \in q.bad
         /\ proto[p].unreadable \subseteq q.unreadable
         /\ \A e \in proto[p].bad : e \in q.bad \/ e \notin defs
         /\ q.undoSeen = proto[p].undoSeen
         /\ q.lastGood = proto[p].lastGood /\ q.lastList = proto[p].lastList
         /\ q.lastFull = proto[p].lastFull /\ q.closed = proto[p].closed
         /\ q.gone = proto[p].gone /\ q.expired = proto[p].expired
  <2>1. CASE LearnUnreadable(p, d)
    <3> DEFINE q == [proto[p] EXCEPT !.unreadable = @ \cup {KeyOf(d)}]
    <3>1. proto' = [proto EXCEPT ![p].unreadable = @ \cup {KeyOf(d)}]
      BY <2>1 DEF LearnUnreadable
    <3>2. proto' = [proto EXCEPT ![p] = q]
      BY <1>2, <3>1
    <3>3. /\ q \in ProtoType /\ q.unreadable = proto[p].unreadable \cup {KeyOf(d)}
          /\ q.bad = proto[p].bad /\ q.undoSeen = proto[p].undoSeen
          /\ q.lastGood = proto[p].lastGood /\ q.lastList = proto[p].lastList
          /\ q.lastFull = proto[p].lastFull /\ q.closed = proto[p].closed
          /\ q.gone = proto[p].gone /\ q.expired = proto[p].expired
      BY <1>1, <1>2 DEF ProtoType
    <3> HIDE DEF q
    <3> QED BY <3>2, <3>3
  <2>2. CASE LearnGone(p, d)
    <3> DEFINE q == [proto[p] EXCEPT !.bad = @ \ {d}]
    <3>1. proto' = [proto EXCEPT ![p].bad = @ \ {d}] /\ d \notin defs
      BY <2>2 DEF LearnGone
    <3>2. proto' = [proto EXCEPT ![p] = q]
      BY <1>2, <3>1
    <3> QED BY <1>1, <1>2, <3>1, <3>2 DEF ProtoType
  <2>3. CASE LearnError(p, d)
    <3> DEFINE q == [proto[p] EXCEPT !.bad = @ \cup {d}]
    <3>1. proto' = [proto EXCEPT ![p].bad = @ \cup {d}]
      BY <2>3 DEF LearnError
    <3>2. proto' = [proto EXCEPT ![p] = q]
      BY <1>2, <3>1
    <3>3. /\ q \in ProtoType /\ q.bad = proto[p].bad \cup {d}
          /\ q.unreadable = proto[p].unreadable /\ q.undoSeen = proto[p].undoSeen
          /\ q.lastGood = proto[p].lastGood /\ q.lastList = proto[p].lastList
          /\ q.lastFull = proto[p].lastFull /\ q.closed = proto[p].closed
          /\ q.gone = proto[p].gone /\ q.expired = proto[p].expired
      BY <1>1, <1>2 DEF ProtoType
    <3> HIDE DEF q
    <3> QED BY <3>2, <3>3
  <2> QED BY <2>1, <2>2, <2>3
<1>5. /\ proto' \in [Pods -> ProtoType] /\ proto'[p] = q
      /\ \A r \in Pods : r # p => proto'[r] = proto[r]
  BY <1>2, <1>4, Except
<1>6. sync' \in [Pods -> SyncType] /\ \A r \in Pods : r # p => sync'[r] = sync[r]
  BY <1>3, TodoFacts
<1>7. Elsewhere(p)
  BY <1>3, <1>5, <1>6 DEF Elsewhere
<1>8. Types'
  BY <1>3, <1>5, <1>6, Constants, SMT DEF Types, bucketVars, histVars
<1> QED BY <1>1, <1>3, <1>4, <1>5, <1>7, <1>8

\* The undo keys of a set.
LEMMA UndoKeys ==
    ASSUME NEW U \in SUBSET Undo
    PROVE  /\ {UndoneKey(u) : u \in U} \subseteq Key
           /\ \A k : k \in {UndoneKey(u) : u \in U} <=> HasKey(U, k)
           /\ \A u \in U : UndoneKey(u) \in Key /\ UndoneKey(u)[1] = u.id /\ UndoneKey(u)[2] = u.def
<1>1. \A u \in U : UndoneKey(u) \in Key /\ UndoneKey(u)[1] = u.id /\ UndoneKey(u)[2] = u.def
  BY DEF UndoneKey, Undo, Key
<1> QED BY <1>1 DEF HasKey

\* What Apply makes of the view: entries leave it only if their definition is not in the
\* bucket or has expired, and the others are undone by the listed undo keys.
AppliedView(p) ==
    \A id \in Ids :
        LET e == ApplyUndo(view[p], {UndoneKey(u) : u \in sync[p].undos})[id]
            k == <<id, view[p][id].at>>
        IN  /\ view'[p][id] = NoEntry \/ (Known(p, id) /\ view'[p][id] = e)
            /\ (Known(p, id) /\ view'[p][id] = NoEntry)
                  => k \notin KeysOf(defs) \/ sync[p].t0 > ExpiresAt[id]

\* What Apply makes of the protocol's state, whether or not a collection follows.
AppliedProto(p) ==
    LET K == {UndoneKey(u) : u \in sync[p].undos} IN
    /\ proto'[p].bad = proto[p].bad
    /\ proto'[p].unreadable = IF sync[p].full THEN proto[p].unreadable \cap KeysOf(sync[p].defs)
                              ELSE proto[p].unreadable
    /\ proto'[p].undoSeen \subseteq proto[p].undoSeen \cup K
    /\ \A k \in Key : (/\ k \in proto[p].undoSeen \/ (k \in K /\ k \notin KnownKeys(p))
                       /\ sync[p].full => k \in KeysOf(sync[p].defs)
                       /\ k \notin proto[p].gone) => k \in proto'[p].undoSeen
    /\ proto'[p].lastFull = IF sync[p].full THEN sync[p].t0 ELSE proto[p].lastFull
    /\ \A k \in proto'[p].gone \cup proto'[p].expired :
          \/ k \in proto[p].gone \cup proto[p].expired
          \/ k \in Key /\ sync[p].t0 > ExpiresAt[k[1]]

\* How Apply ends the sync.
AppliedEnd(p) ==
    IF sync[p].full /\ p \in Maintenance
    THEN /\ sync'[p] = [sync[p] EXCEPT !.stage = "gc"]
         /\ proto'[p].lastGood = proto[p].lastGood /\ proto'[p].lastList = proto[p].lastList
         /\ proto'[p].closed = proto[p].closed
    ELSE /\ sync'[p] = NoSync
         /\ proto'[p].lastGood = IF proto[p].bad = {} THEN now ELSE proto[p].lastGood
         /\ proto'[p].lastList = sync[p].t0
         /\ proto'[p].closed = proto'[p].unreadable

\* Ended, as a record of the right type.
LEMMA EndedFacts ==
    ASSUME Types, NEW p \in Pods, NEW q \in ProtoType
    PROVE  /\ Ended(p, q) \in ProtoType
           /\ Ended(p, q).lastList = sync[p].t0 /\ Ended(p, q).closed = q.unreadable
           /\ Ended(p, q).lastGood = IF q.bad = {} THEN now ELSE q.lastGood
           /\ Ended(p, q).bad = q.bad /\ Ended(p, q).unreadable = q.unreadable
           /\ Ended(p, q).undoSeen = q.undoSeen /\ Ended(p, q).lastFull = q.lastFull
           /\ Ended(p, q).gone = q.gone /\ Ended(p, q).expired = q.expired
<1>1. sync[p].t0 \in Int /\ now \in Int
  BY SMT DEF Types, SyncType
<1> DEFINE g == IF q.bad = {} THEN now ELSE q.lastGood
<1>2. Ended(p, q) = [q EXCEPT !.lastList = sync[p].t0, !.closed = q.unreadable, !.lastGood = g]
  BY DEF Ended
<1>3. g \in Int /\ q.unreadable \in SUBSET Key
  BY <1>1 DEF ProtoType
<1>4. PICK t : t = sync[p].t0
  OBVIOUS
<1> HIDE DEF g
<1>5. /\ Ended(p, q) \in ProtoType
      /\ Ended(p, q).lastList = t /\ Ended(p, q).closed = q.unreadable
      /\ Ended(p, q).lastGood = g
      /\ Ended(p, q).bad = q.bad /\ Ended(p, q).unreadable = q.unreadable
      /\ Ended(p, q).undoSeen = q.undoSeen /\ Ended(p, q).lastFull = q.lastFull
      /\ Ended(p, q).gone = q.gone /\ Ended(p, q).expired = q.expired
  <2>1. Ended(p, q) = [q EXCEPT !.lastList = t, !.closed = q.unreadable, !.lastGood = g]
    BY <1>2, <1>4
  <2>2. t \in Int
    BY <1>1, <1>4
  <2> QED BY ONLY <1>3, <2>1, <2>2, q \in ProtoType, Zenon DEF ProtoType
<1> QED BY <1>4, <1>5 DEF g

\* Apply, taken apart.
LEMMA ApplyFacts ==
    ASSUME Types, NEW p \in Pods, Apply(p)
    PROVE  /\ Types' /\ Elsewhere(p) /\ sync[p].stage = "learn" /\ sync[p].todo = {}
           /\ AppliedView(p) /\ AppliedProto(p) /\ AppliedEnd(p)
           /\ cache'[p] \subseteq cache[p]
           /\ UNCHANGED <<now, bucketVars, call, calls, histVars>>
<1> DEFINE s      == sync[p]
           keys   == {UndoneKey(u) : u \in s.undos}
           listed == KeysOf(s.defs)
           seen   == proto[p].undoSeen \cup (keys \ KnownKeys(p))
           gone   == IF s.full THEN proto[p].gone \cap listed ELSE proto[p].gone
           wanted == KeysOf(s.defs \cup s.retried) \ gone
           gc     == s.full /\ p \in Maintenance
           kept(drop)  == KnownKeys(p) \ drop
           swept(drop) == {k \in kept(drop) : s.t0 > ExpiresAt[k[1]]}
           q(drop) == [proto[p] EXCEPT
                     !.seeded     = IF s.full THEN @ \ (listed \cup drop) ELSE @,
                     !.gone       = gone \cup swept(drop),
                     !.unreadable = IF s.full THEN @ \cap listed ELSE @,
                     !.undoSeen   = IF s.full THEN seen \cap (kept(drop) \cup wanted) ELSE seen,
                     !.lastFull   = IF s.full THEN s.t0 ELSE @,
                     !.expired    = IF p \in Maintenance
                                    THEN swept(drop) \cup {k \in @ : \A j \in swept(drop) : j[1] # k[1]} ELSE @]
           v(drop) == [id \in Ids |-> IF <<id, view[p][id].at>> \in kept(drop) \ swept(drop)
                                      THEN ApplyUndo(view[p], keys)[id] ELSE NoEntry]
           r == IF gc THEN [sync[p] EXCEPT !.stage = "gc"] ELSE NoSync
<1>1. PICK drop \in SUBSET Absent(p) :
         /\ IF drop = Absent(p) THEN UNCHANGED faults ELSE Fault
         /\ view' = [view EXCEPT ![p] = v(drop)]
         /\ CacheBecomes(p, {d \in cache[p] : KeyOf(d) \notin drop})
         /\ proto' = [proto EXCEPT ![p] = IF gc THEN q(drop) ELSE Ended(p, q(drop))]
  BY DEF Apply, Expired
<1>2. /\ s.stage = "learn" /\ s.todo = {}
      /\ sync' = [sync EXCEPT ![p] = r]
      /\ UNCHANGED <<now, bucketVars, call, calls, histVars>>
  BY DEF Apply
<1>3. /\ s \in SyncType /\ proto[p] \in ProtoType /\ view[p] \in [Ids -> EntryType]
      /\ cache[p] \in SUBSET Definition
      /\ s.defs \in SUBSET Definition /\ s.retried \in SUBSET Definition /\ s.undos \in SUBSET Undo
      /\ s.t0 \in Int /\ s.full \in BOOLEAN
  BY DEF Types, SyncType
<1>4. keys \subseteq Key /\ listed \subseteq Key /\ wanted \subseteq Key /\ KnownKeys(p) \subseteq Key
  <2>1. s.defs \cup s.retried \in SUBSET Definition
    BY <1>3
  <2>2. KeysOf(s.defs \cup s.retried) \subseteq Key /\ listed \subseteq Key
    BY <1>3, <2>1, KeysType
  <2>3. keys \subseteq Key
    BY <1>3, UndoKeys
  <2> QED BY <2>2, <2>3, KnownKeysFacts
<1>5. listed \subseteq KeysOf(s.defs \cup s.retried)
  BY DEF KeysOf
<1>6. \A k \in drop : k \notin KeysOf(defs)
  BY <1>1 DEF Absent
<1> DEFINE K  == kept(drop)
           W  == swept(drop)
           f1 == IF s.full THEN proto[p].seeded \ (listed \cup drop) ELSE proto[p].seeded
           f2 == gone \cup W
           f3 == IF s.full THEN proto[p].unreadable \cap listed ELSE proto[p].unreadable
           f4 == IF s.full THEN seen \cap (K \cup wanted) ELSE seen
           f5 == IF s.full THEN s.t0 ELSE proto[p].lastFull
           f6 == IF p \in Maintenance
                 THEN W \cup {k \in proto[p].expired : \A j \in W : j[1] # k[1]} ELSE proto[p].expired
           x  == [proto[p] EXCEPT !.seeded = f1, !.gone = f2, !.unreadable = f3, !.undoSeen = f4,
                                  !.lastFull = f5, !.expired = f6]
<1>7. q(drop) = x
  OBVIOUS
<1>8. /\ f1 \in SUBSET Key /\ f2 \in SUBSET Key /\ f3 \in SUBSET Key /\ f4 \in SUBSET Key
      /\ f5 \in Int /\ f6 \in SUBSET Key
  <2> HIDE DEF wanted, listed, keys, s
  <2>1. /\ proto[p].seeded \subseteq Key /\ proto[p].gone \subseteq Key
        /\ proto[p].unreadable \subseteq Key /\ proto[p].undoSeen \subseteq Key
        /\ proto[p].lastFull \in Int /\ proto[p].expired \subseteq Key
    BY <1>3 DEF ProtoType
  <2> QED BY <1>3, <1>4, <2>1
<1>9. /\ x \in ProtoType /\ x.gone = f2 /\ x.unreadable = f3 /\ x.undoSeen = f4
      /\ x.lastFull = f5 /\ x.expired = f6 /\ x.bad = proto[p].bad /\ x.closed = proto[p].closed
      /\ x.lastGood = proto[p].lastGood /\ x.lastList = proto[p].lastList
  <2> HIDE DEF f1, f2, f3, f4, f5, f6
  <2> QED BY ONLY <1>3, <1>8, Zenon DEF ProtoType
<1>10. /\ Ended(p, x) \in ProtoType /\ Ended(p, x).lastList = s.t0 /\ Ended(p, x).closed = x.unreadable
       /\ Ended(p, x).lastGood = IF x.bad = {} THEN now ELSE x.lastGood
       /\ Ended(p, x).bad = x.bad /\ Ended(p, x).unreadable = x.unreadable
       /\ Ended(p, x).undoSeen = x.undoSeen /\ Ended(p, x).lastFull = x.lastFull
       /\ Ended(p, x).gone = x.gone /\ Ended(p, x).expired = x.expired
  <2> HIDE DEF x
  <2> QED BY <1>9, EndedFacts
<1>11. proto' = [proto EXCEPT ![p] = IF gc THEN x ELSE Ended(p, x)]
  BY <1>1, <1>7
<1>12. /\ proto' \in [Pods -> ProtoType] /\ proto'[p] = IF gc THEN x ELSE Ended(p, x)
       /\ \A o \in Pods : o # p => proto'[o] = proto[o]
  <2>1. (IF gc THEN x ELSE Ended(p, x)) \in ProtoType
    <3> HIDE DEF x, gc
    <3> QED BY <1>9, <1>10
  <2> HIDE DEF x, gc
  <2> QED BY <1>11, <2>1, Except DEF Types
<1>13. /\ proto'[p].gone = f2 /\ proto'[p].unreadable = f3 /\ proto'[p].undoSeen = f4
       /\ proto'[p].lastFull = f5 /\ proto'[p].expired = f6 /\ proto'[p].bad = proto[p].bad
       /\ gc => /\ proto'[p].lastGood = proto[p].lastGood /\ proto'[p].lastList = proto[p].lastList
                /\ proto'[p].closed = proto[p].closed
       /\ ~gc => /\ proto'[p].lastGood = IF proto[p].bad = {} THEN now ELSE proto[p].lastGood
                 /\ proto'[p].lastList = s.t0 /\ proto'[p].closed = f3
  <2> HIDE DEF x, gc, f1, f2, f3, f4, f5, f6, s
  <2>1. CASE gc
    BY <1>9, <1>12, <2>1
  <2>2. CASE ~gc
    BY <1>9, <1>10, <1>12, <2>2
  <2> QED BY <2>1, <2>2
<1>14. AppliedProto(p)
  <2> HIDE DEF wanted, gc
  <2>1. /\ f4 \subseteq proto[p].undoSeen \cup keys
        /\ f3 = IF s.full THEN proto[p].unreadable \cap listed ELSE proto[p].unreadable
    OBVIOUS
  <2>2. \A k \in f2 \cup f6 : \/ k \in proto[p].gone \cup proto[p].expired
                              \/ k \in Key /\ s.t0 > ExpiresAt[k[1]]
    <3> HIDE DEF listed
    <3> QED BY <1>4
  <2>3. ASSUME NEW k \in Key, k \in proto[p].undoSeen \/ (k \in keys /\ k \notin KnownKeys(p)),
               s.full => k \in listed, k \notin proto[p].gone
        PROVE  k \in f4
    <3>1. k \in seen /\ k \notin gone
      BY <2>3
    <3>2. s.full => k \in wanted
      BY <1>5, <2>3, <3>1 DEF wanted
    <3> HIDE DEF seen, s
    <3> QED BY <3>1, <3>2
  <2> HIDE DEF f2, f3, f4, f6
  <2> QED BY <1>13, <2>1, <2>2, <2>3 DEF AppliedProto
<1>15. /\ v(drop) \in [Ids -> EntryType]
       /\ \A id \in Ids : v(drop)[id] = IF <<id, view[p][id].at>> \in K \ W
                                        THEN ApplyUndo(view[p], keys)[id] ELSE NoEntry
  <2>1. ApplyUndo(view[p], keys) \in [Ids -> EntryType]
    <3> HIDE DEF keys
    <3> QED BY <1>3, ApplyUndoFacts
  <2> HIDE DEF keys, s
  <2> QED BY <2>1, NoThings
<1>16. /\ view' \in [Pods -> [Ids -> EntryType]] /\ view'[p] = v(drop)
       /\ \A o \in Pods : o # p => view'[o] = view[o]
  <2> HIDE DEF v
  <2> QED BY <1>1, <1>15, Except DEF Types
<1>17. AppliedView(p)
  <2> SUFFICES ASSUME NEW id \in Ids
               PROVE  LET e == ApplyUndo(view[p], keys)[id]
                          k == <<id, view[p][id].at>>
                      IN  /\ view'[p][id] = NoEntry \/ (Known(p, id) /\ view'[p][id] = e)
                          /\ (Known(p, id) /\ view'[p][id] = NoEntry)
                                => k \notin KeysOf(defs) \/ s.t0 > ExpiresAt[id]
    BY DEF AppliedView
  <2> DEFINE k == <<id, view[p][id].at>>
             e == ApplyUndo(view[p], keys)[id]
  <2>1. k \in Key /\ k[1] = id /\ (k \in KnownKeys(p) <=> Known(p, id))
    BY ViewFacts, KnownKeysFacts DEF Key
  <2>2. view'[p][id] = IF k \in K \ W THEN e ELSE NoEntry
    BY <1>15, <1>16
  <2>3. k \in K => Known(p, id)
    BY <2>1
  <2>4. (Known(p, id) /\ k \notin K) => k \notin KeysOf(defs)
    BY <1>6, <2>1
  <2>5. k \in W => s.t0 > ExpiresAt[id]
    BY <2>1
  <2>6. (Known(p, id) /\ k \in K \ W) => e # NoEntry
    <3> HIDE DEF keys, K, W
    <3> QED BY <1>3, ApplyUndoFacts, SMT DEF Known
  <2> HIDE DEF k, K, W, e
  <2> QED BY <2>2, <2>3, <2>4, <2>5, <2>6 DEF k, e
<1>18. /\ cache' \in [Pods -> SUBSET Definition] /\ cache'[p] \subseteq cache[p]
       /\ \A o \in Pods : o # p => cache'[o] = cache[o]
  <2>1. {d \in cache[p] : KeyOf(d) \notin drop} \in SUBSET Definition
    BY <1>3
  <2> QED BY <1>1, <2>1, CacheFacts
<1>20. r \in SyncType /\ sync' \in [Pods -> SyncType] /\ sync'[p] = r
       /\ \A o \in Pods : o # p => sync'[o] = sync[o]
  <2>1. [sync[p] EXCEPT !.stage = "gc"] \in SyncType
    BY <1>3 DEF SyncType
  <2>2. r \in SyncType
    <3> HIDE DEF gc
    <3> QED BY <2>1, NoThings
  <2> HIDE DEF r
  <2> QED BY <1>2, <2>2, Except DEF Types
<1>21. AppliedEnd(p)
  <2> HIDE DEF f2, f3, f4, f5, f6
  <2>1. CASE gc
    <3>1. sync'[p] = [sync[p] EXCEPT !.stage = "gc"]
      BY <1>20, <2>1
    <3>2. /\ proto'[p].lastGood = proto[p].lastGood /\ proto'[p].lastList = proto[p].lastList
          /\ proto'[p].closed = proto[p].closed
      BY <1>13, <2>1
    <3> QED BY <2>1, <3>1, <3>2 DEF AppliedEnd
  <2>2. CASE ~gc
    <3>1. sync'[p] = NoSync
      BY <1>20, <2>2
    <3>2. /\ proto'[p].lastGood = IF proto[p].bad = {} THEN now ELSE proto[p].lastGood
          /\ proto'[p].lastList = s.t0 /\ proto'[p].closed = proto'[p].unreadable
      BY <1>13, <2>2
    <3> QED BY <2>2, <3>1, <3>2 DEF AppliedEnd
  <2> QED BY <2>1, <2>2
<1>22. Elsewhere(p)
  BY <1>12, <1>16, <1>18, <1>20 DEF Elsewhere
<1>23. faults' = faults \/ (faults < MaxFaults /\ faults' = faults + 1)
  BY <1>1 DEF Fault
<1>24. Types'
  <2>1. faults' \in 0 .. MaxFaults
    BY <1>23, Constants, SMT DEF Types
  <2> QED BY <1>2, <1>12, <1>16, <1>18, <1>20, <2>1 DEF Types, bucketVars, histVars
<1> QED BY <1>2, <1>14, <1>17, <1>18, <1>21, <1>22, <1>24

\* Collection removes an undo key.
LEMMA GcUndoFacts ==
    ASSUME Types, NEW p \in Pods, NEW u, GcUndo(p, u)
    PROVE  /\ Types' /\ UndoneKey(u) \in proto[p].expired /\ undos' = undos \ {u} /\ u \in undos
           /\ UNCHANGED <<now, defs, podVars, call, calls, faults, histVars>>
<1>1. /\ UndoneKey(u) \in proto[p].expired /\ undos' = undos \ {u} /\ u \in undos
      /\ UNCHANGED <<now, defs, podVars, call, calls, faults, histVars>>
  BY DEF GcUndo
<1>2. undos' \subseteq undos
  BY <1>1
<1>3. Types'
  BY <1>1, <1>2 DEF Types, podVars, histVars
<1> QED BY <1>1, <1>3

\* Collection removes a definition, from the bucket and from the cache.
LEMMA GcDefinitionFacts ==
    ASSUME Types, NEW p \in Pods, NEW k, GcDefinition(p, k)
    PROVE  /\ Types' /\ Elsewhere(p) /\ k \in proto[p].expired /\ sync[p].stage = "gc"
           /\ defs' = {d \in defs : KeyOf(d) # k}
           /\ cache'[p] \subseteq cache[p]
           /\ proto'[p].expired \subseteq proto[p].expired /\ proto'[p].gone \subseteq proto[p].gone
           /\ proto'[p].bad = proto[p].bad /\ proto'[p].unreadable = proto[p].unreadable
           /\ proto'[p].undoSeen = proto[p].undoSeen /\ proto'[p].lastFull = proto[p].lastFull
           /\ proto'[p].lastGood = proto[p].lastGood /\ proto'[p].lastList = proto[p].lastList
           /\ proto'[p].closed = proto[p].closed
           /\ UNCHANGED <<now, undos, view, sync, call, calls, faults, histVars>>
<1> DEFINE C == {d \in cache[p] : KeyOf(d) # k}
           q == [proto[p] EXCEPT !.expired = @ \ {k}, !.gone = @ \ {k}]
<1>1. /\ k \in proto[p].expired /\ sync[p].stage = "gc"
      /\ defs' = {d \in defs : KeyOf(d) # k}
      /\ CacheBecomes(p, C) /\ proto' = [proto EXCEPT ![p] = q]
      /\ UNCHANGED <<now, undos, view, sync, call, calls, faults, histVars>>
  BY DEF GcDefinition
<1>2. proto[p] \in ProtoType /\ C \in SUBSET Definition
  BY DEF Types
<1>3. /\ q \in ProtoType /\ q.expired \subseteq proto[p].expired /\ q.gone \subseteq proto[p].gone
      /\ q.bad = proto[p].bad /\ q.unreadable = proto[p].unreadable
      /\ q.undoSeen = proto[p].undoSeen /\ q.lastFull = proto[p].lastFull
      /\ q.lastGood = proto[p].lastGood /\ q.lastList = proto[p].lastList
      /\ q.closed = proto[p].closed
  <2>1. proto[p].expired \ {k} \in SUBSET Key /\ proto[p].gone \ {k} \in SUBSET Key
    BY <1>2 DEF ProtoType
  <2> QED BY <1>2, <2>1 DEF ProtoType
<1> HIDE DEF C, q
<1>4. /\ cache' \in [Pods -> SUBSET Definition] /\ cache'[p] \in {cache[p], C}
      /\ \A o \in Pods : o # p => cache'[o] = cache[o]
  BY <1>1, <1>2, CacheFacts
<1>5. /\ proto' \in [Pods -> ProtoType] /\ proto'[p] = q
      /\ \A o \in Pods : o # p => proto'[o] = proto[o]
  BY <1>1, <1>3, Except DEF Types
<1>6. Elsewhere(p)
  BY <1>1, <1>4, <1>5 DEF Elsewhere
<1>7. Types'
  <2>1. defs' \subseteq Definition
    BY <1>1 DEF Types
  <2> QED BY <1>1, <1>4, <1>5, <2>1 DEF Types, histVars
<1> QED BY <1>1, <1>3, <1>4, <1>5, <1>6, <1>7 DEF C

\* The end of a collection is the end of its sync.
LEMMA EndGcFacts ==
    ASSUME Types, NEW p \in Pods, EndGc(p)
    PROVE  /\ Types' /\ Elsewhere(p) /\ sync[p].stage = "gc" /\ sync'[p] = NoSync
           /\ proto'[p].lastGood = IF proto[p].bad = {} THEN now ELSE proto[p].lastGood
           /\ proto'[p].lastList = sync[p].t0 /\ proto'[p].closed = proto[p].unreadable
           /\ proto'[p].bad = proto[p].bad /\ proto'[p].unreadable = proto[p].unreadable
           /\ proto'[p].undoSeen = proto[p].undoSeen /\ proto'[p].lastFull = proto[p].lastFull
           /\ proto'[p].gone = proto[p].gone /\ proto'[p].expired = proto[p].expired
           /\ UNCHANGED <<now, bucketVars, view, cache, call, calls, histVars>>
<1> DEFINE q == Ended(p, proto[p])
<1>1. /\ sync[p].stage = "gc" /\ sync' = [sync EXCEPT ![p] = NoSync]
      /\ proto' = [proto EXCEPT ![p] = q]
      /\ UNCHANGED <<now, bucketVars, view, cache, call, calls, histVars>>
      /\ faults' = faults \/ (faults < MaxFaults /\ faults' = faults + 1)
  BY DEF EndGc, Fault
<1>2. proto[p] \in ProtoType
  BY DEF Types
<1>3. /\ q \in ProtoType /\ q.lastList = sync[p].t0 /\ q.closed = proto[p].unreadable
      /\ q.lastGood = IF proto[p].bad = {} THEN now ELSE proto[p].lastGood
      /\ q.bad = proto[p].bad /\ q.unreadable = proto[p].unreadable
      /\ q.undoSeen = proto[p].undoSeen /\ q.lastFull = proto[p].lastFull
      /\ q.gone = proto[p].gone /\ q.expired = proto[p].expired
  BY <1>2, EndedFacts
<1> HIDE DEF q
<1>4. /\ proto' \in [Pods -> ProtoType] /\ proto'[p] = q
      /\ \A o \in Pods : o # p => proto'[o] = proto[o]
  BY <1>1, <1>3, Except DEF Types
<1>5. /\ sync' \in [Pods -> SyncType] /\ sync'[p] = NoSync
      /\ \A o \in Pods : o # p => sync'[o] = sync[o]
  BY <1>1, NoThings, Except DEF Types
<1>6. Elsewhere(p)
  BY <1>1, <1>4, <1>5 DEF Elsewhere
<1>7. Types'
  <2>1. faults' \in 0 .. MaxFaults
    BY <1>1, Constants, SMT DEF Types
  <2> QED BY <1>1, <1>4, <1>5, <2>1 DEF Types, bucketVars, histVars
<1> QED BY <1>1, <1>3, <1>4, <1>5, <1>6, <1>7

\* A restart begins with the cache, or with nothing, and knows no listing.
LEMMA RestartFacts ==
    ASSUME Types, NEW p \in Pods, Restart(p)
    PROVE  /\ Types' /\ Elsewhere(p) /\ sync'[p] = NoSync
           /\ proto'[p].lastGood = NoTime /\ proto'[p].lastList = NoTime /\ proto'[p].lastFull = NoTime
           /\ proto'[p].undoSeen = {} /\ proto'[p].gone = {} /\ proto'[p].expired = {}
           /\ cache'[p] \subseteq cache[p]
           /\ \A id \in Ids :
                \/ view'[p][id] = NoEntry
                \/ \E d \in cache'[p] : d.id = id /\ view'[p][id] = Entry(d)
           /\ \A c \in Calls : call'[c] \in {call[c], NoCall}
           /\ UNCHANGED <<now, bucketVars, calls, histVars>>
<1>1. PICK kept \in {cache[p], {}} :
         /\ \E v \in [Ids -> {Entry(d) : d \in kept} \cup {NoEntry}] :
               /\ \A id \in Ids :
                     LET own == {Entry(d) : d \in {e \in kept : e.id = id}} IN
                     IF own = {} THEN v[id] = NoEntry ELSE v[id] \in own
               /\ view' = [view EXCEPT ![p] = v]
         /\ cache' = [cache EXCEPT ![p] = kept]
         /\ proto' = [proto EXCEPT ![p] = [NoProto EXCEPT !.seeded = KeysOf(kept)]]
  BY DEF Restart
<1>2. PICK v \in [Ids -> {Entry(d) : d \in kept} \cup {NoEntry}] :
         /\ \A id \in Ids :
               LET own == {Entry(d) : d \in {e \in kept : e.id = id}} IN
               IF own = {} THEN v[id] = NoEntry ELSE v[id] \in own
         /\ view' = [view EXCEPT ![p] = v]
  BY <1>1
<1>3. /\ sync' = [sync EXCEPT ![p] = NoSync] /\ faults < MaxFaults /\ faults' = faults + 1
      /\ call' = [c \in Calls |-> IF call[c] # NoCall /\ call[c].pod = p THEN NoCall ELSE call[c]]
      /\ UNCHANGED <<now, bucketVars, calls, histVars>>
  BY DEF Restart, Fault
<1>4. kept \in SUBSET Definition /\ kept \subseteq cache[p]
  BY <1>1 DEF Types
<1>5. \A id \in Ids : \/ v[id] = NoEntry
                      \/ \E d \in kept : d.id = id /\ v[id] = Entry(d)
  BY <1>2
<1>6. v \in [Ids -> EntryType]
  <2>1. \A id \in Ids : v[id] \in EntryType
    BY <1>4, <1>5, EntryFacts, NoThings, SMT
  <2> QED BY <1>2, <2>1
<1> DEFINE q == [NoProto EXCEPT !.seeded = KeysOf(kept)]
<1>7. /\ q \in ProtoType /\ q.lastGood = NoTime /\ q.lastList = NoTime /\ q.lastFull = NoTime
      /\ q.undoSeen = {} /\ q.gone = {} /\ q.expired = {}
  <2>1. KeysOf(kept) \in SUBSET Key
    BY <1>4, KeysType
  <2>2. /\ q \in ProtoType /\ q.lastGood = NoProto.lastGood /\ q.lastList = NoProto.lastList
        /\ q.lastFull = NoProto.lastFull
        /\ q.undoSeen = NoProto.undoSeen /\ q.gone = NoProto.gone /\ q.expired = NoProto.expired
    BY <2>1, NoThings DEF ProtoType
  <2>3. /\ NoProto.lastGood = NoTime /\ NoProto.lastList = NoTime /\ NoProto.lastFull = NoTime
        /\ NoProto.undoSeen = {} /\ NoProto.gone = {} /\ NoProto.expired = {}
    BY DEF NoProto
  <2> QED BY <2>2, <2>3
<1>8. proto' = [proto EXCEPT ![p] = q]
  BY <1>1
<1> HIDE DEF q
<1>9. /\ proto' \in [Pods -> ProtoType] /\ proto'[p] = q
      /\ \A o \in Pods : o # p => proto'[o] = proto[o]
  BY <1>7, <1>8, Except DEF Types
<1>10. /\ sync' \in [Pods -> SyncType] /\ sync'[p] = NoSync
       /\ \A o \in Pods : o # p => sync'[o] = sync[o]
  BY <1>3, NoThings, Except DEF Types
<1>11. /\ view' \in [Pods -> [Ids -> EntryType]] /\ view'[p] = v
       /\ \A o \in Pods : o # p => view'[o] = view[o]
  BY <1>2, <1>6, Except DEF Types
<1>12. /\ cache' \in [Pods -> SUBSET Definition] /\ cache'[p] = kept
       /\ \A o \in Pods : o # p => cache'[o] = cache[o]
  BY <1>1, <1>4, Except DEF Types
<1>13. \A c \in Calls : call'[c] \in {call[c], NoCall}
  BY <1>3
<1>14. call' \in [Calls -> {NoCall} \cup Creating \cup Undoing]
  BY <1>3 DEF Types
<1>15. Elsewhere(p)
  BY <1>9, <1>10, <1>11, <1>12 DEF Elsewhere
<1>16. Types'
  <2>1. faults' \in 0 .. MaxFaults
    BY <1>3, Constants, SMT DEF Types
  <2> QED BY <1>3, <1>9, <1>10, <1>11, <1>12, <1>14, <2>1 DEF Types, bucketVars, histVars
<1> QED BY <1>3, <1>4, <1>5, <1>7, <1>9, <1>10, <1>11, <1>12, <1>13, <1>15, <1>16, SMT

\* An operator removes a definition; nothing else changes.
LEMMA RemoveByHandFacts ==
    ASSUME Types, NEW d \in defs, RemoveByHand(d)
    PROVE  /\ Types' /\ d.id \in ByHand /\ defs' = defs \ {d}
           /\ UNCHANGED <<now, undos, podVars, call, calls, histVars>>
<1>1. /\ d.id \in ByHand /\ defs' = defs \ {d} /\ faults < MaxFaults /\ faults' = faults + 1
      /\ UNCHANGED <<now, undos, podVars, call, calls, histVars>>
  BY DEF RemoveByHand, Fault
<1>2. Types'
  BY <1>1, Constants, SMT DEF Types, podVars, histVars
<1> QED BY <1>1, <1>2

\* Time passes only while no PUT and no sync is overdue.
LEMMA TickFacts ==
    ASSUME Types, Tick
    PROVE  /\ Types' /\ now' = now + 1
           /\ \A c \in Calls : (Creates(c) \/ Undoes(c)) => now < call[c].began + PutMax
           /\ \A p \in Pods : Syncing(p) => now < sync[p].began + SyncMax
           /\ UNCHANGED <<bucketVars, podVars, call, calls, faults, histVars>>
<1>1. /\ now < MaxNow /\ now' = now + 1
      /\ \A c \in Calls : call[c] # NoCall => now < call[c].began + PutMax
      /\ \A p \in Pods : sync[p] # NoSync => now < sync[p].began + SyncMax
      /\ UNCHANGED <<bucketVars, podVars, call, calls, faults, histVars>>
  BY DEF Tick
<1>2. \A c \in Calls : (Creates(c) \/ Undoes(c)) => call[c] # NoCall
  BY CallFacts
<1>3. \A p \in Pods : Syncing(p) => sync[p] # NoSync
  BY SMT DEF Syncing, NoSync
<1>4. Types'
  BY <1>1, Constants, SMT DEF Types, bucketVars, podVars, histVars
<1> QED BY <1>1, <1>2, <1>3, <1>4

-----------------------------------------------------------------------------
(* Times and keys, step by step. *)

\* The fields of a sync and of a protocol struct.
LEMMA PodFields ==
    ASSUME Types, NEW p \in Pods
    PROVE  /\ now \in Nat /\ Skew[p] \in Int /\ Clock(p) \in Int
           /\ sync[p].t0 \in Int /\ sync[p].began \in Int /\ sync[p].full \in BOOLEAN
           /\ sync[p].defs \subseteq Definition /\ sync[p].undos \subseteq Undo
           /\ sync[p].todo \subseteq Definition
           /\ proto[p].lastGood \in Int /\ proto[p].lastList \in Int /\ proto[p].lastFull \in Int
           /\ proto[p].gone \subseteq Key /\ proto[p].expired \subseteq Key
           /\ proto[p].undoSeen \subseteq Key /\ proto[p].unreadable \subseteq Key
           /\ proto[p].bad \subseteq Definition
           /\ sync[p].stage \in {"off", "list", "learn", "gc"}
<1>1. sync[p] \in SyncType /\ proto[p] \in ProtoType /\ now \in Nat
  BY Constants, SMT DEF Types
<1> QED BY <1>1, Constants, SMT DEF SyncType, ProtoType, Clock

\* A pod that takes no step, while the time does not change.
LEMMA BaseFrame ==
    ASSUME NEW p \in Pods, PodBase(p), now' = now, sync'[p] = sync[p], proto'[p] = proto[p]
    PROVE  PodBase(p)'
<1>1. PodTime(p)'
  BY DEF PodBase, PodTime, Syncing, Clock
<1>2. PodExpired(p)'
  BY DEF PodBase, PodExpired, Clock
<1> QED BY <1>1, <1>2 DEF PodBase

\* A step of one pod leaves the others as they are.
LEMMA BaseElsewhere ==
    ASSUME NEW p \in Pods, \A q \in Pods : PodBase(q), now' = now, Elsewhere(p), PodBase(p)'
    PROVE  \A q \in Pods : PodBase(q)'
<1> TAKE q \in Pods
<1>1. CASE q = p
  BY <1>1
<1>2. CASE q # p
  BY <1>2, BaseFrame DEF Elsewhere
<1> QED BY <1>1, <1>2

\* A sync starts, and reads its listing: its times are those of its start.
LEMMA BaseStartSync ==
    ASSUME Base, NEW p \in Pods, NEW forceFull \in BOOLEAN, StartSync(p, forceFull)
    PROVE  PodBase(p)'
<1> DEFINE s == sync'[p]
<1>1. /\ s.stage = "list" /\ s.t0 = Clock(p) /\ s.began = now /\ s.full = (forceFull \/ IsFull(p))
      /\ now' = now /\ proto' = proto
  BY StartSyncFacts DEF Base
<1>2. PodBase(p) /\ Types
  BY DEF Base
<1>3. PodTime(p)'
  <2>1. ~s.full => proto[p].lastList # NoTime /\ Clock(p) - proto[p].lastList <= Window \div 2
    <3>1. Window \div 2 \in Int
      BY Constants, SMT
    <3>2. ~s.full => ~IsFull(p)
      BY <1>1
    <3> QED BY <1>2, <3>1, <3>2, PodFields, SMT DEF IsFull
  <2> HIDE DEF s
  <2>2. /\ proto[p].lastList # NoTime => proto[p].lastList <= Clock(p)
        /\ proto[p].lastGood # NoTime => proto[p].lastGood <= now
    BY <1>2 DEF PodBase, PodTime
  <2>3. Clock(p)' = Clock(p)
    BY <1>1 DEF Clock
  <2>4. now <= now + SyncMax /\ now <= now
    BY <1>2, Constants, SMT DEF Types
  <2>5. /\ s.t0 = s.began + Skew[p] /\ s.began <= now' /\ now' <= s.began + SyncMax
        /\ proto'[p].lastList # NoTime => proto'[p].lastList <= s.t0
        /\ proto'[p].lastGood # NoTime => proto'[p].lastGood <= s.began
        /\ ~s.full => proto'[p].lastList # NoTime /\ s.t0 - proto'[p].lastList <= Window \div 2
        /\ proto'[p].lastList # NoTime => proto'[p].lastList <= Clock(p)'
        /\ proto'[p].lastGood # NoTime => proto'[p].lastGood <= now'
    BY <1>1, <2>1, <2>2, <2>3, <2>4 DEF Clock
  <2>6. s.stage # "gc"
    BY <1>1
  <2> QED BY <2>5, <2>6 DEF PodTime, s
<1>4. PodExpired(p)'
  BY <1>1, <1>2 DEF PodBase, PodExpired, Clock
<1> QED BY <1>3, <1>4 DEF PodBase

\* Within a sync its times do not change, nor do those of the pod.
LEMMA BaseSyncing ==
    ASSUME Base, NEW p \in Pods, now' = now, Syncing(p),
           sync'[p].t0 = sync[p].t0, sync'[p].began = sync[p].began, sync'[p].full = sync[p].full,
           sync'[p].stage = "gc" => sync'[p].todo = {},
           proto'[p].lastList = proto[p].lastList, proto'[p].lastGood = proto[p].lastGood
    PROVE  PodTime(p)'
<1>1. PodTime(p)
  BY DEF Base, PodBase
<1> QED BY <1>1 DEF PodTime, Syncing, Clock

\* The end of a sync.
LEMMA BaseEnd ==
    ASSUME Base, NEW p \in Pods, now' = now, sync'[p] = NoSync,
           \/ proto'[p].lastList \in {proto[p].lastList, NoTime}
           \/ Syncing(p) /\ proto'[p].lastList = sync[p].t0,
           proto'[p].lastGood \in {proto[p].lastGood, NoTime, now}
    PROVE  PodTime(p)'
<1>1. PodTime(p) /\ Types
  BY DEF Base, PodBase
<1>2. ~Syncing(p)' /\ sync'[p].stage # "gc"
  BY SMT DEF Syncing, NoSync
<1>3. proto'[p].lastGood # NoTime => proto'[p].lastGood <= now'
  BY <1>1, PodFields, SMT DEF PodTime
<1>4. proto'[p].lastList # NoTime => proto'[p].lastList <= Clock(p)'
  BY <1>1, PodFields, SMT DEF PodTime, Clock
<1> QED BY <1>2, <1>3, <1>4 DEF PodTime

\* A call answered changes no time.
LEMMA BaseFinish ==
    ASSUME Base, NEW c \in Calls, FinishCreate(c) \/ FinishUndelete(c), NEW p \in Pods
    PROVE  PodBase(p)'
<1>1. now' = now /\ sync' = sync /\ proto' = proto
  BY FinishCreateFacts, FinishUndeleteFacts DEF Base
<1> QED BY <1>1, BaseFrame DEF Base

\* A definition that is learned, or is not.
LEMMA BaseLearned ==
    ASSUME Base, NEW p \in Pods, NEW d \in sync[p].todo,
           \/ LearnDefinition(p, d)
           \/ LearnUnreadable(p, d) \/ LearnGone(p, d) \/ LearnError(p, d)
    PROVE  PodBase(p)'
<1>1. /\ sync[p].stage = "learn" /\ d \in Definition
      /\ sync' = [sync EXCEPT ![p].todo = @ \ {d}]
      /\ proto'[p].lastGood = proto[p].lastGood /\ proto'[p].lastList = proto[p].lastList
      /\ proto'[p].gone = proto[p].gone /\ proto'[p].expired = proto[p].expired
      /\ now' = now
  <2>1. CASE LearnDefinition(p, d)
    <3>1. Types
      BY DEF Base
    <3> QED BY ONLY <2>1, <3>1, p \in Pods, d \in sync[p].todo, LearnDefinitionFacts, ZenonT(60)
  <2>2. CASE LearnUnreadable(p, d) \/ LearnGone(p, d) \/ LearnError(p, d)
    BY <2>2, NotLearnedFacts DEF Base
  <2> QED BY <2>1, <2>2
<1>2. PodBase(p) /\ Types
  BY DEF Base
<1>3. PodTime(p)'
  <2>1. /\ sync'[p].stage = sync[p].stage /\ sync'[p].t0 = sync[p].t0
        /\ sync'[p].began = sync[p].began /\ sync'[p].full = sync[p].full
    BY <1>1, <1>2, TodoFacts
  <2> QED BY <1>1, <2>1, BaseSyncing DEF Syncing
<1>4. PodExpired(p)'
  BY <1>1, <1>2 DEF PodBase, PodExpired, Clock
<1> QED BY <1>3, <1>4 DEF PodBase

\* A listing read, with all keys or not.
LEMMA BaseList ==
    ASSUME Base, NEW p \in Pods, List(p) \/ ListShort(p)
    PROVE  PodBase(p)'
<1>1. /\ sync[p].stage = "list"
      /\ sync'[p].stage = "learn" /\ sync'[p].t0 = sync[p].t0 /\ sync'[p].began = sync[p].began
      /\ sync'[p].full = sync[p].full
      /\ now' = now /\ proto' = proto
  BY ListFacts DEF Base
<1>2. PodBase(p) /\ Types
  BY DEF Base
<1>3. PodTime(p)'
  BY <1>1, BaseSyncing DEF Syncing
<1>4. PodExpired(p)'
  BY <1>1, <1>2 DEF PodBase, PodExpired, Clock
<1> QED BY <1>3, <1>4 DEF PodBase

\* A sync that fails.
LEMMA BaseSyncError ==
    ASSUME Base, NEW p \in Pods, SyncError(p)
    PROVE  PodBase(p)'
<1>1. /\ sync'[p] = NoSync
      /\ now' = now /\ proto' = proto
  BY SyncErrorFacts DEF Base
<1>2. PodBase(p) /\ Types
  BY DEF Base
<1>3. PodTime(p)'
  BY <1>1, BaseEnd
<1>4. PodExpired(p)'
  BY <1>1, <1>2 DEF PodBase, PodExpired, Clock
<1> QED BY <1>3, <1>4 DEF PodBase

\* The view of a sync is applied: what is swept has expired.
LEMMA BaseApply ==
    ASSUME Base, NEW p \in Pods, Apply(p)
    PROVE  PodBase(p)'
<1>1. /\ sync[p].stage = "learn" /\ sync[p].todo = {}
      /\ AppliedProto(p) /\ AppliedEnd(p) /\ now' = now
  BY ApplyFacts DEF Base
<1>2. PodBase(p) /\ Types
  BY DEF Base
<1>3. Syncing(p) /\ sync[p].t0 <= Clock(p)
  <2>1. Syncing(p) /\ sync[p].t0 = sync[p].began + Skew[p] /\ sync[p].began <= now
    BY <1>1, <1>2 DEF PodBase, PodTime, Syncing
  <2> QED BY <1>2, <2>1, PodFields, SMT DEF Clock
<1>4. PodTime(p)'
  <2>1. CASE sync[p].full /\ p \in Maintenance
    <3>1. /\ sync'[p] = [sync[p] EXCEPT !.stage = "gc"]
          /\ proto'[p].lastGood = proto[p].lastGood /\ proto'[p].lastList = proto[p].lastList
      BY <1>1, <2>1 DEF AppliedEnd
    <3>2. sync[p] \in SyncType
      BY <1>2 DEF Types
    <3>3. /\ sync'[p].t0 = sync[p].t0 /\ sync'[p].began = sync[p].began
          /\ sync'[p].full = sync[p].full /\ sync'[p].todo = sync[p].todo
      BY <3>1, <3>2 DEF SyncType
    <3> QED BY <1>1, <1>3, <3>1, <3>3, BaseSyncing
  <2>2. CASE ~(sync[p].full /\ p \in Maintenance)
    <3>1. /\ sync'[p] = NoSync /\ proto'[p].lastList = sync[p].t0
          /\ proto'[p].lastGood = IF proto[p].bad = {} THEN now ELSE proto[p].lastGood
      BY <1>1, <2>2 DEF AppliedEnd
    <3>2. proto'[p].lastGood \in {proto[p].lastGood, NoTime, now}
      BY <3>1
    <3> QED BY <1>1, <1>3, <3>1, <3>2, BaseEnd
  <2> QED BY <2>1, <2>2
<1>5. PodExpired(p)'
  <2> SUFFICES ASSUME NEW k \in proto'[p].gone \cup proto'[p].expired
               PROVE  Clock(p)' > ExpiresAt[k[1]]
    BY DEF PodExpired
  <2>1. Clock(p)' = Clock(p)
    BY <1>1 DEF Clock
  <2>2. k \in proto[p].gone \cup proto[p].expired \/ (k \in Key /\ sync[p].t0 > ExpiresAt[k[1]])
    BY <1>1 DEF AppliedProto
  <2>3. k \in Key => ExpiresAt[k[1]] \in Nat
    BY Constants DEF Key
  <2> QED BY <1>2, <1>3, <2>1, <2>2, <2>3, PodFields, SMT DEF PodBase, PodExpired
<1> QED BY <1>4, <1>5 DEF PodBase

\* A definition is collected.
LEMMA BaseGcDefinition ==
    ASSUME Base, NEW p \in Pods, NEW k, GcDefinition(p, k)
    PROVE  PodBase(p)'
<1>1. /\ proto'[p].expired \subseteq proto[p].expired /\ proto'[p].gone \subseteq proto[p].gone
      /\ proto'[p].lastGood = proto[p].lastGood /\ proto'[p].lastList = proto[p].lastList
      /\ now' = now /\ sync' = sync
  BY GcDefinitionFacts DEF Base
<1>2. PodBase(p) /\ Types
  BY DEF Base
<1>3. PodTime(p)'
  BY <1>1, <1>2 DEF PodBase, PodTime, Syncing, Clock
<1>4. PodExpired(p)'
  BY <1>1, <1>2 DEF PodBase, PodExpired, Clock
<1> QED BY <1>3, <1>4 DEF PodBase

\* The end of a collection.
LEMMA BaseEndGc ==
    ASSUME Base, NEW p \in Pods, EndGc(p)
    PROVE  PodBase(p)'
<1>1. /\ sync[p].stage = "gc" /\ sync'[p] = NoSync /\ proto'[p].lastList = sync[p].t0
      /\ proto'[p].lastGood = IF proto[p].bad = {} THEN now ELSE proto[p].lastGood
      /\ proto'[p].gone = proto[p].gone /\ proto'[p].expired = proto[p].expired
      /\ now' = now
  BY EndGcFacts DEF Base
<1>2. PodBase(p) /\ Types
  BY DEF Base
<1>3. PodTime(p)'
  <2>1. proto'[p].lastGood \in {proto[p].lastGood, NoTime, now} /\ Syncing(p)
    BY <1>1 DEF Syncing
  <2> QED BY <1>1, <2>1, BaseEnd
<1>4. PodExpired(p)'
  BY <1>1, <1>2 DEF PodBase, PodExpired, Clock
<1> QED BY <1>3, <1>4 DEF PodBase

\* A restart knows of no listing.
LEMMA BaseRestart ==
    ASSUME Base, NEW p \in Pods, Restart(p)
    PROVE  PodBase(p)'
<1>1. /\ sync'[p] = NoSync /\ proto'[p].lastGood = NoTime /\ proto'[p].lastList = NoTime
      /\ proto'[p].gone = {} /\ proto'[p].expired = {}
      /\ now' = now
  BY RestartFacts DEF Base
<1>3. PodTime(p)'
  BY <1>1, BaseEnd
<1>4. PodExpired(p)'
  BY <1>1 DEF PodExpired
<1> QED BY <1>3, <1>4 DEF PodBase

\* The parts of a step that concern calls: a call begins, goes on, or ends.
LEMMA CallsStep ==
    ASSUME Base, NEW c \in Calls, NEW r, NEW x \in Calls,
           call' = [call EXCEPT ![c] = r], CallTime(x),
           \/ r = NoCall
           \/ r \in Creating \cup Undoing /\ now' <= r.began + PutMax, now' = now
    PROVE  CallTime(x)'
<1>1. call \in [Calls -> {NoCall} \cup Creating \cup Undoing]
  BY DEF Base, Types
<1>2. CASE x = c
  <2>1. call'[x] = r
    BY <1>1, <1>2
  <2>2. CASE r = NoCall
    BY <2>1, <2>2, SMT DEF CallTime, Creates, Undoes, NoCall
  <2>3. CASE r # NoCall
    BY <2>1, <2>3 DEF CallTime
  <2> QED BY <2>2, <2>3
<1>3. CASE x # c
  <2>1. call'[x] = call[x]
    BY <1>1, <1>3
  <2> QED BY <2>1 DEF CallTime, Creates, Undoes
<1> QED BY <1>2, <1>3

\* A call that goes on is of its kind.
LEMMA OpFacts ==
    /\ \A r \in Creating : [r EXCEPT !.op = "created"] \in Creating
    /\ \A r \in Creating : [r EXCEPT !.op = "created"].began = r.began
    /\ \A r \in Undoing : [r EXCEPT !.op = "undone"] \in Undoing
    /\ \A r \in Undoing : [r EXCEPT !.op = "undone"].began = r.began
  BY DEF Creating, Undoing

\* The times and the keys, in the steps of the calls.
LEMMA BaseCalls ==
    ASSUME Base, CreateStep \/ UndeleteStep
    PROVE  Base'
<1> USE DEF Base
<1>1. ASSUME NEW c \in Calls, NEW p \in Pods, NEW id \in Ids, NEW mode \in Modes, BeginCreate(c, p, id, mode)
      PROVE  Base'
  <2> DEFINE r == [op |-> "create", pod |-> p, def |-> [id |-> id, at |-> KeyTime(p, id), mode |-> mode],
                   began |-> IF TaskTime[id] # NoTime THEN TaskTime[id] ELSE now]
  <2>1. /\ r \in Creating /\ call' = [call EXCEPT ![c] = r] /\ Types' /\ InTime(id)
        /\ UNCHANGED <<now, bucketVars, podVars, faults, histVars>>
    <3>1. Types
      OBVIOUS
    <3>2. r \in Creating
      BY <1>1, <3>1, BeginCreateFacts
    <3>3. call' = [call EXCEPT ![c] = r]
      BY ONLY <1>1, Zenon DEF BeginCreate
    <3> QED BY <1>1, <3>1, <3>2, <3>3, BeginCreateFacts
  <2>2. now <= r.began + PutMax
    <3>1. r.began = IF TaskTime[id] # NoTime THEN TaskTime[id] ELSE now
      OBVIOUS
    <3> HIDE DEF r
    <3> QED BY <2>1, <3>1, Constants, SMT DEF InTime, Types
  <2> HIDE DEF r
  <2>3. \A x \in Calls : CallTime(x)'
    BY <2>1, <2>2, CallsStep DEF podVars
  <2>4. \A q \in Pods : PodBase(q)'
    BY <2>1, BaseFrame DEF podVars
  <2> QED BY <2>1, <2>3, <2>4 DEF UniqueInv, bucketVars
<1>2. ASSUME NEW p \in Pods, NEW id \in Ids, CreateKnown(p, id)
      PROVE  Base'
  <2>1. /\ acked' = acked \cup {[def |-> ViewDef(p, id), at |-> now]} /\ Types'
        /\ UNCHANGED <<now, bucketVars, podVars, call, undone>>
    BY <1>2, CreateKnownFacts
  <2>2. \A x \in Calls : CallTime(x)'
    BY <2>1 DEF CallTime, Creates, Undoes
  <2>3. \A q \in Pods : PodBase(q)'
    BY <2>1, BaseFrame DEF podVars
  <2> QED BY <2>1, <2>2, <2>3 DEF UniqueInv, bucketVars
<1>3. ASSUME NEW c \in Calls, PutDefinition(c) \/ PutDefinitionError(c)
      PROVE  Base'
  <2> DEFINE d == call[c].def
             r == [call[c] EXCEPT !.op = "created"]
  <2>1. /\ Types' /\ Creates(c) /\ d \in Definition
        /\ \/ defs' = defs
           \/ defs' = defs \cup {d} /\ \A e \in defs : KeyOf(e) # KeyOf(d)
        /\ \/ call' = [call EXCEPT ![c] = NoCall]
           \/ call' = [call EXCEPT ![c] = r]
        /\ UNCHANGED <<now, undos, podVars, histVars>>
    BY <1>3, PutDefinitionFacts
  <2>2. call[c] \in Creating /\ now <= call[c].began + PutMax
    BY <2>1, CallFacts DEF CallTime
  <2>3. r \in Creating /\ now <= r.began + PutMax
    BY <2>2, OpFacts
  <2> HIDE DEF d, r
  <2>4. \A x \in Calls : CallTime(x)'
    BY <2>1, <2>3, CallsStep
  <2>5. \A q \in Pods : PodBase(q)'
    BY <2>1, BaseFrame DEF podVars
  <2>6. UniqueInv'
    BY <2>1 DEF UniqueInv
  <2> QED BY <2>1, <2>4, <2>5, <2>6
<1>4. ASSUME NEW c \in Calls, FinishCreate(c)
      PROVE  Base'
  <2>0. PICK p : p = call[c].pod
    OBVIOUS
  <2>1. /\ Types' /\ p \in Pods /\ call' = [call EXCEPT ![c] = NoCall]
        /\ acked' = acked \cup {[def |-> call[c].def, at |-> now]}
        /\ Elsewhere(p) /\ UNCHANGED <<now, bucketVars, undone>>
    BY <1>4, <2>0, FinishCreateFacts
  <2>2. \A x \in Calls : CallTime(x)'
    BY <2>1, CallsStep
  <2>3. \A q \in Pods : PodBase(q)'
    BY <1>4, BaseFinish
  <2> QED BY <2>1, <2>2, <2>3 DEF UniqueInv, bucketVars
<1>5. ASSUME NEW id \in Ids, CreateNewer(id)
      PROVE  Base'
  <2> DEFINE d == [id |-> id, at |-> IF TaskTime[id] # NoTime THEN TaskTime[id] ELSE now,
                   mode |-> "newer"]
  <2>1. /\ d \in Definition /\ Types'
        /\ defs' = defs \cup {d} /\ acked' = acked \cup {[def |-> d, at |-> now]}
        /\ \A e \in defs : e.id # id
        /\ UNCHANGED <<now, podVars, call, undone>>
    BY <1>5, CreateNewerFacts
  <2>2. \A x \in Calls : CallTime(x)'
    BY <2>1 DEF CallTime, Creates, Undoes
  <2>3. \A q \in Pods : PodBase(q)'
    BY <2>1, BaseFrame DEF podVars
  <2>4. UniqueInv'
    <3>1. d.id = id
      OBVIOUS
    <3> HIDE DEF d
    <3> QED BY <2>1, <3>1 DEF UniqueInv, KeyOf
  <2> QED BY <2>1, <2>2, <2>3, <2>4
<1>6. ASSUME NEW c \in Calls, NEW p \in Pods, NEW id \in Ids, BeginUndelete(c, p, id)
      PROVE  Base'
  <2> DEFINE r == [op |-> "undo", pod |-> p, began |-> now,
                   undo |-> [id |-> id, def |-> view[p][id].at, at |-> Clock(p)]]
  <2>1. /\ r \in Undoing /\ call' = [call EXCEPT ![c] = r] /\ Types'
        /\ UNCHANGED <<now, bucketVars, podVars, faults, histVars>>
    <3>1. Types
      OBVIOUS
    <3>2. r \in Undoing
      BY <1>6, <3>1, BeginUndeleteFacts
    <3>3. call' = [call EXCEPT ![c] = r]
      BY <1>6, <3>1, BeginUndeleteFacts
    <3> QED BY <1>6, <3>1, <3>2, <3>3, BeginUndeleteFacts
  <2>2. now <= r.began + PutMax
    BY Constants, SMT DEF Types
  <2> HIDE DEF r
  <2>3. \A x \in Calls : CallTime(x)'
    BY <2>1, <2>2, CallsStep DEF podVars
  <2>4. \A q \in Pods : PodBase(q)'
    BY <2>1, BaseFrame DEF podVars
  <2> QED BY <2>1, <2>3, <2>4 DEF UniqueInv, bucketVars
<1>7. ASSUME NEW c \in Calls, PutUndo(c) \/ PutUndoError(c)
      PROVE  Base'
  <2> DEFINE r == [call[c] EXCEPT !.op = "undone"]
  <2>1. /\ Types' /\ Undoes(c)
        /\ \/ call' = [call EXCEPT ![c] = NoCall]
           \/ call' = [call EXCEPT ![c] = r]
        /\ UNCHANGED <<now, defs, podVars, histVars>>
    BY <1>7, PutUndoFacts
  <2>2. call[c] \in Undoing /\ now <= call[c].began + PutMax
    BY <2>1, CallFacts DEF CallTime
  <2>3. r \in Undoing /\ now <= r.began + PutMax
    BY <2>2, OpFacts
  <2> HIDE DEF r
  <2>4. \A x \in Calls : CallTime(x)'
    BY <2>1, <2>3, CallsStep
  <2>5. \A q \in Pods : PodBase(q)'
    BY <2>1, BaseFrame DEF podVars
  <2> QED BY <2>1, <2>4, <2>5 DEF UniqueInv
<1>8. ASSUME NEW c \in Calls, FinishUndelete(c)
      PROVE  Base'
  <2>0. PICK p : p = call[c].pod
    OBVIOUS
  <2>1. /\ Types' /\ p \in Pods /\ call' = [call EXCEPT ![c] = NoCall]
        /\ undone' = undone \cup {[key |-> UndoneKey(call[c].undo), at |-> now]}
        /\ Elsewhere(p) /\ UNCHANGED <<now, bucketVars, acked>>
    BY <1>8, <2>0, FinishUndeleteFacts
  <2>2. \A x \in Calls : CallTime(x)'
    BY <2>1, CallsStep
  <2>3. \A q \in Pods : PodBase(q)'
    BY <1>8, BaseFinish
  <2> QED BY <2>1, <2>2, <2>3 DEF UniqueInv, bucketVars
<1> QED BY <1>1, <1>2, <1>3, <1>4, <1>5, <1>6, <1>7, <1>8 DEF CreateStep, UndeleteStep

\* What a step of a pod's own leaves to prove: the others stand still.
LEMMA BasePod ==
    ASSUME Base, NEW p \in Pods, Types', Elsewhere(p), PodBase(p)', defs' \subseteq defs,
           UNCHANGED <<now, call, histVars>>
    PROVE  Base'
<1>1. \A q \in Pods : PodBase(q)'
  BY BaseElsewhere DEF Base
<1>2. \A c \in Calls : CallTime(c)'
  BY DEF Base, CallTime, Creates, Undoes
<1>3. UniqueInv'
  BY DEF Base, UniqueInv
<1> QED BY <1>1, <1>2, <1>3 DEF Base

\* The times and the keys, in the steps of a pod.
LEMMA BasePods ==
    ASSUME Base, NEW p \in Pods, SyncStep(p) \/ Restart(p)
    PROVE  Base'
<1>0. Types
  BY DEF Base
<1>1. ASSUME NEW forceFull \in BOOLEAN, StartSync(p, forceFull)
      PROVE  Base'
  BY <1>0, <1>1, StartSyncFacts, BaseStartSync, BasePod DEF bucketVars
<1>2. ASSUME List(p) \/ ListShort(p)
      PROVE  Base'
  <2>1. Types' /\ Elsewhere(p) /\ UNCHANGED <<now, bucketVars, call, histVars>>
    BY <1>0, <1>2, ListFacts
  <2> QED BY <1>2, <2>1, BaseList, BasePod DEF bucketVars
<1>3. ASSUME SyncError(p)
      PROVE  Base'
  BY <1>0, <1>3, SyncErrorFacts, BaseSyncError, BasePod DEF bucketVars
<1>4. ASSUME NEW d \in sync[p].todo, LearnDefinition(p, d)
      PROVE  Base'
  <2>1. Types' /\ Elsewhere(p) /\ UNCHANGED <<now, bucketVars, call, histVars>>
    BY <1>0, <1>4, LearnDefinitionFacts
  <2> QED BY <1>4, <2>1, BaseLearned, BasePod DEF bucketVars
<1>5. ASSUME NEW d \in sync[p].todo, LearnUnreadable(p, d) \/ LearnGone(p, d) \/ LearnError(p, d)
      PROVE  Base'
  <2>1. Types' /\ Elsewhere(p) /\ UNCHANGED <<now, bucketVars, call, histVars>>
    BY <1>0, <1>5, NotLearnedFacts
  <2> QED BY <1>5, <2>1, BaseLearned, BasePod DEF bucketVars
<1>6. ASSUME Apply(p)
      PROVE  Base'
  <2>1. Types' /\ Elsewhere(p) /\ UNCHANGED <<now, bucketVars, call, histVars>>
    BY <1>0, <1>6, ApplyFacts
  <2> QED BY <1>6, <2>1, BaseApply, BasePod DEF bucketVars
<1>7. ASSUME NEW u, GcUndo(p, u)
      PROVE  Base'
  <2>1. Types' /\ UNCHANGED <<now, defs, podVars, call, histVars>>
    BY <1>0, <1>7, GcUndoFacts
  <2>2. Elsewhere(p)
    BY <2>1 DEF Elsewhere, podVars
  <2>3. PodBase(p)'
    BY <2>1, BaseFrame DEF podVars, Base
  <2> QED BY <2>1, <2>2, <2>3, BasePod
<1>8. ASSUME NEW k, GcDefinition(p, k)
      PROVE  Base'
  <2>1. /\ Types' /\ Elsewhere(p) /\ defs' = {d \in defs : KeyOf(d) # k}
        /\ UNCHANGED <<now, call, histVars>>
    BY <1>0, <1>8, GcDefinitionFacts
  <2> QED BY <1>8, <2>1, BaseGcDefinition, BasePod
<1>9. ASSUME EndGc(p)
      PROVE  Base'
  <2>1. Types' /\ Elsewhere(p) /\ UNCHANGED <<now, bucketVars, call, histVars>>
    BY <1>0, <1>9, EndGcFacts
  <2> QED BY <1>9, <2>1, BaseEndGc, BasePod DEF bucketVars
<1>10. ASSUME Restart(p)
       PROVE  Base'
  <2>1. /\ Types' /\ Elsewhere(p) /\ UNCHANGED <<now, bucketVars, histVars>>
        /\ \A c \in Calls : call'[c] \in {call[c], NoCall}
    BY <1>0, <1>10, RestartFacts
  <2>2. \A q \in Pods : PodBase(q)'
    BY <1>10, <2>1, BaseRestart, BaseElsewhere DEF Base
  <2>3. \A c \in Calls : CallTime(c)'
    BY <2>1, SMT DEF Base, CallTime, Creates, Undoes, NoCall
  <2>4. UniqueInv'
    BY <2>1 DEF Base, UniqueInv, bucketVars
  <2> QED BY <2>1, <2>2, <2>3, <2>4 DEF Base
<1> QED BY <1>1, <1>2, <1>3, <1>4, <1>5, <1>6, <1>7, <1>8, <1>9, <1>10
        DEF SyncStep, LearnStep, GcStep

\* The times and the keys, whatever happens.
LEMMA BaseStep == Base /\ [Next]_vars => Base'
<1> SUFFICES ASSUME Base, [Next]_vars
             PROVE  Base'
  OBVIOUS
<1>0. Types
  BY DEF Base
<1>1. CASE CreateStep \/ UndeleteStep
  BY <1>1, BaseCalls
<1>2. ASSUME NEW p \in Pollers, SyncStep(p) \/ Restart(p)
      PROVE  Base'
  BY <1>2, Constants, BasePods
<1>3. ASSUME NEW d \in defs, RemoveByHand(d)
      PROVE  Base'
  <2>1. Types' /\ defs' = defs \ {d} /\ UNCHANGED <<now, podVars, call, histVars>>
    BY <1>0, <1>3, RemoveByHandFacts
  <2>2. \A q \in Pods : PodBase(q)'
    BY <2>1, BaseFrame DEF podVars, Base
  <2>3. \A c \in Calls : CallTime(c)'
    BY <2>1 DEF Base, CallTime, Creates, Undoes
  <2>4. UniqueInv'
    BY <2>1 DEF Base, UniqueInv
  <2> QED BY <2>1, <2>2, <2>3, <2>4 DEF Base
<1>4. CASE Tick
  <2>1. /\ Types' /\ now' = now + 1 /\ now \in Nat
        /\ \A c \in Calls : (Creates(c) \/ Undoes(c)) => now < call[c].began + PutMax
        /\ \A p \in Pods : Syncing(p) => now < sync[p].began + SyncMax
        /\ UNCHANGED <<bucketVars, podVars, call, histVars>>
    BY <1>0, <1>4, TickFacts, SMT DEF Types
  <2>2. ASSUME NEW p \in Pods
        PROVE  PodBase(p)'
    <3>1. /\ Clock(p)' = Clock(p) + 1 /\ Clock(p) \in Int /\ PodBase(p)
          /\ sync'[p] = sync[p] /\ proto'[p] = proto[p]
      <4>1. now \in Nat /\ Skew[p] \in Int /\ now' = now + 1
        BY <1>0, <2>1, PodFields
      <4>2. Clock(p)' = Clock(p) + 1 /\ Clock(p) \in Int
        BY ONLY <4>1, SMT DEF Clock
      <4>3. PodBase(p) /\ UNCHANGED <<sync, proto>>
        BY <2>1 DEF podVars, Base
      <4> QED BY <4>2, <4>3
    <3>2. PodTime(p)'
      BY <1>0, <2>1, <3>1, PodFields, Constants, SMTT(30) DEF PodBase, PodTime, Syncing
    <3>3. PodExpired(p)'
      <4> SUFFICES ASSUME NEW k \in proto[p].gone \cup proto[p].expired
                   PROVE  Clock(p)' > ExpiresAt[k[1]]
        BY <3>1 DEF PodExpired
      <4>1. ExpiresAt[k[1]] \in Nat
        BY <1>0, PodFields, Constants DEF Key
      <4> QED BY <3>1, <4>1, SMT DEF PodBase, PodExpired
    <3> QED BY <3>2, <3>3 DEF PodBase
  <2>3. ASSUME NEW c \in Calls
        PROVE  CallTime(c)'
    <3>1. (Creates(c) \/ Undoes(c)) => call[c].began \in Int
      BY <1>0, CallFacts
    <3> QED BY <2>1, <3>1, Constants, SMT DEF CallTime, Creates, Undoes
  <2>4. UniqueInv'
    BY <2>1 DEF Base, UniqueInv, bucketVars
  <2> QED BY <2>1, <2>2, <2>3, <2>4 DEF Base
<1>5. CASE UNCHANGED vars
  <2>1. UNCHANGED <<now, bucketVars, podVars, call, calls, faults, histVars>>
    BY <1>5 DEF vars
  <2>2. \A q \in Pods : PodBase(q)'
    BY <2>1, BaseFrame DEF podVars, Base
  <2>3. \A c \in Calls : CallTime(c)'
    BY <2>1 DEF Base, CallTime, Creates, Undoes
  <2>4. UniqueInv' /\ Types'
    BY <2>1 DEF Base, UniqueInv, histVars, bucketVars, Types, podVars
  <2> QED BY <2>2, <2>3, <2>4 DEF Base
<1> QED BY <1>1, <1>2, <1>3, <1>4, <1>5 DEF Next

\* The initial state.
LEMMA BaseInit == Init => Base
<1> SUFFICES ASSUME Init
             PROVE  Base
  OBVIOUS
<1>1. /\ now = 0 /\ defs = {} /\ acked = {} /\ undone = {}
      /\ view = [p \in Pods |-> [id \in Ids |-> NoEntry]] /\ sync = [p \in Pods |-> NoSync]
      /\ proto = [p \in Pods |-> NoProto] /\ call = [c \in Calls |-> NoCall]
  BY DEF Init
<1>2. \A p \in Pods : PodBase(p)
  BY <1>1 DEF PodBase, PodTime, PodExpired, Syncing, NoSync, NoProto
<1>3. \A c \in Calls : CallTime(c)
  BY <1>1 DEF CallTime, Creates, Undoes, NoCall
<1> QED BY <1>1, <1>2, <1>3, TypesInit DEF Base, UniqueInv

\* The times and the keys, always.
LEMMA BaseInvariant == Spec => []Base
  BY BaseInit, BaseStep, PTL DEF Spec

\* Types, and what sweepExpired and gc (protocol.go) take for expired, by the clock of the
\* sync that swept it, has expired by the pod's clock ever after: a body is taken out of
\* the bucket, and a listed key left unread, only past its id's retention.
THEOREM TypesHold == Spec => []TypeOK
<1>1. Base => TypeOK
  <2> SUFFICES ASSUME Base
               PROVE  TypeOK
    OBVIOUS
  <2>1. Types /\ UniqueInv /\ \A p \in Pods : PodExpired(p)
    BY DEF Base, PodBase
  <2>2. \A d \in defs : d.id \in Ids /\ d.at \in Int /\ d.mode \in Modes \cup {"newer"}
    BY <2>1 DEF Types, Definition
  <2>3. \A u \in undos : u.id \in Ids /\ u.def \in Int /\ u.at \in Int
    BY <2>1 DEF Types, Undo
  <2>4. \A p \in Pods : sync[p].stage \in {"off", "list", "learn", "gc"}
    BY <2>1, PodFields
  <2>5. now \in 0 .. MaxNow /\ calls \in 0 .. MaxCalls /\ faults \in 0 .. MaxFaults
    BY <2>1 DEF Types
  <2> QED BY <2>1, <2>2, <2>3, <2>4, <2>5 DEF TypeOK, PodExpired
<1> QED BY <1>1, BaseInvariant, PTL

-----------------------------------------------------------------------------
(* What a step may forget. *)

\* A step of a pod that takes a delete out of its view.
LEMMA ForgetPods ==
    ASSUME Base, NEW q \in Pods, SyncStep(q) \/ Restart(q), NEW p \in Pods, NEW id \in Ids,
           Known(p, id), ~Known(p, id)', proto'[p].lastFull # NoTime
    PROVE  <<id, view[p][id].at>> \notin KeysOf(defs) \/ Clock(p) > ExpiresAt[id]
<1> DEFINE Goal == <<id, view[p][id].at>> \notin KeysOf(defs) \/ Clock(p) > ExpiresAt[id]
<1>0. Types /\ view[p][id] # NoEntry /\ view'[p][id] = NoEntry
  BY DEF Base, Known
<1>1. ASSUME view' = view
      PROVE  Goal
  BY <1>0, <1>1
<1>2. ASSUME NEW forceFull \in BOOLEAN, StartSync(q, forceFull)
      PROVE  Goal
  BY <1>0, <1>1, <1>2, StartSyncFacts
<1>3. ASSUME List(q) \/ ListShort(q)
      PROVE  Goal
  BY <1>0, <1>1, <1>3, ListFacts
<1>4. ASSUME SyncError(q)
      PROVE  Goal
  BY <1>0, <1>1, <1>4, SyncErrorFacts
<1>5. ASSUME NEW d \in sync[q].todo, LearnDefinition(q, d)
      PROVE  Goal
  <2> DEFINE wins == Known(q, d.id) => d.at <= view[q][d.id].at
  <2>1. /\ Elsewhere(q) /\ \A i \in Ids \ {d.id} : view'[q][i] = view[q][i]
        /\ ~wins => view'[q][d.id] = view[q][d.id]
        /\ wins => view'[q][d.id] # NoEntry
    BY <1>0, <1>5, LearnDefinitionFacts
  <2> HIDE DEF wins
  <2>2. p = q
    BY <1>0, <2>1 DEF Elsewhere
  <2> QED BY <1>0, <2>1, <2>2
<1>6. ASSUME NEW d \in sync[q].todo, LearnUnreadable(q, d) \/ LearnGone(q, d) \/ LearnError(q, d)
      PROVE  Goal
  <2>1. view' = view
    BY <1>0, <1>6, NotLearnedFacts
  <2> QED BY <1>1, <2>1
<1>7. ASSUME Apply(q)
      PROVE  Goal
  <2>1. Elsewhere(q) /\ AppliedView(q) /\ sync[q].stage = "learn"
    BY <1>0, <1>7, ApplyFacts
  <2>2. p = q
    BY <1>0, <2>1 DEF Elsewhere
  <2>3. <<id, view[p][id].at>> \notin KeysOf(defs) \/ sync[p].t0 > ExpiresAt[id]
    BY <1>0, <2>1, <2>2 DEF AppliedView, Known
  <2>4. sync[p].t0 = sync[p].began + Skew[p] /\ sync[p].began <= now
    BY <2>1, <2>2 DEF Base, PodBase, PodTime, Syncing
  <2>5. sync[p].t0 > ExpiresAt[id] => Clock(p) > ExpiresAt[id]
    BY <1>0, <2>4, PodFields, Constants, SMT DEF Clock
  <2> QED BY <2>3, <2>5
<1>8. ASSUME NEW u, GcUndo(q, u)
      PROVE  Goal
  BY <1>0, <1>1, <1>8, GcUndoFacts DEF podVars
<1>9. ASSUME NEW k, GcDefinition(q, k)
      PROVE  Goal
  <2>1. view' = view
    BY <1>0, <1>9, GcDefinitionFacts
  <2> QED BY <1>1, <2>1
<1>10. ASSUME EndGc(q)
       PROVE  Goal
  <2>1. view' = view
    BY <1>0, <1>10, EndGcFacts
  <2> QED BY <1>1, <2>1
<1>11. ASSUME Restart(q)
       PROVE  Goal
  <2>1. Elsewhere(q) /\ proto'[q].lastFull = NoTime
    BY <1>0, <1>11, RestartFacts
  <2>2. p = q
    BY <1>0, <2>1 DEF Elsewhere
  <2> QED BY <2>1, <2>2
<1> QED BY <1>2, <1>3, <1>4, <1>5, <1>6, <1>7, <1>8, <1>9, <1>10, <1>11
        DEF SyncStep, LearnStep, GcStep

\* No step of a running pod takes a delete out of its view while the definition exists
\* and has not expired: what a listing lacks is asked for (confirmAbsent), and nothing
\* else removes an entry but the sweep of expired ones (sweepExpired).
THEOREM NothingForgotten == Spec => NeverForgets
<1>1. ASSUME Base, [Next]_vars, NEW p \in Pods, NEW id \in Ids,
             Known(p, id), ~Known(p, id)', proto'[p].lastFull # NoTime
      PROVE  <<id, view[p][id].at>> \notin KeysOf(defs) \/ Clock(p) > ExpiresAt[id]
  <2> DEFINE Goal == <<id, view[p][id].at>> \notin KeysOf(defs) \/ Clock(p) > ExpiresAt[id]
  <2>0. Types /\ view[p][id] # NoEntry /\ view'[p][id] = NoEntry
    BY <1>1 DEF Base, Known
  <2>1. ASSUME view' = view
        PROVE  Goal
    BY <2>0, <2>1
  <2>2. ASSUME NEW c \in Calls, FinishCreate(c)
        PROVE  Goal
    <3>0. PICK q, d : q = call[c].pod /\ d = call[c].def
      OBVIOUS
    <3>1. /\ Elsewhere(q) /\ d \in Definition /\ view'[q][d.id] = Entry(d)
          /\ \A i \in Ids \ {d.id} : view'[q][i] = view[q][i]
      BY <2>0, <2>2, <3>0, FinishCreateFacts
    <3>2. p = q
      BY <2>0, <3>1 DEF Elsewhere
    <3> QED BY <2>0, <3>1, <3>2, EntryFacts
  <2>3. ASSUME NEW c \in Calls, FinishUndelete(c)
        PROVE  Goal
    <3>0. PICK q, k : q = call[c].pod /\ k = UndoneKey(call[c].undo)
      OBVIOUS
    <3>1. Elsewhere(q) /\ view'[q] = ApplyUndo(view[q], {k})
      BY <2>0, <2>3, <3>0, FinishUndeleteFacts
    <3>2. p = q
      BY <2>0, <3>1 DEF Elsewhere
    <3>3. view[p] \in [Ids -> EntryType]
      BY <2>0 DEF Types
    <3>4. ApplyUndo(view[p], {k})[id] # NoEntry
      BY <2>0, <3>3, ApplyUndoFacts
    <3> QED BY <2>0, <3>1, <3>2, <3>4
  <2>4. CASE CreateStep \/ UndeleteStep
    <3>1. \/ view' = view
          \/ \E c \in Calls : FinishCreate(c)
          \/ \E c \in Calls : FinishUndelete(c)
      BY <2>4 DEF CreateStep, UndeleteStep, BeginCreate, CreateKnown, PutDefinition,
         PutDefinitionError, CreateNewer, BeginUndelete, PutUndo, PutUndoError, podVars
    <3> QED BY <2>1, <2>2, <2>3, <3>1
  <2>5. ASSUME NEW q \in Pollers, SyncStep(q) \/ Restart(q)
        PROVE  Goal
    BY <1>1, <2>5, Constants, ForgetPods
  <2>6. CASE (\E d \in defs : RemoveByHand(d)) \/ Tick \/ UNCHANGED vars
    BY <2>1, <2>6 DEF RemoveByHand, Tick, vars, podVars
  <2> QED BY <1>1, <2>4, <2>5, <2>6 DEF Next
<1>2. Base /\ [Next]_vars =>
         [\A p \in Pods, id \in Ids :
             (Known(p, id) /\ ~Known(p, id)' /\ proto'[p].lastFull # NoTime)
                 => \/ <<id, view[p][id].at>> \notin KeysOf(defs)
                    \/ Clock(p) > ExpiresAt[id]]_vars
  BY <1>1
<1> QED BY <1>2, BaseInvariant, PTL DEF Spec, NeverForgets

-----------------------------------------------------------------------------
(* Where definitions and undos come from, step by step. *)

\* What is needed later is needed now.
LEMMA NeededEarlier ==
    ASSUME Types, Types', now <= now', NEW id \in Ids
    PROVE  /\ Needed(id)' => Needed(id)
           /\ Live(id)' => Live(id)
<1>1. \A p \in Pods : Clock(p) \in Int /\ Clock(p) <= Clock(p)' /\ Clock(p)' \in Int
  BY Constants, SMT DEF Types, Clock
<1>2. ExpiresAt[id] \in Nat
  BY Constants
<1>3. Needed(id)' => Needed(id)
  BY <1>1, <1>2, SMT DEF Needed
<1> QED BY <1>3 DEF Live

\* What has expired for one pod is not needed.
LEMMA ExpiredNotNeeded ==
    ASSUME Base, NEW p \in Pods, NEW k \in proto[p].gone \cup proto[p].expired
    PROVE  ~Needed(k[1])
<1>1. Clock(p) > ExpiresAt[k[1]] /\ ExpiresAt[k[1]] \in Nat /\ Clock(p) \in Int
  BY PodFields, Constants DEF Base, PodBase, PodExpired, Key
<1> QED BY <1>1, SMT DEF Needed

\* A step that leaves the bucket, the answers and the time alone.
LEMMA KeysFrame ==
    ASSUME Types, UNCHANGED <<now, bucketVars, histVars>>
    PROVE  KeysStay
<1>1. now <= now' /\ \A id \in Ids : Needed(id)' => Needed(id)
  BY Constants, SMT DEF Types, Needed, Clock
<1> QED BY <1>1 DEF KeysStay, bucketVars, histVars

\* The bucket, in every step.
LEMMA KeysSteps ==
    ASSUME Base, Base', [Next]_vars
    PROVE  KeysStay
<1>0. Types /\ now <= now
  BY Constants, SMT DEF Base, Types
<1>1. ASSUME NEW c \in Calls, PutDefinition(c) \/ PutDefinitionError(c)
      PROVE  KeysStay
  <2> DEFINE d == call[c].def
  <2>1. /\ Creates(c) /\ defs' \in {defs, defs \cup {d}}
        /\ UNCHANGED <<now, undos, histVars>>
    BY <1>0, <1>1, PutDefinitionFacts
  <2> HIDE DEF d
  <2>2. \A id \in Ids : Needed(id)' => Needed(id)
    BY <2>1 DEF Needed, Clock
  <2> QED BY <1>0, <2>1, <2>2 DEF KeysStay, histVars
<1>2. ASSUME NEW c \in Calls, PutUndo(c) \/ PutUndoError(c)
      PROVE  KeysStay
  <2> DEFINE u == call[c].undo
  <2>1. /\ Undoes(c) /\ undos' \in {undos, undos \cup {u}}
        /\ UNCHANGED <<now, defs, histVars>>
    BY <1>0, <1>2, PutUndoFacts
  <2> HIDE DEF u
  <2>2. \A id \in Ids : Needed(id)' => Needed(id)
    BY <2>1 DEF Needed, Clock
  <2> QED BY <1>0, <2>1, <2>2 DEF KeysStay, histVars
<1>3. ASSUME NEW id \in Ids, CreateNewer(id)
      PROVE  KeysStay
  <2> DEFINE t == IF TaskTime[id] # NoTime THEN TaskTime[id] ELSE now
             d == [id |-> id, at |-> t, mode |-> "newer"]
  <2>1. /\ defs' = defs \cup {d} /\ acked' = acked \cup {[def |-> d, at |-> now]} /\ InTime(id)
        /\ UNCHANGED <<now, undos, undone>>
    BY <1>0, <1>3, CreateNewerFacts
  <2> HIDE DEF d
  <2>2. \A i \in Ids : Needed(i)' => Needed(i)
    BY <2>1 DEF Needed, Clock
  <2> QED BY <1>0, <2>1, <2>2, SMT DEF KeysStay
<1>4. ASSUME \/ \E p \in Pods, id \in Ids : CreateKnown(p, id)
             \/ \E c \in Calls : FinishCreate(c)
             \/ \E c \in Calls : FinishUndelete(c)
      PROVE  KeysStay
  <2>1. /\ UNCHANGED <<now, bucketVars>>
        /\ acked' = acked \/ \E x : acked' = acked \cup {[def |-> x, at |-> now]}
        /\ undone' = undone \/ \E x : undone' = undone \cup {[key |-> x, at |-> now]}
    BY <1>4 DEF CreateKnown, FinishCreate, FinishUndelete
  <2>2. \A i \in Ids : Needed(i)' => Needed(i)
    BY <2>1 DEF Needed, Clock
  <2> QED BY <1>0, <2>1, <2>2, SMT DEF KeysStay, bucketVars
<1>5. ASSUME NEW p \in Pods, NEW u, GcUndo(p, u)
      PROVE  KeysStay
  <2>1. /\ undos' = undos \ {u} /\ u \in undos /\ UndoneKey(u) \in proto[p].expired
        /\ UNCHANGED <<now, defs, histVars>>
    BY <1>0, <1>5, GcUndoFacts
  <2>2. ~Needed(u.id)
    <3>1. ~Needed(UndoneKey(u)[1])
      BY <2>1, ExpiredNotNeeded
    <3> QED BY <3>1 DEF UndoneKey
  <2>3. \A i \in Ids : Needed(i)' => Needed(i)
    BY <2>1 DEF Needed, Clock
  <2> QED BY <1>0, <2>1, <2>2, <2>3 DEF KeysStay, histVars
<1>6. ASSUME NEW p \in Pods, NEW k, GcDefinition(p, k)
      PROVE  KeysStay
  <2>1. /\ k \in proto[p].expired /\ defs' = {d \in defs : KeyOf(d) # k}
        /\ UNCHANGED <<now, undos, histVars>>
    BY <1>0, <1>6, GcDefinitionFacts
  <2>2. \A d \in defs : d \in defs' \/ ~Live(d.id)
    <3> SUFFICES ASSUME NEW d \in defs, d \notin defs'
                 PROVE  ~Live(d.id)
      OBVIOUS
    <3>1. k = KeyOf(d) /\ ~Needed(k[1])
      BY <2>1, ExpiredNotNeeded
    <3> QED BY <3>1 DEF KeyOf, Live
  <2>3. \A i \in Ids : Needed(i)' => Needed(i)
    BY <2>1 DEF Needed, Clock
  <2> QED BY <1>0, <2>1, <2>2, <2>3 DEF KeysStay, histVars
<1>7. ASSUME NEW d \in defs, RemoveByHand(d)
      PROVE  KeysStay
  <2>1. d.id \in ByHand /\ defs' = defs \ {d} /\ UNCHANGED <<now, undos, histVars>>
    BY <1>0, <1>7, RemoveByHandFacts
  <2>2. \A i \in Ids : Needed(i)' => Needed(i)
    BY <2>1 DEF Needed, Clock
  <2> QED BY <1>0, <2>1, <2>2 DEF KeysStay, histVars, Live
<1>8. CASE Tick
  <2>1. now' = now + 1 /\ now \in Nat /\ UNCHANGED <<bucketVars, histVars>>
    BY <1>0, <1>8, TickFacts, SMT DEF Types
  <2>2. \A i \in Ids : Needed(i)' => Needed(i)
    BY <1>0, <2>1, NeededEarlier, SMT DEF Base
  <2>3. now <= now'
    BY <2>1, SMT
  <2> QED BY <2>1, <2>2, <2>3 DEF KeysStay, bucketVars, histVars
<1>9. ASSUME UNCHANGED <<now, bucketVars, histVars>>
      PROVE  KeysStay
  BY <1>0, <1>9, KeysFrame
<1>10. CASE CreateStep \/ UndeleteStep
  <2>1. ASSUME NEW c \in Calls, NEW p \in Pods, NEW id \in Ids, NEW mode \in Modes, BeginCreate(c, p, id, mode)
        PROVE  KeysStay
    BY <1>9, <2>1 DEF BeginCreate
  <2>2. ASSUME NEW c \in Calls, NEW p \in Pods, NEW id \in Ids, BeginUndelete(c, p, id)
        PROVE  KeysStay
    BY <1>9, <2>2 DEF BeginUndelete
  <2> QED BY <1>1, <1>2, <1>3, <1>4, <1>10, <2>1, <2>2 DEF CreateStep, UndeleteStep
<1>11. ASSUME NEW p \in Pods, SyncStep(p) \/ Restart(p)
       PROVE  KeysStay
  <2>1. ASSUME NEW f \in BOOLEAN, StartSync(p, f)
        PROVE  KeysStay
    BY <1>9, <2>1 DEF StartSync
  <2>2. CASE List(p) \/ ListShort(p)
    BY <1>9, <2>2 DEF List, ListShort, ListAfter
  <2>3. CASE SyncError(p) \/ Apply(p) \/ EndGc(p) \/ Restart(p)
    BY <1>9, <2>3 DEF SyncError, Apply, EndGc, Restart
  <2>4. ASSUME NEW d \in sync[p].todo,
               LearnDefinition(p, d) \/ LearnUnreadable(p, d) \/ LearnGone(p, d) \/ LearnError(p, d)
        PROVE  KeysStay
    BY <1>9, <2>4 DEF LearnDefinition, LearnUnreadable, LearnGone, LearnError
  <2> QED BY <1>5, <1>6, <1>11, <2>1, <2>2, <2>3, <2>4 DEF SyncStep, LearnStep, GcStep
<1>12. CASE UNCHANGED vars
  BY <1>9, <1>12 DEF vars
<1> QED BY <1>7, <1>8, <1>10, <1>11, <1>12, Constants DEF Next

\* A step that brings nothing into a pod's view and cache but what is in the bucket.
LEMMA OriginFrame ==
    ASSUME Types, Types', KeysStay, NEW p \in Pods, PodOrigin(p),
           \A d \in cache'[p] : d \in cache[p] \/ (Live(d.id) => d \in defs),
           \A id \in Ids : Known(p, id)' =>
               \/ Known(p, id) /\ ViewDef(p, id)' = ViewDef(p, id)
               \/ Live(id) => ViewDef(p, id)' \in defs
    PROVE  PodOrigin(p)'
<1>1. \A id \in Ids : Live(id)' => Live(id)
  BY NeededEarlier DEF KeysStay
<1>2. ASSUME NEW d \in cache'[p], Live(d.id)'
      PROVE  d \in defs'
  <2>1. d.id \in Ids
    BY <1>2, SMT DEF Types, Definition
  <2> QED BY <1>1, <1>2, <2>1 DEF PodOrigin, KeysStay
<1>3. ASSUME NEW id \in Ids, Known(p, id)', Live(id)'
      PROVE  ViewDef(p, id)' \in defs'
  <2>1. ViewDef(p, id)' \in defs
    BY <1>1, <1>3 DEF PodOrigin
  <2>2. ViewDef(p, id)'.id = id
    BY DEF ViewDef
  <2>3. Live(ViewDef(p, id)'.id)
    BY <1>1, <1>3, <2>2
  <2> QED BY <2>1, <2>3 DEF KeysStay
<1> QED BY <1>2, <1>3 DEF PodOrigin

\* An undo key that is needed stays.
LEMMA HasKeyStays ==
    ASSUME Types, Types', KeysStay, NEW k \in Key, Needed(k[1])', HasKey(undos, k)
    PROVE  HasKey(undos', k)
<1>1. PICK u \in undos : UndoneKey(u) = k
  BY DEF HasKey
<1>2. k[1] \in Ids /\ u.id = k[1]
  BY <1>1 DEF Key, UndoneKey
<1>3. Needed(u.id)
  BY <1>2, NeededEarlier DEF KeysStay
<1> QED BY <1>1, <1>3 DEF KeysStay, HasKey

\* The flags of a pod when the sync, the protocol and the view gain no undo.
LEMMA FlagFrame ==
    ASSUME Types, Types', KeysStay, NEW p \in Pods, PodFlag(p),
           \A u \in sync'[p].undos : u \in sync[p].undos \/ u \in undos,
           \A k \in proto'[p].undoSeen :
               k \in proto[p].undoSeen \/ (Needed(k[1]) => HasKey(undos, k)),
           \A id \in Ids : view'[p][id].undone
               => \/ view[p][id].undone /\ view'[p][id].at = view[p][id].at
                  \/ <<id, view'[p][id].at>> \in proto[p].undoSeen
                  \/ Needed(id) => HasKey(undos, <<id, view'[p][id].at>>)
    PROVE  PodFlag(p)'
<1>1. \A id \in Ids : Needed(id)' => Needed(id)
  BY DEF KeysStay
<1>2. ASSUME NEW u \in sync'[p].undos, Needed(u.id)'
      PROVE  u \in undos'
  <2>1. sync'[p].undos \subseteq Undo
    BY PodFields DEF Types, SyncType
  <2>2. u.id \in Ids
    BY <2>1 DEF Undo
  <2> QED BY <1>1, <1>2, <2>2 DEF PodFlag, KeysStay
<1>3. ASSUME NEW k \in proto'[p].undoSeen, Needed(k[1])'
      PROVE  HasKey(undos', k)
  <2>1. proto'[p].undoSeen \subseteq Key
    BY DEF Types, ProtoType
  <2>2. k \in Key /\ k[1] \in Ids
    BY <2>1 DEF Key
  <2> QED BY <1>1, <1>3, <2>2, HasKeyStays DEF PodFlag
<1>4. ASSUME NEW id \in Ids, view'[p][id].undone, Needed(id)'
      PROVE  HasKey(undos', <<id, view'[p][id].at>>)
  <2> DEFINE k == <<id, view'[p][id].at>>
  <2>1. k \in Key /\ k[1] = id
    <3>1. view'[p][id] \in EntryType
      BY DEF Types
    <3>2. view'[p][id].at \in Int
      BY ONLY <3>1, Constants, SMT DEF EntryType, NoEntry
    <3> QED BY <3>2 DEF Key
  <2>2. HasKey(undos, k)
    BY <1>1, <1>4, <2>1 DEF PodFlag
  <2> HIDE DEF k
  <2>3. HasKey(undos', k)
    BY <1>4, <2>1, <2>2, HasKeyStays
  <2> QED BY <2>3 DEF k
<1> QED BY <1>2, <1>3, <1>4 DEF PodFlag

\* A step that takes in no definition and no undo but those of the listing.
LEMMA SyncFrame ==
    ASSUME Types, Types', KeysStay, NEW p \in Pods, PodOrigin(p), PodFlag(p),
           view'[p] = view[p], cache'[p] \subseteq cache[p],
           sync'[p].undos \subseteq sync[p].undos \cup undos, proto'[p].undoSeen \subseteq proto[p].undoSeen
    PROVE  PodOrigin(p)' /\ PodFlag(p)'
<1>1. PodOrigin(p)'
  BY OriginFrame DEF Known, ViewDef
<1>2. PodFlag(p)'
  BY FlagFrame
<1> QED BY <1>1, <1>2

\* A pod that a step does not touch.
LEMMA OriginStays ==
    ASSUME Types, Types', KeysStay, NEW p \in Pods, PodOrigin(p), PodFlag(p),
           sync'[p] = sync[p], proto'[p] = proto[p], view'[p] = view[p], cache'[p] = cache[p]
    PROVE  PodOrigin(p)' /\ PodFlag(p)'
  BY SyncFrame

\* The answers, when a step answers only what is in the bucket.
LEMMA AckedFrame ==
    ASSUME Types, Types', KeysStay, AckedOrigin,
           \A a \in acked' : a \in acked \/ (Live(a.def.id) => a.def \in defs')
    PROVE  AckedOrigin'
<1> SUFFICES ASSUME NEW a \in acked', Live(a.def.id)'
             PROVE  a.def \in defs'
  BY DEF AckedOrigin
<1>1. a.def.id \in Ids
  BY DEF Types, Definition
<1>2. Live(a.def.id)
  BY <1>1, NeededEarlier DEF KeysStay
<1> QED BY <1>2 DEF AckedOrigin, KeysStay

\* A call that a step leaves alone or ends.
LEMMA CallFrame ==
    ASSUME Types, Types', KeysStay, NEW c \in Calls, CallOrigin(c),
           call'[c] = call[c] \/ call'[c] = NoCall
    PROVE  CallOrigin(c)'
<1>1. CASE call'[c] = NoCall
  BY <1>1, SMT DEF CallOrigin, NoCall
<1>2. CASE call'[c] = call[c]
  <2>1. ASSUME NEW id, id = call[c].def.id, call[c].op = "created", Live(id)'
        PROVE  call[c].def \in defs'
    <3>1. id \in Ids
      BY <2>1, CallFacts DEF Creates, Definition
    <3>2. Live(id)
      BY <2>1, <3>1, NeededEarlier DEF KeysStay
    <3> QED BY <2>1, <3>2 DEF CallOrigin, KeysStay
  <2>2. ASSUME NEW id, id = call[c].undo.id, call[c].op = "undone", Needed(id)'
        PROVE  call[c].undo \in undos'
    <3>1. id \in Ids
      BY <2>2, CallFacts DEF Undoes, Undo
    <3>2. Needed(id)
      BY <2>2, <3>1 DEF KeysStay
    <3> QED BY <2>2, <3>2 DEF CallOrigin, KeysStay
  <2> QED BY <1>2, <2>1, <2>2 DEF CallOrigin
<1> QED BY <1>1, <1>2

\* The calls, when one of them goes on.
LEMMA CallsFrame ==
    ASSUME Types, Types', KeysStay, NEW c \in Calls, NEW r,
           \A x \in Calls : CallOrigin(x), call' = [call EXCEPT ![c] = r],
           \/ r = NoCall
           \/ /\ r \in Creating
              /\ (r.op = "created" /\ Live(r.def.id)) => r.def \in defs'
           \/ /\ r \in Undoing
              /\ r.op = "undone" => r.undo \in undos'
    PROVE  \A x \in Calls : CallOrigin(x)'
<1> SUFFICES ASSUME NEW x \in Calls
             PROVE  CallOrigin(x)'
  OBVIOUS
<1>0. call \in [Calls -> {NoCall} \cup Creating \cup Undoing]
  BY DEF Types
<1>1. CASE x # c
  BY <1>0, <1>1, CallFrame
<1>2. CASE r = NoCall
  BY <1>0, <1>2, CallFrame
<1>3. CASE x = c /\ r # NoCall
  <2>1. call'[x] = r
    BY <1>0, <1>3
  <2>2. CASE r \in Creating /\ ((r.op = "created" /\ Live(r.def.id)) => r.def \in defs')
    <3>1. r.op \in {"create", "created"} /\ r.def.id \in Ids
      BY <2>2 DEF Creating, Definition
    <3>2. Live(r.def.id)' => Live(r.def.id)
      BY <3>1, NeededEarlier DEF KeysStay
    <3> QED BY <2>1, <2>2, <3>1, <3>2 DEF CallOrigin
  <2>3. CASE r \in Undoing /\ (r.op = "undone" => r.undo \in undos')
    <3>1. r.op \in {"undo", "undone"}
      BY <2>3 DEF Undoing
    <3> QED BY <2>1, <2>3, <3>1 DEF CallOrigin
  <2> QED BY <1>3, <2>2, <2>3
<1> QED BY <1>1, <1>2, <1>3

\* A call that goes on keeps what it puts.
LEMMA OpKeeps ==
    /\ \A r \in Creating : LET s == [r EXCEPT !.op = "created"] IN
          s.def = r.def /\ s.began = r.began /\ s.op = "created"
    /\ \A r \in Undoing : LET s == [r EXCEPT !.op = "undone"] IN
          s.undo = r.undo /\ s.began = r.began /\ s.op = "undone"
  BY DEF Creating, Undoing

\* A create is answered: its definition is in the bucket.
LEMMA OriginFinishCreate ==
    ASSUME Base, KeysStay, NEW c \in Calls, CallOrigin(c),
           FinishCreate(c), NEW p \in Pods, p = call[c].pod, PodOrigin(p), PodFlag(p)
    PROVE  PodOrigin(p)' /\ PodFlag(p)'
<1>0. Types
  BY DEF Base
<1>1. PICK d : d = call[c].def
  OBVIOUS
<1>2. /\ Types' /\ call[c].op = "created" /\ d \in Definition
      /\ cache'[p] \subseteq cache[p] \cup {d}
      /\ UNCHANGED <<now, bucketVars, sync, proto>>
  BY <1>0, <1>1, FinishCreateFacts
<1>3. /\ view'[p][d.id] = Entry(d) /\ \A id \in Ids \ {d.id} : view'[p][id] = view[p][id]
  BY <1>0, <1>1, FinishCreateFacts
<1>4. Live(d.id) => d \in defs
  BY <1>1, <1>2 DEF CallOrigin
<1>5. d.id \in Ids /\ d.at \in Int /\ d = [id |-> d.id, at |-> d.at, mode |-> d.mode]
  BY <1>2 DEF Definition
<1>6. PodOrigin(p)'
  <2>1. \A id \in Ids : Known(p, id)' =>
               \/ Known(p, id) /\ ViewDef(p, id)' = ViewDef(p, id)
               \/ Live(id) => ViewDef(p, id)' \in defs
    <3> SUFFICES ASSUME NEW id \in Ids, Known(p, id)', Live(id),
                        ~(Known(p, id) /\ ViewDef(p, id)' = ViewDef(p, id))
                 PROVE  ViewDef(p, id)' \in defs
      OBVIOUS
    <3>1. id = d.id
      BY <1>3 DEF Known, ViewDef
    <3>2. ViewDef(p, id)' = d
      BY <1>3, <1>5, <3>1, SMT DEF ViewDef, Entry
    <3> QED BY <1>4, <3>1, <3>2
  <2> QED BY <1>0, <1>2, <1>4, <2>1, OriginFrame
<1>7. PodFlag(p)'
  <2>1. \A id \in Ids : view'[p][id].undone => view[p][id].undone /\ view'[p][id].at = view[p][id].at
    BY <1>3, SMT DEF Entry
  <2> QED BY <1>0, <1>2, <1>4, <2>1, FlagFrame
<1> QED BY <1>6, <1>7

\* An undelete is answered: its undo is in the bucket.
LEMMA OriginFinishUndelete ==
    ASSUME Base, KeysStay, NEW c \in Calls, CallOrigin(c),
           FinishUndelete(c), NEW p \in Pods, p = call[c].pod, PodOrigin(p), PodFlag(p)
    PROVE  PodOrigin(p)' /\ PodFlag(p)'
<1>0. Types /\ view[p] \in [Ids -> EntryType]
  BY DEF Base, Types
<1>1. PICK k : k = UndoneKey(call[c].undo)
  OBVIOUS
<1>2. /\ Types' /\ call[c].op = "undone" /\ call[c].undo \in Undo /\ k[1] = call[c].undo.id
      /\ view'[p] = ApplyUndo(view[p], {k})
      /\ UNCHANGED <<now, bucketVars, cache, sync, proto>>
  BY <1>0, <1>1, FinishUndeleteFacts
<1>3. Needed(k[1]) => HasKey(undos, k)
  BY <1>1, <1>2 DEF CallOrigin, HasKey
<1>4. ASSUME NEW id \in Ids
      PROVE  /\ view'[p][id].at = view[p][id].at /\ view'[p][id].mode = view[p][id].mode
             /\ Known(p, id)' <=> Known(p, id)
             /\ view'[p][id].undone => view[p][id].undone \/ <<id, view[p][id].at>> = k
  <2> DEFINE K == {k}
             w == ApplyUndo(view[p], K)
  <2>0. view'[p] = w /\ (<<id, view[p][id].at>> \in K => <<id, view[p][id].at>> = k)
    BY <1>2
  <2> HIDE DEF K
  <2>1. w[id].at = view[p][id].at
    BY ONLY <1>0, <1>4, ApplyUndoFacts, Zenon
  <2>2. w[id].mode = view[p][id].mode
    BY ONLY <1>0, <1>4, ApplyUndoFacts, Zenon
  <2>3. w[id] = NoEntry <=> view[p][id] = NoEntry
    BY ONLY <1>0, <1>4, ApplyUndoFacts, Zenon
  <2>4. w[id].undone => view[p][id].undone \/ <<id, view[p][id].at>> \in K
    BY ONLY <1>0, <1>4, ApplyUndoFacts, Zenon
  <2> HIDE DEF w
  <2> QED BY <2>0, <2>1, <2>2, <2>3, <2>4 DEF Known
<1>5. PodOrigin(p)'
  BY <1>0, <1>2, <1>3, <1>4, OriginFrame DEF ViewDef
<1>6. PodFlag(p)'
  <2>1. ASSUME NEW id \in Ids, view'[p][id].undone
        PROVE  \/ view[p][id].undone /\ view'[p][id].at = view[p][id].at
               \/ Needed(id) => HasKey(undos, <<id, view'[p][id].at>>)
    <3>1. <<id, view[p][id].at>> = k => k[1] = id
      BY SMT
    <3> QED BY <1>3, <1>4, <2>1, <3>1
  <2> QED BY <1>0, <1>2, <1>3, <2>1, FlagFrame
<1> QED BY <1>5, <1>6

\* A definition is learned, from the bucket or the cache.
LEMMA OriginLearnDefinition ==
    ASSUME Base, KeysStay, NEW p \in Pods, PodOrigin(p), PodFlag(p), NEW d \in sync[p].todo,
           LearnDefinition(p, d)
    PROVE  PodOrigin(p)' /\ PodFlag(p)'
<1> DEFINE wins == Known(p, d.id) => d.at <= view[p][d.id].at
<1>0. Types
  BY DEF Base
<1>1. /\ Types' /\ d \in Definition /\ d \in defs \cup cache[p]
      /\ cache'[p] \in {cache[p], cache[p] \cup {d}}
  BY <1>0, LearnDefinitionFacts
<1>2. \A id \in Ids \ {d.id} : view'[p][id] = view[p][id]
  BY <1>0, LearnDefinitionFacts
<1>3. /\ ~wins => view'[p][d.id] = view[p][d.id]
      /\ wins => /\ view'[p][d.id].at = d.at /\ view'[p][d.id].mode = d.mode
                 /\ view'[p][d.id].undone => KeyOf(d) \in proto[p].undoSeen
  BY <1>0, LearnDefinitionFacts
<1>4. proto'[p].undoSeen \subseteq proto[p].undoSeen
  <2>1. proto'[p].undoSeen = IF wins THEN proto[p].undoSeen \ {KeyOf(d)} ELSE proto[p].undoSeen
    BY <1>0, LearnDefinitionFacts
  <2> QED BY <2>1
<1>5. sync'[p].undos = sync[p].undos
  <2>1. sync' = [sync EXCEPT ![p].todo = @ \ {d}]
    BY DEF LearnDefinition
  <2>2. sync \in [Pods -> SyncType]
    BY <1>0 DEF Types
  <2> QED BY <2>1, <2>2 DEF SyncType
<1>6. /\ Live(d.id) => d \in defs
      /\ d.id \in Ids /\ d = [id |-> d.id, at |-> d.at, mode |-> d.mode]
  BY <1>0, <1>1 DEF PodOrigin, Definition
<1> HIDE DEF wins
<1>7. \A id \in Ids : view'[p][id] # view[p][id] => id = d.id /\ wins
  BY <1>2, <1>3
<1>8. PodOrigin(p)'
  <2>1. ASSUME NEW id \in Ids, Known(p, id)'
        PROVE  \/ Known(p, id) /\ ViewDef(p, id)' = ViewDef(p, id)
               \/ Live(id) => ViewDef(p, id)' \in defs
    <3>1. CASE view'[p][id] = view[p][id]
      BY <2>1, <3>1 DEF Known, ViewDef
    <3>2. CASE view'[p][id] # view[p][id]
      <4>1. id = d.id /\ ViewDef(p, id)' = d
        BY <1>3, <1>6, <1>7, <3>2 DEF ViewDef
      <4> QED BY <1>6, <4>1
    <3> QED BY <3>1, <3>2
  <2>2. \A e \in cache'[p] : e \in cache[p] \/ (Live(e.id) => e \in defs)
    BY <1>1, <1>6
  <2> QED BY <1>0, <1>1, <2>1, <2>2, OriginFrame
<1>9. PodFlag(p)'
  <2>1. ASSUME NEW id \in Ids, view'[p][id].undone
        PROVE  \/ view[p][id].undone /\ view'[p][id].at = view[p][id].at
               \/ <<id, view'[p][id].at>> \in proto[p].undoSeen
    <3>1. CASE view'[p][id] = view[p][id]
      BY <2>1, <3>1
    <3>2. CASE view'[p][id] # view[p][id]
      <4>1. id = d.id /\ view'[p][id].at = d.at /\ KeyOf(d) \in proto[p].undoSeen
        BY <1>3, <1>7, <2>1, <3>2
      <4> QED BY <4>1 DEF KeyOf
    <3> QED BY <3>1, <3>2
  <2> QED BY <1>0, <1>1, <1>4, <1>5, <2>1, FlagFrame
<1> QED BY <1>8, <1>9

\* A sync applies its view: what it marks as undone has an undo key.
LEMMA OriginApply ==
    ASSUME Base, KeysStay, NEW p \in Pods, PodOrigin(p), PodFlag(p), Apply(p)
    PROVE  PodOrigin(p)' /\ PodFlag(p)'
<1>0. Types /\ view[p] \in [Ids -> EntryType]
  BY DEF Base, Types
<1>1. /\ Types' /\ sync[p].stage = "learn" /\ AppliedView(p) /\ AppliedProto(p) /\ AppliedEnd(p)
      /\ cache'[p] \subseteq cache[p]
  BY <1>0, ApplyFacts
<1> DEFINE K == {UndoneKey(u) : u \in sync[p].undos}
<1>2. \A k \in K : Needed(k[1]) => HasKey(undos, k)
  BY <1>0, SMT DEF PodFlag, HasKey, UndoneKey
<1>3. proto'[p].undoSeen \subseteq proto[p].undoSeen \cup K
  BY <1>1 DEF AppliedProto
<1>4. \A id \in Ids : view'[p][id] = NoEntry \/ (Known(p, id) /\ view'[p][id] = ApplyUndo(view[p], K)[id])
  BY <1>1 DEF AppliedView
<1> HIDE DEF K
<1>5. ASSUME NEW id \in Ids, view'[p][id] # NoEntry
      PROVE  /\ Known(p, id) /\ view'[p][id].at = view[p][id].at /\ view'[p][id].mode = view[p][id].mode
             /\ view'[p][id].undone => view[p][id].undone \/ <<id, view[p][id].at>> \in K
  <2> DEFINE w == ApplyUndo(view[p], K)
  <2>0. view'[p][id] = w[id] /\ Known(p, id)
    BY <1>4, <1>5
  <2>1. w[id].at = view[p][id].at
    BY ONLY <1>0, <1>5, ApplyUndoFacts, Zenon
  <2>2. w[id].mode = view[p][id].mode
    BY ONLY <1>0, <1>5, ApplyUndoFacts, Zenon
  <2>3. w[id].undone => view[p][id].undone \/ <<id, view[p][id].at>> \in K
    BY ONLY <1>0, <1>5, ApplyUndoFacts, Zenon
  <2> HIDE DEF w
  <2> QED BY <2>0, <2>1, <2>2, <2>3
<1>6. PodOrigin(p)'
  BY <1>0, <1>1, <1>5, OriginFrame DEF Known, ViewDef
<1>7. PodFlag(p)'
  <2>1. sync'[p].undos \subseteq sync[p].undos
    <3>1. sync[p] \in SyncType
      BY <1>0 DEF Types
    <3>2. sync'[p] = [sync[p] EXCEPT !.stage = "gc"] \/ sync'[p] = NoSync
      BY <1>1 DEF AppliedEnd
    <3> QED BY <3>1, <3>2, SMT DEF SyncType, NoSync
  <2>2. ASSUME NEW id \in Ids, view'[p][id].undone
        PROVE  \/ view[p][id].undone /\ view'[p][id].at = view[p][id].at
               \/ Needed(id) => HasKey(undos, <<id, view'[p][id].at>>)
    <3>1. view'[p][id] # NoEntry
      BY <2>2, SMT DEF NoEntry
    <3>2. <<id, view[p][id].at>>[1] = id
      OBVIOUS
    <3> QED BY <1>2, <1>5, <2>2, <3>1, <3>2
  <2> QED BY <1>0, <1>1, <1>2, <1>3, <2>1, <2>2, FlagFrame
<1> QED BY <1>6, <1>7

\* A restart enforces what was cached.
LEMMA OriginRestart ==
    ASSUME Types, KeysStay, NEW p \in Pods, PodOrigin(p), PodFlag(p), Restart(p)
    PROVE  PodOrigin(p)' /\ PodFlag(p)'
<1>1. /\ Types' /\ sync'[p] = NoSync
      /\ proto'[p].undoSeen = {} /\ cache'[p] \subseteq cache[p]
      /\ \A id \in Ids : \/ view'[p][id] = NoEntry
                         \/ \E d \in cache'[p] : d.id = id /\ view'[p][id] = Entry(d)
  BY RestartFacts
<1>2. PodOrigin(p)'
  <2>1. ASSUME NEW id \in Ids, Known(p, id)', Live(id)
        PROVE  ViewDef(p, id)' \in defs
    <3>1. PICK d \in cache'[p] : d.id = id /\ view'[p][id] = Entry(d)
      BY <1>1, <2>1 DEF Known
    <3>2. d \in defs /\ d \in Definition
      BY <1>1, <2>1, <3>1 DEF PodOrigin, Types
    <3>3. ViewDef(p, id)' = d
      BY ONLY <3>1, <3>2, SMT DEF ViewDef, Entry, Definition
    <3> QED BY <3>2, <3>3
  <2> QED BY <1>1, <2>1, OriginFrame
<1>3. PodFlag(p)'
  <2>1. \A id \in Ids : ~view'[p][id].undone
    <3>1. NoEntry.undone = FALSE /\ \A d : Entry(d).undone = FALSE
      BY DEF NoEntry, Entry
    <3> QED BY <1>1, <3>1
  <2> QED BY <1>1, <2>1, NoSyncFields, FlagFrame
<1> QED BY <1>2, <1>3

\* A step of a pod's own, given what it leaves of that pod.
LEMMA OriginPod ==
    ASSUME Types, Types', OriginInv, KeysStay, NEW p \in Pods, PodOrigin(p)', PodFlag(p)', Elsewhere(p),
           \A c \in Calls : call'[c] = call[c] \/ call'[c] = NoCall, acked' = acked
    PROVE  OriginInv'
<1>1. AckedOrigin'
  BY AckedFrame DEF OriginInv
<1>2. \A c \in Calls : CallOrigin(c)'
  BY CallFrame DEF OriginInv
<1>3. ASSUME NEW q \in Pods \ {p}
      PROVE  PodOrigin(q)' /\ PodFlag(q)'
  <2>1. /\ sync'[q] = sync[q] /\ proto'[q] = proto[q] /\ view'[q] = view[q] /\ cache'[q] = cache[q]
        /\ PodOrigin(q) /\ PodFlag(q)
    BY DEF Elsewhere, OriginInv
  <2> QED BY <2>1, OriginStays
<1> QED BY <1>1, <1>2, <1>3 DEF OriginInv

\* The steps of a pod.
LEMMA OriginPods ==
    ASSUME Base, OriginInv, KeysStay, NEW p \in Pods, SyncStep(p) \/ Restart(p)
    PROVE  OriginInv'
<1>0. Types /\ PodOrigin(p) /\ PodFlag(p)
  BY DEF Base, OriginInv
<1>1. ASSUME NEW forceFull \in BOOLEAN, StartSync(p, forceFull)
      PROVE  OriginInv'
  <2>1. /\ Types' /\ Elsewhere(p) /\ sync'[p].undos = undos
        /\ UNCHANGED <<view, cache, proto, call, histVars>>
    BY <1>0, <1>1, StartSyncFacts
  <2>2. PodOrigin(p)' /\ PodFlag(p)'
    BY <1>0, <2>1, SyncFrame
  <2> QED BY <1>0, <2>1, <2>2, OriginPod DEF histVars
<1>2. ASSUME List(p) \/ ListShort(p)
      PROVE  OriginInv'
  <2>1. /\ Types' /\ Elsewhere(p) /\ sync'[p].undos \subseteq sync[p].undos \cup undos
        /\ UNCHANGED <<view, cache, proto, call, histVars>>
    BY <1>0, <1>2, ListFacts
  <2>2. PodOrigin(p)' /\ PodFlag(p)'
    BY <1>0, <2>1, SyncFrame
  <2> QED BY <1>0, <2>1, <2>2, OriginPod DEF histVars
<1>3. ASSUME SyncError(p)
      PROVE  OriginInv'
  <2>1. /\ Types' /\ Elsewhere(p) /\ sync'[p] = NoSync
        /\ UNCHANGED <<view, cache, proto, call, histVars>>
    BY <1>0, <1>3, SyncErrorFacts
  <2>2. PodOrigin(p)' /\ PodFlag(p)'
    BY <1>0, <2>1, NoSyncFields, SyncFrame
  <2> QED BY <1>0, <2>1, <2>2, OriginPod DEF histVars
<1>4. ASSUME NEW d \in sync[p].todo, LearnDefinition(p, d)
      PROVE  OriginInv'
  <2>1. Types' /\ Elsewhere(p) /\ UNCHANGED <<call, histVars>>
    BY <1>0, <1>4, LearnDefinitionFacts
  <2>2. PodOrigin(p)' /\ PodFlag(p)'
    BY <1>0, <1>4, OriginLearnDefinition
  <2> QED BY <1>0, <2>1, <2>2, OriginPod DEF histVars
<1>5. ASSUME NEW d \in sync[p].todo, LearnUnreadable(p, d) \/ LearnGone(p, d) \/ LearnError(p, d)
      PROVE  OriginInv'
  <2>1. /\ Types' /\ Elsewhere(p) /\ sync' = [sync EXCEPT ![p].todo = @ \ {d}]
        /\ proto'[p].undoSeen = proto[p].undoSeen /\ UNCHANGED <<view, cache, call, histVars>>
    BY <1>0, <1>5, NotLearnedFacts
  <2>2. sync'[p].undos = sync[p].undos
    <3>1. sync \in [Pods -> SyncType]
      BY <1>0 DEF Types
    <3> QED BY <2>1, <3>1 DEF SyncType
  <2>3. PodOrigin(p)' /\ PodFlag(p)'
    BY <1>0, <2>1, <2>2, SyncFrame
  <2> QED BY <1>0, <2>1, <2>3, OriginPod DEF histVars
<1>6. ASSUME Apply(p)
      PROVE  OriginInv'
  <2>1. Types' /\ Elsewhere(p) /\ UNCHANGED <<call, histVars>>
    BY <1>0, <1>6, ApplyFacts
  <2>2. PodOrigin(p)' /\ PodFlag(p)'
    BY <1>0, <1>6, OriginApply
  <2> QED BY <1>0, <2>1, <2>2, OriginPod DEF histVars
<1>7. ASSUME NEW u, GcUndo(p, u)
      PROVE  OriginInv'
  <2>1. Types' /\ UNCHANGED <<podVars, call, histVars>>
    BY <1>0, <1>7, GcUndoFacts
  <2>2. Elsewhere(p)
    BY <2>1 DEF Elsewhere, podVars
  <2>3. PodOrigin(p)' /\ PodFlag(p)'
    BY <1>0, <2>1, OriginStays DEF podVars
  <2> QED BY <1>0, <2>1, <2>2, <2>3, OriginPod DEF histVars
<1>8. ASSUME NEW k, GcDefinition(p, k)
      PROVE  OriginInv'
  <2>1. /\ Types' /\ Elsewhere(p) /\ cache'[p] \subseteq cache[p]
        /\ proto'[p].undoSeen = proto[p].undoSeen
        /\ UNCHANGED <<view, sync, call, histVars>>
    BY <1>0, <1>8, GcDefinitionFacts
  <2>2. PodOrigin(p)' /\ PodFlag(p)'
    BY <1>0, <2>1, SyncFrame
  <2> QED BY <1>0, <2>1, <2>2, OriginPod DEF histVars
<1>9. ASSUME EndGc(p)
      PROVE  OriginInv'
  <2>1. /\ Types' /\ Elsewhere(p) /\ sync'[p] = NoSync /\ proto'[p].undoSeen = proto[p].undoSeen
        /\ UNCHANGED <<view, cache, call, histVars>>
    BY <1>0, <1>9, EndGcFacts
  <2>2. PodOrigin(p)' /\ PodFlag(p)'
    BY <1>0, <2>1, NoSyncFields, SyncFrame
  <2> QED BY <1>0, <2>1, <2>2, OriginPod DEF histVars
<1>10. ASSUME Restart(p)
       PROVE  OriginInv'
  <2>1. /\ Types' /\ Elsewhere(p) /\ UNCHANGED histVars
        /\ \A c \in Calls : call'[c] \in {call[c], NoCall}
    BY <1>0, <1>10, RestartFacts
  <2>2. PodOrigin(p)' /\ PodFlag(p)'
    BY <1>0, <1>10, OriginRestart
  <2> QED BY <1>0, <2>1, <2>2, OriginPod DEF histVars
<1> QED BY <1>1, <1>2, <1>3, <1>4, <1>5, <1>6, <1>7, <1>8, <1>9, <1>10
        DEF SyncStep, LearnStep, GcStep

\* A step that leaves the pods alone.
LEMMA OriginOutside ==
    ASSUME Types, Types', OriginInv, KeysStay, podVars' = podVars, \A c \in Calls : CallOrigin(c)',
           \A a \in acked' : a \in acked \/ (Live(a.def.id) => a.def \in defs')
    PROVE  OriginInv'
<1>1. AckedOrigin'
  BY AckedFrame DEF OriginInv
<1>2. \A p \in Pods : PodOrigin(p)' /\ PodFlag(p)'
  BY OriginStays DEF OriginInv, podVars
<1> QED BY <1>1, <1>2 DEF OriginInv

\* The steps of the calls.
LEMMA OriginCalls ==
    ASSUME Base, OriginInv, KeysStay, CreateStep \/ UndeleteStep
    PROVE  OriginInv'
<1>0. /\ Types /\ AckedOrigin /\ \A x \in Calls : CallOrigin(x)
      /\ \A q \in Pods : PodOrigin(q) /\ PodFlag(q)
  BY DEF Base, OriginInv
<1>1. ASSUME NEW c \in Calls, NEW p \in Pods, NEW id \in Ids, NEW mode \in Modes, BeginCreate(c, p, id, mode)
      PROVE  OriginInv'
  <2> DEFINE d == [id |-> id, at |-> KeyTime(p, id), mode |-> mode]
             b == IF TaskTime[id] # NoTime THEN TaskTime[id] ELSE now
             r == [op |-> "create", pod |-> p, def |-> d, began |-> b]
  <2>1. r \in Creating
    BY <1>0, <1>1, BeginCreateFacts
  <2>2. call' = [call EXCEPT ![c] = r]
    BY ONLY <1>1, Zenon DEF BeginCreate
  <2>3. Types' /\ UNCHANGED <<podVars, histVars>>
    BY <1>0, <1>1, BeginCreateFacts
  <2>4. r.op = "create"
    OBVIOUS
  <2> HIDE DEF d, b, r
  <2>5. \A x \in Calls : CallOrigin(x)'
    BY <1>0, <2>1, <2>2, <2>3, <2>4, CallsFrame
  <2> QED BY <1>0, <2>3, <2>5, OriginOutside DEF histVars
<1>2. ASSUME NEW p \in Pods, NEW id \in Ids, CreateKnown(p, id)
      PROVE  OriginInv'
  <2>1. /\ acked' = acked \cup {[def |-> ViewDef(p, id), at |-> now]} /\ Types' /\ Known(p, id)
        /\ UNCHANGED <<podVars, bucketVars, call>>
    BY <1>0, <1>2, CreateKnownFacts
  <2>2. \A x \in Calls : CallOrigin(x)'
    BY <1>0, <2>1, CallFrame
  <2>3. ViewDef(p, id).id = id
    BY DEF ViewDef
  <2>4. Live(id) => ViewDef(p, id) \in defs'
    BY <1>0, <2>1 DEF PodOrigin, bucketVars
  <2>5. \A a \in acked' : a \in acked \/ (Live(a.def.id) => a.def \in defs')
    BY <2>1, <2>3, <2>4, SMT
  <2> QED BY <1>0, <2>1, <2>2, <2>5, OriginOutside
<1>3. ASSUME NEW c \in Calls, PutDefinition(c) \/ PutDefinitionError(c)
      PROVE  OriginInv'
  <2> DEFINE r == [call[c] EXCEPT !.op = "created"]
  <2>1. /\ Types' /\ Creates(c)
        /\ \/ call' = [call EXCEPT ![c] = NoCall]
           \/ call' = [call EXCEPT ![c] = r] /\ call[c].def \in defs'
        /\ UNCHANGED <<podVars, histVars>>
    BY <1>0, <1>3, PutDefinitionFacts
  <2>2. call[c] \in Creating
    BY <1>0, <2>1, CallFacts
  <2>3. r \in Creating /\ r.def = call[c].def
    BY <2>2, OpFacts, OpKeeps
  <2> HIDE DEF r
  <2>4. \A x \in Calls : CallOrigin(x)'
    <3>1. CASE call' = [call EXCEPT ![c] = NoCall]
      BY <1>0, <2>1, <3>1, CallsFrame
    <3>2. CASE call' = [call EXCEPT ![c] = r] /\ call[c].def \in defs'
      BY <1>0, <2>1, <2>3, <3>2, CallsFrame
    <3> QED BY <2>1, <3>1, <3>2
  <2> QED BY <1>0, <2>1, <2>4, OriginOutside DEF histVars
<1>4. ASSUME NEW c \in Calls, FinishCreate(c)
      PROVE  OriginInv'
  <2>0. PICK p, d : p = call[c].pod /\ d = call[c].def
    OBVIOUS
  <2>1. /\ Types' /\ p \in Pods /\ call[c].op = "created" /\ call' = [call EXCEPT ![c] = NoCall]
        /\ acked' = acked \cup {[def |-> d, at |-> now]}
        /\ Elsewhere(p) /\ UNCHANGED <<now, bucketVars, undone>>
    BY <1>0, <1>4, <2>0, FinishCreateFacts
  <2>2. \A x \in Calls : CallOrigin(x)'
    BY <1>0, <2>1, CallsFrame
  <2>3. AckedOrigin'
    <3>1. Live(d.id) => d \in defs'
      BY <1>0, <2>0, <2>1 DEF CallOrigin, bucketVars
    <3> QED BY <1>0, <2>1, <3>1, AckedFrame, SMT
  <2>4. ASSUME NEW q \in Pods
        PROVE  PodOrigin(q)' /\ PodFlag(q)'
    <3>1. CASE q = p
      BY <1>0, <1>4, <2>0, <3>1, OriginFinishCreate
    <3>2. CASE q # p
      BY <1>0, <2>1, <3>2, OriginStays DEF Elsewhere
    <3> QED BY <3>1, <3>2
  <2> QED BY <2>2, <2>3, <2>4 DEF OriginInv
<1>5. ASSUME NEW id \in Ids, CreateNewer(id)
      PROVE  OriginInv'
  <2> DEFINE d == [id |-> id, at |-> IF TaskTime[id] # NoTime THEN TaskTime[id] ELSE now,
                   mode |-> "newer"]
  <2>1. /\ Types' /\ defs' = defs \cup {d} /\ acked' = acked \cup {[def |-> d, at |-> now]}
        /\ UNCHANGED <<podVars, call>>
    BY <1>0, <1>5, CreateNewerFacts
  <2> HIDE DEF d
  <2>2. \A x \in Calls : CallOrigin(x)'
    BY <1>0, <2>1, CallFrame
  <2>3. \A a \in acked' : a \in acked \/ a.def \in defs'
    BY <2>1, SMT
  <2> QED BY <1>0, <2>1, <2>2, <2>3, OriginOutside
<1>6. ASSUME NEW c \in Calls, NEW p \in Pods, NEW id \in Ids, BeginUndelete(c, p, id)
      PROVE  OriginInv'
  <2> DEFINE u == [id |-> id, def |-> view[p][id].at, at |-> Clock(p)]
             r == [op |-> "undo", pod |-> p, began |-> now, undo |-> u]
  <2>1. r \in Undoing
    BY <1>0, <1>6, BeginUndeleteFacts
  <2>2. call' = [call EXCEPT ![c] = r]
    BY <1>0, <1>6, BeginUndeleteFacts
  <2>3. Types' /\ UNCHANGED <<podVars, histVars>>
    BY <1>0, <1>6, BeginUndeleteFacts
  <2>4. r.op = "undo"
    OBVIOUS
  <2> HIDE DEF u, r
  <2>5. \A x \in Calls : CallOrigin(x)'
    BY <1>0, <2>1, <2>2, <2>3, <2>4, CallsFrame
  <2> QED BY <1>0, <2>3, <2>5, OriginOutside DEF histVars
<1>7. ASSUME NEW c \in Calls, PutUndo(c) \/ PutUndoError(c)
      PROVE  OriginInv'
  <2> DEFINE r == [call[c] EXCEPT !.op = "undone"]
  <2>1. /\ Types' /\ Undoes(c)
        /\ \/ call' = [call EXCEPT ![c] = NoCall]
           \/ call' = [call EXCEPT ![c] = r] /\ undos' = undos \cup {call[c].undo}
        /\ UNCHANGED <<podVars, histVars>>
    BY <1>0, <1>7, PutUndoFacts
  <2>2. call[c] \in Undoing
    BY <1>0, <2>1, CallFacts
  <2>3. r \in Undoing /\ r.undo = call[c].undo
    BY <2>2, OpFacts, OpKeeps
  <2> HIDE DEF r
  <2>4. \A x \in Calls : CallOrigin(x)'
    <3>1. CASE call' = [call EXCEPT ![c] = NoCall]
      BY <1>0, <2>1, <3>1, CallsFrame
    <3>2. CASE call' = [call EXCEPT ![c] = r] /\ undos' = undos \cup {call[c].undo}
      <4>1. r.undo \in undos'
        BY <2>3, <3>2
      <4> QED BY <1>0, <2>1, <2>3, <3>2, <4>1, CallsFrame
    <3> QED BY <2>1, <3>1, <3>2
  <2> QED BY <1>0, <2>1, <2>4, OriginOutside DEF histVars
<1>8. ASSUME NEW c \in Calls, FinishUndelete(c)
      PROVE  OriginInv'
  <2>0. PICK p : p = call[c].pod
    OBVIOUS
  <2>1. /\ Types' /\ p \in Pods /\ call' = [call EXCEPT ![c] = NoCall]
        /\ Elsewhere(p) /\ UNCHANGED <<now, bucketVars, acked>>
    BY <1>0, <1>8, <2>0, FinishUndeleteFacts
  <2>2. \A x \in Calls : CallOrigin(x)'
    BY <1>0, <2>1, CallsFrame
  <2>3. AckedOrigin'
    BY <1>0, <2>1, AckedFrame
  <2>4. ASSUME NEW q \in Pods
        PROVE  PodOrigin(q)' /\ PodFlag(q)'
    <3>1. CASE q = p
      BY <1>0, <1>8, <2>0, <3>1, OriginFinishUndelete
    <3>2. CASE q # p
      BY <1>0, <2>1, <3>2, OriginStays DEF Elsewhere
    <3> QED BY <3>1, <3>2
  <2> QED BY <2>2, <2>3, <2>4 DEF OriginInv
<1> QED BY <1>1, <1>2, <1>3, <1>4, <1>5, <1>6, <1>7, <1>8 DEF CreateStep, UndeleteStep

\* All steps.
LEMMA OriginStep == Base /\ Base' /\ OriginInv /\ [Next]_vars => OriginInv'
<1> SUFFICES ASSUME Base, Base', OriginInv, [Next]_vars
             PROVE  OriginInv'
  OBVIOUS
<1>0. Types /\ Types' /\ KeysStay
  BY KeysSteps DEF Base
<1>1. CASE CreateStep \/ UndeleteStep
  BY <1>0, <1>1, OriginCalls
<1>2. ASSUME NEW p \in Pollers, SyncStep(p) \/ Restart(p)
      PROVE  OriginInv'
  BY <1>0, <1>2, Constants, OriginPods
<1>3. ASSUME UNCHANGED <<podVars, call, histVars>>
      PROVE  OriginInv'
  <2>1. \A x \in Calls : CallOrigin(x)'
    BY <1>0, <1>3, CallFrame DEF OriginInv
  <2> QED BY <1>0, <1>3, <2>1, OriginOutside DEF histVars
<1>4. ASSUME (\E d \in defs : RemoveByHand(d)) \/ Tick \/ UNCHANGED vars
      PROVE  OriginInv'
  BY <1>3, <1>4 DEF RemoveByHand, Tick, vars
<1> QED BY <1>1, <1>2, <1>4 DEF Next

\* The initial state.
LEMMA OriginInit == Init => OriginInv
<1> SUFFICES ASSUME Init
             PROVE  OriginInv
  OBVIOUS
<1>1. /\ acked = {} /\ view = [p \in Pods |-> [id \in Ids |-> NoEntry]]
      /\ sync = [p \in Pods |-> NoSync] /\ proto = [p \in Pods |-> NoProto]
      /\ call = [c \in Calls |-> NoCall] /\ cache = [p \in Pods |-> {}]
  BY DEF Init
<1>2. \A c \in Calls : CallOrigin(c)
  BY <1>1 DEF CallOrigin, NoCall
<1>3. ASSUME NEW p \in Pods
      PROVE  PodOrigin(p) /\ PodFlag(p)
  <2>1. PodOrigin(p)
    BY <1>1 DEF PodOrigin, Known
  <2>2. \A id \in Ids : ~view[p][id].undone
    <3>1. NoEntry.undone = FALSE
      BY DEF NoEntry
    <3> QED BY <1>1, <3>1
  <2>3. sync[p].undos = {} /\ proto[p].undoSeen = {}
    BY <1>1 DEF NoSync, NoProto
  <2> QED BY <2>1, <2>2, <2>3 DEF PodFlag
<1> QED BY <1>1, <1>2, <1>3 DEF OriginInv, AckedOrigin

\* A pod enforces nothing that was not deleted: until it expires, every delete of its view
\* is a definition of the bucket with that time and mode, and one it shows again has an
\* undo key there, whatever was created, lost, restarted from a cache or only half
\* written (putLocked, Undelete, learnDefinitions and loadCache, delete/*.go).
THEOREM OnlyDeletedIsEnforced == Spec => []OnlyDeletedIsHidden
<1>1. Base /\ OriginInv => OnlyDeletedIsHidden
  BY DEF OriginInv, PodOrigin, PodFlag, OnlyDeletedIsHidden, Live, ViewDef, HasKey, HasUndo
<1>2. Base /\ OriginInv /\ [Next]_vars => OriginInv'
  BY BaseStep, OriginStep
<1> QED BY <1>1, <1>2, OriginInit, BaseInvariant, PTL DEF Spec

-----------------------------------------------------------------------------
(* What a step writes into the bucket. *)

\* The margin, with a sum that every prover can use.
LEMMA Margins ==
    ASSUME WindowMargin
    PROVE  /\ Overlap \in Int /\ \A p \in Pods : Skew[p] \in Int
           /\ \A p \in Pods : PutMax + Skew[p] <= Overlap
           /\ \A p, w \in Pods : PutMax + Skew[p] - Skew[w] <= Overlap
<1>1. Window \div 2 \in Int
  BY Constants, SMT
<1> QED BY <1>1, Constants, SMT DEF WindowMargin, Overlap

\* A key that could be written later can be written now.
LEMMA WithinEarlier ==
    ASSUME WindowMargin, NEW at \in Int, NEW s \in Int, NEW t \in Int, s <= t, Within(at, t)
    PROVE  Within(at, s)
<1> SUFFICES ASSUME NEW p \in Pods
             PROVE  at >= s + Skew[p] - Overlap
  BY DEF Within
<1>1. at >= t + Skew[p] - Overlap
  BY DEF Within
<1> QED BY <1>1, Margins, SMT

\* The key times that a create and an undelete take.
LEMMA WithinKeys ==
    ASSUME WindowMargin, Types
    PROVE  /\ \A p \in Pods : Within(Clock(p), now + PutMax)
           /\ \A t \in Int : Within(t, t + PutMax)
  BY Margins, Constants, PodFields, SMT DEF Within, Clock

\* A definition is written within the margin.
LEMMA CreateWithin ==
    ASSUME WindowMargin, Base, NEW c \in Calls, Timely(c)
    PROVE  /\ Creates(c) => Within(call[c].def.at, now)
           /\ Undoes(c) => Within(call[c].undo.at, now)
<1>0. now \in Int /\ PutMax \in Int
  BY Constants, SMT DEF Base, Types
<1>1. CASE Creates(c)
  <2>1. /\ call[c].def.at \in Int /\ call[c].began \in Int /\ now <= call[c].began + PutMax
        /\ Within(call[c].def.at, call[c].began + PutMax)
    BY <1>1, CallFacts DEF Base, CallTime, Definition, Timely
  <2>2. call[c].began + PutMax \in Int
    BY ONLY <2>1, <1>0, SMT
  <2>3. Within(call[c].def.at, now)
    BY <1>0, <2>1, <2>2, WithinEarlier
  <2> QED BY <1>1, <2>3 DEF Creates, Undoes
<1>2. CASE Undoes(c)
  <2>1. /\ call[c].undo.at \in Int /\ call[c].began \in Int /\ now <= call[c].began + PutMax
        /\ Within(call[c].undo.at, call[c].began + PutMax)
    BY <1>2, CallFacts DEF Base, CallTime, Undo, Timely
  <2>2. call[c].began + PutMax \in Int
    BY ONLY <2>1, <1>0, SMT
  <2>3. Within(call[c].undo.at, now)
    BY <1>0, <2>1, <2>2, WithinEarlier
  <2> QED BY <1>2, <2>3 DEF Creates, Undoes
<1> QED BY <1>1, <1>2

\* A call that goes on keeps its key and its start.
LEMMA TimelyFrame ==
    ASSUME Types, NEW c \in Calls, NEW r, \A x \in Calls : Timely(x), call' = [call EXCEPT ![c] = r],
           \/ r = NoCall
           \/ r \in Creating /\ Within(r.def.at, r.began + PutMax)
           \/ r \in Undoing /\ Within(r.undo.at, r.began + PutMax)
    PROVE  \A x \in Calls : Timely(x)'
<1> SUFFICES ASSUME NEW x \in Calls
             PROVE  Timely(x)'
  OBVIOUS
<1>0. call \in [Calls -> {NoCall} \cup Creating \cup Undoing]
  BY DEF Types
<1>1. CASE x # c
  BY <1>0, <1>1 DEF Timely, Creates, Undoes
<1>2. CASE x = c
  <2>1. call'[x] = r
    BY <1>0, <1>2
  <2>2. r = NoCall => r.op = "none"
    BY SMT DEF NoCall
  <2>3. r \in Creating => r.op \in {"create", "created"}
    BY DEF Creating
  <2>4. r \in Undoing => r.op \in {"undo", "undone"}
    BY DEF Undoing
  <2> QED BY <2>1, <2>2, <2>3, <2>4 DEF Timely, Creates, Undoes
<1> QED BY <1>1, <1>2

\* Every call puts its key within the margin.
LEMMA TimelyStep ==
    ASSUME WindowMargin, Types, \A x \in Calls : Timely(x), [Next]_vars
    PROVE  \A x \in Calls : Timely(x)'
<1> DEFINE Goal == \A x \in Calls : Timely(x)'
<1> HIDE DEF Goal
<1>0. ASSUME \A x \in Calls : call'[x] \in {call[x], NoCall}
      PROVE  Goal
  BY <1>0, SMT DEF Timely, Creates, Undoes, NoCall, Goal
<1>1. ASSUME NEW c \in Calls, NEW p \in Pods, NEW id \in Ids, NEW mode \in Modes, BeginCreate(c, p, id, mode)
      PROVE  Goal
  <2> DEFINE d == [id |-> id, at |-> KeyTime(p, id), mode |-> mode]
             b == IF TaskTime[id] # NoTime THEN TaskTime[id] ELSE now
             r == [op |-> "create", pod |-> p, def |-> d, began |-> b]
  <2>1. r \in Creating
    BY <1>1, BeginCreateFacts
  <2>2. call' = [call EXCEPT ![c] = r]
    BY ONLY <1>1, Zenon DEF BeginCreate
  <2>3. r.def.at = KeyTime(p, id) /\ r.began = b
    OBVIOUS
  <2>4. Within(KeyTime(p, id), b + PutMax)
    BY WithinKeys, Constants DEF KeyTime
  <2> HIDE DEF d, b, r
  <2> QED BY <2>1, <2>2, <2>3, <2>4, TimelyFrame DEF Goal
<1>2. ASSUME NEW c \in Calls, PutDefinition(c) \/ PutDefinitionError(c)
      PROVE  Goal
  <2> DEFINE r == [call[c] EXCEPT !.op = "created"]
  <2>1. /\ Creates(c)
        /\ call' = [call EXCEPT ![c] = NoCall] \/ call' = [call EXCEPT ![c] = r]
    BY <1>2, PutDefinitionFacts
  <2>2. call[c] \in Creating /\ Within(call[c].def.at, call[c].began + PutMax)
    BY <2>1, CallFacts DEF Timely
  <2>3. r \in Creating /\ r.def = call[c].def /\ r.began = call[c].began
    BY <2>2, OpFacts, OpKeeps
  <2> HIDE DEF r
  <2>4. r \in Creating /\ Within(r.def.at, r.began + PutMax)
    BY <2>2, <2>3
  <2> QED BY <2>1, <2>4, TimelyFrame DEF Goal
<1>3. ASSUME NEW c \in Calls, NEW p \in Pods, NEW id \in Ids, BeginUndelete(c, p, id)
      PROVE  Goal
  <2> DEFINE u == [id |-> id, def |-> view[p][id].at, at |-> Clock(p)]
             r == [op |-> "undo", pod |-> p, began |-> now, undo |-> u]
  <2>1. r \in Undoing
    BY <1>3, BeginUndeleteFacts
  <2>2. call' = [call EXCEPT ![c] = r]
    BY <1>3, BeginUndeleteFacts
  <2>3. r.undo.at = Clock(p) /\ r.began = now
    OBVIOUS
  <2>4. Within(Clock(p), now + PutMax)
    BY WithinKeys
  <2> HIDE DEF u, r
  <2> QED BY <2>1, <2>2, <2>3, <2>4, TimelyFrame DEF Goal
<1>4. ASSUME NEW c \in Calls, PutUndo(c) \/ PutUndoError(c)
      PROVE  Goal
  <2> DEFINE r == [call[c] EXCEPT !.op = "undone"]
  <2>1. /\ Undoes(c)
        /\ call' = [call EXCEPT ![c] = NoCall] \/ call' = [call EXCEPT ![c] = r]
    BY <1>4, PutUndoFacts
  <2>2. call[c] \in Undoing /\ Within(call[c].undo.at, call[c].began + PutMax)
    BY <2>1, CallFacts DEF Timely
  <2>3. r \in Undoing /\ r.undo = call[c].undo /\ r.began = call[c].began
    BY <2>2, OpFacts, OpKeeps
  <2> HIDE DEF r
  <2>4. r \in Undoing /\ Within(r.undo.at, r.began + PutMax)
    BY <2>2, <2>3
  <2> QED BY <2>1, <2>4, TimelyFrame DEF Goal
<1>5. ASSUME NEW c \in Calls, FinishCreate(c) \/ FinishUndelete(c)
      PROVE  Goal
  <2>1. call' = [call EXCEPT ![c] = NoCall]
    BY <1>5 DEF FinishCreate, FinishUndelete
  <2> QED BY <2>1, TimelyFrame DEF Goal
<1>6. ASSUME CreateStep \/ UndeleteStep
      PROVE  Goal
  <2>1. ASSUME \/ \E p \in Pods, id \in Ids : CreateKnown(p, id)
               \/ \E id \in Ids : CreateNewer(id)
        PROVE  Goal
    BY <1>0, <2>1 DEF CreateKnown, CreateNewer
  <2> QED BY <1>1, <1>2, <1>3, <1>4, <1>5, <1>6, <2>1 DEF CreateStep, UndeleteStep
<1>7. ASSUME NEW p \in Pods, SyncStep(p) \/ Restart(p)
      PROVE  Goal
  <2>1. CASE Restart(p)
    BY <1>0, <2>1, RestartFacts
  <2>2. ASSUME call' = call
        PROVE  Goal
    BY <1>0, <2>2
  <2>3. CASE SyncStep(p)
    BY <2>2, <2>3 DEF SyncStep, LearnStep, GcStep, StartSync, List, ListShort, ListAfter, SyncError,
       LearnDefinition, LearnUnreadable, LearnGone, LearnError, Apply, GcUndo, GcDefinition, EndGc
  <2> QED BY <1>7, <2>1, <2>3
<1>8. ASSUME (\E d \in defs : RemoveByHand(d)) \/ Tick \/ UNCHANGED vars
      PROVE  Goal
  BY <1>0, <1>8 DEF RemoveByHand, Tick, vars
<1>9. Goal
  BY <1>6, <1>7, <1>8, Constants DEF Next
<1> QED BY <1>9 DEF Goal

\* The bucket, in every step.
LEMMA BucketSteps ==
    ASSUME WindowMargin, Base, Base', \A c \in Calls : Timely(c), [Next]_vars
    PROVE  BucketStep
<1> DEFINE Goal == /\ \A d \in defs' : d \in defs \/ Within(d.at, now)
                   /\ \A u \in undos' : u \in undos \/ Within(u.at, now)
<1>0. Types
  BY DEF Base
<1>1. ASSUME NEW c \in Calls, PutDefinition(c) \/ PutDefinitionError(c)
      PROVE  Goal
  <2>1. Creates(c) /\ defs' \subseteq defs \cup {call[c].def} /\ undos' = undos
    BY <1>0, <1>1, PutDefinitionFacts
  <2> QED BY <2>1, CreateWithin
<1>2. ASSUME NEW c \in Calls, PutUndo(c) \/ PutUndoError(c)
      PROVE  Goal
  <2>1. Undoes(c) /\ undos' \subseteq undos \cup {call[c].undo} /\ defs' = defs
    BY <1>0, <1>2, PutUndoFacts
  <2> QED BY <2>1, CreateWithin
<1>3. ASSUME NEW id \in Ids, CreateNewer(id)
      PROVE  Goal
  <2> DEFINE t == IF TaskTime[id] # NoTime THEN TaskTime[id] ELSE now
             d == [id |-> id, at |-> t, mode |-> "newer"]
  <2>1. defs' = defs \cup {d} /\ InTime(id) /\ undos' = undos
    BY <1>0, <1>3, CreateNewerFacts
  <2>2. Within(d.at, now)
    <3>1. t \in Int /\ now <= t + PutMax /\ t + PutMax \in Int /\ now \in Int
      BY <1>0, <2>1, Constants, SMT DEF InTime, Types
    <3> HIDE DEF t
    <3>2. Within(t, t + PutMax)
      BY <1>0, <3>1, WithinKeys
    <3> QED BY <3>1, <3>2, WithinEarlier
  <2> HIDE DEF d
  <2> QED BY <2>1, <2>2
<1>4. ASSUME defs' \subseteq defs, undos' \subseteq undos
      PROVE  Goal
  BY <1>4
<1> HIDE DEF Goal
<1>5. ASSUME CreateStep \/ UndeleteStep
      PROVE  Goal
  <2>1. ASSUME UNCHANGED bucketVars
        PROVE  Goal
    BY <1>4, <2>1 DEF bucketVars
  <2> QED BY <1>1, <1>2, <1>3, <1>5, <2>1 DEF CreateStep, UndeleteStep, BeginCreate, CreateKnown,
         FinishCreate, BeginUndelete, FinishUndelete
<1>6. ASSUME NEW p \in Pods, SyncStep(p) \/ Restart(p)
      PROVE  Goal
  <2>1. ASSUME UNCHANGED bucketVars
        PROVE  Goal
    BY <1>4, <2>1 DEF bucketVars
  <2>2. ASSUME NEW u, GcUndo(p, u)
        PROVE  Goal
    BY <1>0, <1>4, <2>2, GcUndoFacts
  <2>3. ASSUME NEW k, GcDefinition(p, k)
        PROVE  Goal
    BY <1>0, <1>4, <2>3, GcDefinitionFacts
  <2> QED BY <1>6, <2>1, <2>2, <2>3 DEF SyncStep, LearnStep, GcStep, StartSync, List, ListShort,
         ListAfter, SyncError, LearnDefinition, LearnUnreadable, LearnGone, LearnError, Apply, EndGc,
         Restart
<1>7. ASSUME (\E d \in defs : RemoveByHand(d)) \/ Tick \/ UNCHANGED vars
      PROVE  Goal
  BY <1>4, <1>7 DEF RemoveByHand, Tick, vars, bucketVars
<1>8. Goal
  BY <1>5, <1>6, <1>7, Constants DEF Next
<1> QED BY <1>8, KeysSteps DEF BucketStep, Goal

-----------------------------------------------------------------------------
(* A delete is hidden: the steps around a pod. *)

\* What was there when the sync of a pod began was there before this step.
LEMMA BeforeStays ==
    ASSUME WindowMargin, Base, Types', BucketStep, AckedOrigin, NEW p \in Pods, Syncing(p),
           sync'[p].t0 = sync[p].t0, sync'[p].began = sync[p].began,
           NEW d \in defs', Live(d.id)', Before(p, d)'
    PROVE  d \in defs /\ Live(d.id) /\ Before(p, d)
<1>1. d \in Definition /\ d.id \in Ids /\ d.at \in Int /\ Types
  BY DEF Base, Types, Definition
<1>2. Live(d.id)
  BY <1>1, NeededEarlier DEF BucketStep, KeysStay
<1>3. sync[p].t0 = sync[p].began + Skew[p] /\ sync[p].began <= now /\ sync[p].began \in Int /\ now \in Int
  BY <1>1, PodFields, SMT DEF Base, PodBase, PodTime
<1>4. Before(p, d)
  <2>1. CASE d.at < sync[p].t0 - Overlap
    BY <2>1 DEF Before
  <2>2. CASE \E a \in acked' : a.def = d /\ a.at < sync[p].began
    <3>1. PICK a \in acked' : a.def = d /\ a.at < sync[p].began
      BY <2>2
    <3>2. a.at # now
      BY ONLY <1>3, <3>1, SMT
    <3>3. a \in acked
      BY <3>1, <3>2 DEF BucketStep, KeysStay
    <3> QED BY <3>1, <3>3 DEF Before
  <2> QED BY <2>1, <2>2 DEF Before
<1>5. d \in defs
  <2> SUFFICES ASSUME d \notin defs
               PROVE  FALSE
    OBVIOUS
  <2>1. d.at >= now + Skew[p] - Overlap
    BY DEF BucketStep, KeysStay, Within
  <2>2. ~(d.at < sync[p].t0 - Overlap)
    BY <1>1, <1>3, <2>1, Margins, SMT
  <2>3. PICK a \in acked : a.def = d
    BY <1>4, <2>2 DEF Before
  <2> QED BY <1>2, <2>3 DEF AckedOrigin
<1> QED BY <1>2, <1>4, <1>5

\* What a pod has hidden and taken stays so when its view keeps it.
Kept(p) == \A d \in Definition : (Hidden(p, d) /\ Live(d.id) /\ Sole(d)') => Hidden(p, d)'

\* The protocol keeps what it says of listings.
SameProto(p) ==
    /\ proto'[p].lastGood = proto[p].lastGood /\ proto'[p].lastList = proto[p].lastList
    /\ proto'[p].bad = proto[p].bad /\ proto'[p].unreadable = proto[p].unreadable
    /\ proto'[p].closed = proto[p].closed

\* A step around a pod leaves its syncs what they have taken: what it adds to the bucket
\* is for the next sync.
LEMMA HideFrame ==
    ASSUME WindowMargin, Base, Types', BucketStep, AckedOrigin, NEW p \in Pods, PodHide(p),
           sync'[p] = sync[p], SameProto(p), Kept(p)
    PROVE  PodHide(p)'
<1>0. Types /\ PodTime(p)
  BY DEF Base, PodBase
<1>1. ASSUME NEW d \in defs', Live(d.id)', Before(p, d)', Syncing(p)
      PROVE  d \in defs /\ Live(d.id) /\ Before(p, d)
  BY <1>1, BeforeStays
<1>2. ASSUME NEW d \in Definition, Sole(d)', Live(d.id)
      PROVE  Sole(d) /\ (Taken(p, d) => Taken(p, d)') /\ (Shut(p, d) => Shut(p, d)')
  <2>1. Sole(d)
    BY <1>2 DEF Sole, BucketStep, KeysStay
  <2> QED BY <1>2, <2>1 DEF Taken, Shut, Kept, SameProto
<1>3. ListedInv(p)'
  <2> SUFFICES ASSUME NEW d \in defs', sync[p].stage = "list" \/ (Syncing(p) /\ sync[p].full),
                      Live(d.id)', Before(p, d)'
               PROVE  d \in sync[p].defs
    BY DEF ListedInv, Syncing
  <2>1. Syncing(p)
    BY DEF Syncing
  <2> QED BY <1>1, <2>1 DEF PodHide, ListedInv
<1>4. LearnedInv(p)'
  <2> SUFFICES ASSUME NEW d \in defs', sync[p].stage \in {"learn", "gc"},
                      Live(d.id)', Sole(d)', Before(p, d)'
               PROVE  Taken(p, d)' \/ d \in sync[p].todo
    BY DEF LearnedInv
  <2>1. Syncing(p) /\ d \in Definition
    BY DEF Syncing, Types
  <2>2. d \in defs /\ Live(d.id) /\ Before(p, d)
    BY <1>1, <2>1
  <2> QED BY <1>2, <2>1, <2>2 DEF PodHide, LearnedInv
<1>5. PolledInv(p)'
  <2> SUFFICES ASSUME NEW d \in defs', proto[p].lastList # NoTime, d.at < proto[p].lastList - Overlap,
                      Live(d.id)', Sole(d)'
               PROVE  Taken(p, d)'
    BY DEF PolledInv, SameProto
  <2>1. d \in Definition /\ d.id \in Ids /\ d.at \in Int
    BY DEF Types, Definition
  <2>2. Live(d.id)
    BY <1>0, <2>1, NeededEarlier DEF BucketStep, KeysStay
  <2>3. d \in defs
    <3> SUFFICES ASSUME d \notin defs
                 PROVE  FALSE
      OBVIOUS
    <3>1. d.at >= now + Skew[p] - Overlap
      BY DEF BucketStep, KeysStay, Within
    <3>2. proto[p].lastList <= now + Skew[p]
      BY <1>0 DEF PodTime, Clock
    <3>3. /\ d.at \in Int /\ now \in Nat /\ Skew[p] \in Int /\ Overlap \in Int /\ proto[p].lastList \in Int
          /\ d.at < proto[p].lastList - Overlap
      BY <1>0, <2>1, Margins, PodFields
    <3> QED BY ONLY <3>1, <3>2, <3>3, SMT
  <2> QED BY <1>2, <2>1, <2>2, <2>3 DEF PodHide, PolledInv
<1>6. ServedInv(p)'
  <2> SUFFICES ASSUME NEW a \in acked', proto[p].lastGood # NoTime, a.at + SyncMax < proto[p].lastGood,
                      Live(a.def.id)', Sole(a.def)'
               PROVE  Hidden(p, a.def)' \/ Shut(p, a.def)'
    BY DEF ServedInv, SameProto
  <2>1. a.def \in Definition /\ a.def.id \in Ids /\ a.at \in Int
    BY DEF Types, Definition
  <2>2. Live(a.def.id)
    BY <1>0, <2>1, NeededEarlier DEF BucketStep, KeysStay
  <2>3. now \in Nat /\ proto[p].lastGood \in Int /\ proto[p].lastGood <= now /\ SyncMax \in Nat
    BY <1>0, PodFields, Constants DEF PodTime
  <2>4. a.at + SyncMax < proto[p].lastGood
    OBVIOUS
  <2>5. a.at # now
    BY ONLY <2>1, <2>3, <2>4, SMT
  <2>6. a \in acked
    BY <2>5 DEF BucketStep, KeysStay
  <2>7. Hidden(p, a.def) \/ Shut(p, a.def)
    BY <1>2, <2>1, <2>2, <2>6 DEF PodHide, ServedInv
  <2> QED BY <1>2, <2>1, <2>2, <2>7 DEF Kept
<1> QED BY <1>3, <1>4, <1>5, <1>6 DEF PodHide

-----------------------------------------------------------------------------
(* A delete is hidden: the steps of a sync. *)

\* A step of the pod that leaves the bucket and the answers alone.
Still == UNCHANGED <<now, defs, acked>>

\* What such a step leaves: what is live, and which key times are sole.
LEMMA StillFacts ==
    ASSUME Still
    PROVE  /\ \A id \in Ids : Live(id)' <=> Live(id)
           /\ \A d \in Definition : Sole(d)' <=> Sole(d)
  BY DEF Still, Live, Needed, Clock, Sole

\* The sync is over, with or without an end: what was polled and served before stays so.
LEMMA HideOff ==
    ASSUME Types, Still, NEW p \in Pods, PodHide(p), sync'[p].stage = "off", SameProto(p), view'[p] = view[p]
    PROVE  PodHide(p)'
<1>0. /\ \A d \in defs : d \in Definition /\ d.id \in Ids
      /\ \A a \in acked : a.def \in Definition /\ a.def.id \in Ids
  BY DEF Types, Definition
<1>1. \A d \in Definition : /\ Hidden(p, d)' <=> Hidden(p, d)
                            /\ Taken(p, d)' <=> Taken(p, d)
                            /\ Shut(p, d)' <=> Shut(p, d)
  BY DEF Hidden, Known, Taken, Shut, SameProto
<1>2. ListedInv(p)' /\ LearnedInv(p)'
  BY DEF ListedInv, LearnedInv, Syncing
<1>3. PolledInv(p)'
  BY <1>0, <1>1, StillFacts DEF PodHide, PolledInv, SameProto, Still
<1>4. ServedInv(p)'
  BY <1>0, <1>1, StillFacts DEF PodHide, ServedInv, SameProto, Still
<1> QED BY <1>2, <1>3, <1>4 DEF PodHide

\* A sync begins with everything that is in the bucket.
LEMMA HideStartSync ==
    ASSUME Types, NEW p \in Pods, PodHide(p), NEW forceFull \in BOOLEAN, StartSync(p, forceFull)
    PROVE  PodHide(p)'
<1>1. /\ sync'[p].stage = "list" /\ sync'[p].defs = defs /\ Still
      /\ view' = view /\ proto' = proto
  BY StartSyncFacts DEF Still, bucketVars, histVars
<1>2. /\ \A d \in defs : d \in Definition /\ d.id \in Ids
      /\ \A a \in acked : a.def \in Definition /\ a.def.id \in Ids
  BY DEF Types, Definition
<1>3. \A d \in Definition : /\ Hidden(p, d)' <=> Hidden(p, d)
                            /\ Taken(p, d)' <=> Taken(p, d)
                            /\ Shut(p, d)' <=> Shut(p, d)
  BY <1>1 DEF Hidden, Known, Taken, Shut
<1>4. ListedInv(p)' /\ LearnedInv(p)'
  BY <1>1 DEF ListedInv, LearnedInv, Still
<1>5. PolledInv(p)'
  BY <1>1, <1>2, <1>3, StillFacts DEF PodHide, PolledInv, Still
<1>6. ServedInv(p)'
  BY <1>1, <1>2, <1>3, StillFacts DEF PodHide, ServedInv, Still
<1> QED BY <1>4, <1>5, <1>6 DEF PodHide

\* Where the sync stands does not change what was there when it began.
LEMMA BeforeSame ==
    ASSUME Still, NEW p \in Pods, sync'[p].t0 = sync[p].t0, sync'[p].began = sync[p].began
    PROVE  \A d : Before(p, d)' <=> Before(p, d)
  BY DEF Still, Before

\* A poll's listing: what it lacks because of the window was polled before.
LEMMA HideList ==
    ASSUME ~ShortLists, Base, NEW p \in Pods, PodHide(p), List(p) \/ ListShort(p)
    PROVE  PodHide(p)'
<1>0. Types /\ PodTime(p)
  BY DEF Base, PodBase
<1>1. /\ sync[p].stage = "list" /\ sync'[p].stage = "learn" /\ sync'[p].t0 = sync[p].t0
      /\ sync'[p].began = sync[p].began /\ sync'[p].full = sync[p].full
      /\ sync'[p].todo = Need(p, sync'[p].defs \cup proto[p].bad)
      /\ InWindow(p, sync[p].defs \cap defs) \subseteq sync'[p].defs
      /\ Still /\ view' = view /\ proto' = proto
  BY <1>0, ListFacts DEF Still, bucketVars, histVars
<1>2. /\ \A d \in defs : d \in Definition /\ d.id \in Ids /\ d.at \in Int
      /\ \A a \in acked : a.def \in Definition /\ a.def.id \in Ids
  BY <1>0 DEF Types, Definition
<1>3. \A d \in Definition : /\ Hidden(p, d)' <=> Hidden(p, d)
                            /\ Taken(p, d)' <=> Taken(p, d)
                            /\ Shut(p, d)' <=> Shut(p, d)
  BY <1>1 DEF Hidden, Known, Taken, Shut
<1>4. ASSUME NEW d \in defs, Live(d.id), Before(p, d)
      PROVE  d \in sync[p].defs \cap defs
  BY <1>1, <1>4 DEF PodHide, ListedInv
<1>5. ListedInv(p)'
  <2> SUFFICES ASSUME NEW d \in defs, sync[p].full, Live(d.id), Before(p, d)
               PROVE  d \in sync'[p].defs
    BY <1>1, <1>2, StillFacts, BeforeSame DEF ListedInv, Still
  <2> QED BY <1>1, <1>4 DEF InWindow
<1>6. LearnedInv(p)'
  <2> SUFFICES ASSUME NEW d \in defs, Live(d.id), Sole(d), Before(p, d)
               PROVE  Taken(p, d) \/ d \in sync'[p].todo
    BY <1>1, <1>2, <1>3, StillFacts, BeforeSame DEF LearnedInv, Still
  <2>1. CASE sync[p].full \/ d.at >= sync[p].t0 - Window
    <3>1. d \in sync'[p].defs
      BY <1>1, <1>4, <2>1 DEF InWindow
    <3>2. KeyOf(d) \notin proto[p].gone
      <4>1. KeyOf(d)[1] = d.id /\ Needed(d.id)
        BY <1>2, EntryFacts DEF Live
      <4> QED BY <4>1, ExpiredNotNeeded
    <3>3. d \in sync'[p].todo \/ ~(Known(p, d.id) => d.at < view[p][d.id].at)
      BY <1>1, <3>1, <3>2 DEF Need
    <3>4. view[p][d.id].at \in Int
      BY <1>0, <1>2, ViewFacts
    <3> QED BY <1>2, <3>3, <3>4, SMT DEF Taken, Hidden
  <2>2. CASE ~sync[p].full /\ d.at < sync[p].t0 - Window
    <3>1. Syncing(p)
      BY <1>1 DEF Syncing
    <3>2. proto[p].lastList # NoTime /\ sync[p].t0 - proto[p].lastList <= Window \div 2
      BY <1>0, <2>2, <3>1 DEF PodTime
    <3>3. Window \div 2 \in Int /\ Window \in Int
      BY Constants, SMT
    <3>4. d.at \in Int /\ sync[p].t0 \in Int /\ proto[p].lastList \in Int
      BY <1>0, <1>2, PodFields
    <3>5. d.at < proto[p].lastList - Overlap
      BY ONLY <2>2, <3>2, <3>3, <3>4, SMT DEF Overlap
    <3> QED BY <3>2, <3>5 DEF PodHide, PolledInv
  <2>3. d.at \in Int /\ sync[p].t0 \in Int /\ Window \in Nat
    BY <1>0, <1>2, PodFields, Constants
  <2>4. d.at < sync[p].t0 - Window \/ d.at >= sync[p].t0 - Window
    BY ONLY <2>3, SMT
  <2> QED BY <2>1, <2>2, <2>4
<1>7. PolledInv(p)'
  BY <1>1, <1>2, <1>3, StillFacts DEF PodHide, PolledInv, Still
<1>8. ServedInv(p)'
  BY <1>1, <1>2, <1>3, StillFacts DEF PodHide, ServedInv, Still
<1> QED BY <1>5, <1>6, <1>7, <1>8 DEF PodHide

\* A definition of the sync is read, or not: what was taken stays taken, and so is this.
LEMMA HideLearn ==
    ASSUME Types, Still, NEW p \in Pods, PodHide(p), NEW e \in sync[p].todo, sync[p].stage = "learn",
           sync' = [sync EXCEPT ![p].todo = @ \ {e}],
           proto'[p].lastGood = proto[p].lastGood, proto'[p].lastList = proto[p].lastList,
           \A d \in Definition : Hidden(p, d) => Hidden(p, d)',
           \A d \in defs : Taken(p, d) => Taken(p, d)',
           \A d \in Definition : Shut(p, d) => Hidden(p, d)' \/ Shut(p, d)',
           e \in defs => Taken(p, e)'
    PROVE  PodHide(p)'
<1>1. /\ sync'[p].todo = sync[p].todo \ {e} /\ sync'[p].stage = sync[p].stage
      /\ sync'[p].t0 = sync[p].t0 /\ sync'[p].began = sync[p].began
      /\ sync'[p].full = sync[p].full /\ sync'[p].defs = sync[p].defs
  BY TodoFacts
<1>2. /\ \A d \in defs : d \in Definition /\ d.id \in Ids
      /\ \A a \in acked : a.def \in Definition /\ a.def.id \in Ids
  BY DEF Types, Definition
<1>3. ListedInv(p)'
  BY <1>1, <1>2, StillFacts, BeforeSame DEF PodHide, ListedInv, Still, Syncing
<1>4. LearnedInv(p)'
  <2> SUFFICES ASSUME NEW d \in defs, Live(d.id), Sole(d), Before(p, d)
               PROVE  Taken(p, d)' \/ d \in sync[p].todo \ {e}
    BY <1>1, <1>2, StillFacts, BeforeSame DEF LearnedInv, Still
  <2>1. Taken(p, d) \/ d \in sync[p].todo
    BY DEF PodHide, LearnedInv
  <2> QED BY <2>1
<1>5. PolledInv(p)'
  BY <1>2, StillFacts DEF PodHide, PolledInv, Still
<1>6. ServedInv(p)'
  BY <1>2, StillFacts DEF PodHide, ServedInv, Still
<1> QED BY <1>3, <1>4, <1>5, <1>6 DEF PodHide

\* A definition is learned: the view has it, or an earlier one of its id.
LEMMA HideLearnDefinition ==
    ASSUME Types, NEW p \in Pods, PodHide(p), NEW e \in sync[p].todo, LearnDefinition(p, e)
    PROVE  PodHide(p)'
<1> DEFINE wins == Known(p, e.id) => e.at <= view[p][e.id].at
<1>1. /\ sync[p].stage = "learn" /\ e \in Definition
      /\ \A id \in Ids \ {e.id} : view'[p][id] = view[p][id]
  BY LearnDefinitionFacts
<1>2. /\ ~wins => view'[p][e.id] = view[p][e.id]
      /\ wins => view'[p][e.id] # NoEntry /\ view'[p][e.id].at = e.at
  BY LearnDefinitionFacts
<1>3. /\ sync' = [sync EXCEPT ![p].todo = @ \ {e}]
      /\ proto'[p].bad = proto[p].bad \ {e}
      /\ proto'[p].unreadable = proto[p].unreadable \ {KeyOf(e)}
      /\ proto'[p].closed = proto[p].closed
      /\ proto'[p].lastGood = proto[p].lastGood /\ proto'[p].lastList = proto[p].lastList
  <2>1. sync' = [sync EXCEPT ![p].todo = @ \ {e}]
    BY DEF LearnDefinition
  <2>4. proto'[p].bad = proto[p].bad \ {e}
    BY LearnDefinitionFacts
  <2>2. proto'[p].unreadable = proto[p].unreadable \ {KeyOf(e)}
    BY LearnDefinitionFacts
  <2>3. /\ proto'[p].lastGood = proto[p].lastGood /\ proto'[p].lastList = proto[p].lastList
        /\ proto'[p].closed = proto[p].closed
    BY LearnDefinitionFacts
  <2> QED BY <2>1, <2>2, <2>3, <2>4
<1>4. Still
  BY DEF LearnDefinition, Still, bucketVars, histVars
<1>5. e.id \in Ids /\ e.at \in Int /\ view[p][e.id].at \in Int
  BY <1>1, ViewFacts DEF Definition
<1>6. \A d \in Definition : d.id = e.id /\ d.at >= e.at => Hidden(p, d)'
  <2> SUFFICES ASSUME NEW d \in Definition, d.id = e.id, d.at >= e.at
               PROVE  Hidden(p, d)'
    OBVIOUS
  <2>0. d.at \in Int
    BY DEF Definition
  <2>1. CASE wins
    <3>1. view'[p][d.id] # NoEntry /\ view'[p][d.id].at = e.at
      BY <1>2, <2>1
    <3> HIDE DEF wins
    <3> QED BY <1>5, <2>0, <3>1 DEF Hidden, Known
  <2>2. CASE ~wins
    <3>1. view'[p][d.id] = view[p][d.id] /\ Known(p, d.id) /\ ~(e.at <= view[p][d.id].at)
      BY <1>2, <2>2
    <3> QED BY <1>5, <2>0, <3>1, SMT DEF Hidden, Known
  <2> QED BY <2>1, <2>2
<1>7. \A d \in Definition : Hidden(p, d) => Hidden(p, d)'
  <2> SUFFICES ASSUME NEW d \in Definition, Hidden(p, d)
               PROVE  Hidden(p, d)'
    OBVIOUS
  <2>0. d.at \in Int /\ d.id \in Ids
    BY DEF Definition
  <2>1. CASE d.id # e.id
    BY <1>1, <2>0, <2>1 DEF Hidden, Known
  <2>2. CASE d.id = e.id /\ wins
    <3>1. e.at <= d.at
      BY <1>5, <2>0, <2>2, SMT DEF Hidden
    <3> QED BY <1>6, <2>2, <3>1
  <2>3. CASE d.id = e.id /\ ~wins
    <3>1. view'[p][d.id] = view[p][d.id]
      BY <1>2, <2>3
    <3> QED BY <3>1 DEF Hidden, Known
  <2> QED BY <2>1, <2>2, <2>3
<1> HIDE DEF wins
<1>8. \A d \in Definition : KeyOf(d) = KeyOf(e) => Hidden(p, d)'
  BY <1>5, <1>6, SMT DEF KeyOf
<1>9. \A d \in defs : Taken(p, d) => Taken(p, d)'
  <2>1. \A d \in defs : d \in Definition
    BY DEF Types
  <2> QED BY <1>1, <1>3, <1>7, <1>8, <2>1 DEF Taken
<1>10. \A d \in Definition : Shut(p, d) => Hidden(p, d)' \/ Shut(p, d)'
  BY <1>3, <1>8 DEF Shut
<1>11. Taken(p, e)'
  BY <1>1, <1>8 DEF Taken
<1> QED BY <1>1, <1>3, <1>4, <1>7, <1>9, <1>10, <1>11, HideLearn

\* A definition that cannot be read keeps the sync from being complete, or the gate
\* closed.
LEMMA HideNotLearned ==
    ASSUME Types, NEW p \in Pods, PodHide(p), NEW e \in sync[p].todo,
           LearnUnreadable(p, e) \/ LearnGone(p, e) \/ LearnError(p, e)
    PROVE  PodHide(p)'
<1>1. /\ sync[p].stage = "learn" /\ sync' = [sync EXCEPT ![p].todo = @ \ {e}]
      /\ KeyOf(e) \in proto'[p].unreadable \/ e \notin defs \/ e \in proto'[p].bad
      /\ proto[p].unreadable \subseteq proto'[p].unreadable
      /\ \A d \in proto[p].bad : d \in proto'[p].bad \/ d \notin defs
      /\ proto'[p].lastGood = proto[p].lastGood /\ proto'[p].lastList = proto[p].lastList
      /\ proto'[p].closed = proto[p].closed
      /\ UNCHANGED <<now, bucketVars, view, histVars>>
  BY NotLearnedFacts
<1>2. Still
  BY <1>1 DEF Still, bucketVars, histVars
<1>3. \A d \in Definition : Hidden(p, d) => Hidden(p, d)'
  BY <1>1 DEF Hidden, Known
<1>4. \A d \in defs : Taken(p, d) => Taken(p, d)'
  <2>1. \A d \in defs : d \in Definition
    BY DEF Types
  <2> QED BY <1>1, <1>3, <2>1 DEF Taken
<1>5. \A d \in Definition : Shut(p, d) => Hidden(p, d)' \/ Shut(p, d)'
  BY <1>1 DEF Shut
<1>6. e \in defs => Taken(p, e)'
  BY <1>1 DEF Taken
<1> QED BY <1>1, <1>2, <1>3, <1>4, <1>5, <1>6, HideLearn

\* What was polled or served before the sync was there when it began.
LEMMA BeforeSync ==
    ASSUME Base, NEW p \in Pods, Syncing(p)
    PROVE  /\ \A d \in Definition :
                (proto[p].lastList # NoTime /\ d.at < proto[p].lastList - Overlap) => Before(p, d)
           /\ \A a \in acked :
                (proto[p].lastGood # NoTime /\ a.at + SyncMax < proto[p].lastGood) => Before(p, a.def)
           /\ \A a \in acked : a.at + SyncMax < now => Before(p, a.def)
<1>0. Types /\ PodTime(p) /\ Overlap \in Int
  <2>1. Window \div 2 \in Int
    BY Constants, SMT
  <2> QED BY <2>1, Constants, SMT DEF Base, PodBase, Overlap
<1>1. /\ proto[p].lastList # NoTime => proto[p].lastList <= sync[p].t0
      /\ proto[p].lastGood # NoTime => proto[p].lastGood <= sync[p].began
      /\ now <= sync[p].began + SyncMax
  BY <1>0 DEF PodTime
<1>2. ASSUME NEW d \in Definition, proto[p].lastList # NoTime, d.at < proto[p].lastList - Overlap
      PROVE  Before(p, d)
  <2>1. d.at \in Int
    BY DEF Definition
  <2>2. sync[p].t0 \in Int /\ proto[p].lastList \in Int
    BY <1>0, PodFields
  <2>3. d.at < sync[p].t0 - Overlap
    BY ONLY <1>0, <1>1, <1>2, <2>1, <2>2, SMT
  <2> QED BY <2>3 DEF Before
<1>3. ASSUME NEW a \in acked,
             (proto[p].lastGood # NoTime /\ a.at + SyncMax < proto[p].lastGood) \/ a.at + SyncMax < now
      PROVE  Before(p, a.def)
  <2>1. a.at \in Int
    BY <1>0 DEF Types
  <2>2. now \in Nat /\ sync[p].began \in Int /\ proto[p].lastGood \in Int /\ SyncMax \in Nat
    BY <1>0, PodFields, Constants
  <2>3. a.at < sync[p].began
    BY ONLY <1>1, <1>3, <2>1, <2>2, SMT
  <2> QED BY <2>3 DEF Before
<1> QED BY <1>2, <1>3

\* What a sync leaves when it has read everything.
Learned(p) ==
    /\ \A d \in defs : (Live(d.id) /\ Sole(d) /\ Before(p, d)) => Taken(p, d)'
    /\ \A d \in Definition :
          (d \in defs /\ Live(d.id) /\ Sole(d) /\ Before(p, d) /\ (Hidden(p, d) \/ Shut(p, d)))
              => Hidden(p, d)' \/ KeyOf(d) \in proto'[p].unreadable

\* The end of a sync: the next poll need not list what it took, and the view is complete
\* when nothing is left to be read again.
LEMMA HideEnd ==
    ASSUME Base, Still, AckedOrigin, NEW p \in Pods, PodHide(p), Syncing(p), Learned(p),
           sync'[p] = NoSync, proto'[p].lastList = sync[p].t0, proto'[p].bad = proto[p].bad,
           proto'[p].closed = proto'[p].unreadable,
           proto'[p].lastGood = IF proto[p].bad = {} THEN now ELSE proto[p].lastGood
    PROVE  PodHide(p)'
<1>0. /\ \A d \in defs : d \in Definition /\ d.id \in Ids
      /\ \A a \in acked : a.def \in Definition /\ a.def.id \in Ids
  BY DEF Base, Types, Definition
<1>1. ListedInv(p)' /\ LearnedInv(p)'
  BY SMT DEF ListedInv, LearnedInv, Syncing, NoSync
<1>2. PolledInv(p)'
  <2> SUFFICES ASSUME NEW d \in defs, d.at < sync[p].t0 - Overlap, Live(d.id), Sole(d)
               PROVE  Taken(p, d)'
    BY <1>0, StillFacts DEF PolledInv, Still
  <2> QED BY DEF Learned, Before
<1>3. ServedInv(p)'
  <2> SUFFICES ASSUME NEW a \in acked, proto'[p].lastGood # NoTime, a.at + SyncMax < proto'[p].lastGood,
                      Live(a.def.id), Sole(a.def)
               PROVE  Hidden(p, a.def)' \/ KeyOf(a.def) \in proto'[p].unreadable
    BY <1>0, StillFacts DEF ServedInv, Still, Shut
  <2>1. a.def \in defs /\ a.def \in Definition
    BY <1>0 DEF AckedOrigin
  <2>2. CASE proto[p].bad = {}
    <3>1. Before(p, a.def)
      BY <2>2, BeforeSync
    <3>2. Taken(p, a.def)'
      BY <2>1, <3>1 DEF Learned
    <3> QED BY <2>2, <3>2 DEF Taken
  <2>3. CASE proto[p].bad # {}
    <3>1. Before(p, a.def)
      BY <2>3, BeforeSync
    <3>2. Hidden(p, a.def) \/ Shut(p, a.def)
      BY <2>3 DEF PodHide, ServedInv
    <3> QED BY <2>1, <3>1, <3>2 DEF Learned
  <2> QED BY <2>2, <2>3
<1> QED BY <1>1, <1>2, <1>3 DEF PodHide

\* The view that a sync applies drops nothing that is live.
LEMMA AppliedKeeps ==
    ASSUME Base, NEW p \in Pods, PodOrigin(p), Apply(p)
    PROVE  \A d \in Definition : (Hidden(p, d) /\ Live(d.id)) => Hidden(p, d)'
<1> SUFFICES ASSUME NEW d \in Definition, Known(p, d.id), view[p][d.id].at <= d.at, Live(d.id)
             PROVE  Hidden(p, d)'
  BY DEF Hidden
<1>0. Types /\ d.id \in Ids /\ PodTime(p)
  BY DEF Base, PodBase, Definition
<1>1. AppliedView(p) /\ sync[p].stage = "learn"
  BY <1>0, ApplyFacts
<1> DEFINE K == {UndoneKey(u) : u \in sync[p].undos}
<1>2. view'[p][d.id] = NoEntry \/ view'[p][d.id] = ApplyUndo(view[p], K)[d.id]
  BY <1>0, <1>1 DEF AppliedView
<1>3. view'[p][d.id] # NoEntry
  <2> SUFFICES ASSUME view'[p][d.id] = NoEntry
               PROVE  FALSE
    OBVIOUS
  <2>1. <<d.id, view[p][d.id].at>> \notin KeysOf(defs) \/ sync[p].t0 > ExpiresAt[d.id]
    BY <1>0, <1>1 DEF AppliedView
  <2>2. ViewDef(p, d.id) \in defs
    BY <1>0 DEF PodOrigin
  <2>3. KeyOf(ViewDef(p, d.id)) = <<d.id, view[p][d.id].at>>
    BY DEF KeyOf, ViewDef
  <2>4. <<d.id, view[p][d.id].at>> \in KeysOf(defs)
    BY <2>2, <2>3 DEF KeysOf
  <2>5. sync[p].t0 = sync[p].began + Skew[p] /\ sync[p].began <= now
    BY <1>0, <1>1 DEF PodTime, Syncing
  <2>6. Clock(p) <= ExpiresAt[d.id] /\ ExpiresAt[d.id] \in Nat
    BY <1>0, Constants DEF Live, Needed
  <2>7. now \in Nat /\ Skew[p] \in Int /\ sync[p].t0 \in Int /\ sync[p].began \in Int
    BY <1>0, PodFields
  <2>8. ~(sync[p].t0 > ExpiresAt[d.id])
    BY ONLY <2>5, <2>6, <2>7, SMT DEF Clock
  <2> QED BY <2>1, <2>4, <2>8
<1>4. view[p] \in [Ids -> EntryType]
  BY <1>0 DEF Types
<1> HIDE DEF K
<1>5. ApplyUndo(view[p], K)[d.id].at = view[p][d.id].at
  BY ONLY <1>0, <1>4, ApplyUndoFacts, Zenon
<1> QED BY <1>2, <1>3, <1>5 DEF Hidden, Known

\* A sync applies its view.
LEMMA HideApply ==
    ASSUME Base, AckedOrigin, NEW p \in Pods, PodOrigin(p), PodHide(p), Apply(p)
    PROVE  PodHide(p)'
<1>0. Types /\ PodTime(p)
  BY DEF Base, PodBase
<1>1. /\ sync[p].stage = "learn" /\ sync[p].todo = {} /\ AppliedProto(p) /\ AppliedEnd(p)
      /\ UNCHANGED <<now, bucketVars, histVars>>
  BY <1>0, ApplyFacts
<1>2. Still /\ Syncing(p)
  BY <1>1 DEF Still, bucketVars, histVars, Syncing
<1>3. /\ proto'[p].bad = proto[p].bad
      /\ proto'[p].unreadable = IF sync[p].full THEN proto[p].unreadable \cap KeysOf(sync[p].defs)
                                ELSE proto[p].unreadable
  BY <1>1 DEF AppliedProto
<1>4. /\ \A d \in defs : d \in Definition /\ d.id \in Ids
      /\ \A a \in acked : a.def \in Definition /\ a.def.id \in Ids
  BY <1>0 DEF Types, Definition
<1>5. ASSUME NEW d \in defs, Live(d.id), Before(p, d)
      PROVE  /\ Hidden(p, d) => Hidden(p, d)'
             /\ KeyOf(d) \in proto[p].unreadable => KeyOf(d) \in proto'[p].unreadable
  <2>1. Hidden(p, d) => Hidden(p, d)'
    BY <1>4, <1>5, AppliedKeeps
  <2>2. sync[p].full => KeyOf(d) \in KeysOf(sync[p].defs)
    <3>1. sync[p].full => d \in sync[p].defs
      BY <1>2, <1>5 DEF PodHide, ListedInv
    <3> QED BY <3>1 DEF KeysOf
  <2> QED BY <1>3, <2>1, <2>2
<1>6. Learned(p)
  <2>1. ASSUME NEW d \in defs, Live(d.id), Sole(d), Before(p, d)
        PROVE  Taken(p, d)'
    <3>1. Taken(p, d)
      BY <1>1, <2>1 DEF PodHide, LearnedInv
    <3> QED BY <1>3, <1>5, <2>1, <3>1 DEF Taken
  <2> QED BY <1>5, <2>1 DEF Learned, Shut
<1>7. CASE sync[p].full /\ p \in Maintenance
  <2>1. /\ sync'[p] = [sync[p] EXCEPT !.stage = "gc"]
        /\ proto'[p].lastGood = proto[p].lastGood /\ proto'[p].lastList = proto[p].lastList
        /\ proto'[p].closed = proto[p].closed
    BY <1>1, <1>7 DEF AppliedEnd
  <2>2. /\ sync'[p].stage = "gc" /\ sync'[p].t0 = sync[p].t0 /\ sync'[p].began = sync[p].began
        /\ sync'[p].full = sync[p].full /\ sync'[p].defs = sync[p].defs
    <3>1. sync[p] \in SyncType
      BY <1>0 DEF Types
    <3> QED BY <2>1, <3>1 DEF SyncType
  <2>3. ListedInv(p)'
    BY <1>2, <1>4, <2>2, StillFacts, BeforeSame DEF PodHide, ListedInv, Still, Syncing
  <2>4. LearnedInv(p)'
    BY <1>2, <1>4, <1>6, <2>2, StillFacts, BeforeSame DEF LearnedInv, Learned, Still
  <2>5. PolledInv(p)'
    BY <1>2, <1>4, <1>6, <2>1, StillFacts, BeforeSync DEF PolledInv, Learned, Still
  <2>6. ServedInv(p)'
    <3> SUFFICES ASSUME NEW a \in acked, proto[p].lastGood # NoTime, a.at + SyncMax < proto[p].lastGood,
                        Live(a.def.id), Sole(a.def)
                 PROVE  Hidden(p, a.def)' \/ Shut(p, a.def)'
      BY <1>2, <1>4, <2>1, StillFacts DEF ServedInv, Still
    <3>1. a.def \in defs /\ Before(p, a.def)
      BY <1>2, BeforeSync DEF AckedOrigin
    <3>2. Hidden(p, a.def) \/ Shut(p, a.def)
      BY DEF PodHide, ServedInv
    <3> QED BY <1>5, <2>1, <3>1, <3>2 DEF Shut
  <2> QED BY <2>3, <2>4, <2>5, <2>6 DEF PodHide
<1>8. CASE ~(sync[p].full /\ p \in Maintenance)
  <2>1. /\ sync'[p] = NoSync /\ proto'[p].lastList = sync[p].t0
        /\ proto'[p].lastGood = IF proto[p].bad = {} THEN now ELSE proto[p].lastGood
        /\ proto'[p].closed = proto'[p].unreadable
    BY <1>1, <1>8 DEF AppliedEnd
  <2> QED BY <1>2, <1>3, <1>6, <2>1, HideEnd
<1> QED BY <1>7, <1>8

\* The end of a collection is the end of the sync.
LEMMA HideEndGc ==
    ASSUME Base, AckedOrigin, NEW p \in Pods, PodHide(p), EndGc(p)
    PROVE  PodHide(p)'
<1>1. /\ sync[p].stage = "gc" /\ sync'[p] = NoSync
      /\ proto'[p].lastGood = IF proto[p].bad = {} THEN now ELSE proto[p].lastGood
      /\ proto'[p].lastList = sync[p].t0 /\ proto'[p].closed = proto[p].unreadable
      /\ proto'[p].bad = proto[p].bad /\ proto'[p].unreadable = proto[p].unreadable
      /\ UNCHANGED <<now, bucketVars, view, histVars>>
  BY EndGcFacts DEF Base
<1>2. Still /\ Syncing(p) /\ sync[p].todo = {}
  BY <1>1 DEF Still, bucketVars, histVars, Syncing, Base, PodBase, PodTime
<1>3. \A d : /\ Hidden(p, d)' <=> Hidden(p, d)
             /\ Taken(p, d)' <=> Taken(p, d)
  BY <1>1 DEF Hidden, Known, Taken
<1>4. Learned(p)
  BY <1>1, <1>2, <1>3 DEF Learned, PodHide, LearnedInv, Shut
<1> QED BY <1>1, <1>2, <1>4, HideEnd

-----------------------------------------------------------------------------
(* A delete is hidden: the calls, and all steps together. *)

\* A pod that a step does not touch.
LEMMA HideStays ==
    ASSUME WindowMargin, Base, Types', BucketStep, AckedOrigin, NEW p \in Pods, PodHide(p),
           sync'[p] = sync[p], proto'[p] = proto[p], view'[p] = view[p]
    PROVE  PodHide(p)'
<1>1. SameProto(p) /\ Kept(p)
  BY DEF SameProto, Kept, Hidden, Known
<1> QED BY <1>1, HideFrame

\* A create is answered: its definition is in the view, or an earlier one that no answer
\* contradicts.
LEMMA HideFinishCreate ==
    ASSUME WindowMargin, Base, BucketStep, AckedOrigin, NEW c \in Calls, FinishCreate(c),
           NEW p \in Pods, p = call[c].pod, PodHide(p)
    PROVE  PodHide(p)'
<1>0. Types
  BY DEF Base
<1>1. PICK d : d = call[c].def
  OBVIOUS
<1>2. Types' /\ d \in Definition /\ UNCHANGED <<now, bucketVars, sync, proto>>
  BY <1>0, <1>1, FinishCreateFacts
<1>3. /\ acked' = acked \cup {[def |-> d, at |-> now]}
      /\ view'[p][d.id] = Entry(d) /\ \A id \in Ids \ {d.id} : view'[p][id] = view[p][id]
  BY <1>0, <1>1, FinishCreateFacts
<1>4. Kept(p)
  <2> SUFFICES ASSUME NEW x \in Definition, Hidden(p, x), Sole(x)'
               PROVE  Hidden(p, x)'
    BY DEF Kept
  <2>0. x.id \in Ids /\ x.at \in Int
    BY DEF Definition
  <2>1. CASE x.id = d.id
    <3>1. [def |-> d, at |-> now] \in acked'
      BY <1>3
    <3>2. d.at = x.at
      BY <2>1, <3>1 DEF Sole
    <3> QED BY <1>2, <1>3, <2>0, <2>1, <3>2, EntryFacts, SMTT(30) DEF Hidden, Known
  <2>2. CASE x.id # d.id
    BY <1>3, <2>0, <2>2 DEF Hidden, Known
  <2> QED BY <2>1, <2>2
<1>5. SameProto(p) /\ sync'[p] = sync[p]
  BY <1>2 DEF SameProto
<1> QED BY <1>2, <1>4, <1>5, HideFrame

\* An undelete is answered.
LEMMA HideFinishUndelete ==
    ASSUME WindowMargin, Base, BucketStep, AckedOrigin, NEW c \in Calls, FinishUndelete(c),
           NEW p \in Pods, p = call[c].pod, PodHide(p)
    PROVE  PodHide(p)'
<1>0. Types /\ view[p] \in [Ids -> EntryType]
  BY DEF Base, Types
<1>1. PICK K : K = {UndoneKey(call[c].undo)}
  OBVIOUS
<1>2. /\ Types' /\ view'[p] = ApplyUndo(view[p], K)
      /\ UNCHANGED <<now, bucketVars, sync, proto, acked>>
  BY <1>0, <1>1, FinishUndeleteFacts
<1>3. \A id \in Ids : view'[p][id].at = view[p][id].at /\ (Known(p, id)' <=> Known(p, id))
  <2> TAKE id \in Ids
  <2>1. ApplyUndo(view[p], K)[id].at = view[p][id].at
    BY ONLY <1>0, id \in Ids, ApplyUndoFacts, Zenon
  <2>2. ApplyUndo(view[p], K)[id] = NoEntry <=> view[p][id] = NoEntry
    BY ONLY <1>0, id \in Ids, ApplyUndoFacts, Zenon
  <2> QED BY <1>2, <2>1, <2>2 DEF Known
<1>4. Kept(p) /\ SameProto(p)
  <2>1. \A d \in Definition : d.id \in Ids
    BY DEF Definition
  <2> QED BY <1>2, <1>3, <2>1 DEF Kept, Hidden, SameProto
<1> QED BY <1>2, <1>4, HideFrame

\* The steps of a pod, for that pod.
LEMMA HidePod ==
    ASSUME WindowMargin, ~ShortLists, Base, Types', OriginInv, BucketStep, NEW p \in Pods, PodHide(p),
           SyncStep(p) \/ Restart(p)
    PROVE  PodHide(p)'
<1>0. Types /\ PodOrigin(p) /\ AckedOrigin
  BY DEF Base, OriginInv
<1>1. ASSUME NEW forceFull \in BOOLEAN, StartSync(p, forceFull)
      PROVE  PodHide(p)'
  BY <1>0, <1>1, HideStartSync
<1>2. ASSUME List(p) \/ ListShort(p)
      PROVE  PodHide(p)'
  BY <1>0, <1>2, HideList
<1>3. ASSUME SyncError(p)
      PROVE  PodHide(p)'
  <2>1. sync'[p] = NoSync /\ UNCHANGED <<now, bucketVars, view, proto, histVars>>
    BY <1>0, <1>3, SyncErrorFacts
  <2>2. Still /\ SameProto(p) /\ sync'[p].stage = "off"
    BY <2>1, NoSyncFields DEF Still, SameProto, bucketVars, histVars
  <2> QED BY <1>0, <2>1, <2>2, HideOff
<1>4. ASSUME NEW d \in sync[p].todo, LearnDefinition(p, d)
      PROVE  PodHide(p)'
  BY <1>0, <1>4, HideLearnDefinition
<1>5. ASSUME NEW d \in sync[p].todo, LearnUnreadable(p, d) \/ LearnGone(p, d) \/ LearnError(p, d)
      PROVE  PodHide(p)'
  BY <1>0, <1>5, HideNotLearned
<1>6. ASSUME Apply(p)
      PROVE  PodHide(p)'
  BY <1>0, <1>6, HideApply
<1>7. ASSUME NEW u, GcUndo(p, u)
      PROVE  PodHide(p)'
  <2>1. UNCHANGED podVars
    BY <1>0, <1>7, GcUndoFacts
  <2> QED BY <1>0, <2>1, HideStays DEF podVars
<1>8. ASSUME NEW k, GcDefinition(p, k)
      PROVE  PodHide(p)'
  <2>1. SameProto(p) /\ UNCHANGED <<view, sync>>
    BY <1>0, <1>8, GcDefinitionFacts DEF SameProto
  <2>2. Kept(p)
    BY <2>1 DEF Kept, Hidden, Known
  <2> QED BY <1>0, <2>1, <2>2, HideFrame
<1>9. ASSUME EndGc(p)
      PROVE  PodHide(p)'
  BY <1>0, <1>9, HideEndGc
<1>10. ASSUME Restart(p)
       PROVE  PodHide(p)'
  <2>1. sync'[p] = NoSync /\ proto'[p].lastGood = NoTime /\ proto'[p].lastList = NoTime
    BY <1>0, <1>10, RestartFacts
  <2> QED BY <2>1, NoSyncFields DEF PodHide, ListedInv, LearnedInv, PolledInv, ServedInv, Syncing
<1> QED BY <1>1, <1>2, <1>3, <1>4, <1>5, <1>6, <1>7, <1>8, <1>9, <1>10
        DEF SyncStep, LearnStep, GcStep

\* A step of a pod leaves the others alone.
LEMMA PodElsewhere ==
    ASSUME Types, NEW p \in Pods, SyncStep(p) \/ Restart(p)
    PROVE  Elsewhere(p)
<1>1. ASSUME NEW forceFull \in BOOLEAN, StartSync(p, forceFull)
      PROVE  Elsewhere(p)
  BY <1>1, StartSyncFacts
<1>2. ASSUME NEW d \in sync[p].todo,
             LearnDefinition(p, d) \/ LearnUnreadable(p, d) \/ LearnGone(p, d) \/ LearnError(p, d)
      PROVE  Elsewhere(p)
  BY <1>2, LearnDefinitionFacts, NotLearnedFacts
<1>3. ASSUME NEW u, GcUndo(p, u)
      PROVE  Elsewhere(p)
  BY <1>3, GcUndoFacts DEF Elsewhere, podVars
<1>4. ASSUME NEW k, GcDefinition(p, k)
      PROVE  Elsewhere(p)
  BY <1>4, GcDefinitionFacts
<1>5. ASSUME List(p) \/ ListShort(p) \/ SyncError(p)
      PROVE  Elsewhere(p)
  BY <1>5, ListFacts, SyncErrorFacts
<1>6. ASSUME Apply(p) \/ EndGc(p) \/ Restart(p)
      PROVE  Elsewhere(p)
  BY <1>6, ApplyFacts, EndGcFacts, RestartFacts
<1> QED BY <1>1, <1>2, <1>3, <1>4, <1>5, <1>6 DEF SyncStep, LearnStep, GcStep

\* All steps, for every pod.
LEMMA HidePods ==
    ASSUME WindowMargin, ~ShortLists, Base, Types', HideInv, BucketStep, [Next]_vars, NEW p \in Pods
    PROVE  PodHide(p)'
<1>0. Types /\ OriginInv /\ AckedOrigin /\ PodHide(p)
  BY DEF Base, HideInv, OriginInv
<1>1. ASSUME UNCHANGED podVars
      PROVE  PodHide(p)'
  BY <1>0, <1>1, HideStays DEF podVars
<1>2. ASSUME NEW q \in Pods, p # q, Elsewhere(q)
      PROVE  PodHide(p)'
  BY <1>0, <1>2, HideStays DEF Elsewhere
<1>3. ASSUME NEW c \in Calls, FinishCreate(c)
      PROVE  PodHide(p)'
  <2>1. PICK q \in Pods : q = call[c].pod /\ Elsewhere(q)
    BY <1>0, <1>3, FinishCreateFacts
  <2> QED BY <1>0, <1>2, <1>3, <2>1, HideFinishCreate
<1>4. ASSUME NEW c \in Calls, FinishUndelete(c)
      PROVE  PodHide(p)'
  <2>1. PICK q \in Pods : q = call[c].pod /\ Elsewhere(q)
    BY <1>0, <1>4, FinishUndeleteFacts
  <2> QED BY <1>0, <1>2, <1>4, <2>1, HideFinishUndelete
<1>5. CASE CreateStep \/ UndeleteStep
  <2>1. \/ UNCHANGED podVars
        \/ \E c \in Calls : FinishCreate(c)
        \/ \E c \in Calls : FinishUndelete(c)
    BY <1>5 DEF CreateStep, UndeleteStep, BeginCreate, CreateKnown, PutDefinition,
       PutDefinitionError, CreateNewer, BeginUndelete, PutUndo, PutUndoError
  <2> QED BY <1>1, <1>3, <1>4, <2>1
<1>6. ASSUME NEW q \in Pods, SyncStep(q) \/ Restart(q)
      PROVE  PodHide(p)'
  <2>1. CASE q = p
    BY <1>0, <1>6, <2>1, HidePod
  <2>2. CASE q # p
    BY <1>0, <1>2, <1>6, <2>2, PodElsewhere
  <2> QED BY <2>1, <2>2
<1>7. ASSUME (\E d \in defs : RemoveByHand(d)) \/ Tick \/ UNCHANGED vars
      PROVE  PodHide(p)'
  BY <1>1, <1>7 DEF RemoveByHand, Tick, vars
<1> QED BY <1>5, <1>6, <1>7, Constants DEF Next

\* All steps.
LEMMA HideStep ==
    ASSUME WindowMargin, ~ShortLists
    PROVE  Base /\ Base' /\ HideInv /\ [Next]_vars => HideInv'
<1> SUFFICES ASSUME Base, Base', HideInv, [Next]_vars
             PROVE  HideInv'
  OBVIOUS
<1>0. Types /\ Types' /\ BucketStep
  BY BucketSteps DEF Base, HideInv
<1>1. OriginInv'
  BY OriginStep DEF HideInv
<1>2. \A c \in Calls : Timely(c)'
  BY <1>0, TimelyStep DEF HideInv
<1>3. \A p \in Pods : PodHide(p)'
  BY <1>0, HidePods
<1> QED BY <1>1, <1>2, <1>3 DEF HideInv

\* The initial state.
LEMMA HideInit == Init => HideInv
<1> SUFFICES ASSUME Init
             PROVE  HideInv
  OBVIOUS
<1>1. /\ defs = {} /\ acked = {} /\ call = [c \in Calls |-> NoCall]
  BY DEF Init
<1>2. \A c \in Calls : Timely(c)
  BY <1>1 DEF Timely, Creates, Undoes, NoCall
<1>3. \A p \in Pods : PodHide(p)
  BY <1>1 DEF PodHide, ListedInv, LearnedInv, PolledInv, ServedInv
<1> QED BY <1>2, <1>3, OriginInit DEF HideInv

\* The answers name each id with one time.
OneKeyTime == \A a, b \in acked : a.def.id = b.def.id => a.def.at = b.def.at

\* A pod with an open gate hides what was deleted.
LEMMA GateHides ==
    ASSUME Base, HideInv, OneKeyTime
    PROVE  DeletedIsHidden
<1> SUFFICES ASSUME NEW a \in acked, NEW p \in Pods, now > a.at + Stale + SyncMax,
                    a.def.id \notin ByHand, Needed(a.def.id), Gate(p, TenantOf[a.def.id])
             PROVE  /\ Known(p, a.def.id)
                    /\ view[p][a.def.id].at <= a.def.at
                    /\ view[p][a.def.id].undone => HasUndo(<<a.def.id, view[p][a.def.id].at>>)
  BY DEF DeletedIsHidden
<1>0. /\ Types /\ a.at \in Int /\ a.def.id \in Ids /\ PodFlag(p) /\ ServedInv(p)
  BY DEF Base, Types, Definition, HideInv, OriginInv, PodHide
<1>1. proto[p].lastGood # NoTime /\ a.at + SyncMax < proto[p].lastGood
  BY <1>0, PodFields, Constants, SMT DEF Gate
<1>2. Live(a.def.id) /\ Sole(a.def)
  BY DEF Live, Sole, OneKeyTime
<1>3. Hidden(p, a.def) \/ Shut(p, a.def)
  BY <1>0, <1>1, <1>2 DEF ServedInv
<1>4. ~Shut(p, a.def)
  BY DEF Gate, Shut, KeyOf
<1>5. Hidden(p, a.def)
  BY <1>3, <1>4
<1>6. view[p][a.def.id].undone => HasUndo(<<a.def.id, view[p][a.def.id].at>>)
  BY <1>0 DEF PodFlag, HasKey, HasUndo
<1> QED BY <1>5, <1>6 DEF Hidden

\* A delete is hidden by every pod with an open gate, a stale age and a sync after its
\* answer, whatever fails, restarts or cannot be read: if the window leaves room for the
\* slowest PUT and the clocks (pollWindow, protocol.go), listings are complete, and no
\* id was answered with two times (an id is a UUID that is created once, or states its
\* time; handler.go, keys.go).
THEOREM DeletesAreHidden ==
    ASSUME WindowMargin, ~ShortLists
    PROVE  Spec => [](OneKeyTime => DeletedIsHidden)
<1>1. Base /\ HideInv => (OneKeyTime => DeletedIsHidden)
  BY GateHides
<1>2. Base /\ HideInv /\ [Next]_vars => HideInv'
  BY BaseStep, HideStep
<1> QED BY <1>1, <1>2, HideInit, BaseInvariant, PTL DEF Spec
=============================================================================
