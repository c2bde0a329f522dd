--------------------------- MODULE TombstonesUndo ---------------------------
(***************************************************************************)
(* Tombstones, for any number of pods, ids and calls and any lengths of    *)
(* time: when the window covers the PUTs and the clocks, a pod with an     *)
(* open gate shows what was undeleted.  A leaf is Zenon's unless it names  *)
(* SMT.                                                                    *)
(***************************************************************************)
EXTENDS TombstonesProofs

USE Zenon

-----------------------------------------------------------------------------
(* Where the keys of undeletes come from. *)

IsTask(id) == TaskTime[id] # NoTime

\* A definition of this version is not of the future, by the clock that its key is of.
Started(d) ==
    d.mode # "newer" => IF IsTask(d.id) THEN d.at <= now ELSE \E p \in Pods : d.at <= Clock(p)

\* A create began at the time of its key.
CallStart(c) ==
    Creates(c) => /\ call[c].def.mode # "newer" /\ call[c].began <= now
                  /\ call[c].def.at = IF IsTask(call[c].def.id) THEN call[c].began
                                      ELSE call[c].began + Skew[call[c].pod]

\* The creates of a definition have ended, by every clock, when its undo key leaves the
\* overlap of two polls.
Late(u) == \A p \in Pods : u.def + PutMax + (IF IsTask(u.id) THEN Skew[p] ELSE 0) <= u.at + Overlap

\* The key is of a definition that may be undone.
Undoable(k) == \E d \in defs : KeyOf(d) = k /\ d.mode = "hide"

\* An undo key is for a definition that is in the bucket, and later than its creates.
UndoOrigin(u) == Live(u.id) => Undoable(UndoneKey(u)) /\ Late(u)

\* What was undeleted has its undo key in the bucket.
UndoneOrigin == \A b \in undone : Live(b.key[1]) => HasKey(undos, b.key)

UndoKeyInv ==
    /\ UndoneOrigin
    /\ \A d \in defs : Started(d)
    /\ \A u \in undos : UndoOrigin(u)
    /\ \A c \in Calls : CallStart(c) /\ (Undoes(c) => UndoOrigin(call[c].undo))

-----------------------------------------------------------------------------
(* What the syncs of a pod have made of them. *)

\* Every answer to a create of the id names the key's time.
SoleKey(k) == \A a \in acked : a.def.id = k[1] => a.def.at = k[2]

\* The sync does not read the definition of the key any more.
NotDue(p, k) == \A d \in sync[p].todo \cap defs : KeyOf(d) # k

\* The pod does not count the definition: an earlier one of the id counts, or it is
\* undone, or it is not there and its undo key waits for it.
Applied(p, k) ==
    \/ Known(p, k[1]) /\ view[p][k[1]].at < k[2]
    \/ /\ Known(p, k[1]) /\ view[p][k[1]].at = k[2] /\ view[p][k[1]].undone
       /\ k \in proto[p].undoSeen \/ NotDue(p, k)
    \/ /\ Known(p, k[1]) => k[2] < view[p][k[1]].at
       /\ k \in proto[p].undoSeen

\* An undo key of k in U is too old for the overlap of a poll at t.
UndoPast(U, k, t) == \E u \in U : UndoneKey(u) = k /\ u.at < t - Overlap

\* In B, an undelete of k was answered before t, and in A, no create of k since.
UndoneBefore(B, A, k, t) ==
    /\ \E b \in B : b.key = k /\ b.at < t
    /\ \A a \in A : KeyOf(a.def) = k => a.at < t

\* The undo was in the bucket when the sync of p began.
UndoThen(p, k) ==
    Syncing(p) /\ (\/ UndoPast(undos, k, sync[p].t0)
                   \/ UndoneBefore(undone, acked, k, sync[p].began))

\* A sync of p that has ended has applied the undo.
UndoPolled(p, k) ==
    \/ proto[p].lastList # NoTime /\ UndoPast(undos, k, proto[p].lastList)
    \/ proto[p].lastGood # NoTime /\ UndoneBefore(undone, acked, k, proto[p].lastGood - SyncMax)

\* The listing has the undo, and a full one its definition.
ListedUndo(p) ==
    \A k \in Key : (Live(k[1]) /\ UndoThen(p, k)) =>
        /\ sync[p].stage = "list" => HasKey(sync[p].undos, k)
        /\ (sync[p].stage = "list" \/ sync[p].full) => \E d \in sync[p].defs \cap defs : KeyOf(d) = k

\* What was undone when the sync began is listed, and then applied.
LearnedUndo(p) ==
    \A k \in Key : (Live(k[1]) /\ SoleKey(k) /\ UndoThen(p, k) /\ sync[p].stage # "list") =>
        Applied(p, k) \/ (sync[p].stage = "learn" /\ HasKey(sync[p].undos, k))

\* What was undone before the last sync is applied.
PolledUndo(p) ==
    \A k \in Key : (Live(k[1]) /\ SoleKey(k) /\ UndoPolled(p, k)) => Applied(p, k)

PodUndo(p) == ListedUndo(p) /\ LearnedUndo(p) /\ PolledUndo(p)

\* The invariant of UndoneIsVisible.
UndoInv == UndoKeyInv /\ \A p \in Pods : PodUndo(p)

-----------------------------------------------------------------------------
(* Undo keys, step by step. *)

\* What a step adds to the bucket and to the answers, as far as undeletes need it.
UndoStep ==
    /\ \A d \in defs' : d \in defs \/ Started(d)
    /\ \A u \in undos' : u \in undos \/ UndoOrigin(u)
    /\ \A b \in undone' : b \in undone \/ (Live(b.key[1]) => HasKey(undos, b.key))
    /\ \A c \in Calls :
         \/ call'[c] \in {call[c], NoCall}
         \/ /\ CallStart(c)'
            /\ Undoes(c)' => UndoOrigin(call'[c].undo)

\* No call.
LEMMA NoCallOp == NoCall.op = "none"
  BY DEF NoCall

\* Undo keys stay bound to their definitions.
LEMMA UndoOriginStays ==
    ASSUME Types, Types', BucketStep, NEW u \in Undo, UndoOrigin(u), Live(u.id)'
    PROVE  (\E d \in defs' : KeyOf(d) = UndoneKey(u) /\ d.mode = "hide") /\ Late(u)
<1>1. u.id \in Ids
  BY DEF Undo
<1>2. Live(u.id)
  BY <1>1, NeededEarlier DEF BucketStep, KeysStay
<1>3. PICK d \in defs : KeyOf(d) = UndoneKey(u) /\ d.mode = "hide"
  BY <1>2 DEF UndoOrigin, Undoable
<1>4. d.id = u.id
  BY <1>3 DEF KeyOf, UndoneKey
<1>5. d \in defs'
  BY <1>2, <1>3, <1>4 DEF BucketStep, KeysStay
<1> QED BY <1>2, <1>3, <1>5 DEF UndoOrigin

\* Time does not make a definition one of the future.
LEMMA StartedStays ==
    ASSUME Types, Types', BucketStep, NEW d \in Definition, Started(d)
    PROVE  Started(d)'
<1>1. d.at \in Int /\ now \in Int /\ now' \in Int /\ now <= now'
  BY PodFields, SMT DEF Types, Definition, BucketStep, KeysStay
<1>2. ASSUME NEW p \in Pods, d.at <= Clock(p)
      PROVE  d.at <= Clock(p)'
  <2>1. Skew[p] \in Int
    BY Constants
  <2> QED BY <1>1, <1>2, <2>1, SMT DEF Clock
<1>3. d.at <= now => d.at <= now'
  BY <1>1, SMT
<1> QED BY <1>2, <1>3 DEF Started, IsTask

\* A create that goes on began no later than now.
LEMMA CallStartStays ==
    ASSUME Types, Types', BucketStep, NEW c \in Calls, CallStart(c), call'[c] = call[c]
    PROVE  CallStart(c)'
<1>1. Creates(c)' <=> Creates(c)
  BY DEF Creates
<1> SUFFICES ASSUME Creates(c) PROVE CallStart(c)'
  BY <1>1 DEF CallStart
<1>2. call[c].began \in Int /\ now \in Int /\ now' \in Int /\ now <= now'
  <2>1. call[c].began \in Int
    BY CallFacts
  <2> QED BY <2>1, SMT DEF Types, BucketStep, KeysStay
<1>3. call[c].began <= now
  BY DEF CallStart
<1>4. call'[c].began <= now'
  <2>1. call[c].began <= now'
    BY ONLY <1>2, <1>3, SMT
  <2> QED BY <2>1
<1> QED BY <1>4 DEF CallStart, IsTask

\* The keys of undeletes, from what a step adds.
LEMMA UndoKeyStep ==
    ASSUME Types, Types', BucketStep, UndoKeyInv, UndoStep
    PROVE  UndoKeyInv'
<1>1. UndoneOrigin'
  <2> SUFFICES ASSUME NEW b \in undone', Live(b.key[1])' PROVE HasKey(undos', b.key)
    BY DEF UndoneOrigin
  <2>1. b.key \in Key /\ b.key[1] \in Ids
    BY DEF Types, Key
  <2>2. Live(b.key[1])
    BY <2>1, NeededEarlier DEF BucketStep, KeysStay
  <2>3. HasKey(undos, b.key)
    BY <2>2 DEF UndoStep, UndoKeyInv, UndoneOrigin
  <2>4. Needed(b.key[1])'
    BY DEF Live
  <2> QED BY <2>1, <2>3, <2>4, HasKeyStays DEF BucketStep
<1>2. ASSUME NEW d \in defs' PROVE Started(d)'
  <2>1. d \in Definition
    BY DEF Types
  <2>2. Started(d)
    BY DEF UndoStep, UndoKeyInv
  <2> QED BY <2>1, <2>2, StartedStays
<1>3. ASSUME NEW u \in undos' PROVE UndoOrigin(u)'
  <2>1. u \in Undo
    BY DEF Types
  <2>2. UndoOrigin(u)
    BY DEF UndoStep, UndoKeyInv
  <2>3. Live(u.id)' => (\E d \in defs' : KeyOf(d) = UndoneKey(u) /\ d.mode = "hide") /\ Late(u)
    BY <2>1, <2>2, UndoOriginStays
  <2> QED BY <2>3 DEF UndoOrigin, Undoable, Late, IsTask
<1>4. ASSUME NEW c \in Calls PROVE CallStart(c)'
  <2>1. CASE call'[c] = call[c]
    BY <2>1, CallStartStays DEF UndoKeyInv
  <2>2. CASE call'[c] = NoCall
    <3>1. ~Creates(c)'
      BY <2>2, NoCallOp DEF Creates
    <3> QED BY <3>1 DEF CallStart
  <2> QED BY <2>1, <2>2 DEF UndoStep
<1>5. ASSUME NEW c \in Calls, Undoes(c)' PROVE UndoOrigin(call[c].undo)'
  <2>1. call'[c] # NoCall
    BY <1>5, NoCallOp DEF Undoes
  <2>2. UndoOrigin(call'[c].undo)
    BY <1>5, <2>1 DEF UndoStep, UndoKeyInv, Undoes
  <2>3. PICK u : u = call'[c].undo
    OBVIOUS
  <2>4. u \in Undo
    <3>1. call'[c] \in Undoing
      <4>1. call'[c] \in {NoCall} \cup Creating \cup Undoing
        BY DEF Types
      <4>2. ASSUME call'[c] \in Creating PROVE FALSE
        BY <1>5, <4>2, SMT DEF Creating, Undoes
      <4> QED BY <2>1, <4>1, <4>2
    <3> QED BY <2>3, <3>1 DEF Undoing
  <2>5. UndoOrigin(u)
    BY <2>2, <2>3
  <2>6. Live(u.id)' => (\E d \in defs' : KeyOf(d) = UndoneKey(u) /\ d.mode = "hide") /\ Late(u)
    BY <2>4, <2>5, UndoOriginStays
  <2> QED BY <2>3, <2>6 DEF UndoOrigin, Undoable, Late, IsTask
<1> QED BY <1>1, <1>2, <1>3, <1>4, <1>5 DEF UndoKeyInv

\* A step that only removes keys and calls.
LEMMA UndoStepFrame ==
    ASSUME defs' \subseteq defs, undos' \subseteq undos, undone' = undone,
           \A c \in Calls : call'[c] \in {call[c], NoCall}
    PROVE  UndoStep
  BY DEF UndoStep

\* One call goes on; the others stand still.
LEMMA UndoStepCall ==
    ASSUME Types, NEW c \in Calls, NEW r, r \in {NoCall} \cup Creating \cup Undoing,
           call' = [call EXCEPT ![c] = r], CallStart(c)', Undoes(c)' => UndoOrigin(r.undo)
    PROVE  \A x \in Calls :
               \/ call'[x] \in {call[x], NoCall}
               \/ CallStart(x)' /\ (Undoes(x)' => UndoOrigin(call'[x].undo))
<1>1. call'[c] = r /\ \A x \in Calls : x # c => call'[x] = call[x]
  BY DEF Types
<1> QED BY <1>1

\* A create that begins takes its time as the key time.
LEMMA StartOfCreate ==
    ASSUME Types, NEW c \in Calls, NEW p \in Pods, NEW id \in Ids, NEW mode \in Modes,
           BeginCreate(c, p, id, mode)
    PROVE  UndoStep
<1> DEFINE d == [id |-> id, at |-> KeyTime(p, id), mode |-> mode]
           b == IF TaskTime[id] # NoTime THEN TaskTime[id] ELSE now
           r == [op |-> "create", pod |-> p, def |-> d, began |-> b]
<1>1. r \in Creating
  BY BeginCreateFacts
<1>2. call' = [call EXCEPT ![c] = r]
  BY ONLY BeginCreate(c, p, id, mode), Zenon DEF BeginCreate
<1>3. Types' /\ InTime(id) /\ UNCHANGED <<now, bucketVars, histVars>>
  BY BeginCreateFacts
<1>4. call'[c] = r
  BY <1>2 DEF Types
<1>5. r.op = "create" /\ r.def.id = id /\ r.def.at = KeyTime(p, id) /\ r.def.mode = mode
      /\ r.began = b /\ r.pod = p
  OBVIOUS
<1>6. b <= now
  BY Constants, <1>3, SMT DEF InTime, Types
<1>7. mode # "newer"
  BY Constants
<1>8. KeyTime(p, id) = IF IsTask(id) THEN b ELSE b + Skew[p]
  BY DEF KeyTime, IsTask, Clock
<1> HIDE DEF d, b, r
<1>9. CallStart(c)' /\ ~Undoes(c)'
  <2>1. ~Undoes(c)'
    BY <1>4, <1>5 DEF Undoes
  <2>2. call'[c].began <= now'
    BY <1>3, <1>4, <1>5, <1>6
  <2> QED BY <1>4, <1>5, <1>7, <1>8, <2>1, <2>2 DEF CallStart, IsTask
<1> QED BY <1>1, <1>2, <1>3, <1>9, UndoStepCall DEF UndoStep, bucketVars, histVars

\* The PUT of a definition writes one that began.
LEMMA StartOfPut ==
    ASSUME Base, UndoKeyInv, NEW c \in Calls, PutDefinition(c) \/ PutDefinitionError(c)
    PROVE  UndoStep
<1>0. Types /\ CallStart(c)
  BY DEF Base, UndoKeyInv
<1> DEFINE r == [call[c] EXCEPT !.op = "created"]
<1>1. /\ Creates(c) /\ call[c].def \in Definition
      /\ defs' = defs \/ defs' = defs \cup {call[c].def}
      /\ \/ call' = [call EXCEPT ![c] = NoCall]
         \/ call' = [call EXCEPT ![c] = r]
      /\ UNCHANGED <<now, undos, histVars>>
  BY <1>0, PutDefinitionFacts
<1>2. /\ call[c] \in Creating /\ call[c].pod \in Pods /\ call[c].def.at \in Int
      /\ call[c].began \in Int
  BY <1>0, <1>1, CallFacts DEF Definition
<1>3. r \in Creating /\ r.def = call[c].def /\ r.began = call[c].began /\ r.op = "created"
  BY <1>2, OpFacts, OpKeeps
<1>4. r.pod = call[c].pod
  BY <1>2 DEF Creating
<1>5. Started(call[c].def)
  <2>1. /\ call[c].began <= now /\ now \in Int /\ Skew[call[c].pod] \in Int
        /\ call[c].def.at = IF IsTask(call[c].def.id) THEN call[c].began
                            ELSE call[c].began + Skew[call[c].pod]
    BY <1>0, <1>1, <1>2, PodFields, SMT DEF CallStart
  <2>2. ~IsTask(call[c].def.id) => call[c].def.at <= now + Skew[call[c].pod]
    BY <1>2, <2>1, SMT
  <2>3. IsTask(call[c].def.id) => call[c].def.at <= now
    BY <2>1
  <2> QED BY <1>2, <2>2, <2>3 DEF Started, Clock
<1> HIDE DEF r
<1>6. \A x \in Calls :
         \/ call'[x] \in {call[x], NoCall}
         \/ CallStart(x)' /\ (Undoes(x)' => UndoOrigin(call'[x].undo))
  <2>1. CASE call' = [call EXCEPT ![c] = NoCall]
    BY <1>0, <2>1 DEF Types
  <2>2. CASE call' = [call EXCEPT ![c] = r]
    <3>1. call'[c] = r
      BY <1>0, <2>2 DEF Types
    <3>2. ~Undoes(c)'
      BY <1>3, <3>1 DEF Undoes
    <3>3. CallStart(c)'
      BY <1>0, <1>1, <1>3, <1>4, <3>1 DEF CallStart, IsTask
    <3> QED BY <1>0, <1>3, <2>2, <3>2, <3>3, UndoStepCall
  <2> QED BY <1>1, <2>1, <2>2
<1>7. \A d \in defs' : d \in defs \/ Started(d)
  BY <1>1, <1>5
<1> QED BY <1>1, <1>6, <1>7 DEF UndoStep, histVars

\* An undelete takes the time of its pod, a PUT and the clocks after its definition.
LEMMA StartOfUndelete ==
    ASSUME WindowMargin, Base, HideInv, UndoKeyInv, NEW c \in Calls, NEW p \in Pods, NEW id \in Ids,
           BeginUndelete(c, p, id)
    PROVE  UndoStep
<1>0. Types /\ PodOrigin(p)
  BY DEF Base, HideInv, OriginInv
<1> DEFINE u == [id |-> id, def |-> view[p][id].at, at |-> Clock(p)]
           r == [op |-> "undo", pod |-> p, began |-> now, undo |-> u]
<1>1. r \in Undoing /\ u \in Undo
  BY <1>0, BeginUndeleteFacts
<1>2. call' = [call EXCEPT ![c] = r]
  BY <1>0, BeginUndeleteFacts
<1>3. Known(p, id) /\ view[p][id].mode = "hide" /\ UNCHANGED <<now, bucketVars, histVars>>
  BY ZenonT(60), <1>0, BeginUndeleteFacts
<1>4. call'[c] = r
  BY <1>0, <1>2 DEF Types
<1>5. r.op = "undo" /\ r.undo = u /\ u.id = id /\ u.def = view[p][id].at /\ u.at = Clock(p)
  OBVIOUS
<1> HIDE DEF u, r
<1>6. UndoOrigin(u)
  <2> SUFFICES ASSUME Live(id) PROVE Undoable(UndoneKey(u)) /\ Late(u)
    BY <1>5 DEF UndoOrigin
  <2>0. PICK d : d = ViewDef(p, id)
    OBVIOUS
  <2>1. d \in defs /\ d.id = id /\ d.at = view[p][id].at /\ d.mode = "hide"
    BY <1>0, <1>3, <2>0 DEF PodOrigin, ViewDef
  <2>2. Undoable(UndoneKey(u))
    BY <1>5, <2>1 DEF Undoable, KeyOf, UndoneKey
  <2>3. Started(d)
    BY <2>1 DEF UndoKeyInv
  <2>4. IF IsTask(id) THEN u.def <= now ELSE \E w \in Pods : u.def <= Clock(w)
    BY <1>5, <2>1, <2>3 DEF Started
  <2>5. now \in Int /\ u.def \in Int /\ PutMax \in Int /\ Overlap \in Int /\ \A q \in Pods : Skew[q] \in Int
    <3>1. u.def \in Int /\ PutMax \in Nat /\ Overlap \in Int /\ \A q \in Pods : Skew[q] \in Int
      BY <1>0, <1>5, ViewFacts, Constants, Margins
    <3>2. now \in Nat
      BY <1>0, PodFields
    <3> QED BY ONLY <3>1, <3>2, SMT
  <2>6. \A q, w \in Pods : PutMax + Skew[q] - Skew[w] <= Overlap
    BY Margins
  <2>7. ASSUME NEW q \in Pods
        PROVE  u.def + PutMax + (IF IsTask(id) THEN Skew[q] ELSE 0) <= now + Skew[p] + Overlap
    <3>1. CASE IsTask(id)
      <4>1. /\ u.def <= now /\ PutMax + Skew[q] - Skew[p] <= Overlap
            /\ Skew[p] \in Int /\ Skew[q] \in Int
        BY <2>4, <2>5, <2>6, <3>1
      <4>2. u.def + PutMax + Skew[q] <= now + Skew[p] + Overlap
        BY ONLY <2>5, <4>1, SMT
      <4> QED BY <3>1, <4>2
    <3>2. CASE ~IsTask(id)
      <4>1. PICK w \in Pods : u.def <= now + Skew[w]
        BY <2>4, <3>2 DEF Clock
      <4>2. PutMax + Skew[w] - Skew[p] <= Overlap /\ Skew[p] \in Int /\ Skew[w] \in Int
        BY <2>5, <2>6
      <4>3. u.def + PutMax + 0 <= now + Skew[p] + Overlap
        BY ONLY <2>5, <4>1, <4>2, SMT
      <4> QED BY <3>2, <4>3
    <3> QED BY <3>1, <3>2
  <2> QED BY <1>5, <2>2, <2>7 DEF Late, Clock
<1>7. CallStart(c)' /\ (Undoes(c)' => UndoOrigin(r.undo))
  <2>1. ~Creates(c)'
    BY <1>4, <1>5 DEF Creates
  <2> QED BY <1>5, <1>6, <2>1 DEF CallStart
<1> QED BY <1>0, <1>1, <1>2, <1>3, <1>7, UndoStepCall DEF UndoStep, bucketVars, histVars

\* The PUT of an undo key writes one that began.
LEMMA StartOfPutUndo ==
    ASSUME Base, UndoKeyInv, NEW c \in Calls, PutUndo(c) \/ PutUndoError(c)
    PROVE  UndoStep
<1>0. Types
  BY DEF Base
<1> DEFINE r == [call[c] EXCEPT !.op = "undone"]
<1>1. /\ Undoes(c) /\ undos' \in {undos, undos \cup {call[c].undo}}
      /\ \/ call' = [call EXCEPT ![c] = NoCall]
         \/ call' = [call EXCEPT ![c] = r]
      /\ UNCHANGED <<now, defs, histVars>>
  BY <1>0, PutUndoFacts
<1>2. UndoOrigin(call[c].undo) /\ call[c] \in Undoing
  BY <1>0, <1>1, CallFacts DEF UndoKeyInv
<1>3. r \in Undoing /\ r.undo = call[c].undo /\ r.op = "undone"
  BY <1>2, OpFacts, OpKeeps
<1> HIDE DEF r
<1>4. \A x \in Calls :
         \/ call'[x] \in {call[x], NoCall}
         \/ CallStart(x)' /\ (Undoes(x)' => UndoOrigin(call'[x].undo))
  <2>1. CASE call' = [call EXCEPT ![c] = NoCall]
    BY <1>0, <2>1 DEF Types
  <2>2. CASE call' = [call EXCEPT ![c] = r]
    <3>1. call'[c] = r
      BY <1>0, <2>2 DEF Types
    <3>2. ~Creates(c)'
      BY <1>3, <3>1 DEF Creates
    <3>3. CallStart(c)'
      BY <3>2 DEF CallStart
    <3> QED BY <1>0, <1>2, <1>3, <2>2, <3>3, UndoStepCall
  <2> QED BY <1>1, <2>1, <2>2
<1> QED BY <1>1, <1>2, <1>4 DEF UndoStep, histVars

\* An undelete is answered when its undo key is in the bucket.
LEMMA StartOfUndone ==
    ASSUME Base, HideInv, NEW c \in Calls, FinishUndelete(c)
    PROVE  UndoStep
<1>0. Types /\ CallOrigin(c)
  BY DEF Base, HideInv, OriginInv
<1>1. PICK u, k : u = call[c].undo /\ k = UndoneKey(u)
  OBVIOUS
<1>2. /\ call[c].op = "undone" /\ k[1] = u.id
      /\ call' = [call EXCEPT ![c] = NoCall]
      /\ undone' = undone \cup {[key |-> k, at |-> now]} /\ UNCHANGED bucketVars
  BY <1>0, <1>1, FinishUndeleteFacts
<1>3. Live(k[1]) => HasKey(undos, k)
  BY <1>0, <1>1, <1>2 DEF CallOrigin, Live, HasKey
<1>4. \A x \in Calls : call'[x] \in {call[x], NoCall}
  BY <1>0, <1>2 DEF Types
<1>5. \A b \in undone' : b \in undone \/ b.key = k
  BY <1>2, SMT
<1>6. \A b \in undone' : b \in undone \/ (Live(b.key[1]) => HasKey(undos, b.key))
  BY <1>3, <1>5
<1> QED BY <1>2, <1>4, <1>6 DEF UndoStep, bucketVars

\* What the steps add, as far as undeletes need it.
LEMMA UndoSteps ==
    ASSUME WindowMargin, Base, HideInv, UndoKeyInv, [Next]_vars
    PROVE  UndoStep
<1>0. Types
  BY DEF Base
<1>1. ASSUME NEW id \in Ids, CreateNewer(id)
      PROVE  UndoStep
  <2> DEFINE d == [id |-> id, at |-> IF TaskTime[id] # NoTime THEN TaskTime[id] ELSE now, mode |-> "newer"]
  <2>1. defs' = defs \cup {d} /\ UNCHANGED <<undos, call, undone>>
    BY <1>0, <1>1, CreateNewerFacts
  <2>2. d.mode = "newer"
    OBVIOUS
  <2> HIDE DEF d
  <2>3. Started(d)
    BY <2>2 DEF Started
  <2> QED BY <2>1, <2>3 DEF UndoStep
<1>2. ASSUME UNCHANGED <<bucketVars, call, undone>>
      PROVE  UndoStep
  BY <1>2 DEF UndoStep, bucketVars
<1>3. ASSUME \E p \in Pods, id \in Ids : CreateKnown(p, id)
      PROVE  UndoStep
  BY <1>2, <1>3 DEF CreateKnown
<1>4. ASSUME NEW c \in Calls, FinishCreate(c)
      PROVE  UndoStep
  <2>1. call' = [call EXCEPT ![c] = NoCall] /\ UNCHANGED <<bucketVars, undone>>
    BY <1>4 DEF FinishCreate
  <2>2. \A x \in Calls : call'[x] \in {call[x], NoCall}
    BY <1>0, <2>1 DEF Types
  <2> QED BY <2>1, <2>2, UndoStepFrame DEF bucketVars
<1>5. CASE CreateStep \/ UndeleteStep
  BY <1>0, <1>1, <1>3, <1>4, <1>5, StartOfCreate, StartOfPut, StartOfUndelete, StartOfPutUndo,
     StartOfUndone DEF CreateStep, UndeleteStep
<1>6. ASSUME NEW p \in Pods, SyncStep(p)
      PROVE  UndoStep
  <2>1. ASSUME NEW u, GcUndo(p, u) PROVE UndoStep
    <3>1. undos' = undos \ {u} /\ UNCHANGED <<defs, call, undone>>
      BY <2>1 DEF GcUndo, histVars
    <3> QED BY <3>1 DEF UndoStep
  <2>2. ASSUME NEW k, GcDefinition(p, k) PROVE UndoStep
    <3>1. defs' = {d \in defs : KeyOf(d) # k} /\ UNCHANGED <<undos, call, undone>>
      BY <2>2 DEF GcDefinition, histVars
    <3> QED BY <3>1 DEF UndoStep
  <2>3. ASSUME NEW f \in BOOLEAN, StartSync(p, f) PROVE UndoStep
    BY <1>2, <2>3 DEF StartSync, histVars
  <2>4. CASE List(p) \/ ListShort(p)
    BY <1>2, <2>4 DEF List, ListShort, ListAfter, histVars
  <2>5. CASE SyncError(p) \/ Apply(p) \/ EndGc(p)
    BY <1>2, <2>5 DEF SyncError, Apply, EndGc, histVars
  <2>6. ASSUME NEW d \in sync[p].todo,
               LearnDefinition(p, d) \/ LearnUnreadable(p, d) \/ LearnGone(p, d) \/ LearnError(p, d)
        PROVE  UndoStep
    BY <1>2, <2>6 DEF LearnDefinition, LearnUnreadable, LearnGone, LearnError, histVars
  <2> QED BY <1>6, <2>1, <2>2, <2>3, <2>4, <2>5, <2>6 DEF SyncStep, LearnStep, GcStep
<1>7. ASSUME NEW p \in Pods, Restart(p)
      PROVE  UndoStep
  <2>1. /\ \A c \in Calls : call'[c] \in {call[c], NoCall}
        /\ UNCHANGED <<bucketVars, histVars>>
    BY <1>0, <1>7, RestartFacts
  <2> QED BY <2>1, UndoStepFrame DEF bucketVars, histVars
<1>8. ASSUME NEW d \in defs, RemoveByHand(d)
      PROVE  UndoStep
  <2>1. defs' = defs \ {d} /\ UNCHANGED <<undos, call, undone>>
    BY <1>8 DEF RemoveByHand, histVars
  <2> QED BY <2>1 DEF UndoStep
<1>9. CASE Tick \/ UNCHANGED vars
  BY <1>2, <1>9 DEF Tick, vars, histVars
<1> QED BY <1>5, <1>6, <1>7, <1>8, <1>9, Constants DEF Next

-----------------------------------------------------------------------------
(* An undelete is visible: the steps around a pod. *)

\* The parts of a key.
LEMMA KeyParts ==
    ASSUME NEW k \in Key
    PROVE  k[1] \in Ids /\ k[2] \in Int /\ k = <<k[1], k[2]>>
  BY SMT DEF Key

\* An undo key that is too old for a poll was in the bucket before this step.
LEMMA PastStays ==
    ASSUME WindowMargin, Types, Types', BucketStep, NEW p \in Pods, NEW k, NEW t \in Int, t <= Clock(p),
           UndoPast(undos', k, t)
    PROVE  UndoPast(undos, k, t)
<1>1. PICK u \in undos' : UndoneKey(u) = k /\ u.at < t - Overlap
  BY DEF UndoPast
<1>2. u.at \in Int /\ Overlap \in Int /\ Skew[p] \in Int /\ now \in Nat
  BY Margins, PodFields DEF Types, Undo
<1>3. ~(u.at >= now + Skew[p] - Overlap)
  BY <1>1, <1>2, SMT DEF Clock
<1>4. u \in undos
  BY <1>3 DEF BucketStep, KeysStay, Within
<1> QED BY <1>1, <1>4 DEF UndoPast

\* An undelete that was answered before now was answered before this step.
LEMMA UndoneStays ==
    ASSUME Types, Types', BucketStep, NEW k, NEW t \in Int, t <= now,
           UndoneBefore(undone', acked', k, t)
    PROVE  UndoneBefore(undone, acked, k, t)
<1>1. PICK b \in undone' : b.key = k /\ b.at < t
  BY DEF UndoneBefore
<1>2. b.at # now
  <2>1. b.at \in Int /\ now \in Int
    BY SMT DEF Types
  <2> QED BY <1>1, <2>1, SMT
<1>3. b \in undone
  BY <1>2 DEF BucketStep, KeysStay
<1>4. \A a \in acked : KeyOf(a.def) = k => a.at < t
  BY DEF BucketStep, KeysStay, UndoneBefore
<1> QED BY <1>1, <1>3, <1>4 DEF UndoneBefore

\* What was undone when the sync began was so before this step.
LEMMA UndoThenStays ==
    ASSUME WindowMargin, Base, Types', BucketStep, NEW p \in Pods, NEW k, Syncing(p),
           sync'[p].t0 = sync[p].t0, sync'[p].began = sync[p].began, UndoThen(p, k)'
    PROVE  UndoThen(p, k)
<1>1. /\ Types /\ sync[p].t0 \in Int /\ sync[p].began \in Int
      /\ sync[p].t0 = sync[p].began + Skew[p] /\ sync[p].began <= now
  BY PodFields DEF Base, PodBase, PodTime
<1>2. sync[p].t0 <= Clock(p)
  <2>1. now \in Nat /\ Skew[p] \in Int
    BY <1>1, PodFields
  <2> QED BY <1>1, <2>1, SMT DEF Clock
<1>3. UndoPast(undos', k, sync[p].t0) \/ UndoneBefore(undone', acked', k, sync[p].began)
  BY DEF UndoThen
<1>4. UndoPast(undos, k, sync[p].t0) \/ UndoneBefore(undone, acked, k, sync[p].began)
  BY <1>1, <1>2, <1>3, PastStays, UndoneStays
<1> QED BY <1>4 DEF UndoThen

\* What was undone before the last sync was so before this step.
LEMMA UndoPolledStays ==
    ASSUME WindowMargin, Base, Types', BucketStep, NEW p \in Pods, NEW k,
           proto'[p].lastList = proto[p].lastList, proto'[p].lastGood = proto[p].lastGood,
           UndoPolled(p, k)'
    PROVE  UndoPolled(p, k)
<1>1. /\ Types /\ proto[p].lastList \in Int /\ proto[p].lastGood \in Int /\ now \in Nat
      /\ proto[p].lastList # NoTime => proto[p].lastList <= Clock(p)
      /\ proto[p].lastGood # NoTime => proto[p].lastGood <= now
  BY PodFields DEF Base, PodBase, PodTime
<1>2. /\ proto[p].lastGood - SyncMax \in Int
      /\ proto[p].lastGood # NoTime => proto[p].lastGood - SyncMax <= now
  BY <1>1, Constants, SMT
<1>3. \/ proto[p].lastList # NoTime /\ UndoPast(undos', k, proto[p].lastList)
      \/ proto[p].lastGood # NoTime /\ UndoneBefore(undone', acked', k, proto[p].lastGood - SyncMax)
  BY DEF UndoPolled
<1>4. CASE proto[p].lastList # NoTime /\ UndoPast(undos', k, proto[p].lastList)
  <2>1. UndoPast(undos, k, proto[p].lastList)
    BY <1>1, <1>4, PastStays
  <2> QED BY <1>4, <2>1 DEF UndoPolled
<1>5. CASE proto[p].lastGood # NoTime /\ UndoneBefore(undone', acked', k, proto[p].lastGood - SyncMax)
  <2>1. UndoneBefore(undone, acked, k, proto[p].lastGood - SyncMax)
    BY <1>1, <1>2, <1>5, UndoneStays
  <2> QED BY <1>5, <2>1 DEF UndoPolled
<1> QED BY <1>3, <1>4, <1>5

\* What was undone before the last sync was so when this one began.
LEMMA PolledThen ==
    ASSUME WindowMargin, Base, NEW p \in Pods, NEW k, Syncing(p), UndoPolled(p, k)
    PROVE  UndoThen(p, k)
<1>1. /\ Types /\ proto[p].lastList \in Int /\ proto[p].lastGood \in Int
      /\ sync[p].t0 \in Int /\ sync[p].began \in Int /\ SyncMax \in Nat /\ Overlap \in Int
      /\ proto[p].lastList # NoTime => proto[p].lastList <= sync[p].t0
      /\ proto[p].lastGood # NoTime => proto[p].lastGood <= sync[p].began
  BY PodFields, Constants, Margins DEF Base, PodBase, PodTime
<1>2. CASE proto[p].lastList # NoTime /\ UndoPast(undos, k, proto[p].lastList)
  <2>1. PICK u \in undos : UndoneKey(u) = k /\ u.at < proto[p].lastList - Overlap
    BY <1>2 DEF UndoPast
  <2>2. u.at \in Int
    BY <1>1 DEF Types, Undo
  <2>3. u.at < sync[p].t0 - Overlap
    BY <1>1, <1>2, <2>1, <2>2, SMT
  <2> QED BY <2>1, <2>3 DEF UndoThen, UndoPast
<1>3. CASE proto[p].lastGood # NoTime /\ UndoneBefore(undone, acked, k, proto[p].lastGood - SyncMax)
  <2>1. PICK b \in undone : b.key = k /\ b.at < proto[p].lastGood - SyncMax
    BY <1>3 DEF UndoneBefore
  <2>2. ASSUME NEW x \in Int, x < proto[p].lastGood - SyncMax PROVE x < sync[p].began
    BY <1>1, <1>3, <2>2, SMT
  <2>3. b.at \in Int /\ \A a \in acked : a.at \in Int
    BY <1>1 DEF Types
  <2>4. b.at < sync[p].began
    BY <2>1, <2>2, <2>3
  <2>5. \A a \in acked : KeyOf(a.def) = k => a.at < sync[p].began
    BY <1>3, <2>2, <2>3 DEF UndoneBefore
  <2> QED BY <2>1, <2>4, <2>5 DEF UndoThen, UndoneBefore
<1> QED BY <1>2, <1>3 DEF UndoPolled

\* What is undone has an undo key and a definition that may be undone.
LEMMA UndoBound ==
    ASSUME UndoKeyInv, NEW k \in Key, Live(k[1]), NEW t,
           UndoPast(undos, k, t) \/ UndoneBefore(undone, acked, k, t)
    PROVE  HasKey(undos, k) /\ Undoable(k)
<1>1. HasKey(undos, k)
  <2>1. CASE UndoPast(undos, k, t)
    BY <2>1 DEF UndoPast, HasKey
  <2>2. CASE UndoneBefore(undone, acked, k, t)
    BY <2>2 DEF UndoneBefore, UndoKeyInv, UndoneOrigin
  <2> QED BY <2>1, <2>2
<1>2. PICK u \in undos : UndoneKey(u) = k
  BY <1>1 DEF HasKey
<1>3. u.id = k[1]
  BY <1>2 DEF UndoneKey
<1>4. Undoable(k)
  BY <1>2, <1>3 DEF UndoKeyInv, UndoOrigin
<1> QED BY <1>1, <1>4

\* So does what a sync of the pod is to have applied.
LEMMA UndoneBound ==
    ASSUME UndoKeyInv, NEW p \in Pods, NEW k \in Key, Live(k[1]), UndoThen(p, k) \/ UndoPolled(p, k)
    PROVE  HasKey(undos, k) /\ Undoable(k)
  BY UndoBound DEF UndoThen, UndoPolled

\* The definition that may be undone is the only one of its key, before and after a step.
LEMMA SameDefinition ==
    ASSUME UniqueInv', BucketStep, NEW k, Undoable(k), Live(k[1]), NEW d \in defs', KeyOf(d) = k
    PROVE  d \in defs /\ d.mode = "hide"
<1>1. PICK e \in defs : KeyOf(e) = k /\ e.mode = "hide"
  BY DEF Undoable
<1>2. e.id = k[1]
  <2>1. KeyOf(e)[1] = e.id
    BY DEF KeyOf
  <2> QED BY <1>1, <2>1
<1>3. e \in defs'
  BY <1>2 DEF BucketStep, KeysStay
<1>4. d = e
  BY <1>1, <1>3 DEF UniqueInv
<1> QED BY <1>1, <1>4

\* What a sync does not read any more it does not read later.
LEMMA NotDueStays ==
    ASSUME UniqueInv', BucketStep, NEW p \in Pods, NEW k, Undoable(k), Live(k[1]), NotDue(p, k),
           sync'[p].todo \subseteq sync[p].todo
    PROVE  NotDue(p, k)'
  BY SameDefinition DEF NotDue

\* What is applied stays so while the view and the waiting undos keep what they have of it.
LEMMA AppliedStays ==
    ASSUME UniqueInv', BucketStep, NEW p \in Pods, NEW k, Undoable(k), Live(k[1]), Applied(p, k),
           Known(p, k[1])' <=> Known(p, k[1]), view'[p][k[1]].at = view[p][k[1]].at,
           view[p][k[1]].undone => view'[p][k[1]].undone,
           k \in proto[p].undoSeen => k \in proto'[p].undoSeen,
           sync'[p].todo \subseteq sync[p].todo
    PROVE  Applied(p, k)'
<1>1. NotDue(p, k) => NotDue(p, k)'
  BY NotDueStays
<1> QED BY <1>1 DEF Applied

\* A pod keeps what it has applied, as far as it is said to be.
AppliedKept(p) ==
    \A k \in Key : (/\ Live(k[1]) /\ Undoable(k) /\ SoleKey(k)'
                    /\ UndoThen(p, k)' \/ UndoPolled(p, k)'
                    /\ Applied(p, k)) => Applied(p, k)'

\* The sync goes on with what it has listed.
SameSync(p) ==
    /\ sync'[p].stage = sync[p].stage /\ sync'[p].t0 = sync[p].t0 /\ sync'[p].began = sync[p].began
    /\ sync'[p].full = sync[p].full /\ sync'[p].defs = sync[p].defs /\ sync'[p].undos = sync[p].undos

\* The protocol keeps what it says of polls.
SamePolls(p) == proto'[p].lastList = proto[p].lastList /\ proto'[p].lastGood = proto[p].lastGood

\* What is live and sole after a step was so before it.
LEMMA EarlierKey ==
    ASSUME Types, Types', BucketStep, NEW k \in Key
    PROVE  (Live(k[1])' => Live(k[1])) /\ (SoleKey(k)' => SoleKey(k))
<1>1. k[1] \in Ids
  BY KeyParts
<1>2. Live(k[1])' => Live(k[1])
  BY <1>1, NeededEarlier DEF BucketStep, KeysStay
<1>3. SoleKey(k)' => SoleKey(k)
  BY DEF SoleKey, BucketStep, KeysStay
<1> QED BY <1>2, <1>3

\* What was polled stays applied.
LEMMA PolledFrame ==
    ASSUME WindowMargin, Base, Types', BucketStep, UndoKeyInv, NEW p \in Pods, PolledUndo(p),
           SamePolls(p), AppliedKept(p)
    PROVE  PolledUndo(p)'
<1> SUFFICES ASSUME NEW k \in Key, Live(k[1])', SoleKey(k)', UndoPolled(p, k)'
             PROVE  Applied(p, k)'
  BY DEF PolledUndo
<1>1. Live(k[1]) /\ UndoPolled(p, k) /\ SoleKey(k)
  BY EarlierKey, UndoPolledStays DEF SamePolls, Base
<1>2. Undoable(k)
  BY <1>1, UndoneBound
<1>3. Applied(p, k)
  BY <1>1 DEF PolledUndo
<1> QED BY <1>1, <1>2, <1>3 DEF AppliedKept

\* A step around a pod, or within its sync, leaves it what it has applied: what the step
\* adds to the bucket is for the next sync.
LEMMA UndoFrame ==
    ASSUME WindowMargin, Base, Types', BucketStep, UndoKeyInv, NEW p \in Pods, PodUndo(p),
           SameSync(p), SamePolls(p), AppliedKept(p)
    PROVE  PodUndo(p)'
<1>1. \A k \in Key : (Live(k[1])' => Live(k[1])) /\ (SoleKey(k)' => SoleKey(k))
  BY EarlierKey DEF Base
<1>2. ASSUME NEW k \in Key, UndoThen(p, k)' PROVE UndoThen(p, k)
  <2>1. Syncing(p)
    BY <1>2 DEF UndoThen, Syncing, SameSync
  <2> QED BY <1>2, <2>1, UndoThenStays DEF SameSync
<1>4. ListedUndo(p)'
  <2> SUFFICES ASSUME NEW k \in Key, Live(k[1])', UndoThen(p, k)'
               PROVE  /\ sync[p].stage = "list" => HasKey(sync[p].undos, k)
                      /\ (sync[p].stage = "list" \/ sync[p].full)
                            => \E d \in sync[p].defs \cap defs' : KeyOf(d) = k
    BY DEF ListedUndo, SameSync
  <2>1. Live(k[1]) /\ UndoThen(p, k)
    BY <1>1, <1>2
  <2>2. /\ sync[p].stage = "list" => HasKey(sync[p].undos, k)
        /\ (sync[p].stage = "list" \/ sync[p].full) => \E d \in sync[p].defs \cap defs : KeyOf(d) = k
    BY <2>1 DEF PodUndo, ListedUndo
  <2>3. ASSUME NEW d \in sync[p].defs \cap defs, KeyOf(d) = k PROVE d \in defs'
    <3>1. d.id = k[1]
      BY <2>3 DEF KeyOf
    <3> QED BY <2>1, <3>1 DEF BucketStep, KeysStay
  <2> QED BY <2>2, <2>3
<1>5. LearnedUndo(p)'
  <2> SUFFICES ASSUME NEW k \in Key, Live(k[1])', SoleKey(k)', UndoThen(p, k)', sync[p].stage # "list"
               PROVE  Applied(p, k)' \/ (sync[p].stage = "learn" /\ HasKey(sync[p].undos, k))
    BY DEF LearnedUndo, SameSync
  <2>1. Live(k[1]) /\ UndoThen(p, k) /\ SoleKey(k)
    BY <1>1, <1>2
  <2>2. Undoable(k)
    BY <2>1, UndoneBound
  <2>3. Applied(p, k) \/ (sync[p].stage = "learn" /\ HasKey(sync[p].undos, k))
    BY <2>1 DEF PodUndo, LearnedUndo
  <2> QED BY <2>1, <2>2, <2>3 DEF AppliedKept
<1>6. PolledUndo(p)'
  BY PolledFrame DEF PodUndo
<1> QED BY <1>4, <1>5, <1>6 DEF PodUndo

\* A pod whose view, waiting undos and syncs a step does not touch.
LEMMA UndoElsewhere ==
    ASSUME WindowMargin, Base, Base', BucketStep, UndoKeyInv, NEW p \in Pods, PodUndo(p),
           sync'[p] = sync[p], view'[p] = view[p], SamePolls(p), proto'[p].undoSeen = proto[p].undoSeen
    PROVE  PodUndo(p)'
<1>0. Types' /\ UniqueInv'
  BY DEF Base
<1>1. AppliedKept(p)
  <2> SUFFICES ASSUME NEW k \in Key, Live(k[1]), Undoable(k), Applied(p, k) PROVE Applied(p, k)'
    BY DEF AppliedKept
  <2>1. Known(p, k[1])' <=> Known(p, k[1])
    BY DEF Known
  <2> QED BY <1>0, <2>1, AppliedStays
<1>2. SameSync(p)
  BY DEF SameSync
<1> QED BY <1>0, <1>1, <1>2, UndoFrame

\* What a pod notes of its polls, it noted before now.
LEMMA PollTimes ==
    ASSUME Base, NEW p \in Pods
    PROVE  /\ Syncing(p) => /\ sync[p].t0 \in Int /\ sync[p].t0 <= Clock(p)
                            /\ sync[p].began \in Int /\ sync[p].began <= now
           /\ proto[p].lastList # NoTime => proto[p].lastList \in Int /\ proto[p].lastList <= Clock(p)
           /\ proto[p].lastGood # NoTime =>
                 proto[p].lastGood - SyncMax \in Int /\ proto[p].lastGood - SyncMax <= now
<1>1. /\ sync[p].t0 \in Int /\ sync[p].began \in Int /\ now \in Nat /\ Skew[p] \in Int
      /\ proto[p].lastList \in Int /\ proto[p].lastGood \in Int /\ SyncMax \in Nat
      /\ Syncing(p) => sync[p].t0 = sync[p].began + Skew[p] /\ sync[p].began <= now
      /\ proto[p].lastList # NoTime => proto[p].lastList <= Clock(p)
      /\ proto[p].lastGood # NoTime => proto[p].lastGood <= now
  BY PodFields, Constants DEF Base, PodBase, PodTime
<1> QED BY ONLY <1>1, SMT DEF Clock

\* A create that ends now is in the overlap of the next poll with the undos of its key, so
\* no poll has left them behind.
LEMMA CreateInOverlap ==
    ASSUME WindowMargin, Base, UndoKeyInv, NEW c \in Calls, Creates(c), NEW t \in Int,
           t <= Clock(call[c].pod), Live(call[c].def.id)
    PROVE  ~UndoPast(undos, KeyOf(call[c].def), t)
<1> SUFFICES ASSUME UndoPast(undos, KeyOf(call[c].def), t) PROVE FALSE
  OBVIOUS
<1>0. PICK p, d : p = call[c].pod /\ d = call[c].def
  OBVIOUS
<1>1. Types /\ p \in Pods /\ d \in Definition /\ call[c].began \in Int
  BY <1>0, CallFacts DEF Base
<1>2. PICK u \in undos : UndoneKey(u) = KeyOf(d) /\ u.at < t - Overlap
  BY <1>0 DEF UndoPast
<1>3. u.id = d.id /\ u.def = d.at
  BY <1>2, SMT DEF UndoneKey, KeyOf
<1>4. Late(u)
  BY <1>0, <1>3 DEF UndoKeyInv, UndoOrigin
<1>5. u.def + PutMax + (IF IsTask(d.id) THEN Skew[p] ELSE 0) <= u.at + Overlap
  BY <1>1, <1>3, <1>4 DEF Late
<1>6. d.at = IF IsTask(d.id) THEN call[c].began ELSE call[c].began + Skew[p]
  BY <1>0 DEF UndoKeyInv, CallStart
<1>7. now <= call[c].began + PutMax /\ t <= now + Skew[p]
  BY <1>0 DEF Base, CallTime, Clock
<1>8. /\ now \in Nat /\ Skew[p] \in Int /\ Overlap \in Int /\ u.at \in Int /\ u.def \in Int
      /\ PutMax \in Nat /\ d.at \in Int
  BY <1>1, PodFields, Margins, Constants DEF Types, Undo, Definition
<1>9. CASE IsTask(d.id)
  <2>1. u.def + PutMax + Skew[p] <= u.at + Overlap /\ u.def = call[c].began
    BY <1>3, <1>5, <1>6, <1>9
  <2> QED BY ONLY <1>1, <1>2, <1>7, <1>8, <2>1, SMTT(30)
<1>10. CASE ~IsTask(d.id)
  <2>1. u.def + PutMax + 0 <= u.at + Overlap /\ u.def = call[c].began + Skew[p]
    BY <1>3, <1>5, <1>6, <1>10
  <2> QED BY ONLY <1>1, <1>2, <1>7, <1>8, <2>1, SMTT(30)
<1> QED BY <1>9, <1>10

\* A create is answered: an undo of its key that a sync has applied would have been
\* written after it.
LEMMA UndoFinishCreate ==
    ASSUME WindowMargin, Base, Base', BucketStep, UndoKeyInv, NEW c \in Calls, FinishCreate(c),
           NEW p \in Pods, p = call[c].pod, PodUndo(p)
    PROVE  PodUndo(p)'
<1>0. Types /\ Types' /\ UniqueInv'
  BY DEF Base
<1>1. PICK d : d = call[c].def
  OBVIOUS
<1>2. /\ Creates(c) /\ d \in Definition /\ acked' = acked \cup {[def |-> d, at |-> now]}
      /\ \A id \in Ids \ {d.id} : view'[p][id] = view[p][id]
      /\ UNCHANGED <<now, bucketVars, sync, proto, undone>>
  BY <1>0, <1>1, FinishCreateFacts
<1>3. AppliedKept(p)
  <2> SUFFICES ASSUME NEW k \in Key, Live(k[1]), Undoable(k), SoleKey(k)',
                      UndoThen(p, k)' \/ UndoPolled(p, k)', Applied(p, k)
               PROVE  Applied(p, k)'
    BY DEF AppliedKept
  <2>1. CASE d.id # k[1]
    <3>1. view'[p][k[1]] = view[p][k[1]]
      BY <1>2, <2>1, KeyParts
    <3>2. Known(p, k[1])' <=> Known(p, k[1])
      BY <3>1 DEF Known
    <3> QED BY <1>0, <1>2, <3>1, <3>2, AppliedStays
  <2>2. CASE d.id = k[1]
    <3>0. PICK a : a = [def |-> d, at |-> now]
      OBVIOUS
    <3>1. a \in acked' /\ a.def = d /\ a.at = now
      BY <1>2, <3>0
    <3>2. d.at = k[2]
      BY <2>2, <3>1 DEF SoleKey
    <3>3. KeyOf(d) = k
      BY <2>2, <3>2, KeyParts DEF KeyOf
    <3>4. ASSUME NEW t \in Int, t <= Clock(p), UndoPast(undos', k, t) PROVE FALSE
      <4>1. UndoPast(undos, k, t)
        BY <1>2, <3>4 DEF bucketVars
      <4> QED BY <1>1, <1>2, <2>2, <3>3, <3>4, <4>1, CreateInOverlap
    <3>5. ASSUME NEW t \in Int, t <= now, UndoneBefore(undone', acked', k, t) PROVE FALSE
      <4>1. now < t
        BY <3>1, <3>3, <3>5 DEF UndoneBefore
      <4>2. now \in Nat
        BY <1>0, PodFields
      <4> QED BY ONLY <3>5, <4>1, <4>2, SMT
    <3>6. ~UndoThen(p, k)'
      <4>1. UndoThen(p, k)' => /\ Syncing(p)
                               /\ \/ UndoPast(undos', k, sync[p].t0)
                                  \/ UndoneBefore(undone', acked', k, sync[p].began)
        BY <1>2 DEF UndoThen, Syncing
      <4> QED BY <3>4, <3>5, <4>1, PollTimes
    <3>7. ~UndoPolled(p, k)'
      <4>1. UndoPolled(p, k)' =>
              \/ proto[p].lastList # NoTime /\ UndoPast(undos', k, proto[p].lastList)
              \/ proto[p].lastGood # NoTime /\ UndoneBefore(undone', acked', k, proto[p].lastGood - SyncMax)
        BY <1>2 DEF UndoPolled
      <4> QED BY <3>4, <3>5, <4>1, PollTimes
    <3> QED BY <3>6, <3>7
  <2> QED BY <2>1, <2>2
<1>4. SameSync(p) /\ SamePolls(p)
  BY <1>2 DEF SameSync, SamePolls
<1> QED BY <1>0, <1>3, <1>4, UndoFrame

\* An undelete is answered: the pod marks its own entry.
LEMMA UndoFinishUndelete ==
    ASSUME WindowMargin, Base, Base', BucketStep, UndoKeyInv, NEW c \in Calls, FinishUndelete(c),
           NEW p \in Pods, p = call[c].pod, PodUndo(p)
    PROVE  PodUndo(p)'
<1>0. Types /\ Types' /\ UniqueInv'
  BY DEF Base
<1>1. PICK w : w = {UndoneKey(call[c].undo)}
  OBVIOUS
<1>2. view'[p] = ApplyUndo(view[p], w) /\ UNCHANGED <<sync, proto>>
  BY <1>0, <1>1, FinishUndeleteFacts
<1>3. view[p] \in [Ids -> EntryType]
  BY <1>0 DEF Types
<1>4. ASSUME NEW id \in Ids
      PROVE  /\ view'[p][id].at = view[p][id].at
             /\ view'[p][id] = NoEntry <=> view[p][id] = NoEntry
             /\ view[p][id].undone => view'[p][id].undone
  <2> DEFINE v == ApplyUndo(view[p], w)
  <2>1. v[id].at = view[p][id].at
    BY ONLY <1>3, <1>4, ApplyUndoFacts, Zenon
  <2>2. v[id] = NoEntry <=> view[p][id] = NoEntry
    BY ONLY <1>3, <1>4, ApplyUndoFacts, Zenon
  <2>3. view[p][id].undone => v[id].undone
    BY ONLY <1>3, <1>4, ApplyUndoFacts, Zenon
  <2>4. view'[p] = v
    BY <1>2
  <2> HIDE DEF v
  <2> QED BY <2>1, <2>2, <2>3, <2>4
<1>5. AppliedKept(p)
  <2> SUFFICES ASSUME NEW k \in Key, Live(k[1]), Undoable(k), Applied(p, k) PROVE Applied(p, k)'
    BY DEF AppliedKept
  <2>1. Known(p, k[1])' <=> Known(p, k[1])
    BY <1>4, KeyParts DEF Known
  <2>2. /\ view'[p][k[1]].at = view[p][k[1]].at
        /\ view[p][k[1]].undone => view'[p][k[1]].undone
    BY <1>4, KeyParts
  <2> QED BY <1>0, <1>2, <2>1, <2>2, AppliedStays
<1>6. SameSync(p) /\ SamePolls(p)
  BY <1>2 DEF SameSync, SamePolls
<1> QED BY <1>0, <1>5, <1>6, UndoFrame

-----------------------------------------------------------------------------
(* An undelete is visible: the steps of a sync. *)

\* What no sync works on.
LEMMA NoSyncTodo == NoSync.stage = "off" /\ NoSync.todo = {}
  BY DEF NoSync

\* A sync begins, or fails: what was applied stays so.
LEMMA AppliedIdle ==
    ASSUME Base', BucketStep, NEW p \in Pods, view'[p] = view[p], proto'[p] = proto[p], sync'[p].todo = {}
    PROVE  AppliedKept(p) /\ SamePolls(p)
<1> SUFFICES ASSUME NEW k \in Key, Live(k[1]), Undoable(k), Applied(p, k) PROVE Applied(p, k)'
  BY DEF AppliedKept, SamePolls
<1>1. Known(p, k[1])' <=> Known(p, k[1])
  BY DEF Known
<1> QED BY <1>1, AppliedStays DEF Base

\* The sync is over without an end.
LEMMA UndoOff ==
    ASSUME WindowMargin, Base, Base', BucketStep, UndoKeyInv, NEW p \in Pods, PodUndo(p),
           sync'[p] = NoSync, view'[p] = view[p], proto'[p] = proto[p]
    PROVE  PodUndo(p)'
<1>1. \A k : ~UndoThen(p, k)'
  BY NoSyncTodo DEF UndoThen, Syncing
<1>2. PolledUndo(p)'
  BY NoSyncTodo, AppliedIdle, PolledFrame DEF Base, PodUndo
<1> QED BY <1>1, <1>2 DEF PodUndo, ListedUndo, LearnedUndo

\* A restart knows of no sync.
LEMMA UndoRestart ==
    ASSUME Types, NEW p \in Pods, Restart(p)
    PROVE  PodUndo(p)'
<1>1. sync'[p] = NoSync /\ proto'[p].lastGood = NoTime /\ proto'[p].lastList = NoTime
  BY RestartFacts
<1>2. \A k : ~UndoThen(p, k)' /\ ~UndoPolled(p, k)'
  BY <1>1, NoSyncTodo DEF UndoThen, UndoPolled, Syncing
<1> QED BY <1>2 DEF PodUndo, ListedUndo, LearnedUndo, PolledUndo

\* A sync begins with everything that is in the bucket.
LEMMA UndoStartSync ==
    ASSUME WindowMargin, Base, Base', BucketStep, UndoKeyInv, NEW p \in Pods, PodUndo(p),
           NEW forceFull \in BOOLEAN, StartSync(p, forceFull)
    PROVE  PodUndo(p)'
<1>0. Types /\ Types'
  BY DEF Base
<1>1. /\ sync'[p].stage = "list" /\ sync'[p].defs = defs /\ sync'[p].undos = undos
      /\ sync'[p].todo = {}
      /\ UNCHANGED <<now, bucketVars, view, proto, histVars>>
  BY <1>0, StartSyncFacts
<1>2. ListedUndo(p)'
  <2> SUFFICES ASSUME NEW k \in Key, Live(k[1])', UndoThen(p, k)'
               PROVE  HasKey(undos, k) /\ \E d \in defs : KeyOf(d) = k
    BY <1>1 DEF ListedUndo, bucketVars
  <2>1. Live(k[1])
    BY <1>0, EarlierKey
  <2>2. \/ UndoPast(undos, k, sync'[p].t0)
        \/ UndoneBefore(undone, acked, k, sync'[p].began)
    BY <1>1 DEF UndoThen, bucketVars, histVars
  <2>3. HasKey(undos, k) /\ Undoable(k)
    BY <2>1, <2>2, UndoBound
  <2> QED BY <2>3 DEF Undoable
<1>3. LearnedUndo(p)'
  BY <1>1 DEF LearnedUndo
<1>4. PolledUndo(p)'
  BY <1>0, <1>1, AppliedIdle, PolledFrame DEF PodUndo
<1> QED BY <1>2, <1>3, <1>4 DEF PodUndo

\* The listing reads no definition that the pod knows.
LEMMA AppliedListed ==
    ASSUME Types, NEW p \in Pods, List(p) \/ ListShort(p), NEW k \in Key, Applied(p, k)
    PROVE  Applied(p, k)'
<1>1. /\ sync'[p].todo = Need(p, sync'[p].defs \cup proto[p].bad) /\ UNCHANGED <<defs, view, proto>>
  BY ListFacts DEF bucketVars
<1>2. ASSUME Known(p, k[1]), view[p][k[1]].at = k[2]
      PROVE  NotDue(p, k)'
  <2> SUFFICES ASSUME NEW d \in sync'[p].todo, KeyOf(d) = k PROVE FALSE
    BY DEF NotDue
  <2>1. d.id = k[1] /\ d.at = k[2]
    BY SMT DEF KeyOf
  <2>2. d.at < view[p][d.id].at
    BY <1>1, <1>2, <2>1 DEF Need
  <2>3. k[2] < k[2] /\ k[2] \in Int
    BY <1>2, <2>1, <2>2, KeyParts
  <2> QED BY ONLY <2>3, SMT
<1>3. Known(p, k[1])' <=> Known(p, k[1])
  BY <1>1 DEF Known
<1> QED BY <1>1, <1>2, <1>3 DEF Applied

\* A poll's listing: the undos that it lacks because of the window were polled before.
LEMMA UndoList ==
    ASSUME WindowMargin, ~ShortLists, Base, Types', BucketStep, UndoKeyInv, NEW p \in Pods, PodFlag(p),
           PodUndo(p), List(p) \/ ListShort(p)
    PROVE  PodUndo(p)'
<1>0. Types
  BY DEF Base
<1>1. /\ sync[p].stage = "list" /\ sync'[p].stage = "learn" /\ sync'[p].t0 = sync[p].t0
      /\ sync'[p].began = sync[p].began /\ sync'[p].full = sync[p].full
      /\ InWindow(p, sync[p].defs \cap defs) \subseteq sync'[p].defs
      /\ InWindow(p, sync[p].undos \cap undos) \subseteq sync'[p].undos
      /\ UNCHANGED <<now, bucketVars, view, proto, histVars>>
  BY <1>0, ListFacts
<1>2. \A k \in Key : (Live(k[1])' => Live(k[1])) /\ (SoleKey(k)' => SoleKey(k))
  BY <1>0, EarlierKey
<1>3. ASSUME NEW k \in Key, UndoThen(p, k)' PROVE UndoThen(p, k)
  BY <1>1, <1>3 DEF UndoThen, Syncing, bucketVars, histVars
<1>4. ListedUndo(p)'
  <2> SUFFICES ASSUME NEW k \in Key, Live(k[1])', UndoThen(p, k)', sync[p].full
               PROVE  \E d \in sync'[p].defs \cap defs : KeyOf(d) = k
    BY <1>1 DEF ListedUndo, bucketVars
  <2>1. PICK d \in sync[p].defs \cap defs : KeyOf(d) = k
    BY <1>1, <1>2, <1>3 DEF PodUndo, ListedUndo
  <2>2. d \in sync'[p].defs
    BY <1>1, <2>1 DEF InWindow
  <2> QED BY <2>1, <2>2
<1>5. LearnedUndo(p)'
  <2> SUFFICES ASSUME NEW k \in Key, Live(k[1])', SoleKey(k)', UndoThen(p, k)',
                      ~HasKey(sync'[p].undos, k)
               PROVE  Applied(p, k)'
    BY <1>1 DEF LearnedUndo
  <2>1. Live(k[1]) /\ SoleKey(k) /\ UndoThen(p, k)
    BY <1>2, <1>3
  <2>2. PICK u \in sync[p].undos : UndoneKey(u) = k
    BY <1>1, <2>1 DEF PodUndo, ListedUndo, HasKey
  <2>3. u \in undos
    <3>1. u.id = k[1]
      BY <2>2 DEF UndoneKey
    <3> QED BY <2>1, <2>2, <3>1 DEF PodFlag, Live
  <2>4. u \notin InWindow(p, sync[p].undos \cap undos)
    BY <1>1, <2>2 DEF HasKey
  <2>5. ~sync[p].full /\ ~(u.at >= sync[p].t0 - Window)
    BY <2>2, <2>3, <2>4 DEF InWindow
  <2>6. proto[p].lastList # NoTime /\ sync[p].t0 - proto[p].lastList <= Window \div 2
    BY <1>1, <2>5 DEF Base, PodBase, PodTime, Syncing
  <2>7. u.at < proto[p].lastList - Overlap
    <3>1. u.at \in Int /\ sync[p].t0 \in Int /\ proto[p].lastList \in Int /\ Window \in Nat
      BY <1>0, <2>3, PodFields, Constants DEF Types, Undo
    <3> QED BY ONLY <2>5, <2>6, <3>1, SMT DEF Overlap
  <2>8. UndoPolled(p, k)
    BY <2>2, <2>3, <2>6, <2>7 DEF UndoPolled, UndoPast
  <2>9. Applied(p, k)
    BY <2>1, <2>8 DEF PodUndo, PolledUndo
  <2> QED BY <1>0, <2>9, AppliedListed
<1>6. PolledUndo(p)'
  <2>1. AppliedKept(p) /\ SamePolls(p)
    BY <1>0, <1>1, AppliedListed DEF AppliedKept, SamePolls
  <2> QED BY <2>1, PolledFrame DEF PodUndo
<1> QED BY <1>4, <1>5, <1>6 DEF PodUndo

\* A definition that is not learned leaves the view and the waiting undos alone.
LEMMA UndoNotLearned ==
    ASSUME WindowMargin, Base, Base', BucketStep, UndoKeyInv, NEW p \in Pods, PodUndo(p),
           NEW e \in sync[p].todo, LearnUnreadable(p, e) \/ LearnGone(p, e) \/ LearnError(p, e)
    PROVE  PodUndo(p)'
<1>0. Types /\ Types' /\ UniqueInv'
  BY DEF Base
<1>1. /\ sync' = [sync EXCEPT ![p].todo = @ \ {e}] /\ proto'[p].undoSeen = proto[p].undoSeen
      /\ SamePolls(p) /\ UNCHANGED view
  BY <1>0, NotLearnedFacts DEF SamePolls
<1>2. SameSync(p) /\ sync'[p].todo \subseteq sync[p].todo
  BY ZenonT(60), <1>0, <1>1, TodoFacts DEF SameSync
<1>3. AppliedKept(p)
  <2> SUFFICES ASSUME NEW k \in Key, Live(k[1]), Undoable(k), Applied(p, k) PROVE Applied(p, k)'
    BY DEF AppliedKept
  <2>1. Known(p, k[1])' <=> Known(p, k[1])
    BY <1>1 DEF Known
  <2> QED BY <1>0, <1>1, <1>2, <2>1, AppliedStays
<1> QED BY <1>0, <1>1, <1>2, <1>3, UndoFrame

\* A definition is learned: if it is undone, its undo key waited for it.
LEMMA UndoLearnDefinition ==
    ASSUME WindowMargin, Base, Base', BucketStep, UndoKeyInv, NEW p \in Pods, PodOrigin(p), PodUndo(p),
           NEW e \in sync[p].todo, LearnDefinition(p, e)
    PROVE  PodUndo(p)'
<1>0. Types /\ Types' /\ UniqueInv /\ UniqueInv'
  BY DEF Base
<1>a. PICK w : w = (Known(p, e.id) => e.at <= view[p][e.id].at)
  OBVIOUS
<1>1. /\ e \in Definition /\ e \in defs \cup cache[p] /\ sync' = [sync EXCEPT ![p].todo = @ \ {e}]
      /\ \A id \in Ids \ {e.id} : view'[p][id] = view[p][id]
      /\ SamePolls(p) /\ UNCHANGED <<now, bucketVars, histVars>>
  <2>1. e \in Definition /\ e \in defs \cup cache[p]
    BY <1>0, LearnDefinitionFacts
  <2>2. sync' = [sync EXCEPT ![p].todo = @ \ {e}]
    BY ONLY LearnDefinition(p, e), Zenon DEF LearnDefinition
  <2>3. \A id \in Ids \ {e.id} : view'[p][id] = view[p][id]
    BY ZenonT(60), <1>0, LearnDefinitionFacts
  <2>4. SamePolls(p)
    BY <1>0, LearnDefinitionFacts DEF SamePolls
  <2>5. UNCHANGED <<now, bucketVars, histVars>>
    BY <1>0, LearnDefinitionFacts
  <2> QED BY <2>1, <2>2, <2>3, <2>4, <2>5
<1>2. SameSync(p) /\ sync'[p].todo = sync[p].todo \ {e}
  BY <1>0, <1>1, TodoFacts DEF SameSync
<1>3. ~w => view'[p][e.id] = view[p][e.id]
  BY <1>0, <1>a, LearnDefinitionFacts
<1>4. w => /\ view'[p][e.id] # NoEntry /\ view'[p][e.id].at = e.at
           /\ (KeyOf(e) \in proto[p].undoSeen /\ e.mode = "hide") => view'[p][e.id].undone
  BY <1>0, <1>a, LearnDefinitionFacts
<1>5. proto'[p].undoSeen = IF w THEN proto[p].undoSeen \ {KeyOf(e)} ELSE proto[p].undoSeen
  BY <1>0, <1>a, LearnDefinitionFacts
<1>6. AppliedKept(p)
  <2> SUFFICES ASSUME NEW k \in Key, Live(k[1]), Undoable(k), Applied(p, k) PROVE Applied(p, k)'
    BY DEF AppliedKept
  <2>0. k[1] \in Ids /\ k[2] \in Int /\ k = <<k[1], k[2]>> /\ e.at \in Int /\ view[p][k[1]].at \in Int
        /\ e.id \in Ids /\ KeyOf(e)[1] = e.id /\ KeyOf(e)[2] = e.at
    BY <1>0, <1>1, KeyParts, EntryFacts, ViewFacts DEF Definition
  <2>1. CASE e.id # k[1] \/ ~w
    <3>1. view'[p][k[1]] = view[p][k[1]]
      BY <1>1, <1>3, <2>0, <2>1
    <3>2. Known(p, k[1])' <=> Known(p, k[1])
      BY <3>1 DEF Known
    <3>3. k \in proto[p].undoSeen => k \in proto'[p].undoSeen
      BY <1>5, <2>0, <2>1
    <3> QED BY <1>0, <1>2, <3>1, <3>2, <3>3, AppliedStays
  <2>2. CASE e.id = k[1] /\ w
    <3>1. /\ Known(p, k[1])' /\ view'[p][k[1]].at = e.at
          /\ Known(p, k[1]) => e.at <= view[p][k[1]].at
      BY <1>a, <1>4, <2>2 DEF Known
    <3>2. CASE e.at < k[2]
      BY <3>1, <3>2 DEF Applied
    <3>3. CASE e.at = k[2]
      <4>1. KeyOf(e) = k
        BY <2>0, <2>2, <3>3 DEF KeyOf
      <4>2. e \in defs
        BY <1>1, <2>2 DEF PodOrigin
      <4>3. e.mode = "hide"
        BY <1>0, <4>1, <4>2 DEF Undoable, UniqueInv
      <4>4. ~NotDue(p, k)
        BY <4>1, <4>2 DEF NotDue
      <4>5. ~(Known(p, k[1]) /\ view[p][k[1]].at < k[2])
        BY <2>0, <3>1, <3>3, SMTT(30)
      <4>6. k \in proto[p].undoSeen
        BY <4>4, <4>5 DEF Applied
      <4>7. view'[p][k[1]].undone
        BY <1>4, <2>2, <4>1, <4>3, <4>6
      <4>8. NotDue(p, k)'
        BY <1>0, <1>1, <1>2, <4>1, <4>2 DEF NotDue, UniqueInv, bucketVars
      <4> QED BY <3>1, <3>3, <4>7, <4>8 DEF Applied
    <3>4. CASE k[2] < e.at
      <4>1. ~(Known(p, k[1]) /\ view[p][k[1]].at < k[2]) /\ ~(Known(p, k[1]) /\ view[p][k[1]].at = k[2])
            /\ e.at # k[2]
        BY <2>0, <3>1, <3>4, SMTT(30)
      <4>2. k \in proto[p].undoSeen
        BY <4>1 DEF Applied
      <4>3. k \in proto'[p].undoSeen
        BY <1>5, <2>0, <4>1, <4>2
      <4> QED BY <3>1, <3>4, <4>3 DEF Applied
    <3>5. e.at < k[2] \/ e.at = k[2] \/ k[2] < e.at
      BY ONLY <2>0, SMT
    <3> QED BY <3>2, <3>3, <3>4, <3>5
  <2>3. e.id = k[1] \/ e.id # k[1]
    OBVIOUS
  <2>4. w \/ ~w
    OBVIOUS
  <2> QED BY <2>1, <2>2, <2>3, <2>4
<1> QED BY <1>0, <1>1, <1>2, <1>6, UndoFrame

\* The end of a sync: the next poll need not list what it has applied.
LEMMA UndoEnd ==
    ASSUME WindowMargin, Base, NEW p \in Pods, Syncing(p), UNCHANGED <<now, bucketVars, histVars>>,
           sync'[p] = NoSync, proto'[p].lastList = sync[p].t0,
           proto'[p].lastGood = IF proto[p].bad = {} THEN now ELSE proto[p].lastGood,
           \A k \in Key : (Live(k[1]) /\ SoleKey(k) /\ UndoThen(p, k)) => Applied(p, k)'
    PROVE  PodUndo(p)'
<1>1. \A k : ~UndoThen(p, k)'
  BY NoSyncTodo DEF UndoThen, Syncing
<1>2. PolledUndo(p)'
  <2> SUFFICES ASSUME NEW k \in Key, Live(k[1])', SoleKey(k)', UndoPolled(p, k)'
               PROVE  Applied(p, k)'
    BY DEF PolledUndo
  <2>1. Live(k[1]) /\ SoleKey(k)
    BY DEF Live, Needed, Clock, SoleKey, histVars
  <2>2. \/ UndoPast(undos, k, sync[p].t0)
        \/ UndoneBefore(undone, acked, k, now - SyncMax)
        \/ proto[p].lastGood # NoTime /\ UndoneBefore(undone, acked, k, proto[p].lastGood - SyncMax)
    BY DEF UndoPolled, bucketVars, histVars
  <2>3. CASE UndoPast(undos, k, sync[p].t0)
    BY <2>1, <2>3 DEF UndoThen
  <2>4. CASE UndoneBefore(undone, acked, k, now - SyncMax)
    <3>1. /\ Types /\ sync[p].began \in Int /\ now \in Nat /\ SyncMax \in Nat
          /\ now <= sync[p].began + SyncMax
      BY PodFields, Constants DEF Base, PodBase, PodTime
    <3>2. ASSUME NEW x \in Int, x < now - SyncMax PROVE x < sync[p].began
      BY ONLY <3>1, <3>2, SMT
    <3>3. (\A b \in undone : b.at \in Int) /\ \A a \in acked : a.at \in Int
      BY <3>1 DEF Types
    <3>4. UndoneBefore(undone, acked, k, sync[p].began)
      BY <2>4, <3>2, <3>3 DEF UndoneBefore
    <3> QED BY <2>1, <3>4 DEF UndoThen
  <2>5. CASE proto[p].lastGood # NoTime /\ UndoneBefore(undone, acked, k, proto[p].lastGood - SyncMax)
    <3>1. UndoPolled(p, k)
      BY <2>5 DEF UndoPolled
    <3> QED BY <2>1, <3>1, PolledThen
  <2> QED BY <2>2, <2>3, <2>4, <2>5
<1> QED BY <1>1, <1>2 DEF PodUndo, ListedUndo, LearnedUndo

\* The end of a collection is the end of its sync.
LEMMA UndoEndGc ==
    ASSUME WindowMargin, Base, Base', BucketStep, UndoKeyInv, NEW p \in Pods, PodUndo(p), EndGc(p)
    PROVE  PodUndo(p)'
<1>0. Types /\ UniqueInv'
  BY DEF Base
<1>1. /\ sync[p].stage = "gc" /\ sync'[p] = NoSync /\ proto'[p].lastList = sync[p].t0
      /\ proto'[p].lastGood = IF proto[p].bad = {} THEN now ELSE proto[p].lastGood
      /\ proto'[p].undoSeen = proto[p].undoSeen /\ UNCHANGED <<now, bucketVars, view, histVars>>
  BY <1>0, EndGcFacts
<1>2. ASSUME NEW k \in Key, Live(k[1]), SoleKey(k), UndoThen(p, k) PROVE Applied(p, k)'
  <2>1. Applied(p, k)
    BY <1>1, <1>2 DEF PodUndo, LearnedUndo
  <2>2. Undoable(k)
    BY <1>2, UndoneBound
  <2>3. Known(p, k[1])' <=> Known(p, k[1])
    BY <1>1 DEF Known
  <2>4. sync'[p].todo \subseteq sync[p].todo
    BY <1>1, NoSyncTodo
  <2> QED BY <1>0, <1>1, <1>2, <2>1, <2>2, <2>3, <2>4, AppliedStays
<1>3. Syncing(p)
  BY <1>1 DEF Syncing
<1> QED BY <1>1, <1>2, <1>3, UndoEnd

\* What Apply leaves of an entry that is live: its time, and the undo if it is listed.
LEMMA AppliedEntry ==
    ASSUME Base, NEW p \in Pods, PodOrigin(p), Apply(p), NEW id \in Ids, Live(id)
    PROVE  /\ Known(p, id)' <=> Known(p, id)
           /\ Known(p, id) =>
                /\ view'[p][id].at = view[p][id].at
                /\ view[p][id].undone => view'[p][id].undone
                /\ (HasKey(sync[p].undos, <<id, view[p][id].at>>) /\ view[p][id].mode = "hide")
                      => view'[p][id].undone
<1>0. Types /\ view[p] \in [Ids -> EntryType] /\ sync[p].undos \in SUBSET Undo
  BY PodFields DEF Base, Types
<1>1. PICK K : K = {UndoneKey(u) : u \in sync[p].undos}
  OBVIOUS
<1>2. PICK v : v = ApplyUndo(view[p], K)
  OBVIOUS
<1>3. AppliedView(p) /\ sync[p].stage = "learn"
  BY <1>0, ApplyFacts
<1>4. /\ view'[p][id] = NoEntry \/ (Known(p, id) /\ view'[p][id] = v[id])
      /\ (Known(p, id) /\ view'[p][id] = NoEntry)
            => <<id, view[p][id].at>> \notin KeysOf(defs) \/ sync[p].t0 > ExpiresAt[id]
  BY <1>1, <1>2, <1>3 DEF AppliedView
<1>5. v[id].at = view[p][id].at
  BY ONLY <1>0, <1>2, ApplyUndoFacts, Zenon
<1>6. v[id] = NoEntry <=> view[p][id] = NoEntry
  BY ONLY <1>0, <1>2, ApplyUndoFacts, Zenon
<1>7. view[p][id].undone => v[id].undone
  BY ONLY <1>0, <1>2, ApplyUndoFacts, Zenon
<1>8. (<<id, view[p][id].at>> \in K /\ view[p][id].mode = "hide") => v[id].undone
  BY ONLY <1>0, <1>2, ApplyUndoFacts, Zenon
<1>9. HasKey(sync[p].undos, <<id, view[p][id].at>>) => <<id, view[p][id].at>> \in K
  BY <1>0, <1>1, UndoKeys
<1>10. ASSUME Known(p, id) PROVE view'[p][id] = v[id]
  <2>0. PICK d : d = ViewDef(p, id)
    OBVIOUS
  <2>1. d \in defs /\ KeyOf(d) = <<id, view[p][id].at>>
    BY <1>10, <2>0 DEF PodOrigin, ViewDef, KeyOf
  <2>2. <<id, view[p][id].at>> \in KeysOf(defs)
    BY <2>1 DEF KeysOf
  <2>3. ~(sync[p].t0 > ExpiresAt[id])
    <3>1. sync[p].t0 <= Clock(p) /\ Clock(p) <= ExpiresAt[id]
      BY <1>3, PollTimes DEF Syncing, Live, Needed
    <3>2. sync[p].t0 \in Int /\ Clock(p) \in Int /\ ExpiresAt[id] \in Nat
      BY <1>0, PodFields, Constants
    <3> QED BY ONLY <3>1, <3>2, SMT
  <2> QED BY <1>4, <1>10, <2>2, <2>3
<1>11. Known(p, id)' <=> Known(p, id)
  BY <1>4, <1>6, <1>10 DEF Known
<1> QED BY ZenonT(60), <1>5, <1>7, <1>8, <1>9, <1>10, <1>11

\* A sync applies the undos of its listing.
LEMMA AppliedBySync ==
    ASSUME WindowMargin, Base, UndoKeyInv, NEW p \in Pods, PodOrigin(p), PodUndo(p), Apply(p),
           NEW k \in Key, Live(k[1]), SoleKey(k), UndoThen(p, k), sync'[p].todo = {}
    PROVE  Applied(p, k)'
<1>0. Types /\ UniqueInv /\ k[1] \in Ids /\ k[2] \in Int /\ k = <<k[1], k[2]>> /\ view[p][k[1]].at \in Int
  BY KeyParts, ViewFacts DEF Base
<1>1. AppliedProto(p) /\ sync[p].stage = "learn"
  BY <1>0, ApplyFacts
<1>2. Applied(p, k) \/ HasKey(sync[p].undos, k)
  BY <1>1 DEF PodUndo, LearnedUndo
<1>3. Undoable(k)
  BY UndoneBound
<1>4. Known(p, k[1])' <=> Known(p, k[1])
  BY <1>0, AppliedEntry
<1>5. Known(p, k[1]) => view'[p][k[1]].at = view[p][k[1]].at
  BY <1>0, AppliedEntry
<1>6. CASE Known(p, k[1]) /\ view[p][k[1]].at < k[2]
  BY <1>4, <1>5, <1>6 DEF Applied
<1>7. CASE Known(p, k[1]) /\ view[p][k[1]].at = k[2]
  <2>1. view'[p][k[1]].undone
    <3>1. CASE Applied(p, k)
      <4>1. view[p][k[1]].undone
        <5>1. ~(k[2] < k[2])
          BY <1>0, SMT
        <5> QED BY <1>7, <3>1, <5>1 DEF Applied
      <4> QED BY <1>0, <1>7, <4>1, AppliedEntry
    <3>2. CASE HasKey(sync[p].undos, k)
      <4>0. PICK d : d = ViewDef(p, k[1])
        OBVIOUS
      <4>1. d \in defs /\ KeyOf(d) = k /\ d.mode = view[p][k[1]].mode
        BY <1>0, <1>7, <4>0 DEF PodOrigin, ViewDef, KeyOf
      <4>2. view[p][k[1]].mode = "hide"
        BY <1>0, <1>3, <4>1 DEF Undoable, UniqueInv
      <4>3. HasKey(sync[p].undos, <<k[1], view[p][k[1]].at>>)
        BY <1>0, <1>7, <3>2
      <4> QED BY <1>0, <1>7, <4>2, <4>3, AppliedEntry
    <3> QED BY <1>2, <3>1, <3>2
  <2>2. NotDue(p, k)'
    BY DEF NotDue
  <2> QED BY <1>4, <1>5, <1>7, <2>1, <2>2 DEF Applied
<1>8. CASE ~Known(p, k[1]) \/ k[2] < view[p][k[1]].at
  <2>1. ~(Known(p, k[1]) /\ view[p][k[1]].at < k[2]) /\ ~(Known(p, k[1]) /\ view[p][k[1]].at = k[2])
    BY <1>0, <1>8, SMT
  <2>2. k \in proto[p].undoSeen \/ (HasKey(sync[p].undos, k) /\ k \notin KnownKeys(p))
    BY <1>0, <1>2, <2>1, KnownKeysFacts DEF Applied
  <2>3. HasKey(sync[p].undos, k) => k \in {UndoneKey(u) : u \in sync[p].undos}
    BY <1>0, PodFields, UndoKeys
  <2>4. sync[p].full => k \in KeysOf(sync[p].defs)
    BY DEF PodUndo, ListedUndo, KeysOf
  <2>5. k \notin proto[p].gone
    BY ExpiredNotNeeded DEF Live
  <2>6. k \in proto'[p].undoSeen
    BY <1>1, <2>2, <2>3, <2>4, <2>5 DEF AppliedProto
  <2> QED BY <1>4, <1>5, <1>8, <2>6 DEF Applied
<1>9. view[p][k[1]].at < k[2] \/ view[p][k[1]].at = k[2] \/ k[2] < view[p][k[1]].at
  BY ONLY <1>0, SMT
<1> QED BY <1>6, <1>7, <1>8, <1>9

\* A sync applies its view; a collection may follow.
LEMMA UndoApply ==
    ASSUME WindowMargin, Base, Types', UndoKeyInv, NEW p \in Pods, PodOrigin(p), PodUndo(p), Apply(p)
    PROVE  PodUndo(p)'
<1>0. Types /\ sync[p] \in SyncType
  BY DEF Base, Types
<1>1. /\ sync[p].stage = "learn" /\ sync[p].todo = {} /\ AppliedEnd(p)
      /\ UNCHANGED <<now, bucketVars, histVars>>
  BY <1>0, ApplyFacts
<1>2. Syncing(p)
  BY <1>1 DEF Syncing
<1>3. CASE sync[p].full /\ p \in Maintenance
  <2>1. sync'[p] = [sync[p] EXCEPT !.stage = "gc"] /\ SamePolls(p)
    BY <1>1, <1>3 DEF AppliedEnd, SamePolls
  <2>2. /\ sync'[p].todo = {} /\ sync'[p].stage = "gc" /\ sync'[p].t0 = sync[p].t0
        /\ sync'[p].began = sync[p].began /\ sync'[p].full = sync[p].full /\ sync'[p].defs = sync[p].defs
    BY <1>0, <1>1, <2>1 DEF SyncType
  <2>3. \A k \in Key : (Live(k[1]) /\ SoleKey(k) /\ UndoThen(p, k)) => Applied(p, k)'
    BY <2>2, AppliedBySync
  <2>4. \A k : UndoThen(p, k)' => UndoThen(p, k)
    BY <1>1, <1>2, <2>2 DEF UndoThen, bucketVars, histVars
  <2>5. \A k : UndoPolled(p, k)' => UndoPolled(p, k)
    BY <1>1, <2>1 DEF UndoPolled, SamePolls, bucketVars, histVars
  <2>6. \A k \in Key : (Live(k[1])' => Live(k[1])) /\ (SoleKey(k)' => SoleKey(k))
    BY <1>1 DEF Live, Needed, Clock, SoleKey, histVars
  <2>7. ListedUndo(p)'
    BY <1>1, <2>2, <2>4, <2>6 DEF PodUndo, ListedUndo, bucketVars
  <2>8. LearnedUndo(p)'
    BY <2>3, <2>4, <2>6 DEF LearnedUndo
  <2>9. PolledUndo(p)'
    BY <1>2, <2>3, <2>5, <2>6, PolledThen DEF PolledUndo
  <2> QED BY <2>7, <2>8, <2>9 DEF PodUndo
<1>4. CASE ~(sync[p].full /\ p \in Maintenance)
  <2>1. /\ sync'[p] = NoSync /\ proto'[p].lastList = sync[p].t0
        /\ proto'[p].lastGood = IF proto[p].bad = {} THEN now ELSE proto[p].lastGood
    BY <1>1, <1>4 DEF AppliedEnd
  <2>2. sync'[p].todo = {}
    BY <2>1, NoSyncTodo
  <2>3. \A k \in Key : (Live(k[1]) /\ SoleKey(k) /\ UndoThen(p, k)) => Applied(p, k)'
    BY <2>2, AppliedBySync
  <2> QED BY <1>1, <1>2, <2>1, <2>3, UndoEnd
<1> QED BY <1>3, <1>4

-----------------------------------------------------------------------------
(* An undelete is visible: all steps together. *)

\* A step of a pod's own leaves the others what they have applied.
LEMMA UndoOthers ==
    ASSUME WindowMargin, Base, Base', BucketStep, UndoKeyInv, \A q \in Pods : PodUndo(q),
           NEW p \in Pods, Elsewhere(p), PodUndo(p)'
    PROVE  \A q \in Pods : PodUndo(q)'
<1> SUFFICES ASSUME NEW q \in Pods, q # p PROVE PodUndo(q)'
  OBVIOUS
<1>1. view'[q] = view[q] /\ sync'[q] = sync[q] /\ proto'[q] = proto[q]
  BY DEF Elsewhere
<1>2. SamePolls(q)
  BY <1>1 DEF SamePolls
<1> QED BY <1>1, <1>2, UndoElsewhere

\* The steps of a pod.
LEMMA UndoPods ==
    ASSUME WindowMargin, ~ShortLists, Base, Base', HideInv, BucketStep, UndoInv, NEW p \in Pods,
           SyncStep(p) \/ Restart(p)
    PROVE  \A q \in Pods : PodUndo(q)'
<1>0. /\ Types /\ Types' /\ PodOrigin(p) /\ PodFlag(p) /\ UndoKeyInv /\ PodUndo(p)
      /\ \A q \in Pods : PodUndo(q)
  BY DEF Base, HideInv, OriginInv, UndoInv
<1>1. ASSUME NEW forceFull \in BOOLEAN, StartSync(p, forceFull)
      PROVE  Elsewhere(p) /\ PodUndo(p)'
  BY <1>0, <1>1, StartSyncFacts, UndoStartSync
<1>2. ASSUME List(p) \/ ListShort(p)
      PROVE  Elsewhere(p) /\ PodUndo(p)'
  BY <1>0, <1>2, ListFacts, UndoList
<1>3. ASSUME SyncError(p)
      PROVE  Elsewhere(p) /\ PodUndo(p)'
  <2>1. Elsewhere(p) /\ sync'[p] = NoSync /\ UNCHANGED <<view, proto>>
    BY <1>0, <1>3, SyncErrorFacts
  <2> QED BY <1>0, <2>1, UndoOff
<1>4. ASSUME NEW d \in sync[p].todo, LearnDefinition(p, d)
      PROVE  Elsewhere(p) /\ PodUndo(p)'
  BY <1>0, <1>4, LearnDefinitionFacts, UndoLearnDefinition
<1>5. ASSUME NEW d \in sync[p].todo, LearnUnreadable(p, d) \/ LearnGone(p, d) \/ LearnError(p, d)
      PROVE  Elsewhere(p) /\ PodUndo(p)'
  BY <1>0, <1>5, NotLearnedFacts, UndoNotLearned
<1>6. ASSUME Apply(p)
      PROVE  Elsewhere(p) /\ PodUndo(p)'
  BY <1>0, <1>6, ApplyFacts, UndoApply
<1>7. ASSUME NEW u, GcUndo(p, u)
      PROVE  Elsewhere(p) /\ PodUndo(p)'
  <2>1. UNCHANGED podVars
    BY <1>0, <1>7, GcUndoFacts
  <2> QED BY <1>0, <2>1, UndoElsewhere DEF Elsewhere, SamePolls, podVars
<1>8. ASSUME NEW k, GcDefinition(p, k)
      PROVE  Elsewhere(p) /\ PodUndo(p)'
  <2>1. /\ Elsewhere(p) /\ proto'[p].undoSeen = proto[p].undoSeen /\ SamePolls(p)
        /\ UNCHANGED <<view, sync>>
    BY <1>0, <1>8, GcDefinitionFacts DEF SamePolls
  <2> QED BY <1>0, <2>1, UndoElsewhere
<1>9. ASSUME EndGc(p)
      PROVE  Elsewhere(p) /\ PodUndo(p)'
  BY <1>0, <1>9, EndGcFacts, UndoEndGc
<1>10. ASSUME Restart(p)
       PROVE  Elsewhere(p) /\ PodUndo(p)'
  BY <1>0, <1>10, RestartFacts, UndoRestart
<1>11. Elsewhere(p) /\ PodUndo(p)'
  BY ZenonT(60), <1>1, <1>2, <1>3, <1>4, <1>5, <1>6, <1>7, <1>8, <1>9, <1>10 DEF SyncStep, LearnStep, GcStep
<1> QED BY <1>0, <1>11, UndoOthers

\* The steps of the calls.
LEMMA UndoCalls ==
    ASSUME WindowMargin, Base, Base', HideInv, BucketStep, UndoInv, CreateStep \/ UndeleteStep
    PROVE  \A q \in Pods : PodUndo(q)'
<1>0. Types /\ UndoKeyInv /\ \A q \in Pods : PodUndo(q)
  BY DEF Base, UndoInv
<1>1. ASSUME UNCHANGED podVars
      PROVE  \A q \in Pods : PodUndo(q)'
  <2> SUFFICES ASSUME NEW q \in Pods PROVE PodUndo(q)'
    OBVIOUS
  <2> QED BY <1>0, <1>1, UndoElsewhere DEF SamePolls, podVars
<1>2. ASSUME NEW c \in Calls, FinishCreate(c)
      PROVE  \A q \in Pods : PodUndo(q)'
  <2>1. PICK p : p = call[c].pod
    OBVIOUS
  <2>2. p \in Pods /\ Elsewhere(p)
    BY <1>0, <1>2, <2>1, FinishCreateFacts
  <2>3. PodUndo(p)'
    BY ZenonT(60), <1>0, <1>2, <2>1, <2>2, UndoFinishCreate
  <2> QED BY <1>0, <2>2, <2>3, UndoOthers
<1>3. ASSUME NEW c \in Calls, FinishUndelete(c)
      PROVE  \A q \in Pods : PodUndo(q)'
  <2>1. PICK p : p = call[c].pod
    OBVIOUS
  <2>2. p \in Pods /\ Elsewhere(p)
    BY ZenonT(60), <1>0, <1>3, <2>1, FinishUndeleteFacts
  <2>3. PodUndo(p)'
    BY <1>0, <1>3, <2>1, <2>2, UndoFinishUndelete
  <2> QED BY <1>0, <2>2, <2>3, UndoOthers
<1>4. ASSUME NEW c \in Calls,
             PutDefinition(c) \/ PutDefinitionError(c) \/ PutUndo(c) \/ PutUndoError(c)
      PROVE  \A q \in Pods : PodUndo(q)'
  BY <1>1, <1>4 DEF PutDefinition, PutDefinitionError, PutUndo, PutUndoError
<1>5. ASSUME NEW p \in Pods, NEW id \in Ids,
             \/ \E c \in Calls, mode \in Modes : BeginCreate(c, p, id, mode)
             \/ CreateKnown(p, id)
             \/ \E c \in Calls : BeginUndelete(c, p, id)
      PROVE  \A q \in Pods : PodUndo(q)'
  BY <1>1, <1>5 DEF BeginCreate, CreateKnown, BeginUndelete
<1>6. ASSUME NEW id \in Ids, CreateNewer(id)
      PROVE  \A q \in Pods : PodUndo(q)'
  BY <1>1, <1>6 DEF CreateNewer
<1> QED BY <1>2, <1>3, <1>4, <1>5, <1>6 DEF CreateStep, UndeleteStep

\* All steps.
LEMMA UndoInvStep ==
    ASSUME WindowMargin, ~ShortLists
    PROVE  Base /\ Base' /\ HideInv /\ UndoInv /\ [Next]_vars => UndoInv'
<1> SUFFICES ASSUME Base, Base', HideInv, UndoInv, [Next]_vars
             PROVE  UndoInv'
  OBVIOUS
<1>0. Types /\ Types' /\ BucketStep /\ UndoKeyInv
  BY BucketSteps DEF Base, HideInv, UndoInv
<1>1. UndoKeyInv'
  BY <1>0, UndoSteps, UndoKeyStep
<1>2. \A q \in Pods : PodUndo(q)'
  <2>1. CASE CreateStep \/ UndeleteStep
    BY <1>0, <2>1, UndoCalls
  <2>2. ASSUME NEW p \in Pollers, SyncStep(p) \/ Restart(p)
        PROVE  \A q \in Pods : PodUndo(q)'
    BY ZenonT(60), <1>0, <2>2, Constants, UndoPods
  <2>3. ASSUME (\E d \in defs : RemoveByHand(d)) \/ Tick \/ UNCHANGED vars
        PROVE  \A q \in Pods : PodUndo(q)'
    <3> SUFFICES ASSUME NEW q \in Pods PROVE PodUndo(q)'
      OBVIOUS
    <3>1. UNCHANGED podVars /\ PodUndo(q)
      BY <2>3 DEF RemoveByHand, Tick, vars, UndoInv
    <3> QED BY <1>0, <3>1, UndoElsewhere DEF SamePolls, podVars
  <2> QED BY <2>1, <2>2, <2>3 DEF Next
<1> QED BY <1>1, <1>2 DEF UndoInv

\* The initial state.
LEMMA UndoInit == Init => UndoInv
<1> SUFFICES ASSUME Init
             PROVE  UndoInv
  OBVIOUS
<1>1. /\ defs = {} /\ undos = {} /\ undone = {} /\ sync = [p \in Pods |-> NoSync]
      /\ proto = [p \in Pods |-> NoProto] /\ call = [c \in Calls |-> NoCall]
  BY DEF Init
<1>2. \A c \in Calls : ~Creates(c) /\ ~Undoes(c)
  BY <1>1, NoCallOp DEF Creates, Undoes
<1>3. UndoKeyInv
  BY <1>1, <1>2 DEF UndoKeyInv, UndoneOrigin, CallStart
<1>4. ASSUME NEW p \in Pods
      PROVE  PodUndo(p)
  <2>1. NoProto.lastGood = NoTime /\ NoProto.lastList = NoTime
    BY DEF NoProto
  <2>2. \A k : ~UndoThen(p, k) /\ ~UndoPolled(p, k)
    BY <1>1, <2>1, NoSyncTodo DEF UndoThen, UndoPolled, Syncing
  <2> QED BY <2>2 DEF PodUndo, ListedUndo, LearnedUndo, PolledUndo
<1> QED BY <1>3, <1>4 DEF UndoInv

\* The answers to creates name what was undeleted with its own time.
OneUndoneTime == \A a \in acked, b \in undone : a.def.id = b.key[1] => a.def.at = b.key[2]

\* A pod with an open gate shows what was undeleted.
LEMMA GateShows ==
    ASSUME Base, UndoInv, OneUndoneTime
    PROVE  UndoneIsVisible
<1> SUFFICES ASSUME NEW b \in undone, NEW p \in Pods, now > b.at + Stale + SyncMax,
                    \A a \in acked : KeyOf(a.def) = b.key => now > a.at + Stale + SyncMax,
                    b.key[1] \notin ByHand, Needed(b.key[1]), Gate(p, TenantOf[b.key[1]]),
                    Known(p, b.key[1]), view[p][b.key[1]].at = b.key[2]
             PROVE  view[p][b.key[1]].undone
  BY DEF UndoneIsVisible
<1>0. PICK k : k = b.key
  OBVIOUS
<1>1. Types /\ b.at \in Int /\ k \in Key /\ (\A a \in acked : a.at \in Int) /\ PolledUndo(p)
  BY <1>0 DEF Base, Types, UndoInv, PodUndo
<1>2. /\ proto[p].lastGood # NoTime /\ now - proto[p].lastGood <= Stale /\ now \in Nat
      /\ proto[p].lastGood \in Int /\ Stale \in Nat /\ SyncMax \in Nat
  BY <1>1, PodFields, Constants DEF Gate
<1>3. ASSUME NEW x \in Int, now > x + Stale + SyncMax PROVE x < proto[p].lastGood - SyncMax
  BY ONLY <1>2, <1>3, SMT
<1>4. UndoneBefore(undone, acked, k, proto[p].lastGood - SyncMax)
  BY <1>0, <1>1, <1>3 DEF UndoneBefore
<1>5. Live(k[1]) /\ SoleKey(k) /\ UndoPolled(p, k)
  BY <1>0, <1>2, <1>4 DEF Live, SoleKey, OneUndoneTime, UndoPolled
<1>6. Applied(p, k)
  BY <1>1, <1>5 DEF PolledUndo
<1>7. k[2] \in Int /\ ~(k[2] < k[2])
  <2>1. k[2] \in Int
    BY <1>1, KeyParts
  <2> QED BY ONLY <2>1, SMT
<1> QED BY <1>0, <1>6, <1>7 DEF Applied

\* What was undeleted is shown again by every pod with an open gate, a stale age and a
\* sync after its answer, whatever fails, restarts or is listed before the definition it
\* undoes (undoSeen, protocol.go): if the window leaves room for the slowest PUT and the
\* clocks, listings are complete, and no create of the id was answered with another time.
THEOREM UndosAreVisible ==
    ASSUME WindowMargin, ~ShortLists
    PROVE  Spec => [](OneUndoneTime => UndoneIsVisible)
<1>1. Base /\ UndoInv => (OneUndoneTime => UndoneIsVisible)
  BY GateShows
<1>2. Base /\ HideInv /\ [Next]_vars => HideInv'
  BY BaseStep, HideStep
<1>3. Base /\ HideInv /\ UndoInv /\ [Next]_vars => UndoInv'
  BY BaseStep, UndoInvStep
<1> QED BY <1>1, <1>2, <1>3, HideInit, UndoInit, BaseInvariant, PTL DEF Spec
=============================================================================
