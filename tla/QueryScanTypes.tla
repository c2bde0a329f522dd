--------------------------- MODULE QueryScanTypes ---------------------------
(***************************************************************************)
(* The inductive invariant of the object scan: where a worker is and what  *)
(* it holds there, and what the process-wide counters and the gate say     *)
(* about it.  Sums of what workers hold are cardinalities of sets with one *)
(* element for each unit.  A leaf is Zenon's unless it names SMT.          *)
(***************************************************************************)
EXTENDS QueryScan, FiniteSetTheorems, TLAPS

USE Zenon

\* One unit for each that a worker holds.
UnitsOf(f) == UNION {{w} \X (1..f[w]) : w \in Workers}

\* What the workers hold: of the gate of q, of the file budget, and of its admissions.
HeldLive(q) == [w \in Workers |-> IF QueryOf[w] = q /\ pc[w] \in Reserved THEN Need(w) ELSE 0]
HeldFile == [w \in Workers |-> IF pc[w] \in InPool THEN Resident(w) ELSE 0]
HeldAdmission == [w \in Workers |-> IF pc[w] \in InPool THEN FileCharge(obj[w]) ELSE 0]

\* Inside a row group.
Busy == {"reserve", "lock"} \cup Reserved \cup Queued \cup Signalling

\* The types, with counters that might be negative.
WorkerTypes ==
    /\ pc \in [Workers -> Steps]
    /\ obj \in [Workers -> Objects \cup {NoObject}]
    /\ grp \in [Workers -> Nat]
    /\ res \in [Workers -> {"none", "failed"}]
    /\ hook \in [Workers -> BOOLEAN]
GateTypes == live \in [Queries -> Int] /\ waiters \in [Queries -> Int]
QueryTypes ==
    /\ todo \in [Queries -> Seq(Objects)]
    /\ ceiling \in [Queries -> Nat]
    /\ rows \in [Queries -> Nat]
    /\ answer \in [Queries -> {"none", "ok", "error"}]
    /\ got \in [Queries -> SUBSET (Objects \X Nat)]
FlagTypes ==
    /\ stopped \in [Queries -> BOOLEAN]
    /\ gaveUp \in [Queries -> BOOLEAN]
    /\ err \in [Queries -> BOOLEAN]
    /\ panicked \in [Queries -> BOOLEAN]
PoolTypes == slots \in Int /\ outBytes \in Int /\ outCount \in Int /\ decoding \in Int

Types == WorkerTypes /\ GateTypes /\ QueryTypes /\ FlagTypes /\ PoolTypes

\* Where a worker has an object and a row group of it, and where it may have failed.
Local(w) ==
    /\ pc[w] \in InSlot \cup {"slot"} => obj[w] \in Objects
    /\ pc[w] \in {"next", "slot", "budget", "open"} => grp[w] = 0
    /\ pc[w] \in Busy => grp[w] \in 1..Len(Groups[obj[w]])
    /\ pc[w] = "group" => grp[w] >= 1
    /\ res[w] = "failed" => pc[w] \in {"close", "free"} \cup Signalling

Locals == \A w \in Workers : Local(w)

\* The workers of a query at some of the steps.
AtQ(q, S) == {w \in Of(q) : pc[w] \in S}

\* The counters count the workers.
Counts ==
    /\ slots = Cardinality(At(InSlot)) /\ slots <= FileSlots
    /\ outCount = Cardinality(At(InPool)) /\ outCount <= MaxFiles
    /\ decoding = Cardinality(At(Decoding)) /\ decoding <= Decoders
    /\ \A q \in Queries : waiters[q] = Cardinality(AtQ(q, Queued))

\* The gate's bytes: what its holders hold, and at most one of them above the ceiling.
LiveInv ==
    \A q \in Queries :
        /\ IsFiniteSet(UnitsOf(HeldLive(q)))
        /\ live[q] = Cardinality(UnitsOf(HeldLive(q)))
        /\ live[q] <= MaxLive \/ \A v, w \in AtQ(q, Reserved) : v = w

\* The file budget's bytes.
BytesInv ==
    /\ IsFiniteSet(UnitsOf(HeldFile))
    /\ outBytes = Cardinality(UnitsOf(HeldFile))
    /\ IsFiniteSet(UnitsOf(HeldAdmission))
    /\ Cardinality(UnitsOf(HeldAdmission)) <= MaxResident

\* The rows counted, with the blocks that passed the check and are about to be.
CeilingInv ==
    \A q \in Queries :
        ceiling[q] > 0 => rows[q] + Cardinality(AtQ(q, {"count"})) < ceiling[q] + Decoders

\* NoLostWakeup, from the moment the waiter has tried.
GateInv ==
    \A w \in Workers :
        pc[w] \in {"wait", "asleep"} /\ Fits(QueryOf[w], Need(w)) =>
            \E v \in Of(QueryOf[w]) : pc[v] \in Signalling

IInv == Types /\ Locals /\ Counts /\ LiveInv /\ BytesInv /\ CeilingInv /\ GateInv

-----------------------------------------------------------------------------
(* Counting. *)

\* A set that may differ at one element.
LEMMA SetMoves ==
    ASSUME NEW A, NEW B, NEW w, IsFiniteSet(A), A \ {w} = B \ {w}
    PROVE  /\ IsFiniteSet(B)
           /\ Cardinality(A) \in Nat /\ Cardinality(B) \in Nat
           /\ (w \in A <=> w \in B) => Cardinality(B) = Cardinality(A)
           /\ w \in A /\ w \notin B => Cardinality(B) = Cardinality(A) - 1
           /\ w \notin A /\ w \in B => Cardinality(B) = Cardinality(A) + 1
<1>1. CASE w \in A /\ w \in B
  <2>1. A = B
    BY <1>1, SMT
  <2>2. QED
    BY <1>1, <2>1, FS_CardinalityType
<1>2. CASE w \notin A /\ w \notin B
  <2>1. A = B
    BY <1>2, SMT
  <2>2. QED
    BY <1>2, <2>1, FS_CardinalityType
<1>3. CASE w \in A /\ w \notin B
  <2>1. B = A \ {w}
    BY <1>3
  <2>2. QED
    BY <1>3, <2>1, FS_CardinalityType, FS_RemoveElement
<1>4. CASE w \notin A /\ w \in B
  <2>1. B = A \cup {w}
    BY <1>4
  <2>2. QED
    BY <1>4, <2>1, FS_CardinalityType, FS_AddElement
<1>5. QED
  BY <1>1, <1>2, <1>3, <1>4

\* The units of one worker.
LEMMA Piece ==
    ASSUME NEW w, NEW k \in Nat
    PROVE  IsFiniteSet({w} \X (1..k)) /\ Cardinality({w} \X (1..k)) = k
<1>1. IsFiniteSet({w}) /\ Cardinality({w}) = 1
  BY FS_Singleton
<1>2. IsFiniteSet(1..k) /\ Cardinality(1..k) = k
  BY FS_Interval, SMT
<1>3. /\ IsFiniteSet({w} \X (1..k))
      /\ Cardinality({w} \X (1..k)) = Cardinality({w}) * Cardinality(1..k)
  BY <1>1, <1>2, FS_Product
<1>4. QED
  BY <1>1, <1>2, <1>3, SMT

\* A unit belongs to one worker.
LEMMA UnitOwner ==
    ASSUME NEW f, NEW x
    PROVE  x \in UnitsOf(f) <=> \E w \in Workers : x \in {w} \X (1..f[w])
BY DEF UnitsOf

\* When only one worker's holding changes, the sum changes by the difference.
LEMMA Weight ==
    ASSUME NEW f \in [Workers -> Nat], NEW g \in [Workers -> Nat], NEW w \in Workers,
           \A v \in Workers : v # w => g[v] = f[v], IsFiniteSet(UnitsOf(f))
    PROVE  /\ IsFiniteSet(UnitsOf(g))
           /\ Cardinality(UnitsOf(f)) \in Nat /\ Cardinality(UnitsOf(g)) \in Nat
           /\ f[w] <= Cardinality(UnitsOf(f))
           /\ Cardinality(UnitsOf(g)) = Cardinality(UnitsOf(f)) - f[w] + g[w]
<1> DEFINE rest == UNION {{v} \X (1..f[v]) : v \in Workers \ {w}}
           F == {w} \X (1..f[w])
           G == {w} \X (1..g[w])
<1>1. UnitsOf(f) = rest \cup F
  BY DEF UnitsOf
<1>2. UnitsOf(g) = rest \cup G
  <2>1. UNION {{v} \X (1..g[v]) : v \in Workers \ {w}} = rest
    OBVIOUS
  <2>2. UnitsOf(g) = (UNION {{v} \X (1..g[v]) : v \in Workers \ {w}}) \cup G
    BY DEF UnitsOf
  <2>3. QED
    BY <2>1, <2>2
<1>3. rest \cap F = {} /\ rest \cap G = {}
  BY SMT
<1>4. IsFiniteSet(rest) /\ Cardinality(rest) \in Nat
  BY <1>1, FS_Subset, FS_CardinalityType
<1>5. /\ IsFiniteSet(F) /\ Cardinality(F) = f[w]
      /\ IsFiniteSet(G) /\ Cardinality(G) = g[w]
  BY Piece
<1>6. Cardinality(rest \cup F) = Cardinality(rest) + f[w]
  <2>1. Cardinality(rest \cap F) = 0
    BY <1>3, FS_EmptySet
  <2> HIDE DEF rest, F
  <2>2. /\ IsFiniteSet(rest \cup F)
        /\ Cardinality(rest \cup F) = Cardinality(rest) + Cardinality(F) - Cardinality(rest \cap F)
    BY <1>4, <1>5, FS_Union
  <2>3. QED
    BY <1>4, <1>5, <2>1, <2>2, SMT
<1>7. IsFiniteSet(rest \cup G) /\ Cardinality(rest \cup G) = Cardinality(rest) + g[w]
  <2>1. Cardinality(rest \cap G) = 0
    BY <1>3, FS_EmptySet
  <2> HIDE DEF rest, G
  <2>2. /\ IsFiniteSet(rest \cup G)
        /\ Cardinality(rest \cup G) = Cardinality(rest) + Cardinality(G) - Cardinality(rest \cap G)
    BY <1>4, <1>5, FS_Union
  <2>3. QED
    BY <1>4, <1>5, <2>1, <2>2, SMT
<1> HIDE DEF rest, F, G
<1>8. QED
  BY <1>1, <1>2, <1>4, <1>6, <1>7, SMT

\* No unit at all.
LEMMA NoUnits ==
    ASSUME NEW f \in [Workers -> Nat]
    PROVE  /\ (\A w \in Workers : f[w] = 0) => UnitsOf(f) = {}
           /\ IsFiniteSet(UnitsOf(f)) /\ Cardinality(UnitsOf(f)) = 0 => \A w \in Workers : f[w] = 0
<1>1. (\A w \in Workers : f[w] = 0) => UnitsOf(f) = {}
  BY SMT DEF UnitsOf
<1>2. ASSUME IsFiniteSet(UnitsOf(f)), Cardinality(UnitsOf(f)) = 0, NEW w \in Workers, f[w] # 0
      PROVE  FALSE
  <2>1. UnitsOf(f) = {}
    BY <1>2, FS_EmptySet
  <2>2. <<w, 1>> \in {w} \X (1..f[w])
    BY <1>2, SMT
  <2>3. QED
    BY <2>1, <2>2, UnitOwner
<1>3. QED
  BY <1>1, <1>2

-----------------------------------------------------------------------------
(* Steps of one worker. *)

\* A step of w leaves the other workers where they are, or wakes them.
Moves(w) ==
    \A v \in Workers : v # w => /\ pc'[v] = pc[v] \/ (pc[v] = "asleep" /\ pc'[v] = "awake")
                                /\ obj'[v] = obj[v] /\ grp'[v] = grp[v] /\ res'[v] = res[v]

\* The steps at which workers are counted: a sleeping worker and a woken one are not told apart.
StepSets == {InSlot, InPool, Decoding, Queued, Reserved, {"count"}}

\* How the number of workers at some steps changes.
LEMMA Counted ==
    ASSUME NEW w \in Workers, Moves(w), NEW S \in StepSets
    PROVE  /\ Cardinality(At(S)) \in Nat
           /\ pc[w] \in S /\ pc'[w] \in S => Cardinality(At(S)') = Cardinality(At(S))
           /\ pc[w] \notin S /\ pc'[w] \notin S => Cardinality(At(S)') = Cardinality(At(S))
           /\ pc[w] \in S /\ pc'[w] \notin S => Cardinality(At(S)') = Cardinality(At(S)) - 1
           /\ pc[w] \notin S /\ pc'[w] \in S => Cardinality(At(S)') = Cardinality(At(S)) + 1
<1>1. "asleep" \in S <=> "awake" \in S
  BY DEF StepSets, InSlot, InPool, Decoding, Queued, Locked, Reserved, Signalling
<1>2. At(S) \ {w} = At(S)' \ {w}
  BY <1>1 DEF Moves, At
<1>3. IsFiniteSet(At(S))
  BY ConstantsAssumption, FS_Subset DEF ConstantsAssumption, At
<1>4. (w \in At(S) <=> pc[w] \in S) /\ (w \in At(S)' <=> pc'[w] \in S)
  BY DEF At
<1>5. QED
  BY <1>2, <1>3, <1>4, SetMoves

\* The same for the workers of one query.
LEMMA CountedQ ==
    ASSUME NEW w \in Workers, Moves(w), NEW S \in StepSets, NEW q \in Queries
    PROVE  /\ IsFiniteSet(AtQ(q, S)) /\ Cardinality(AtQ(q, S)) \in Nat
           /\ q # QueryOf[w] => AtQ(q, S)' = AtQ(q, S)
           /\ pc[w] \in S /\ pc'[w] \in S => Cardinality(AtQ(q, S)') = Cardinality(AtQ(q, S))
           /\ pc[w] \notin S /\ pc'[w] \notin S => Cardinality(AtQ(q, S)') = Cardinality(AtQ(q, S))
           /\ pc[w] \in S /\ pc'[w] \notin S /\ q = QueryOf[w] =>
                 Cardinality(AtQ(q, S)') = Cardinality(AtQ(q, S)) - 1
           /\ pc[w] \notin S /\ pc'[w] \in S /\ q = QueryOf[w] =>
                 Cardinality(AtQ(q, S)') = Cardinality(AtQ(q, S)) + 1
<1>1. "asleep" \in S <=> "awake" \in S
  BY DEF StepSets, InSlot, InPool, Decoding, Queued, Locked, Reserved, Signalling
<1>2. AtQ(q, S) \ {w} = AtQ(q, S)' \ {w}
  BY <1>1 DEF Moves, AtQ, Of
<1>3. IsFiniteSet(AtQ(q, S)) /\ Cardinality(AtQ(q, S)) \in Nat
  BY ConstantsAssumption, FS_Subset, FS_CardinalityType DEF ConstantsAssumption, AtQ, Of
<1>4. /\ w \in AtQ(q, S) <=> pc[w] \in S /\ q = QueryOf[w]
      /\ w \in AtQ(q, S)' <=> pc'[w] \in S /\ q = QueryOf[w]
  BY DEF AtQ, Of
<1>5. q # QueryOf[w] => AtQ(q, S)' = AtQ(q, S)
  BY <1>2, <1>4, SMT
<1>6. QED
  BY <1>2, <1>3, <1>4, <1>5, SetMoves

\* What a worker needs and holds are numbers.
LEMMA Sizes ==
    ASSUME Types, Locals, NEW w \in Workers
    PROVE  /\ pc[w] \in Busy => Need(w) \in Nat \ {0}
           /\ pc[w] \in InPool => FileCharge(obj[w]) \in Nat \ {0} /\ Plan[obj[w]] \in Nat /\ Resident(w) \in Nat
           /\ pc[w] \in InPool => FileCharge(obj[w]) <= MaxResident /\ FileCharge(obj[w]) <= Resident(w)
<1>1. Local(w)
  BY DEF Locals
<1>2. pc[w] \in Busy => Need(w) \in Nat \ {0}
  <2> SUFFICES ASSUME pc[w] \in Busy PROVE Need(w) \in Nat \ {0}
    OBVIOUS
  <2>1. obj[w] \in Objects /\ grp[w] \in 1..Len(Groups[obj[w]])
    BY <1>1 DEF Local, Busy, InSlot, InPool
  <2>2. Groups[obj[w]] \in Seq(Nat \ {0})
    BY <2>1, ConstantsAssumption DEF ConstantsAssumption
  <2>3. QED
    BY <2>1, <2>2, SMT DEF Need
<1>3. pc[w] \in InPool => /\ FileCharge(obj[w]) \in Nat \ {0} /\ Plan[obj[w]] \in Nat
                          /\ FileCharge(obj[w]) <= MaxResident
  BY <1>1, ConstantsAssumption, SMT DEF ConstantsAssumption, Local, InSlot, FileCharge
<1>4. QED
  BY <1>2, <1>3, SMT DEF Resident

\* The holdings of the workers are numbers of units.
LEMMA Holdings ==
    ASSUME Types, Locals, NEW q
    PROVE  /\ HeldLive(q) \in [Workers -> Nat]
           /\ HeldFile \in [Workers -> Nat]
           /\ HeldAdmission \in [Workers -> Nat]
<1>1. \A w \in Workers : pc[w] \in Reserved => Need(w) \in Nat
  BY Sizes DEF Busy
<1>2. \A w \in Workers : pc[w] \in InPool => FileCharge(obj[w]) \in Nat /\ Resident(w) \in Nat
  BY Sizes
<1>3. QED
  BY <1>1, <1>2 DEF HeldLive, HeldFile, HeldAdmission

\* A step of w changes no other worker's holdings.
LEMMA HoldingsMove ==
    ASSUME NEW w \in Workers, Moves(w), NEW v \in Workers, v # w, NEW q
    PROVE  /\ HeldLive(q)'[v] = HeldLive(q)[v]
           /\ HeldFile'[v] = HeldFile[v]
           /\ HeldAdmission'[v] = HeldAdmission[v]
<1>1. /\ pc'[v] \in Reserved <=> pc[v] \in Reserved
      /\ pc'[v] \in InPool <=> pc[v] \in InPool
  BY DEF Moves, InPool, Queued, Locked, Reserved, Signalling
<1>2. obj'[v] = obj[v] /\ grp'[v] = grp[v]
  BY DEF Moves
<1>3. QED
  BY <1>1, <1>2 DEF HeldLive, HeldFile, HeldAdmission, Need, Resident, FileCharge

-----------------------------------------------------------------------------
(* What each step of a worker does to what the invariant is about. *)

\* A worker takes an object from the channel, or is done.
LEMMA NextObjectFacts ==
    ASSUME Types, Locals, NEW w \in Workers, NextObject(w)
    PROVE  /\ Moves(w) /\ pc[w] = "next"
           /\ \/ pc'[w] = "done" /\ obj' = obj
              \/ pc'[w] = "slot" /\ obj'[w] \in Objects
           /\ UNCHANGED <<grp, res, live, waiters, ceiling, rows, slots, outBytes, outCount,
                          decoding>>
<1>1. QueryOf[w] \in Queries
  BY ConstantsAssumption DEF ConstantsAssumption
<1>2. todo[QueryOf[w]] # <<>> => Head(todo[QueryOf[w]]) \in Objects
  BY <1>1, SMT DEF Types, QueryTypes
<1>3. \/ pc' = [pc EXCEPT ![w] = "done"] /\ obj' = obj
      \/ /\ pc' = [pc EXCEPT ![w] = "slot"]
         /\ obj' = [obj EXCEPT ![w] = Head(todo[QueryOf[w]])] /\ todo[QueryOf[w]] # <<>>
  BY DEF NextObject
<1>4. UNCHANGED <<grp, res, live, waiters, ceiling, rows, slots, outBytes, outCount, decoding>>
  BY DEF NextObject, gateVars, poolVars
<1>5. pc[w] = "next"
  BY DEF NextObject
<1>6. QED
  BY <1>2, <1>3, <1>4, <1>5 DEF Types, WorkerTypes, Moves

\* A worker gets a file-worker slot, or its context has ended.
LEMMA TakeSlotFacts ==
    ASSUME Types, Locals, NEW w \in Workers, TakeSlot(w)
    PROVE  /\ Moves(w) /\ pc[w] = "slot"
           /\ \/ pc'[w] = "done" /\ slots' = slots
              \/ pc'[w] = "budget" /\ slots' = slots + 1 /\ slots' <= FileSlots
           /\ UNCHANGED <<obj, grp, res, live, waiters, ceiling, rows, outBytes, outCount,
                          decoding>>
BY ConstantsAssumption, SMT DEF ConstantsAssumption, Types, WorkerTypes, PoolTypes, Moves, TakeSlot, FileSlotsLeft, gateVars, queryVars, poolVars

\* An object is admitted to the file budget, or its context has ended.
LEMMA TakeBudgetFacts ==
    ASSUME Types, Locals, NEW w \in Workers, TakeBudget(w)
    PROVE  /\ Moves(w) /\ pc[w] = "budget"
           /\ \/ /\ pc'[w] \in {"next", "done"} /\ slots' = slots - 1 /\ outBytes' = outBytes
                 /\ outCount' = outCount /\ grp'[w] = 0 /\ res'[w] = "none"
              \/ /\ pc'[w] = "open"
                 /\ outBytes' = outBytes + FileCharge(obj[w]) /\ outCount' = outCount + 1 /\ Admits(obj[w])
                 /\ slots' = slots /\ obj' = obj /\ grp' = grp /\ res' = res
           /\ UNCHANGED <<live, waiters, ceiling, rows, decoding>>
BY ConstantsAssumption, SMT DEF ConstantsAssumption, Types, WorkerTypes, GateTypes, QueryTypes, PoolTypes, Moves, TakeBudget, EndObject, gateVars, queryVars, poolVars

\* An object is opened with its planned ranges charged, or it is not.
LEMMA OpenFacts ==
    ASSUME Types, Locals, NEW w \in Workers, Open(w)
    PROVE  /\ Moves(w) /\ pc[w] = "open"
           /\ \/ pc'[w] = "group" /\ grp'[w] = 1 /\ outBytes' = outBytes + Plan[obj[w]] /\ res' = res
              \/ pc'[w] = "close" /\ grp' = grp /\ outBytes' = outBytes /\ res'[w] = "failed"
           /\ UNCHANGED <<obj, live, waiters, ceiling, rows, slots, outCount, decoding>>
<1>1. /\ pc[w] = "open"
      /\ \/ /\ pc' = [pc EXCEPT ![w] = "group"] /\ grp' = [grp EXCEPT ![w] = 1]
            /\ outBytes' = outBytes + Plan[obj[w]] /\ res' = res
         \/ /\ pc' = [pc EXCEPT ![w] = "close"] /\ res' = [res EXCEPT ![w] = "failed"]
            /\ grp' = grp /\ outBytes' = outBytes
  BY DEF Open
<1>2. UNCHANGED <<obj, live, waiters, ceiling, rows, slots, outCount, decoding>>
  BY DEF Open, gateVars, queryVars
<1>3. QED
  BY <1>1, <1>2 DEF Types, WorkerTypes, Moves

\* The next row group, or the end of the object.
LEMMA NextGroupFacts ==
    ASSUME Types, Locals, NEW w \in Workers, NextGroup(w)
    PROVE  /\ Moves(w) /\ pc[w] = "group"
           /\ \/ pc'[w] = "close"
              \/ pc'[w] = "reserve" /\ grp[w] <= Len(Groups[obj[w]])
           /\ UNCHANGED <<obj, grp, res, live, waiters, ceiling, rows, slots, outBytes,
                          outCount, decoding>>
BY ConstantsAssumption, SMT DEF ConstantsAssumption, Types, WorkerTypes, GateTypes, QueryTypes, PoolTypes, Moves, NextGroup, gateVars, queryVars, poolVars

\* A row group's bytes are reserved, or the worker is to wait.
LEMMA TryReserveFacts ==
    ASSUME Types, Locals, NEW w \in Workers, TryReserve(w)
    PROVE  /\ Moves(w) /\ pc[w] = "reserve"
           /\ \/ pc'[w] = "decode" /\ Fits(QueryOf[w], Need(w)) /\ live' = [live EXCEPT ![QueryOf[w]] = @ + Need(w)]
              \/ pc'[w] = "lock" /\ live' = live
           /\ UNCHANGED <<obj, grp, res, waiters, ceiling, rows, slots, outBytes, outCount,
                          decoding>>
BY ConstantsAssumption, SMT DEF ConstantsAssumption, Types, WorkerTypes, GateTypes, QueryTypes, PoolTypes, Moves, TryReserve, gateVars, queryVars, poolVars

\* A waiter counts itself under the mutex.
LEMMA LockFacts ==
    ASSUME Types, Locals, NEW w \in Workers, Lock(w)
    PROVE  /\ Moves(w) /\ pc[w] = "lock"
           /\ pc'[w] = "try" /\ waiters' = [waiters EXCEPT ![QueryOf[w]] = @ + 1]
           /\ UNCHANGED <<obj, grp, res, live, ceiling, rows, slots, outBytes, outCount,
                          decoding>>
BY ConstantsAssumption DEF ConstantsAssumption, Types, WorkerTypes, GateTypes, QueryTypes, PoolTypes, Moves, Lock, gateVars, queryVars, poolVars

\* A waiter tries again under the mutex.
LEMMA RetryFacts ==
    ASSUME Types, Locals, NEW w \in Workers, Retry(w)
    PROVE  /\ Moves(w) /\ pc[w] = "try"
           /\ \/ /\ pc'[w] = "decode"
                 /\ Fits(QueryOf[w], Need(w)) /\ live' = [live EXCEPT ![QueryOf[w]] = @ + Need(w)]
                 /\ waiters' = [waiters EXCEPT ![QueryOf[w]] = @ - 1]
              \/ pc'[w] = "wait" /\ ~Fits(QueryOf[w], Need(w)) /\ live' = live /\ waiters' = waiters
           /\ UNCHANGED <<obj, grp, res, ceiling, rows, slots, outBytes, outCount, decoding>>
BY ConstantsAssumption, SMT DEF ConstantsAssumption, Types, WorkerTypes, GateTypes, QueryTypes, PoolTypes, Moves, Retry, gateVars, queryVars, poolVars

\* A waiter gives up or sleeps.
LEMMA WaitFacts ==
    ASSUME Types, Locals, NEW w \in Workers, Wait(w)
    PROVE  /\ Moves(w) /\ pc[w] = "wait"
           /\ \/ pc'[w] = "close" /\ waiters' = [waiters EXCEPT ![QueryOf[w]] = @ - 1]
              \/ pc'[w] = "asleep" /\ waiters' = waiters
           /\ UNCHANGED <<obj, grp, res, live, ceiling, rows, slots, outBytes, outCount,
                          decoding>>
BY ConstantsAssumption, SMT DEF ConstantsAssumption, Types, WorkerTypes, GateTypes, QueryTypes, PoolTypes, Moves, Wait, gateVars, queryVars, poolVars

\* A woken waiter has the mutex again.
LEMMA RelockFacts ==
    ASSUME Types, Locals, NEW w \in Workers, Relock(w)
    PROVE  /\ Moves(w) /\ pc[w] = "awake"
           /\ pc'[w] = "try"
           /\ UNCHANGED <<obj, grp, res, live, waiters, ceiling, rows, slots, outBytes,
                          outCount, decoding>>
BY ConstantsAssumption DEF ConstantsAssumption, Types, WorkerTypes, GateTypes, QueryTypes, PoolTypes, Moves, Relock, gateVars, queryVars, poolVars

\* A row group's bytes are released.
LEMMA FreeFacts ==
    ASSUME Types, Locals, NEW w \in Workers, Free(w)
    PROVE  /\ Moves(w) /\ pc[w] = "free"
           /\ pc'[w] = "signal" /\ live' = [live EXCEPT ![QueryOf[w]] = @ - Need(w)]
           /\ UNCHANGED <<obj, grp, res, waiters, ceiling, rows, slots, outBytes, outCount,
                          decoding>>
BY ConstantsAssumption DEF ConstantsAssumption, Types, WorkerTypes, GateTypes, QueryTypes, PoolTypes, Moves, Free, gateVars, queryVars, poolVars

\* The releaser looks for waiters.
LEMMA SignalFacts ==
    ASSUME Types, Locals, NEW w \in Workers, Signal(w)
    PROVE  /\ Moves(w) /\ pc[w] = "signal"
           /\ \/ pc'[w] = "wake" /\ grp' = grp
              \/ /\ pc'[w] \in {"group", "close"}
                 /\ grp'[w] = grp[w] + 1 /\ waiters[QueryOf[w]] <= 0
                 /\ res[w] = "failed" => pc'[w] = "close"
           /\ UNCHANGED <<obj, res, live, waiters, ceiling, rows, slots, outBytes, outCount,
                          decoding>>
BY ConstantsAssumption, SMT DEF ConstantsAssumption, Types, WorkerTypes, GateTypes, QueryTypes, PoolTypes, Moves, Signal, AfterGroup, gateVars, queryVars, poolVars

\* The releaser wakes the waiters of its query.
LEMMA WakeFacts ==
    ASSUME Types, Locals, NEW w \in Workers, Wake(w)
    PROVE  /\ Moves(w) /\ pc[w] = "wake"
           /\ pc'[w] \in {"group", "close"} /\ grp'[w] = grp[w] + 1 /\ (res[w] = "failed" => pc'[w] = "close")
           /\ UNCHANGED <<obj, res, live, waiters, ceiling, rows, slots, outBytes, outCount,
                          decoding>>
BY ConstantsAssumption DEF ConstantsAssumption, Types, WorkerTypes, GateTypes, QueryTypes, PoolTypes, Moves, Wake, AfterGroup, Broadcast, gateVars, queryVars, poolVars

\* A decoder slot, or the end of the context.
LEMMA TakeDecoderFacts ==
    ASSUME Types, Locals, NEW w \in Workers, TakeDecoder(w)
    PROVE  /\ Moves(w) /\ pc[w] = "decode"
           /\ \/ pc'[w] = "read" /\ decoding < Decoders /\ decoding' = decoding + 1 /\ res' = res
              \/ pc'[w] = "free" /\ decoding' = decoding
           /\ UNCHANGED <<obj, grp, live, waiters, ceiling, rows, slots, outBytes, outCount>>
<1>1. pc \in [Workers -> Steps] /\ res \in [Workers -> {"none", "failed"}]
  BY DEF Types, WorkerTypes
<1>2. UNCHANGED <<obj, grp, live, waiters, ceiling, rows, slots, outBytes, outCount>>
  BY DEF TakeDecoder, gateVars, queryVars
<1>3. Moves(w) /\ pc[w] = "decode"
  BY <1>1, <1>2 DEF TakeDecoder, Moves
<1>4. QED
  BY <1>1, <1>2, <1>3 DEF TakeDecoder

\* The row group is decoded, or the read fails.
LEMMA ReadFacts ==
    ASSUME Types, Locals, NEW w \in Workers, Read(w)
    PROVE  /\ Moves(w) /\ pc[w] = "read"
           /\ \/ pc'[w] = "filter" /\ decoding' = decoding /\ res' = res
              \/ pc'[w] = "free" /\ decoding' = decoding - 1
           /\ UNCHANGED <<obj, grp, live, waiters, ceiling, rows, slots, outBytes, outCount>>
<1>1. pc \in [Workers -> Steps] /\ res \in [Workers -> {"none", "failed"}]
  BY DEF Types, WorkerTypes
<1>2. UNCHANGED <<obj, grp, live, waiters, ceiling, rows, slots, outBytes, outCount>>
  BY DEF Read, gateVars, queryVars
<1>3. Moves(w) /\ pc[w] = "read"
  BY <1>1, <1>2 DEF Read, Moves
<1>4. QED
  BY <1>1, <1>2, <1>3 DEF Read

\* The block is dropped or goes on.
LEMMA PreFilterFacts ==
    ASSUME Types, Locals, NEW w \in Workers, PreFilter(w)
    PROVE  /\ Moves(w) /\ pc[w] = "filter"
           /\ \/ pc'[w] = "free" /\ decoding' = decoding - 1
              \/ pc'[w] = "count" /\ decoding' = decoding /\ ~AtCeiling(QueryOf[w])
           /\ UNCHANGED <<obj, grp, res, live, waiters, ceiling, rows, slots, outBytes, outCount>>
BY ConstantsAssumption, SMT DEF ConstantsAssumption, Types, WorkerTypes, GateTypes, QueryTypes, PoolTypes, Moves, PreFilter, gateVars, queryVars, poolVars

\* The block is counted.
LEMMA CountRowsFacts ==
    ASSUME Types, Locals, NEW w \in Workers, CountRows(w)
    PROVE  /\ Moves(w) /\ pc[w] = "count"
           /\ pc'[w] = "write" /\ rows' = [rows EXCEPT ![QueryOf[w]] = @ + 1]
           /\ UNCHANGED <<obj, grp, res, live, waiters, ceiling, slots, outBytes, outCount,
                          decoding>>
BY ConstantsAssumption DEF ConstantsAssumption, Types, WorkerTypes, GateTypes, QueryTypes, PoolTypes, Moves, CountRows, gateVars, queryVars, poolVars

\* The consumer takes the block or panics.
LEMMA WriteBlockFacts ==
    ASSUME Types, Locals, NEW w \in Workers, WriteBlock(w)
    PROVE  /\ Moves(w) /\ pc[w] = "write"
           /\ pc'[w] = "free" /\ decoding' = decoding - 1
           /\ UNCHANGED <<obj, grp, res, live, waiters, ceiling, rows, slots, outBytes, outCount>>
BY ConstantsAssumption DEF ConstantsAssumption, Types, WorkerTypes, GateTypes, QueryTypes, PoolTypes, Moves, WriteBlock, gateVars, queryVars, poolVars

\* The object ends and gives back what it held.
LEMMA CloseFacts ==
    ASSUME Types, Locals, NEW w \in Workers, Close(w)
    PROVE  /\ Moves(w) /\ pc[w] = "close"
           /\ pc'[w] \in {"next", "done"}
           /\ outBytes' = outBytes - Resident(w) /\ outCount' = outCount - 1 /\ slots' = slots - 1
           /\ grp'[w] = 0 /\ res'[w] = "none"
           /\ UNCHANGED <<live, waiters, ceiling, rows, decoding>>
BY ConstantsAssumption DEF ConstantsAssumption, Types, WorkerTypes, GateTypes, QueryTypes, PoolTypes, Moves, Close, EndObject, gateVars, queryVars, poolVars

-----------------------------------------------------------------------------
(* Types and places. *)

\* The steps of a worker are among the known ones.
LEMMA StepNames == Steps = {"next", "slot", "budget", "open", "group", "reserve", "lock", "close", "done",
                            "decode", "read", "filter", "count", "write", "free",
                            "try", "wait", "asleep", "awake", "signal", "wake"}
BY DEF Steps, Reserved, Queued, Locked, Signalling

\* Every step keeps the types.
LEMMA TypesStep == Types /\ Locals /\ [Next]_vars => Types'
<1> SUFFICES ASSUME Types, Locals, [Next]_vars PROVE Types'
  OBVIOUS
<1>q. \A w \in Workers : QueryOf[w] \in Queries
  BY ConstantsAssumption DEF ConstantsAssumption
<1> USE DEF Types
<1>1. ASSUME NEW w \in Workers, NextObject(w) PROVE Types'
  <2>1. WorkerTypes'
    <3>1. todo[QueryOf[w]] # <<>> => Head(todo[QueryOf[w]]) \in Objects
      BY <1>q, SMT DEF QueryTypes
    <3>2. QED
      BY <1>1, <3>1, StepNames DEF NextObject, WorkerTypes
  <2>2. QueryTypes'
    <3>1. todo[QueryOf[w]] # <<>> => Tail(todo[QueryOf[w]]) \in Seq(Objects)
      BY <1>q, SMT DEF QueryTypes
    <3>2. todo' \in [Queries -> Seq(Objects)]
      BY <1>1, <1>q, <3>1 DEF NextObject, QueryTypes
    <3>3. QED
      BY <1>1, <3>2 DEF NextObject, QueryTypes
  <2>3. FlagTypes'
    BY <1>1, <1>q DEF NextObject, FlagTypes, workerVars, gateVars, queryVars, poolVars
  <2>4. GateTypes' /\ PoolTypes'
    BY <1>1 DEF NextObject, GateTypes, PoolTypes, workerVars, gateVars, queryVars, poolVars
  <2>5. QED
    BY <2>1, <2>2, <2>3, <2>4
<1>2. ASSUME NEW w \in Workers, TakeSlot(w) PROVE Types'
  <2>1. WorkerTypes'
    BY <1>2, <1>q, StepNames DEF TakeSlot, WorkerTypes, workerVars, gateVars, queryVars, poolVars
  <2>2. FlagTypes'
    BY <1>2, <1>q DEF TakeSlot, FlagTypes, workerVars, gateVars, queryVars, poolVars
  <2>3. PoolTypes'
    BY <1>2, <1>q, SMT DEF TakeSlot, PoolTypes, workerVars, gateVars, queryVars, poolVars
  <2>4. GateTypes' /\ QueryTypes'
    BY <1>2 DEF TakeSlot, GateTypes, QueryTypes, workerVars, gateVars, queryVars, poolVars
  <2>5. QED
    BY <2>1, <2>2, <2>3, <2>4
<1>3. ASSUME NEW w \in Workers, TakeBudget(w) PROVE Types'
  <2>l. pc[w] \in InSlot /\ obj[w] \in Objects
    BY <1>3 DEF TakeBudget, Locals, Local, InSlot, InPool, Reserved
  <2>m. FileCharge(obj[w]) \in Int /\ Plan[obj[w]] \in Int /\ Resident(w) \in Int
    BY <2>l, ConstantsAssumption, SMT DEF ConstantsAssumption, FileCharge, Resident
  <2>1. WorkerTypes'
    BY <1>3, <1>q, StepNames, SMT DEF TakeBudget, EndObject, WorkerTypes, workerVars, gateVars, queryVars, poolVars
  <2>2. FlagTypes'
    BY <1>3, <1>q, <2>l, <2>m DEF TakeBudget, EndObject, FlagTypes, workerVars, gateVars, queryVars, poolVars
  <2>3. PoolTypes'
    BY <1>3, <1>q, <2>l, <2>m, SMT DEF TakeBudget, EndObject, PoolTypes, workerVars, gateVars, queryVars, poolVars
  <2>4. GateTypes' /\ QueryTypes'
    BY <1>3 DEF TakeBudget, EndObject, GateTypes, QueryTypes, workerVars, gateVars, queryVars, poolVars
  <2>5. QED
    BY <2>1, <2>2, <2>3, <2>4
<1>4. ASSUME NEW w \in Workers, Open(w) PROVE Types'
  <2>l. pc[w] \in InSlot /\ obj[w] \in Objects
    BY <1>4 DEF Open, Locals, Local, InSlot, InPool, Reserved
  <2>m. FileCharge(obj[w]) \in Int /\ Plan[obj[w]] \in Int /\ Resident(w) \in Int
    BY <2>l, ConstantsAssumption, SMT DEF ConstantsAssumption, FileCharge, Resident
  <2>1. WorkerTypes'
    BY <1>4, <1>q, StepNames, SMT DEF Open, WorkerTypes, workerVars, gateVars, queryVars, poolVars
  <2>2. PoolTypes'
    BY <1>4, <1>q, <2>l, <2>m, SMT DEF Open, PoolTypes, workerVars, gateVars, queryVars, poolVars
  <2>3. GateTypes' /\ QueryTypes' /\ FlagTypes'
    BY <1>4 DEF Open, GateTypes, QueryTypes, FlagTypes, workerVars, gateVars, queryVars, poolVars
  <2>4. QED
    BY <2>1, <2>2, <2>3
<1>5. ASSUME NEW w \in Workers, NextGroup(w) PROVE Types'
  <2>1. WorkerTypes'
    BY <1>5, <1>q, StepNames DEF NextGroup, WorkerTypes, workerVars, gateVars, queryVars, poolVars
  <2>2. GateTypes' /\ QueryTypes' /\ FlagTypes' /\ PoolTypes'
    BY <1>5 DEF NextGroup, GateTypes, QueryTypes, FlagTypes, PoolTypes, workerVars, gateVars, queryVars, poolVars
  <2>3. QED
    BY <2>1, <2>2
<1>6. ASSUME NEW w \in Workers, TryReserve(w) PROVE Types'
  <2>m. Need(w) \in Int
    BY <1>6, Sizes, SMT DEF TryReserve, Busy, Reserved, Queued, Locked
  <2>1. WorkerTypes'
    BY <1>6, <1>q, StepNames DEF TryReserve, WorkerTypes, workerVars, gateVars, queryVars, poolVars
  <2>2. GateTypes'
    BY <1>6, <1>q, <2>m, SMT DEF TryReserve, GateTypes, workerVars, gateVars, queryVars, poolVars
  <2>3. QueryTypes' /\ FlagTypes' /\ PoolTypes'
    BY <1>6 DEF TryReserve, QueryTypes, FlagTypes, PoolTypes, workerVars, gateVars, queryVars, poolVars
  <2>4. QED
    BY <2>1, <2>2, <2>3
<1>7. ASSUME NEW w \in Workers, Lock(w) PROVE Types'
  <2>1. WorkerTypes'
    BY <1>7, <1>q, StepNames DEF Lock, WorkerTypes, workerVars, gateVars, queryVars, poolVars
  <2>2. GateTypes'
    BY <1>7, <1>q, SMT DEF Lock, GateTypes, workerVars, gateVars, queryVars, poolVars
  <2>3. QueryTypes' /\ FlagTypes' /\ PoolTypes'
    BY <1>7 DEF Lock, QueryTypes, FlagTypes, PoolTypes, workerVars, gateVars, queryVars, poolVars
  <2>4. QED
    BY <2>1, <2>2, <2>3
<1>8. ASSUME NEW w \in Workers, Retry(w) PROVE Types'
  <2>m. Need(w) \in Int
    <3>1. pc[w] \in Busy
      BY <1>8 DEF Retry, Busy, Queued, Locked
    <3>2. QED
      BY <3>1, Sizes, SMT
  <2>1. WorkerTypes'
    BY <1>8, <1>q, StepNames DEF Retry, WorkerTypes, workerVars, gateVars, queryVars, poolVars
  <2>2. GateTypes'
    BY <1>8, <1>q, <2>m, SMT DEF Retry, GateTypes, workerVars, gateVars, queryVars, poolVars
  <2>3. QueryTypes' /\ FlagTypes' /\ PoolTypes'
    BY <1>8 DEF Retry, QueryTypes, FlagTypes, PoolTypes, workerVars, gateVars, queryVars, poolVars
  <2>4. QED
    BY <2>1, <2>2, <2>3
<1>9. ASSUME NEW w \in Workers, Wait(w) PROVE Types'
  <2>1. WorkerTypes'
    BY <1>9, <1>q, StepNames DEF Wait, WorkerTypes, workerVars, gateVars, queryVars, poolVars
  <2>2. GateTypes'
    BY <1>9, <1>q, SMT DEF Wait, GateTypes, workerVars, gateVars, queryVars, poolVars
  <2>3. QueryTypes' /\ FlagTypes' /\ PoolTypes'
    BY <1>9 DEF Wait, QueryTypes, FlagTypes, PoolTypes, workerVars, gateVars, queryVars, poolVars
  <2>4. QED
    BY <2>1, <2>2, <2>3
<1>10. ASSUME NEW w \in Workers, Relock(w) PROVE Types'
  <2>1. WorkerTypes'
    BY <1>10, <1>q, StepNames DEF Relock, WorkerTypes, workerVars, gateVars, queryVars, poolVars
  <2>2. GateTypes' /\ QueryTypes' /\ FlagTypes' /\ PoolTypes'
    BY <1>10 DEF Relock, GateTypes, QueryTypes, FlagTypes, PoolTypes, workerVars, gateVars, queryVars, poolVars
  <2>3. QED
    BY <2>1, <2>2
<1>11. ASSUME NEW w \in Workers, TakeDecoder(w) PROVE Types'
  <2>1. WorkerTypes'
    BY <1>11, <1>q, StepNames DEF TakeDecoder, WorkerTypes, workerVars, gateVars, queryVars, poolVars
  <2>2. PoolTypes'
    <3>1. decoding' \in {decoding, decoding + 1} /\ UNCHANGED <<slots, outBytes, outCount>>
      BY <1>11 DEF TakeDecoder
    <3>2. QED
      BY <3>1, SMT DEF PoolTypes
  <2>3. GateTypes' /\ QueryTypes' /\ FlagTypes'
    BY <1>11 DEF TakeDecoder, GateTypes, QueryTypes, FlagTypes, workerVars, gateVars, queryVars, poolVars
  <2>4. QED
    BY <2>1, <2>2, <2>3
<1>12. ASSUME NEW w \in Workers, Read(w) PROVE Types'
  <2>1. WorkerTypes'
    BY <1>12, <1>q, StepNames DEF Read, WorkerTypes, workerVars, gateVars, queryVars, poolVars
  <2>2. PoolTypes'
    <3>1. decoding' \in {decoding, decoding - 1} /\ UNCHANGED <<slots, outBytes, outCount>>
      BY <1>12 DEF Read
    <3>2. QED
      BY <3>1, SMT DEF PoolTypes
  <2>3. GateTypes' /\ QueryTypes' /\ FlagTypes'
    BY <1>12 DEF Read, GateTypes, QueryTypes, FlagTypes, workerVars, gateVars, queryVars, poolVars
  <2>4. QED
    BY <2>1, <2>2, <2>3
<1>13. ASSUME NEW w \in Workers, PreFilter(w) PROVE Types'
  <2>1. WorkerTypes'
    BY <1>13, <1>q, StepNames DEF PreFilter, WorkerTypes, workerVars, gateVars, queryVars, poolVars
  <2>2. FlagTypes'
    BY <1>13, <1>q DEF PreFilter, FlagTypes, workerVars, gateVars, queryVars, poolVars
  <2>3. PoolTypes'
    <3>1. decoding' \in {decoding, decoding - 1} /\ UNCHANGED <<slots, outBytes, outCount>>
      BY <1>13 DEF PreFilter
    <3>2. QED
      BY <3>1, SMT DEF PoolTypes
  <2>4. GateTypes' /\ QueryTypes'
    BY <1>13 DEF PreFilter, GateTypes, QueryTypes, workerVars, gateVars, queryVars, poolVars
  <2>5. QED
    BY <2>1, <2>2, <2>3, <2>4
<1>14. ASSUME NEW w \in Workers, CountRows(w) PROVE Types'
  <2>1. WorkerTypes'
    BY <1>14, <1>q, StepNames DEF CountRows, WorkerTypes, workerVars, gateVars, queryVars, poolVars
  <2>2. QueryTypes'
    <3>1. rows' = [rows EXCEPT ![QueryOf[w]] = @ + 1] /\ UNCHANGED <<todo, ceiling, answer, got>>
      BY <1>14 DEF CountRows
    <3>2. rows' \in [Queries -> Nat]
      BY <1>q, <3>1, SMT DEF QueryTypes
    <3>3. QED
      BY <3>1, <3>2 DEF QueryTypes
  <2>3. GateTypes' /\ FlagTypes' /\ PoolTypes'
    BY <1>14 DEF CountRows, GateTypes, FlagTypes, PoolTypes, workerVars, gateVars, queryVars, poolVars
  <2>4. QED
    BY <2>1, <2>2, <2>3
<1>15. ASSUME NEW w \in Workers, WriteBlock(w) PROVE Types'
  <2>l. pc[w] \in InSlot /\ obj[w] \in Objects
    BY <1>15 DEF WriteBlock, Locals, Local, InSlot, InPool, Reserved
  <2>1. WorkerTypes'
    BY <1>15, <1>q, StepNames DEF WriteBlock, WorkerTypes, workerVars, gateVars, queryVars, poolVars
  <2>2. QueryTypes'
    <3>1. got[QueryOf[w]] \cup {<<obj[w], grp[w]>>} \in SUBSET (Objects \X Nat)
      BY <1>q, <2>l, SMT DEF QueryTypes, WorkerTypes
    <3>2. got' \in [Queries -> SUBSET (Objects \X Nat)]
      BY <1>15, <1>q, <3>1 DEF WriteBlock, QueryTypes
    <3>3. QED
      BY <1>15, <3>2 DEF WriteBlock, QueryTypes
  <2>3. FlagTypes'
    BY <1>15, <1>q, <2>l DEF WriteBlock, FlagTypes, workerVars, gateVars, queryVars, poolVars
  <2>4. PoolTypes'
    <3>1. decoding' = decoding - 1 /\ UNCHANGED <<slots, outBytes, outCount>>
      BY <1>15 DEF WriteBlock
    <3>2. QED
      BY <3>1, SMT DEF PoolTypes
  <2>5. GateTypes'
    BY <1>15 DEF WriteBlock, GateTypes, workerVars, gateVars, queryVars, poolVars
  <2>6. QED
    BY <2>1, <2>2, <2>3, <2>4, <2>5
<1>16. ASSUME NEW w \in Workers, Free(w) PROVE Types'
  <2>m. Need(w) \in Int
    BY <1>16, Sizes, SMT DEF Free, Busy, Reserved, Queued, Locked
  <2>1. WorkerTypes'
    BY <1>16, <1>q, StepNames DEF Free, WorkerTypes, workerVars, gateVars, queryVars, poolVars
  <2>2. GateTypes'
    BY <1>16, <1>q, <2>m, SMT DEF Free, GateTypes, workerVars, gateVars, queryVars, poolVars
  <2>3. QueryTypes' /\ FlagTypes' /\ PoolTypes'
    BY <1>16 DEF Free, QueryTypes, FlagTypes, PoolTypes, workerVars, gateVars, queryVars, poolVars
  <2>4. QED
    BY <2>1, <2>2, <2>3
<1>17. ASSUME NEW w \in Workers, Signal(w) PROVE Types'
  <2>1. WorkerTypes'
    <3>1. /\ \E x \in {"wake", "close", "group"} : pc' = [pc EXCEPT ![w] = x]
          /\ grp' = grp \/ grp' = [grp EXCEPT ![w] = @ + 1]
          /\ UNCHANGED <<obj, res, hook>>
      BY <1>17 DEF Signal, AfterGroup
    <3>2. grp' \in [Workers -> Nat]
      BY <3>1, SMT DEF WorkerTypes
    <3>3. pc' \in [Workers -> Steps]
      BY <3>1, StepNames DEF WorkerTypes
    <3>4. QED
      BY <3>1, <3>2, <3>3 DEF WorkerTypes
  <2>2. GateTypes' /\ QueryTypes' /\ FlagTypes' /\ PoolTypes'
    BY <1>17 DEF Signal, AfterGroup, GateTypes, QueryTypes, FlagTypes, PoolTypes, workerVars, gateVars, queryVars, poolVars
  <2>3. QED
    BY <2>1, <2>2
<1>18. ASSUME NEW w \in Workers, Wake(w) PROVE Types'
  <2>1. WorkerTypes'
    BY <1>18, <1>q, StepNames, SMT DEF Wake, AfterGroup, Broadcast, WorkerTypes, workerVars, gateVars, queryVars, poolVars
  <2>2. GateTypes' /\ QueryTypes' /\ FlagTypes' /\ PoolTypes'
    BY <1>18 DEF Wake, AfterGroup, Broadcast, GateTypes, QueryTypes, FlagTypes, PoolTypes, workerVars, gateVars, queryVars, poolVars
  <2>3. QED
    BY <2>1, <2>2
<1>19. ASSUME NEW w \in Workers, Close(w) PROVE Types'
  <2>l. pc[w] \in InSlot /\ obj[w] \in Objects
    BY <1>19 DEF Close, Locals, Local, InSlot, InPool, Reserved
  <2>m. FileCharge(obj[w]) \in Int /\ Plan[obj[w]] \in Int /\ Resident(w) \in Int
    BY <2>l, ConstantsAssumption, SMT DEF ConstantsAssumption, FileCharge, Resident
  <2>1. WorkerTypes'
    BY <1>19, <1>q, StepNames DEF Close, EndObject, WorkerTypes, workerVars, gateVars, queryVars, poolVars
  <2>2. FlagTypes'
    BY <1>19, <1>q, <2>l, <2>m DEF Close, EndObject, FlagTypes, workerVars, gateVars, queryVars, poolVars
  <2>3. PoolTypes'
    <3>1. /\ outBytes' = outBytes - Resident(w) /\ outCount' = outCount - 1
          /\ slots' = slots - 1 /\ UNCHANGED decoding
      BY <1>19 DEF Close, EndObject
    <3>2. QED
      BY <2>m, <3>1, SMT DEF PoolTypes
  <2>4. GateTypes' /\ QueryTypes'
    BY <1>19 DEF Close, EndObject, GateTypes, QueryTypes, workerVars, gateVars, queryVars, poolVars
  <2>5. QED
    BY <2>1, <2>2, <2>3, <2>4
<1>20. ASSUME NEW w \in Workers, ContextWake(w) PROVE Types'
  BY <1>20, StepNames DEF ContextWake, Broadcast, WorkerTypes, GateTypes, QueryTypes, FlagTypes, PoolTypes, gateVars, queryVars, poolVars
<1>21. ASSUME NEW q \in Queries, Answer(q) \/ GiveUp(q) PROVE Types'
  BY <1>21 DEF Answer, GiveUp, WorkerTypes, GateTypes, QueryTypes, FlagTypes, PoolTypes, workerVars, gateVars, poolVars
<1>22. CASE UNCHANGED vars
  BY <1>22 DEF WorkerTypes, GateTypes, QueryTypes, FlagTypes, PoolTypes, vars, workerVars, gateVars, queryVars, poolVars
<1> HIDE DEF Types
<1>23. QED
  BY <1>1, <1>2, <1>3, <1>4, <1>5, <1>6, <1>7, <1>8, <1>9, <1>10, <1>11, <1>12, <1>13, <1>14, <1>15,
     <1>16, <1>17, <1>18, <1>19, <1>20, <1>21, <1>22 DEF Next, WorkerStep

\* A worker that does not move, or is woken, keeps its place.
LEMMA LocalKeeps ==
    ASSUME NEW v \in Workers, Local(v), obj'[v] = obj[v], grp'[v] = grp[v], res'[v] = res[v],
           pc'[v] = pc[v] \/ (pc[v] = "asleep" /\ pc'[v] = "awake")
    PROVE  Local(v)'
<1>1. CASE pc'[v] = pc[v]
  BY <1>1 DEF Local
<1>2. CASE pc[v] = "asleep" /\ pc'[v] = "awake"
  <2>1. obj[v] \in Objects /\ grp[v] \in 1..Len(Groups[obj[v]]) /\ res[v] # "failed"
    BY <1>2 DEF Local, InSlot, InPool, Busy, Queued, Locked, Signalling
  <2>2. QED
    BY <1>2, <2>1 DEF Local
<1>3. QED
  BY <1>1, <1>2

\* Places a worker reaches from more than one.
LEMMA LocalAt ==
    ASSUME NEW w \in Workers, obj'[w] \in Objects,
           \/ pc'[w] = "close"
           \/ pc'[w] = "group" /\ grp'[w] >= 1 /\ res'[w] # "failed"
           \/ pc'[w] = "reserve" /\ grp'[w] \in 1..Len(Groups[obj'[w]]) /\ res'[w] # "failed"
           \/ pc'[w] = "wake" /\ grp'[w] \in 1..Len(Groups[obj'[w]])
    PROVE  Local(w)'
<1>1. CASE pc'[w] = "close"
  BY <1>1 DEF Local, Busy, Reserved, Queued, Locked, Signalling
<1>2. CASE pc'[w] = "group" /\ grp'[w] >= 1 /\ res'[w] # "failed"
  BY <1>2 DEF Local, Busy, Reserved, Queued, Locked, Signalling
<1>3. CASE pc'[w] = "reserve" /\ grp'[w] \in 1..Len(Groups[obj'[w]]) /\ res'[w] # "failed"
  BY <1>3 DEF Local
<1>4. CASE pc'[w] = "wake" /\ grp'[w] \in 1..Len(Groups[obj'[w]])
  BY <1>4 DEF Local, Signalling
<1>5. QED
  BY <1>1, <1>2, <1>3, <1>4

\* Every step keeps every worker in its place.
LEMMA LocalsStep == Types /\ Locals /\ [Next]_vars => Locals'
<1> SUFFICES ASSUME Types, Locals, [Next]_vars PROVE Locals'
  OBVIOUS
<1>a. ASSUME NEW w \in Workers, Moves(w), Local(w)' PROVE Locals'
  BY <1>a, LocalKeeps DEF Locals, Moves
<1>1. ASSUME NEW w \in Workers, NextObject(w) PROVE Locals'
  <2>1. Local(w)'
    BY <1>1, NextObjectFacts DEF Types, WorkerTypes, Locals, Local, InSlot, InPool, Busy, Reserved, Queued, Locked, Signalling
  <2>2. QED
    BY <1>1, <2>1, <1>a, NextObjectFacts
<1>2. ASSUME NEW w \in Workers, TakeSlot(w) PROVE Locals'
  <2>1. Local(w)'
    BY <1>2, TakeSlotFacts DEF Types, WorkerTypes, Locals, Local, InSlot, InPool, Busy, Reserved, Queued, Locked, Signalling
  <2>2. QED
    BY <1>2, <2>1, <1>a, TakeSlotFacts
<1>3. ASSUME NEW w \in Workers, TakeBudget(w) PROVE Locals'
  <2>1. Local(w)'
    BY <1>3, TakeBudgetFacts DEF Types, WorkerTypes, Locals, Local, InSlot, InPool, Busy, Reserved, Queued, Locked, Signalling
  <2>2. QED
    BY <1>3, <2>1, <1>a, TakeBudgetFacts
<1>4. ASSUME NEW w \in Workers, Open(w) PROVE Locals'
  <2>1. Local(w)'
    <3>1. Local(w) /\ pc[w] = "open" /\ obj' = obj
      BY <1>4, OpenFacts DEF Locals
    <3>2. obj[w] \in Objects /\ res[w] # "failed"
      BY <3>1 DEF Local, InSlot, InPool, Signalling
    <3>3. pc'[w] = "close" \/ (pc'[w] = "group" /\ grp'[w] = 1 /\ res' = res)
      BY <1>4, OpenFacts
    <3>4. CASE pc'[w] = "close"
      BY <3>1, <3>2, <3>4, LocalAt
    <3>5. CASE pc'[w] = "group" /\ grp'[w] = 1 /\ res' = res
      BY <3>1, <3>2, <3>5, LocalAt, SMT
    <3>6. QED
      BY <3>3, <3>4, <3>5
  <2>2. QED
    BY <1>4, <2>1, <1>a, OpenFacts
<1>5. ASSUME NEW w \in Workers, NextGroup(w) PROVE Locals'
  <2>1. Local(w)'
    <3>1. Local(w) /\ pc[w] = "group" /\ UNCHANGED <<obj, grp, res>> /\ grp[w] \in Nat
      BY <1>5, NextGroupFacts DEF Locals, Types, WorkerTypes
    <3>2. obj[w] \in Objects /\ res[w] # "failed" /\ grp[w] >= 1
      BY <3>1 DEF Local, InSlot, InPool, Signalling
    <3>3. Len(Groups[obj[w]]) \in Nat
      <4>1. Groups[obj[w]] \in Seq(Nat \ {0})
        BY <3>2, ConstantsAssumption DEF ConstantsAssumption
      <4>2. QED
        BY <4>1, SMT
    <3>4. pc'[w] = "close" \/ (pc'[w] = "reserve" /\ grp[w] <= Len(Groups[obj[w]]))
      BY <1>5, NextGroupFacts
    <3>5. QED
      BY <3>1, <3>2, <3>3, <3>4, LocalAt, SMT
  <2>2. QED
    BY <1>5, <2>1, <1>a, NextGroupFacts
<1>6. ASSUME NEW w \in Workers, TryReserve(w) PROVE Locals'
  <2>1. Local(w)'
    BY <1>6, TryReserveFacts DEF Types, WorkerTypes, Locals, Local, InSlot, InPool, Busy, Reserved, Queued, Locked, Signalling
  <2>2. QED
    BY <1>6, <2>1, <1>a, TryReserveFacts
<1>7. ASSUME NEW w \in Workers, Lock(w) PROVE Locals'
  <2>1. Local(w)'
    BY <1>7, LockFacts DEF Types, WorkerTypes, Locals, Local, InSlot, InPool, Busy, Reserved, Queued, Locked, Signalling
  <2>2. QED
    BY <1>7, <2>1, <1>a, LockFacts
<1>8. ASSUME NEW w \in Workers, Retry(w) PROVE Locals'
  <2>1. Local(w)'
    BY <1>8, RetryFacts DEF Types, WorkerTypes, Locals, Local, InSlot, InPool, Busy, Reserved, Queued, Locked, Signalling
  <2>2. QED
    BY <1>8, <2>1, <1>a, RetryFacts
<1>9. ASSUME NEW w \in Workers, Wait(w) PROVE Locals'
  <2>1. Local(w)'
    BY <1>9, WaitFacts DEF Types, WorkerTypes, Locals, Local, InSlot, InPool, Busy, Reserved, Queued, Locked, Signalling
  <2>2. QED
    BY <1>9, <2>1, <1>a, WaitFacts
<1>10. ASSUME NEW w \in Workers, Relock(w) PROVE Locals'
  <2>1. Local(w)'
    BY <1>10, RelockFacts DEF Types, WorkerTypes, Locals, Local, InSlot, InPool, Busy, Reserved, Queued, Locked, Signalling
  <2>2. QED
    BY <1>10, <2>1, <1>a, RelockFacts
<1>11. ASSUME NEW w \in Workers, TakeDecoder(w) PROVE Locals'
  <2>1. Local(w)'
    BY <1>11, TakeDecoderFacts DEF Types, WorkerTypes, Locals, Local, InSlot, InPool, Busy, Reserved, Queued, Locked, Signalling
  <2>2. QED
    BY <1>11, <2>1, <1>a, TakeDecoderFacts
<1>12. ASSUME NEW w \in Workers, Read(w) PROVE Locals'
  <2>1. Local(w)'
    BY <1>12, ReadFacts DEF Types, WorkerTypes, Locals, Local, InSlot, InPool, Busy, Reserved, Queued, Locked, Signalling
  <2>2. QED
    BY <1>12, <2>1, <1>a, ReadFacts
<1>13. ASSUME NEW w \in Workers, PreFilter(w) PROVE Locals'
  <2>1. Local(w)'
    BY <1>13, PreFilterFacts DEF Types, WorkerTypes, Locals, Local, InSlot, InPool, Busy, Reserved, Queued, Locked, Signalling
  <2>2. QED
    BY <1>13, <2>1, <1>a, PreFilterFacts
<1>14. ASSUME NEW w \in Workers, CountRows(w) PROVE Locals'
  <2>1. Local(w)'
    BY <1>14, CountRowsFacts DEF Types, WorkerTypes, Locals, Local, InSlot, InPool, Busy, Reserved, Queued, Locked, Signalling
  <2>2. QED
    BY <1>14, <2>1, <1>a, CountRowsFacts
<1>15. ASSUME NEW w \in Workers, WriteBlock(w) PROVE Locals'
  <2>1. Local(w)'
    BY <1>15, WriteBlockFacts DEF Types, WorkerTypes, Locals, Local, InSlot, InPool, Busy, Reserved, Queued, Locked, Signalling
  <2>2. QED
    BY <1>15, <2>1, <1>a, WriteBlockFacts
<1>16. ASSUME NEW w \in Workers, Free(w) PROVE Locals'
  <2>1. Local(w)'
    BY <1>16, FreeFacts DEF Types, WorkerTypes, Locals, Local, InSlot, InPool, Busy, Reserved, Queued, Locked, Signalling
  <2>2. QED
    BY <1>16, <2>1, <1>a, FreeFacts
<1>17. ASSUME NEW w \in Workers, Signal(w) PROVE Locals'
  <2>1. Local(w)'
    <3>1. Local(w) /\ pc[w] = "signal" /\ UNCHANGED <<obj, res>> /\ grp[w] \in Nat /\ res[w] \in {"none", "failed"}
      BY <1>17, SignalFacts DEF Locals, Types, WorkerTypes
    <3>2. obj[w] \in Objects /\ grp[w] \in 1..Len(Groups[obj[w]])
      BY <3>1 DEF Local, InSlot, InPool, Busy, Signalling
    <3>3. \/ pc'[w] = "wake" /\ grp' = grp
          \/ /\ pc'[w] \in {"group", "close"} /\ grp'[w] = grp[w] + 1
             /\ res[w] = "failed" => pc'[w] = "close"
      BY <1>17, SignalFacts
    <3>4. obj'[w] \in Objects /\ grp[w] + 1 >= 1
      BY <3>1, <3>2, SMT
    <3>5. CASE pc'[w] = "wake" /\ grp' = grp
      BY <3>1, <3>2, <3>4, <3>5, LocalAt
    <3>6. CASE pc'[w] = "close"
      BY <3>4, <3>6, LocalAt
    <3>7. CASE pc'[w] = "group" /\ grp'[w] = grp[w] + 1 /\ res[w] # "failed"
      BY <3>1, <3>4, <3>7, LocalAt
    <3>8. QED
      BY <3>3, <3>5, <3>6, <3>7
  <2>2. QED
    BY <1>17, <2>1, <1>a, SignalFacts
<1>18. ASSUME NEW w \in Workers, Wake(w) PROVE Locals'
  <2>1. Local(w)'
    <3>1. Local(w) /\ pc[w] = "wake" /\ UNCHANGED <<obj, res>> /\ grp[w] \in Nat /\ res[w] \in {"none", "failed"}
      BY <1>18, WakeFacts DEF Locals, Types, WorkerTypes
    <3>2. obj[w] \in Objects /\ grp[w] \in 1..Len(Groups[obj[w]])
      BY <3>1 DEF Local, InSlot, InPool, Busy, Signalling
    <3>3. /\ pc'[w] \in {"group", "close"} /\ grp'[w] = grp[w] + 1
          /\ res[w] = "failed" => pc'[w] = "close"
      BY <1>18, WakeFacts
    <3>4. obj'[w] \in Objects /\ grp[w] + 1 >= 1
      BY <3>1, <3>2, SMT
    <3>5. CASE pc'[w] = "close"
      BY <3>4, <3>5, LocalAt
    <3>6. CASE pc'[w] = "group" /\ res[w] # "failed"
      BY <3>1, <3>3, <3>4, <3>6, LocalAt
    <3>7. QED
      BY <3>3, <3>5, <3>6
  <2>2. QED
    BY <1>18, <2>1, <1>a, WakeFacts
<1>19. ASSUME NEW w \in Workers, Close(w) PROVE Locals'
  <2>1. Local(w)'
    BY <1>19, CloseFacts DEF Types, WorkerTypes, Locals, Local, InSlot, InPool, Busy, Reserved, Queued, Locked, Signalling
  <2>2. QED
    BY <1>19, <2>1, <1>a, CloseFacts
<1>20. ASSUME NEW w \in Workers, ContextWake(w) PROVE Locals'
  BY <1>20, LocalKeeps DEF ContextWake, Broadcast, Locals, Types, WorkerTypes
<1>21. ASSUME UNCHANGED workerVars PROVE Locals'
  BY <1>21 DEF Locals, Local, workerVars
<1>22. QED
  BY <1>1, <1>2, <1>3, <1>4, <1>5, <1>6, <1>7, <1>8, <1>9, <1>10, <1>11, <1>12, <1>13, <1>14, <1>15,
     <1>16, <1>17, <1>18, <1>19, <1>20, <1>21 DEF Next, WorkerStep, Answer, GiveUp, vars

-----------------------------------------------------------------------------
(* The counters. *)

\* The steps by the counters that count a worker there.
Outside == {"next", "slot", "done"}
Idle == {"open", "group", "reserve", "lock", "close", "decode", "free", "signal", "wake"}

\* Which of the counted steps they are.
LEMMA Places ==
    /\ \A x \in Outside : x \notin InSlot /\ x \notin InPool /\ x \notin Decoding /\ x \notin Queued
    /\ \A x \in {"budget"} : x \in InSlot /\ x \notin InPool /\ x \notin Decoding /\ x \notin Queued
    /\ \A x \in Idle : x \in InSlot /\ x \in InPool /\ x \notin Decoding /\ x \notin Queued
    /\ \A x \in Decoding : x \in InSlot /\ x \in InPool /\ x \notin Queued
    /\ \A x \in Queued : x \in InSlot /\ x \in InPool /\ x \notin Decoding
<1>1. InPool = {"open", "group", "reserve", "lock", "close", "decode", "read", "filter", "count", "write",
                "free", "try", "wait", "asleep", "awake", "signal", "wake"}
  BY DEF InPool, Reserved, Queued, Locked, Signalling
<1>2. InSlot = InPool \cup {"budget"}
  BY DEF InSlot
<1>3. Queued = {"try", "wait", "asleep", "awake"}
  BY DEF Queued, Locked
<1>4. Decoding = {"read", "filter", "count", "write"}
  BY DEF Decoding
<1>5. \A x \in Outside : x \notin InSlot /\ x \notin InPool /\ x \notin Decoding /\ x \notin Queued
  BY <1>1, <1>2, <1>3, <1>4 DEF Outside
<1>6. \A x \in {"budget"} : x \in InSlot /\ x \notin InPool /\ x \notin Decoding /\ x \notin Queued
  BY <1>1, <1>2, <1>3, <1>4
<1>7. \A x \in Idle : x \in InSlot /\ x \in InPool /\ x \notin Decoding /\ x \notin Queued
  BY <1>1, <1>2, <1>3, <1>4 DEF Idle
<1>8. \A x \in Decoding : x \in InSlot /\ x \in InPool /\ x \notin Queued
  BY <1>1, <1>2, <1>3, <1>4
<1>9. \A x \in Queued : x \in InSlot /\ x \in InPool /\ x \notin Decoding
  BY <1>1, <1>2, <1>3, <1>4
<1>10. QED
  BY <1>5, <1>6, <1>7, <1>8, <1>9

\* A counter n that becomes m follows the worker that moves.
Follows(w, n, m, S) ==
    \/ m = n /\ (pc[w] \in S <=> pc'[w] \in S)
    \/ m = n + 1 /\ pc[w] \notin S /\ pc'[w] \in S
    \/ m = n - 1 /\ pc[w] \in S /\ pc'[w] \notin S

\* The counters stay right when they follow the worker that moves.
LEMMA CountsMove ==
    ASSUME Types, Counts, NEW w \in Workers, Moves(w),
           Follows(w, slots, slots', InSlot), slots' <= FileSlots,
           Follows(w, outCount, outCount', InPool), outCount' <= MaxFiles,
           Follows(w, decoding, decoding', Decoding), decoding' <= Decoders,
           Follows(w, waiters[QueryOf[w]], waiters'[QueryOf[w]], Queued),
           \A q \in Queries : q # QueryOf[w] => waiters'[q] = waiters[q]
    PROVE  Counts'
<1>s. InSlot \in StepSets /\ InPool \in StepSets /\ Decoding \in StepSets /\ Queued \in StepSets
  BY DEF StepSets
<1>c. /\ slots = Cardinality(At(InSlot)) /\ outCount = Cardinality(At(InPool))
      /\ decoding = Cardinality(At(Decoding)) /\ \A q \in Queries : waiters[q] = Cardinality(AtQ(q, Queued))
  BY DEF Counts
<1>1. ASSUME NEW S \in StepSets, NEW n, NEW m, n = Cardinality(At(S)), Follows(w, n, m, S)
      PROVE  m = Cardinality(At(S)')
  <2>1. CASE m = n /\ (pc[w] \in S <=> pc'[w] \in S)
    BY <1>1, <2>1, Counted
  <2>2. CASE m = n + 1 /\ pc[w] \notin S /\ pc'[w] \in S
    BY <1>1, <2>2, Counted
  <2>3. CASE m = n - 1 /\ pc[w] \in S /\ pc'[w] \notin S
    BY <1>1, <2>3, Counted
  <2>4. QED
    BY <1>1, <2>1, <2>2, <2>3 DEF Follows
<1>2. slots' = Cardinality(At(InSlot)')
  BY <1>1, <1>s, <1>c
<1>3. outCount' = Cardinality(At(InPool)')
  BY <1>1, <1>s, <1>c
<1>4. decoding' = Cardinality(At(Decoding)')
  BY <1>1, <1>s, <1>c
<1>5. ASSUME NEW q \in Queries PROVE waiters'[q] = Cardinality(AtQ(q, Queued)')
  <2>1. CASE q # QueryOf[w]
    <3>1. AtQ(q, Queued)' = AtQ(q, Queued)
      BY <1>s, <2>1, CountedQ
    <3>2. QED
      BY <1>c, <2>1, <3>1
  <2>2. CASE q = QueryOf[w]
    <3>1. CASE waiters'[q] = waiters[q] /\ (pc[w] \in Queued <=> pc'[w] \in Queued)
      <4>1. Cardinality(AtQ(q, Queued)') = Cardinality(AtQ(q, Queued))
        BY <1>s, <3>1, CountedQ
      <4>2. QED
        BY <1>c, <3>1, <4>1
    <3>2. CASE waiters'[q] = waiters[q] + 1 /\ pc[w] \notin Queued /\ pc'[w] \in Queued
      <4>1. Cardinality(AtQ(q, Queued)') = Cardinality(AtQ(q, Queued)) + 1
        BY <1>s, <2>2, <3>2, CountedQ
      <4>2. QED
        BY <1>c, <3>2, <4>1
    <3>3. CASE waiters'[q] = waiters[q] - 1 /\ pc[w] \in Queued /\ pc'[w] \notin Queued
      <4>1. Cardinality(AtQ(q, Queued)') = Cardinality(AtQ(q, Queued)) - 1
        BY <1>s, <2>2, <3>3, CountedQ
      <4>2. QED
        BY <1>c, <3>3, <4>1
    <3>4. QED
      BY <2>2, <3>1, <3>2, <3>3 DEF Follows
  <2>3. QED
    BY <2>1, <2>2
<1>6. QED
  BY <1>2, <1>3, <1>4, <1>5 DEF Counts

\* A worker that stays among steps counted alike, with the counters left alone.
LEMMA CountsWithin ==
    ASSUME Types, Counts, NEW w \in Workers, Moves(w), UNCHANGED <<slots, outCount, decoding, waiters>>,
           \/ pc[w] \in Outside /\ pc'[w] \in Outside
           \/ pc[w] \in Idle /\ pc'[w] \in Idle
           \/ pc[w] \in Decoding /\ pc'[w] \in Decoding
           \/ pc[w] \in Queued /\ pc'[w] \in Queued
    PROVE  Counts'
<1>1. /\ pc[w] \in InSlot <=> pc'[w] \in InSlot
      /\ pc[w] \in InPool <=> pc'[w] \in InPool
      /\ pc[w] \in Decoding <=> pc'[w] \in Decoding
      /\ pc[w] \in Queued <=> pc'[w] \in Queued
  BY Places
<1>2. /\ Follows(w, slots, slots', InSlot) /\ Follows(w, outCount, outCount', InPool)
      /\ Follows(w, decoding, decoding', Decoding)
      /\ Follows(w, waiters[QueryOf[w]], waiters'[QueryOf[w]], Queued)
  BY <1>1 DEF Follows
<1>3. slots' <= FileSlots /\ outCount' <= MaxFiles /\ decoding' <= Decoders
  BY DEF Counts
<1>4. QED
  BY <1>2, <1>3, CountsMove

\* Every step keeps the counters right and within their limits.
LEMMA CountsStep == Types /\ Locals /\ Counts /\ [Next]_vars => Counts'
<1> SUFFICES ASSUME Types, Locals, Counts, [Next]_vars PROVE Counts'
  OBVIOUS
<1>q. \A w \in Workers : QueryOf[w] \in Queries
  BY ConstantsAssumption DEF ConstantsAssumption
<1>b. slots \in Int /\ outCount \in Int /\ decoding \in Int /\ waiters \in [Queries -> Int]
  BY DEF Types, PoolTypes, GateTypes
<1>m. /\ slots <= FileSlots /\ outCount <= MaxFiles /\ decoding <= Decoders
      /\ FileSlots \in Int /\ MaxFiles \in Int /\ Decoders \in Int
  BY ConstantsAssumption, SMT DEF ConstantsAssumption, Counts
<1>1. ASSUME NEW w \in Workers, NextObject(w) PROVE Counts'
  <2>1. /\ Moves(w) /\ UNCHANGED <<slots, outCount, decoding, waiters>>
        /\ pc[w] \in Outside /\ pc'[w] \in Outside
    BY <1>1, NextObjectFacts DEF Outside
  <2>2. QED
    BY <2>1, CountsWithin
<1>2. ASSUME NEW w \in Workers, TakeSlot(w) PROVE Counts'
  <2>1. CASE pc'[w] = "done"
    <3>1. /\ Moves(w) /\ UNCHANGED <<slots, outCount, decoding, waiters>>
          /\ pc[w] \in Outside /\ pc'[w] \in Outside
      BY <1>2, <2>1, TakeSlotFacts DEF Outside
    <3>2. QED
      BY <3>1, CountsWithin
  <2>2. CASE pc'[w] = "budget"
    <3>1. Moves(w) /\ pc[w] \in Outside /\ pc'[w] \in {"budget"}
      BY <1>2, <2>2, TakeSlotFacts DEF Outside
    <3>2. slots' = slots + 1 /\ outCount' = outCount /\ decoding' = decoding /\ slots' <= FileSlots
      BY <1>2, <2>2, TakeSlotFacts
    <3>3. waiters' = waiters
      BY <1>2, <2>2, TakeSlotFacts
    <3>4. slots' <= FileSlots /\ outCount' <= MaxFiles /\ decoding' <= Decoders
      BY <1>b, <1>m, <3>2
    <3>5. /\ Follows(w, slots, slots', InSlot) /\ Follows(w, outCount, outCount', InPool)
          /\ Follows(w, decoding, decoding', Decoding)
      BY <3>1, <3>2, Places DEF Follows
    <3>6. /\ Follows(w, waiters[QueryOf[w]], waiters'[QueryOf[w]], Queued)
          /\ \A q \in Queries : q # QueryOf[w] => waiters'[q] = waiters[q]
      BY <1>b, <1>q, <3>1, <3>3, Places DEF Follows
    <3>7. QED
      BY <3>1, <3>4, <3>5, <3>6, CountsMove
  <2>3. QED
    BY <1>2, <2>1, <2>2, TakeSlotFacts
<1>3. ASSUME NEW w \in Workers, TakeBudget(w) PROVE Counts'
  <2>1. CASE pc'[w] \in {"next", "done"}
    <3>1. Moves(w) /\ pc[w] \in {"budget"} /\ pc'[w] \in Outside
      BY <1>3, <2>1, TakeBudgetFacts DEF Outside
    <3>2. slots' = slots - 1 /\ outCount' = outCount /\ decoding' = decoding
      BY <1>3, <2>1, TakeBudgetFacts
    <3>3. waiters' = waiters
      BY <1>3, <2>1, TakeBudgetFacts
    <3>4. slots' <= FileSlots /\ outCount' <= MaxFiles /\ decoding' <= Decoders
      BY <1>b, <1>m, <3>2, SMT
    <3>5. /\ Follows(w, slots, slots', InSlot) /\ Follows(w, outCount, outCount', InPool)
          /\ Follows(w, decoding, decoding', Decoding)
      BY <3>1, <3>2, Places DEF Follows
    <3>6. /\ Follows(w, waiters[QueryOf[w]], waiters'[QueryOf[w]], Queued)
          /\ \A q \in Queries : q # QueryOf[w] => waiters'[q] = waiters[q]
      BY <1>b, <1>q, <3>1, <3>3, Places DEF Follows
    <3>7. QED
      BY <3>1, <3>4, <3>5, <3>6, CountsMove
  <2>2. CASE pc'[w] = "open"
    <3>1. Moves(w) /\ pc[w] \in {"budget"} /\ pc'[w] \in Idle
      BY <1>3, <2>2, TakeBudgetFacts DEF Idle
    <3>2. slots' = slots /\ outCount' = outCount + 1 /\ decoding' = decoding /\ outCount < MaxFiles
      BY <1>3, <2>2, TakeBudgetFacts DEF Admits
    <3>3. waiters' = waiters
      BY <1>3, <2>2, TakeBudgetFacts
    <3>4. slots' <= FileSlots /\ outCount' <= MaxFiles /\ decoding' <= Decoders
      BY <1>b, <1>m, <3>2, SMT
    <3>5. /\ Follows(w, slots, slots', InSlot) /\ Follows(w, outCount, outCount', InPool)
          /\ Follows(w, decoding, decoding', Decoding)
      BY <3>1, <3>2, Places DEF Follows
    <3>6. /\ Follows(w, waiters[QueryOf[w]], waiters'[QueryOf[w]], Queued)
          /\ \A q \in Queries : q # QueryOf[w] => waiters'[q] = waiters[q]
      BY <1>b, <1>q, <3>1, <3>3, Places DEF Follows
    <3>7. QED
      BY <3>1, <3>4, <3>5, <3>6, CountsMove
  <2>3. QED
    BY <1>3, <2>1, <2>2, TakeBudgetFacts
<1>4. ASSUME NEW w \in Workers, Open(w) PROVE Counts'
  <2>1. /\ Moves(w) /\ UNCHANGED <<slots, outCount, decoding, waiters>>
        /\ pc[w] \in Idle /\ pc'[w] \in Idle
    BY <1>4, OpenFacts DEF Idle
  <2>2. QED
    BY <2>1, CountsWithin
<1>5. ASSUME NEW w \in Workers, NextGroup(w) PROVE Counts'
  <2>1. /\ Moves(w) /\ UNCHANGED <<slots, outCount, decoding, waiters>>
        /\ pc[w] \in Idle /\ pc'[w] \in Idle
    BY <1>5, NextGroupFacts DEF Idle
  <2>2. QED
    BY <2>1, CountsWithin
<1>6. ASSUME NEW w \in Workers, TryReserve(w) PROVE Counts'
  <2>1. /\ Moves(w) /\ UNCHANGED <<slots, outCount, decoding, waiters>>
        /\ pc[w] \in Idle /\ pc'[w] \in Idle
    BY <1>6, TryReserveFacts DEF Idle
  <2>2. QED
    BY <2>1, CountsWithin
<1>7. ASSUME NEW w \in Workers, Lock(w) PROVE Counts'
  <2>1. CASE pc'[w] = "try"
    <3>1. Moves(w) /\ pc[w] \in Idle /\ pc'[w] \in Queued
      BY <1>7, <2>1, LockFacts DEF Idle, Queued, Locked
    <3>2. slots' = slots /\ outCount' = outCount /\ decoding' = decoding
      BY <1>7, <2>1, LockFacts
    <3>3. waiters' = [waiters EXCEPT ![QueryOf[w]] = @ + 1]
      BY <1>7, <2>1, LockFacts
    <3>4. slots' <= FileSlots /\ outCount' <= MaxFiles /\ decoding' <= Decoders
      BY <1>b, <1>m, <3>2
    <3>5. /\ Follows(w, slots, slots', InSlot) /\ Follows(w, outCount, outCount', InPool)
          /\ Follows(w, decoding, decoding', Decoding)
      BY <3>1, <3>2, Places DEF Follows
    <3>6. /\ Follows(w, waiters[QueryOf[w]], waiters'[QueryOf[w]], Queued)
          /\ \A q \in Queries : q # QueryOf[w] => waiters'[q] = waiters[q]
      BY <1>b, <1>q, <3>1, <3>3, Places DEF Follows
    <3>7. QED
      BY <3>1, <3>4, <3>5, <3>6, CountsMove
  <2>2. QED
    BY <1>7, <2>1, LockFacts
<1>8. ASSUME NEW w \in Workers, Retry(w) PROVE Counts'
  <2>1. CASE pc'[w] = "decode"
    <3>1. Moves(w) /\ pc[w] \in Queued /\ pc'[w] \in Idle
      BY <1>8, <2>1, RetryFacts DEF Queued, Locked, Idle
    <3>2. slots' = slots /\ outCount' = outCount /\ decoding' = decoding
      BY <1>8, <2>1, RetryFacts
    <3>3. waiters' = [waiters EXCEPT ![QueryOf[w]] = @ - 1]
      BY <1>8, <2>1, RetryFacts
    <3>4. slots' <= FileSlots /\ outCount' <= MaxFiles /\ decoding' <= Decoders
      BY <1>b, <1>m, <3>2
    <3>5. /\ Follows(w, slots, slots', InSlot) /\ Follows(w, outCount, outCount', InPool)
          /\ Follows(w, decoding, decoding', Decoding)
      BY <3>1, <3>2, Places DEF Follows
    <3>6. /\ Follows(w, waiters[QueryOf[w]], waiters'[QueryOf[w]], Queued)
          /\ \A q \in Queries : q # QueryOf[w] => waiters'[q] = waiters[q]
      BY <1>b, <1>q, <3>1, <3>3, Places DEF Follows
    <3>7. QED
      BY <3>1, <3>4, <3>5, <3>6, CountsMove
  <2>2. CASE pc'[w] = "wait"
    <3>1. /\ Moves(w) /\ UNCHANGED <<slots, outCount, decoding, waiters>>
          /\ pc[w] \in Queued /\ pc'[w] \in Queued
      BY <1>8, <2>2, RetryFacts DEF Queued, Locked
    <3>2. QED
      BY <3>1, CountsWithin
  <2>3. QED
    BY <1>8, <2>1, <2>2, RetryFacts
<1>9. ASSUME NEW w \in Workers, Wait(w) PROVE Counts'
  <2>1. CASE pc'[w] = "close"
    <3>1. Moves(w) /\ pc[w] \in Queued /\ pc'[w] \in Idle
      BY <1>9, <2>1, WaitFacts DEF Queued, Locked, Idle
    <3>2. slots' = slots /\ outCount' = outCount /\ decoding' = decoding
      BY <1>9, <2>1, WaitFacts
    <3>3. waiters' = [waiters EXCEPT ![QueryOf[w]] = @ - 1]
      BY <1>9, <2>1, WaitFacts
    <3>4. slots' <= FileSlots /\ outCount' <= MaxFiles /\ decoding' <= Decoders
      BY <1>b, <1>m, <3>2
    <3>5. /\ Follows(w, slots, slots', InSlot) /\ Follows(w, outCount, outCount', InPool)
          /\ Follows(w, decoding, decoding', Decoding)
      BY <3>1, <3>2, Places DEF Follows
    <3>6. /\ Follows(w, waiters[QueryOf[w]], waiters'[QueryOf[w]], Queued)
          /\ \A q \in Queries : q # QueryOf[w] => waiters'[q] = waiters[q]
      BY <1>b, <1>q, <3>1, <3>3, Places DEF Follows
    <3>7. QED
      BY <3>1, <3>4, <3>5, <3>6, CountsMove
  <2>2. CASE pc'[w] = "asleep"
    <3>1. /\ Moves(w) /\ UNCHANGED <<slots, outCount, decoding, waiters>>
          /\ pc[w] \in Queued /\ pc'[w] \in Queued
      BY <1>9, <2>2, WaitFacts DEF Queued, Locked
    <3>2. QED
      BY <3>1, CountsWithin
  <2>3. QED
    BY <1>9, <2>1, <2>2, WaitFacts
<1>10. ASSUME NEW w \in Workers, Relock(w) PROVE Counts'
  <2>1. /\ Moves(w) /\ UNCHANGED <<slots, outCount, decoding, waiters>>
        /\ pc[w] \in Queued /\ pc'[w] \in Queued
    BY <1>10, RelockFacts DEF Queued, Locked
  <2>2. QED
    BY <2>1, CountsWithin
<1>11. ASSUME NEW w \in Workers, TakeDecoder(w) PROVE Counts'
  <2>1. CASE pc'[w] = "read"
    <3>1. Moves(w) /\ pc[w] \in Idle /\ pc'[w] \in Decoding
      BY <1>11, <2>1, TakeDecoderFacts DEF Idle, Decoding
    <3>2. slots' = slots /\ outCount' = outCount /\ decoding' = decoding + 1 /\ decoding < Decoders
      BY <1>11, <2>1, TakeDecoderFacts
    <3>3. waiters' = waiters
      BY <1>11, <2>1, TakeDecoderFacts
    <3>4. slots' <= FileSlots /\ outCount' <= MaxFiles /\ decoding' <= Decoders
      BY <1>b, <1>m, <3>2, SMT
    <3>5. /\ Follows(w, slots, slots', InSlot) /\ Follows(w, outCount, outCount', InPool)
          /\ Follows(w, decoding, decoding', Decoding)
      BY <3>1, <3>2, Places DEF Follows
    <3>6. /\ Follows(w, waiters[QueryOf[w]], waiters'[QueryOf[w]], Queued)
          /\ \A q \in Queries : q # QueryOf[w] => waiters'[q] = waiters[q]
      BY <1>b, <1>q, <3>1, <3>3, Places DEF Follows
    <3>7. QED
      BY <3>1, <3>4, <3>5, <3>6, CountsMove
  <2>2. CASE pc'[w] = "free"
    <3>1. /\ Moves(w) /\ UNCHANGED <<slots, outCount, decoding, waiters>>
          /\ pc[w] \in Idle /\ pc'[w] \in Idle
      BY <1>11, <2>2, TakeDecoderFacts DEF Idle
    <3>2. QED
      BY <3>1, CountsWithin
  <2>3. QED
    BY <1>11, <2>1, <2>2, TakeDecoderFacts
<1>12. ASSUME NEW w \in Workers, Read(w) PROVE Counts'
  <2>1. CASE pc'[w] = "filter"
    <3>1. /\ Moves(w) /\ UNCHANGED <<slots, outCount, decoding, waiters>>
          /\ pc[w] \in Decoding /\ pc'[w] \in Decoding
      BY <1>12, <2>1, ReadFacts DEF Decoding
    <3>2. QED
      BY <3>1, CountsWithin
  <2>2. CASE pc'[w] = "free"
    <3>1. Moves(w) /\ pc[w] \in Decoding /\ pc'[w] \in Idle
      BY <1>12, <2>2, ReadFacts DEF Decoding, Idle
    <3>2. slots' = slots /\ outCount' = outCount /\ decoding' = decoding - 1
      BY <1>12, <2>2, ReadFacts
    <3>3. waiters' = waiters
      BY <1>12, <2>2, ReadFacts
    <3>4. slots' <= FileSlots /\ outCount' <= MaxFiles /\ decoding' <= Decoders
      BY <1>b, <1>m, <3>2, SMT
    <3>5. /\ Follows(w, slots, slots', InSlot) /\ Follows(w, outCount, outCount', InPool)
          /\ Follows(w, decoding, decoding', Decoding)
      BY <3>1, <3>2, Places DEF Follows
    <3>6. /\ Follows(w, waiters[QueryOf[w]], waiters'[QueryOf[w]], Queued)
          /\ \A q \in Queries : q # QueryOf[w] => waiters'[q] = waiters[q]
      BY <1>b, <1>q, <3>1, <3>3, Places DEF Follows
    <3>7. QED
      BY <3>1, <3>4, <3>5, <3>6, CountsMove
  <2>3. QED
    BY <1>12, <2>1, <2>2, ReadFacts
<1>13. ASSUME NEW w \in Workers, PreFilter(w) PROVE Counts'
  <2>1. CASE pc'[w] = "free"
    <3>1. Moves(w) /\ pc[w] \in Decoding /\ pc'[w] \in Idle
      BY <1>13, <2>1, PreFilterFacts DEF Decoding, Idle
    <3>2. slots' = slots /\ outCount' = outCount /\ decoding' = decoding - 1
      BY <1>13, <2>1, PreFilterFacts
    <3>3. waiters' = waiters
      BY <1>13, <2>1, PreFilterFacts
    <3>4. slots' <= FileSlots /\ outCount' <= MaxFiles /\ decoding' <= Decoders
      BY <1>b, <1>m, <3>2, SMT
    <3>5. /\ Follows(w, slots, slots', InSlot) /\ Follows(w, outCount, outCount', InPool)
          /\ Follows(w, decoding, decoding', Decoding)
      BY <3>1, <3>2, Places DEF Follows
    <3>6. /\ Follows(w, waiters[QueryOf[w]], waiters'[QueryOf[w]], Queued)
          /\ \A q \in Queries : q # QueryOf[w] => waiters'[q] = waiters[q]
      BY <1>b, <1>q, <3>1, <3>3, Places DEF Follows
    <3>7. QED
      BY <3>1, <3>4, <3>5, <3>6, CountsMove
  <2>2. CASE pc'[w] = "count"
    <3>1. /\ Moves(w) /\ UNCHANGED <<slots, outCount, decoding, waiters>>
          /\ pc[w] \in Decoding /\ pc'[w] \in Decoding
      BY <1>13, <2>2, PreFilterFacts DEF Decoding
    <3>2. QED
      BY <3>1, CountsWithin
  <2>3. QED
    BY <1>13, <2>1, <2>2, PreFilterFacts
<1>14. ASSUME NEW w \in Workers, CountRows(w) PROVE Counts'
  <2>1. /\ Moves(w) /\ UNCHANGED <<slots, outCount, decoding, waiters>>
        /\ pc[w] \in Decoding /\ pc'[w] \in Decoding
    BY <1>14, CountRowsFacts DEF Decoding
  <2>2. QED
    BY <2>1, CountsWithin
<1>15. ASSUME NEW w \in Workers, WriteBlock(w) PROVE Counts'
  <2>1. CASE pc'[w] = "free"
    <3>1. Moves(w) /\ pc[w] \in Decoding /\ pc'[w] \in Idle
      BY <1>15, <2>1, WriteBlockFacts DEF Decoding, Idle
    <3>2. slots' = slots /\ outCount' = outCount /\ decoding' = decoding - 1
      BY <1>15, <2>1, WriteBlockFacts
    <3>3. waiters' = waiters
      BY <1>15, <2>1, WriteBlockFacts
    <3>4. slots' <= FileSlots /\ outCount' <= MaxFiles /\ decoding' <= Decoders
      BY <1>b, <1>m, <3>2, SMT
    <3>5. /\ Follows(w, slots, slots', InSlot) /\ Follows(w, outCount, outCount', InPool)
          /\ Follows(w, decoding, decoding', Decoding)
      BY <3>1, <3>2, Places DEF Follows
    <3>6. /\ Follows(w, waiters[QueryOf[w]], waiters'[QueryOf[w]], Queued)
          /\ \A q \in Queries : q # QueryOf[w] => waiters'[q] = waiters[q]
      BY <1>b, <1>q, <3>1, <3>3, Places DEF Follows
    <3>7. QED
      BY <3>1, <3>4, <3>5, <3>6, CountsMove
  <2>2. QED
    BY <1>15, <2>1, WriteBlockFacts
<1>16. ASSUME NEW w \in Workers, Free(w) PROVE Counts'
  <2>1. /\ Moves(w) /\ UNCHANGED <<slots, outCount, decoding, waiters>>
        /\ pc[w] \in Idle /\ pc'[w] \in Idle
    BY <1>16, FreeFacts DEF Idle
  <2>2. QED
    BY <2>1, CountsWithin
<1>17. ASSUME NEW w \in Workers, Signal(w) PROVE Counts'
  <2>1. /\ Moves(w) /\ UNCHANGED <<slots, outCount, decoding, waiters>>
        /\ pc[w] \in Idle /\ pc'[w] \in Idle
    BY <1>17, SignalFacts DEF Idle
  <2>2. QED
    BY <2>1, CountsWithin
<1>18. ASSUME NEW w \in Workers, Wake(w) PROVE Counts'
  <2>1. /\ Moves(w) /\ UNCHANGED <<slots, outCount, decoding, waiters>>
        /\ pc[w] \in Idle /\ pc'[w] \in Idle
    BY <1>18, WakeFacts DEF Idle
  <2>2. QED
    BY <2>1, CountsWithin
<1>19. ASSUME NEW w \in Workers, Close(w) PROVE Counts'
  <2>1. CASE pc'[w] \in {"next", "done"}
    <3>1. Moves(w) /\ pc[w] \in Idle /\ pc'[w] \in Outside
      BY <1>19, <2>1, CloseFacts DEF Idle, Outside
    <3>2. slots' = slots - 1 /\ outCount' = outCount - 1 /\ decoding' = decoding
      BY <1>19, <2>1, CloseFacts
    <3>3. waiters' = waiters
      BY <1>19, <2>1, CloseFacts
    <3>4. slots' <= FileSlots /\ outCount' <= MaxFiles /\ decoding' <= Decoders
      BY <1>b, <1>m, <3>2, SMT
    <3>5. /\ Follows(w, slots, slots', InSlot) /\ Follows(w, outCount, outCount', InPool)
          /\ Follows(w, decoding, decoding', Decoding)
      BY <3>1, <3>2, Places DEF Follows
    <3>6. /\ Follows(w, waiters[QueryOf[w]], waiters'[QueryOf[w]], Queued)
          /\ \A q \in Queries : q # QueryOf[w] => waiters'[q] = waiters[q]
      BY <1>b, <1>q, <3>1, <3>3, Places DEF Follows
    <3>7. QED
      BY <3>1, <3>4, <3>5, <3>6, CountsMove
  <2>2. QED
    BY <1>19, <2>1, CloseFacts
<1>20. ASSUME NEW w \in Workers, ContextWake(w) PROVE Counts'
  <2>1. /\ UNCHANGED <<slots, outCount, decoding, waiters>>
        /\ \A v \in Workers : pc'[v] = pc[v] \/ (pc[v] = "asleep" /\ pc'[v] = "awake")
    BY <1>20 DEF ContextWake, Broadcast, Types, WorkerTypes, gateVars, poolVars
  <2>2. ASSUME NEW S \in StepSets PROVE \A v \in Workers : pc'[v] \in S <=> pc[v] \in S
    <3>1. "asleep" \in S <=> "awake" \in S
      BY DEF StepSets, InSlot, InPool, Decoding, Queued, Locked, Reserved, Signalling
    <3>2. QED
      BY <2>1, <3>1
  <2>3. ASSUME NEW S \in StepSets PROVE At(S)' = At(S) /\ \A q \in Queries : AtQ(q, S)' = AtQ(q, S)
    BY <2>2 DEF At, AtQ, Of
  <2>4. InSlot \in StepSets /\ InPool \in StepSets /\ Decoding \in StepSets /\ Queued \in StepSets
    BY DEF StepSets
  <2>5. QED
    BY <2>1, <2>3, <2>4 DEF Counts
<1>21. ASSUME UNCHANGED <<pc, waiters, slots, outCount, decoding>> PROVE Counts'
  BY <1>21 DEF Counts, At, AtQ
<1>22. QED
  BY <1>1, <1>2, <1>3, <1>4, <1>5, <1>6, <1>7, <1>8, <1>9, <1>10, <1>11, <1>12, <1>13, <1>14, <1>15,
     <1>16, <1>17, <1>18, <1>19, <1>20, <1>21
     DEF Next, WorkerStep, Answer, GiveUp, vars, workerVars, gateVars, poolVars

-----------------------------------------------------------------------------
(* The types and the places hold by themselves. *)

\* The initial state has them.
LEMMA InitTypes == Init => Types /\ Locals
<1> SUFFICES ASSUME Init PROVE Types /\ Locals
  OBVIOUS
<1>1. WorkerTypes /\ GateTypes /\ FlagTypes /\ PoolTypes
  <2>1. WorkerTypes
    BY DEF Init, WorkerTypes, Steps
  <2>2. GateTypes /\ PoolTypes
    <3>1. /\ live = [q \in Queries |-> 0] /\ waiters = [q \in Queries |-> 0]
          /\ slots = 0 /\ outBytes = 0 /\ outCount = 0 /\ decoding = 0
      BY DEF Init
    <3>2. QED
      BY <3>1, SMT DEF GateTypes, PoolTypes
  <2>3. FlagTypes
    BY DEF Init, FlagTypes
  <2>4. QED
    BY <2>1, <2>2, <2>3
<1>2. QueryTypes
  <2>1. ceiling \in [Queries -> Nat]
    BY ConstantsAssumption DEF Init, ConstantsAssumption
  <2>2. QED
    BY <2>1, ConstantsAssumption DEF Init, QueryTypes, ConstantsAssumption
<1>3. Types
  BY <1>1, <1>2 DEF Types
<1>4. \A w \in Workers : pc[w] = "next" /\ grp[w] = 0 /\ res[w] = "none"
  BY DEF Init
<1>5. Locals
  BY <1>4 DEF Locals, Local, InSlot, InPool, Reserved, Queued, Locked, Signalling, Busy
<1>6. QED
  BY <1>3, <1>5

\* Every state of the scan has them.
LEMMA TypesInvariant == Spec => [](Types /\ Locals)
<1>1. Types /\ Locals /\ [Next]_vars => (Types /\ Locals)'
  BY TypesStep, LocalsStep
<1>2. QED
  BY <1>1, InitTypes, PTL DEF Spec

=============================================================================
