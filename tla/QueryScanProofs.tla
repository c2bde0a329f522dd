--------------------------- MODULE QueryScanProofs --------------------------
(***************************************************************************)
(* The object scan for any number of queries, workers and objects: the     *)
(* limits hold, the pools get back what was taken, no wakeup of the gate   *)
(* is lost, and an answer without an error is complete.  A leaf is Zenon's *)
(* unless it names SMT.                                                    *)
(***************************************************************************)
EXTENDS QueryScanTypes

USE Zenon

-----------------------------------------------------------------------------
(* The gate's bytes. *)

\* A step that neither reserves nor releases.
LEMMA LiveKeeps ==
    ASSUME LiveInv, NEW w \in Workers, Moves(w), live' = live,
           pc[w] \in Reserved <=> pc'[w] \in Reserved,
           pc[w] \in Reserved => obj'[w] = obj[w] /\ grp'[w] = grp[w]
    PROVE  LiveInv'
<1> SUFFICES ASSUME NEW q \in Queries
             PROVE  /\ IsFiniteSet(UnitsOf(HeldLive(q))')
                    /\ live'[q] = Cardinality(UnitsOf(HeldLive(q))')
                    /\ live'[q] <= MaxLive \/ \A u, v \in AtQ(q, Reserved)' : u = v
  BY DEF LiveInv
<1>1. \A v \in Workers : /\ pc'[v] \in Reserved <=> pc[v] \in Reserved
                         /\ pc[v] \in Reserved => obj'[v] = obj[v] /\ grp'[v] = grp[v]
  BY DEF Moves, Reserved
<1>2. HeldLive(q)' = HeldLive(q)
  BY <1>1 DEF HeldLive, Need
<1>3. UnitsOf(HeldLive(q))' = UnitsOf(HeldLive(q))
  BY <1>2 DEF UnitsOf
<1>4. AtQ(q, Reserved)' = AtQ(q, Reserved)
  BY <1>1 DEF AtQ, Of
<1>5. QED
  BY <1>3, <1>4 DEF LiveInv

\* A step that reserves or releases the bytes of its worker's row group.
LEMMA LiveMove ==
    ASSUME Types, Locals, LiveInv, NEW w \in Workers, Moves(w), NEW q \in Queries,
           q = QueryOf[w], HeldLive(q)'[w] \in Nat,
           \A p \in Queries : p # q => live'[p] = live[p],
           live'[q] = live[q] - HeldLive(q)[w] + HeldLive(q)'[w],
           live'[q] <= MaxLive \/ \A u, v \in AtQ(q, Reserved)' : u = v
    PROVE  LiveInv'
<1>1. ASSUME NEW p \in Queries, p # q
      PROVE  /\ IsFiniteSet(UnitsOf(HeldLive(p))')
             /\ live'[p] = Cardinality(UnitsOf(HeldLive(p))')
             /\ live'[p] <= MaxLive \/ \A u, v \in AtQ(p, Reserved)' : u = v
  <2>1. \A v \in Workers : QueryOf[v] = p => /\ pc'[v] \in Reserved <=> pc[v] \in Reserved
                                             /\ obj'[v] = obj[v] /\ grp'[v] = grp[v]
    BY <1>1 DEF Moves, Reserved
  <2>2. HeldLive(p)' = HeldLive(p)
    BY <2>1 DEF HeldLive, Need
  <2>3. UnitsOf(HeldLive(p))' = UnitsOf(HeldLive(p))
    BY <2>2 DEF UnitsOf
  <2>4. AtQ(p, Reserved)' = AtQ(p, Reserved)
    BY <2>1 DEF AtQ, Of
  <2>5. QED
    BY <1>1, <2>3, <2>4, SMT DEF LiveInv
<1>2. /\ IsFiniteSet(UnitsOf(HeldLive(q))')
      /\ live'[q] = Cardinality(UnitsOf(HeldLive(q))')
  <2> DEFINE f == HeldLive(q)
             g == HeldLive(q)'
  <2>1. f \in [Workers -> Nat] /\ g \in [Workers -> Nat]
    <3>1. \A v \in Workers : g[v] \in Nat
      BY Holdings, HoldingsMove, SMT
    <3>2. QED
      BY <3>1, Holdings DEF HeldLive
  <2>2. \A v \in Workers : v # w => g[v] = f[v]
    BY HoldingsMove
  <2>3. IsFiniteSet(UnitsOf(f)) /\ live[q] = Cardinality(UnitsOf(f))
    BY DEF LiveInv
  <2>4. live'[q] = live[q] - f[w] + g[w]
    OBVIOUS
  <2>5. UnitsOf(HeldLive(q))' = UnitsOf(g)
    BY DEF UnitsOf
  <2> HIDE DEF f, g
  <2>6. IsFiniteSet(UnitsOf(g)) /\ Cardinality(UnitsOf(g)) = Cardinality(UnitsOf(f)) - f[w] + g[w]
    BY <2>1, <2>2, <2>3, Weight
  <2>7. QED
    BY <2>3, <2>4, <2>5, <2>6
<1>3. QED
  BY <1>1, <1>2 DEF LiveInv

\* tryReserve succeeds.
LEMMA LiveReserve ==
    ASSUME Types, Locals, LiveInv, NEW w \in Workers, Moves(w),
           pc[w] \in Busy, pc[w] \notin Reserved, pc'[w] = "decode", obj' = obj, grp' = grp,
           Fits(QueryOf[w], Need(w)), live' = [live EXCEPT ![QueryOf[w]] = @ + Need(w)]
    PROVE  LiveInv'
<1> DEFINE q == QueryOf[w]
<1>1. q \in Queries /\ MaxLive \in Nat
  BY ConstantsAssumption DEF ConstantsAssumption
<1>2. live[q] \in Int /\ live'[q] = live[q] + Need(w) /\ Need(w) \in Nat
  BY <1>1, Sizes DEF Types, GateTypes
<1>3. \A p \in Queries : p # q => live'[p] = live[p]
  BY <1>1 DEF Types, GateTypes
<1>4. HeldLive(q)[w] = 0 /\ HeldLive(q)'[w] = Need(w)
  BY DEF HeldLive, Need, Reserved
<1>5. live'[q] <= MaxLive \/ \A u, v \in AtQ(q, Reserved)' : u = v
  <2>1. CASE live[q] + Need(w) <= MaxLive
    BY <1>2, <2>1
  <2>2. CASE live[q] = 0
    <3>1. \A v \in Workers : HeldLive(q)[v] = 0
      BY <1>1, <2>2, Holdings, NoUnits DEF LiveInv
    <3>2. \A v \in Workers : QueryOf[v] = q => pc[v] \notin Reserved
      <4> SUFFICES ASSUME NEW v \in Workers, QueryOf[v] = q, pc[v] \in Reserved PROVE FALSE
        OBVIOUS
      <4>1. HeldLive(q)[v] = Need(v)
        BY DEF HeldLive
      <4>2. Need(v) \in Nat \ {0}
        BY Sizes DEF Busy
      <4>3. QED
        BY <3>1, <4>1, <4>2
    <3>3. \A v \in AtQ(q, Reserved)' : v = w
      BY <3>2 DEF AtQ, Of, Moves, Reserved
    <3>4. QED
      BY <3>3
  <2>3. QED
    BY <2>1, <2>2 DEF Fits
<1>6. live'[q] = live[q] - HeldLive(q)[w] + HeldLive(q)'[w]
  BY <1>2, <1>4, SMT
<1>7. QED
  BY <1>1, <1>2, <1>3, <1>4, <1>5, <1>6, LiveMove

\* The gate's counter is what the workers of the query hold; only a single row group exceeds it.
LEMMA LiveStep == IInv /\ [Next]_vars => LiveInv'
<1> SUFFICES ASSUME Types, Locals, LiveInv, [Next]_vars PROVE LiveInv'
  BY DEF IInv
<1>1. ASSUME NEW w \in Workers, NextObject(w) PROVE LiveInv'
  BY <1>1, NextObjectFacts, LiveKeeps DEF Reserved
<1>2. ASSUME NEW w \in Workers, TakeSlot(w) PROVE LiveInv'
  BY <1>2, TakeSlotFacts, LiveKeeps DEF Reserved
<1>3. ASSUME NEW w \in Workers, TakeBudget(w) PROVE LiveInv'
  BY <1>3, TakeBudgetFacts, LiveKeeps DEF Reserved
<1>4. ASSUME NEW w \in Workers, Open(w) PROVE LiveInv'
  BY <1>4, OpenFacts, LiveKeeps DEF Reserved
<1>5. ASSUME NEW w \in Workers, NextGroup(w) PROVE LiveInv'
  BY <1>5, NextGroupFacts, LiveKeeps DEF Reserved
<1>6. ASSUME NEW w \in Workers, TryReserve(w) PROVE LiveInv'
  <2>1. CASE pc'[w] = "decode"
    BY <1>6, <2>1, TryReserveFacts, LiveReserve DEF Busy, Reserved, Queued, Locked
  <2>2. CASE pc'[w] # "decode"
    BY <1>6, <2>2, TryReserveFacts, LiveKeeps DEF Reserved
  <2>3. QED
    BY <2>1, <2>2
<1>7. ASSUME NEW w \in Workers, Lock(w) PROVE LiveInv'
  BY <1>7, LockFacts, LiveKeeps DEF Reserved
<1>8. ASSUME NEW w \in Workers, Retry(w) PROVE LiveInv'
  <2>1. CASE pc'[w] = "decode"
    BY <1>8, <2>1, RetryFacts, LiveReserve DEF Busy, Reserved, Queued, Locked
  <2>2. CASE pc'[w] # "decode"
    BY <1>8, <2>2, RetryFacts, LiveKeeps DEF Reserved
  <2>3. QED
    BY <2>1, <2>2
<1>9. ASSUME NEW w \in Workers, Wait(w) PROVE LiveInv'
  BY <1>9, WaitFacts, LiveKeeps DEF Reserved
<1>10. ASSUME NEW w \in Workers, Relock(w) PROVE LiveInv'
  BY <1>10, RelockFacts, LiveKeeps DEF Reserved
<1>11. ASSUME NEW w \in Workers, TakeDecoder(w) PROVE LiveInv'
  BY <1>11, TakeDecoderFacts, LiveKeeps DEF Reserved
<1>12. ASSUME NEW w \in Workers, Read(w) PROVE LiveInv'
  BY <1>12, ReadFacts, LiveKeeps DEF Reserved
<1>13. ASSUME NEW w \in Workers, PreFilter(w) PROVE LiveInv'
  BY <1>13, PreFilterFacts, LiveKeeps DEF Reserved
<1>14. ASSUME NEW w \in Workers, CountRows(w) PROVE LiveInv'
  BY <1>14, CountRowsFacts, LiveKeeps DEF Reserved
<1>15. ASSUME NEW w \in Workers, WriteBlock(w) PROVE LiveInv'
  BY <1>15, WriteBlockFacts, LiveKeeps DEF Reserved
<1>16. ASSUME NEW w \in Workers, Free(w) PROVE LiveInv'
  <2> DEFINE q == QueryOf[w]
  <2>1. q \in Queries /\ MaxLive \in Nat /\ Moves(w) /\ pc[w] = "free" /\ pc'[w] = "signal"
    BY <1>16, FreeFacts, ConstantsAssumption DEF ConstantsAssumption
  <2>2. live[q] \in Int /\ live'[q] = live[q] - Need(w) /\ Need(w) \in Nat
    BY <1>16, <2>1, FreeFacts, Sizes DEF Types, GateTypes, Busy, Reserved
  <2>3. \A p \in Queries : p # q => live'[p] = live[p]
    BY <1>16, FreeFacts DEF Types, GateTypes
  <2>4. HeldLive(q)[w] = Need(w) /\ HeldLive(q)'[w] = 0
    BY <2>1 DEF HeldLive, Reserved
  <2>5. AtQ(q, Reserved)' \subseteq AtQ(q, Reserved)
    BY <2>1 DEF AtQ, Of, Moves, Reserved
  <2>6. live'[q] <= MaxLive \/ \A u, v \in AtQ(q, Reserved)' : u = v
    BY <2>1, <2>2, <2>5, SMT DEF LiveInv
  <2>7. live'[q] = live[q] - HeldLive(q)[w] + HeldLive(q)'[w]
    BY <2>2, <2>4, SMT
  <2>8. QED
    BY <2>1, <2>3, <2>4, <2>6, <2>7, LiveMove, SMT
<1>17. ASSUME NEW w \in Workers, Signal(w) PROVE LiveInv'
  BY <1>17, SignalFacts, LiveKeeps DEF Reserved
<1>18. ASSUME NEW w \in Workers, Wake(w) PROVE LiveInv'
  BY <1>18, WakeFacts, LiveKeeps DEF Reserved
<1>19. ASSUME NEW w \in Workers, Close(w) PROVE LiveInv'
  BY <1>19, CloseFacts, LiveKeeps DEF Reserved
<1>20. ASSUME NEW w \in Workers, ContextWake(w) PROVE LiveInv'
  <2>1. /\ Moves(w) /\ UNCHANGED <<obj, grp, live>>
        /\ pc'[w] = pc[w] \/ (pc[w] = "asleep" /\ pc'[w] = "awake")
    BY <1>20 DEF ContextWake, Moves, Broadcast, Types, WorkerTypes, gateVars
  <2>2. QED
    BY <2>1, LiveKeeps DEF Reserved
<1>21. ASSUME UNCHANGED <<pc, obj, grp, live>> PROVE LiveInv'
  BY <1>21, SMT DEF LiveInv, HeldLive, UnitsOf, Need, AtQ
<1>22. QED
  BY ZenonT(60), <1>1, <1>2, <1>3, <1>4, <1>5, <1>6, <1>7, <1>8, <1>9, <1>10, <1>11, <1>12, <1>13, <1>14, <1>15,
     <1>16, <1>17, <1>18, <1>19, <1>20, <1>21
     DEF Next, WorkerStep, Answer, GiveUp, vars, workerVars, gateVars

-----------------------------------------------------------------------------
(* The file budget's bytes. *)

\* A step that keeps its worker in the budget with the same object, or out of it.
LEMMA BytesKeeps ==
    ASSUME BytesInv, NEW w \in Workers, Moves(w), outBytes' = outBytes,
           pc[w] \in InPool <=> pc'[w] \in InPool,
           pc[w] \in InPool => obj'[w] = obj[w] /\ (grp'[w] = 0 <=> grp[w] = 0)
    PROVE  BytesInv'
<1>1. \A v \in Workers : /\ pc'[v] \in InPool <=> pc[v] \in InPool
                         /\ pc[v] \in InPool => obj'[v] = obj[v] /\ (grp'[v] = 0 <=> grp[v] = 0)
  BY DEF Moves, InPool, Reserved, Queued, Locked, Signalling
<1>2. \A v \in Workers : pc[v] \in InPool => Resident(v)' = Resident(v)
  BY <1>1 DEF Resident, FileCharge
<1>3. HeldFile' = HeldFile /\ HeldAdmission' = HeldAdmission
  BY <1>1, <1>2 DEF HeldFile, HeldAdmission, FileCharge
<1>4. UnitsOf(HeldFile)' = UnitsOf(HeldFile) /\ UnitsOf(HeldAdmission)' = UnitsOf(HeldAdmission)
  BY <1>3 DEF UnitsOf
<1>5. QED
  BY <1>4 DEF BytesInv

\* A step that charges or returns.
LEMMA BytesMove ==
    ASSUME Types, Locals, BytesInv, NEW w \in Workers, Moves(w),
           HeldFile'[w] \in Nat, HeldAdmission'[w] \in Nat,
           outBytes' = outBytes - HeldFile[w] + HeldFile'[w],
           Cardinality(UnitsOf(HeldAdmission)) - HeldAdmission[w] + HeldAdmission'[w] <= MaxResident
    PROVE  BytesInv'
<1> DEFINE f == HeldFile
           g == HeldFile'
           a == HeldAdmission
           b == HeldAdmission'
<1>1. f \in [Workers -> Nat] /\ a \in [Workers -> Nat]
  BY Holdings
<1>2. \A v \in Workers : v # w => g[v] = f[v] /\ b[v] = a[v]
  BY HoldingsMove
<1>3. g \in [Workers -> Nat] /\ b \in [Workers -> Nat]
  <2>1. \A v \in Workers : g[v] \in Nat /\ b[v] \in Nat
    BY <1>1, <1>2
  <2>2. QED
    BY <2>1 DEF HeldFile, HeldAdmission
<1>4. UnitsOf(HeldFile)' = UnitsOf(g) /\ UnitsOf(HeldAdmission)' = UnitsOf(b)
  BY DEF UnitsOf
<1>5. /\ IsFiniteSet(UnitsOf(f)) /\ IsFiniteSet(UnitsOf(a)) /\ outBytes = Cardinality(UnitsOf(f))
      /\ outBytes' = outBytes - f[w] + g[w]
      /\ Cardinality(UnitsOf(a)) - a[w] + b[w] <= MaxResident
  BY DEF BytesInv
<1> HIDE DEF f, g, a, b
<1>6. IsFiniteSet(UnitsOf(g)) /\ Cardinality(UnitsOf(g)) = Cardinality(UnitsOf(f)) - f[w] + g[w]
  BY <1>1, <1>2, <1>3, <1>5, Weight
<1>7. IsFiniteSet(UnitsOf(b)) /\ Cardinality(UnitsOf(b)) = Cardinality(UnitsOf(a)) - a[w] + b[w]
  BY <1>1, <1>2, <1>3, <1>5, Weight
<1>8. QED
  BY <1>4, <1>5, <1>6, <1>7 DEF BytesInv

\* What is admitted is charged.
LEMMA AdmittedCharged ==
    ASSUME Types, Locals, BytesInv
    PROVE  Cardinality(UnitsOf(HeldAdmission)) <= outBytes
<1>1. \A w \in Workers : /\ HeldAdmission[w] \in Nat /\ HeldFile[w] \in Nat
                         /\ HeldAdmission[w] <= HeldFile[w]
  BY Holdings, Sizes, SMT DEF HeldAdmission, HeldFile
<1>2. UnitsOf(HeldAdmission) \subseteq UnitsOf(HeldFile)
  <2> SUFFICES ASSUME NEW x \in UnitsOf(HeldAdmission) PROVE x \in UnitsOf(HeldFile)
    OBVIOUS
  <2>1. PICK w \in Workers : x \in {w} \X (1..HeldAdmission[w])
    BY UnitOwner
  <2>2. 1..HeldAdmission[w] \subseteq 1..HeldFile[w]
    BY <1>1, SMT
  <2>3. x \in {w} \X (1..HeldFile[w])
    BY <2>1, <2>2
  <2>4. QED
    BY <2>3, UnitOwner
<1>3. QED
  BY <1>2, FS_Subset DEF BytesInv

\* The budget admits an object.
LEMMA BytesAdmit ==
    ASSUME Types, Locals, Counts, BytesInv, NEW w \in Workers, Moves(w),
           pc[w] = "budget", pc'[w] = "open", obj' = obj, grp' = grp,
           outBytes' = outBytes + FileCharge(obj[w]), Admits(obj[w])
    PROVE  BytesInv'
<1> DEFINE c == FileCharge(obj[w])
<1>1. c \in Nat /\ c <= MaxResident /\ MaxResident \in Nat /\ grp[w] = 0
  BY ConstantsAssumption, SMT DEF ConstantsAssumption, FileCharge, Locals, Local, InSlot
<1>2. /\ HeldFile[w] = 0 /\ HeldAdmission[w] = 0
      /\ HeldFile'[w] = c + 0 /\ HeldAdmission'[w] = c
  BY <1>1 DEF HeldFile, HeldAdmission, Resident, FileCharge, InPool, Reserved, Queued, Locked, Signalling
<1> HIDE DEF c
<1>3. Cardinality(UnitsOf(HeldAdmission)) + c <= MaxResident
  <2>1. CASE outBytes + c <= MaxResident
    <3>1. outBytes \in Int /\ Cardinality(UnitsOf(HeldAdmission)) \in Nat
      BY FS_CardinalityType DEF Types, PoolTypes, BytesInv
    <3>2. QED
      BY <1>1, <2>1, <3>1, AdmittedCharged, SMT
  <2>2. CASE outCount = 0
    <3>1. IsFiniteSet(At(InPool))
      BY ConstantsAssumption, FS_Subset DEF ConstantsAssumption, At
    <3>2. At(InPool) = {}
      BY <2>2, <3>1, FS_EmptySet DEF Counts
    <3>3. \A v \in Workers : HeldAdmission[v] = 0
      BY <3>2 DEF HeldAdmission, At
    <3>4. UnitsOf(HeldAdmission) = {}
      BY <3>3, Holdings, NoUnits
    <3>5. Cardinality(UnitsOf(HeldAdmission)) = 0
      BY <3>4, FS_EmptySet
    <3>6. QED
      BY <1>1, <3>5, SMT
  <2>3. QED
    BY <2>1, <2>2 DEF Admits, c
<1>4. Cardinality(UnitsOf(HeldAdmission)) \in Nat /\ outBytes \in Int /\ outBytes' = outBytes + c
  BY FS_CardinalityType DEF BytesInv, Types, PoolTypes, c
<1>5. /\ HeldFile'[w] \in Nat /\ HeldAdmission'[w] \in Nat
      /\ outBytes' = outBytes - HeldFile[w] + HeldFile'[w]
      /\ Cardinality(UnitsOf(HeldAdmission)) - HeldAdmission[w] + HeldAdmission'[w] <= MaxResident
  BY <1>1, <1>2, <1>3, <1>4, SMT
<1>6. QED
  BY <1>5, BytesMove

\* The planned ranges of an opened object.
LEMMA BytesOpen ==
    ASSUME Types, Locals, BytesInv, NEW w \in Workers, Moves(w), pc[w] = "open", pc'[w] = "group",
           obj' = obj, grp'[w] = 1, outBytes' = outBytes + Plan[obj[w]]
    PROVE  BytesInv'
<1>1. /\ FileCharge(obj[w]) \in Nat /\ Plan[obj[w]] \in Nat /\ grp[w] = 0
      /\ pc[w] \in InPool /\ pc'[w] \in InPool
  BY Sizes DEF InPool, Locals, Local
<1>2. /\ HeldFile[w] = FileCharge(obj[w]) + 0 /\ HeldAdmission[w] = FileCharge(obj[w])
      /\ HeldFile'[w] = FileCharge(obj[w]) + Plan[obj[w]] /\ HeldAdmission'[w] = FileCharge(obj[w])
  <2>1. Resident(w) = FileCharge(obj[w]) + 0 /\ Resident(w)' = FileCharge(obj[w]) + Plan[obj[w]]
    BY <1>1, SMT DEF Resident, FileCharge
  <2>2. HeldFile[w] = Resident(w) /\ HeldFile'[w] = Resident(w)'
    BY <1>1 DEF HeldFile
  <2>3. HeldAdmission[w] = FileCharge(obj[w]) /\ HeldAdmission'[w] = FileCharge(obj[w])
    BY <1>1 DEF HeldAdmission, FileCharge
  <2>4. QED
    BY <2>1, <2>2, <2>3
<1>3. /\ outBytes \in Int /\ Cardinality(UnitsOf(HeldAdmission)) \in Nat
      /\ Cardinality(UnitsOf(HeldAdmission)) <= MaxResident
  BY FS_CardinalityType DEF BytesInv, Types, PoolTypes
<1>4. /\ HeldFile'[w] \in Nat /\ HeldAdmission'[w] \in Nat
      /\ outBytes' = outBytes - HeldFile[w] + HeldFile'[w]
      /\ Cardinality(UnitsOf(HeldAdmission)) - HeldAdmission[w] + HeldAdmission'[w] <= MaxResident
  BY <1>1, <1>2, <1>3, SMT
<1>5. QED
  BY <1>4, BytesMove

\* An object gives back its admission and its planned ranges.
LEMMA BytesClose ==
    ASSUME Types, Locals, BytesInv, NEW w \in Workers, Moves(w), pc[w] = "close",
           pc'[w] \in {"next", "done"}, outBytes' = outBytes - Resident(w)
    PROVE  BytesInv'
<1>1. /\ FileCharge(obj[w]) \in Nat /\ Resident(w) \in Nat
      /\ pc[w] \in InPool /\ pc'[w] \notin InPool
  BY Sizes DEF InPool, Reserved, Queued, Locked, Signalling
<1>2. /\ HeldFile[w] = Resident(w) /\ HeldAdmission[w] = FileCharge(obj[w])
      /\ HeldFile'[w] = 0 /\ HeldAdmission'[w] = 0
  BY <1>1 DEF HeldFile, HeldAdmission
<1>3. /\ outBytes \in Int /\ Cardinality(UnitsOf(HeldAdmission)) \in Nat /\ MaxResident \in Nat
      /\ Cardinality(UnitsOf(HeldAdmission)) <= MaxResident
  BY FS_CardinalityType, ConstantsAssumption DEF ConstantsAssumption, BytesInv, Types, PoolTypes
<1>4. /\ HeldFile'[w] \in Nat /\ HeldAdmission'[w] \in Nat
      /\ outBytes' = outBytes - HeldFile[w] + HeldFile'[w]
      /\ Cardinality(UnitsOf(HeldAdmission)) - HeldAdmission[w] + HeldAdmission'[w] <= MaxResident
  BY <1>1, <1>2, <1>3, SMT
<1>5. QED
  BY <1>4, BytesMove

\* The file budget is charged what its objects hold, and what it admits fits.
LEMMA BytesStep == IInv /\ [Next]_vars => BytesInv'
<1> SUFFICES ASSUME Types, Locals, Counts, BytesInv, [Next]_vars PROVE BytesInv'
  BY DEF IInv
<1>n. \A w \in Workers : Local(w) /\ grp[w] \in Nat
  BY DEF Locals, Types, WorkerTypes
<1>1. ASSUME NEW w \in Workers, NextObject(w) PROVE BytesInv'
  BY <1>1, NextObjectFacts, BytesKeeps DEF InPool, Reserved, Queued, Locked, Signalling
<1>2. ASSUME NEW w \in Workers, TakeSlot(w) PROVE BytesInv'
  BY <1>2, TakeSlotFacts, BytesKeeps DEF InPool, Reserved, Queued, Locked, Signalling
<1>3. ASSUME NEW w \in Workers, TakeBudget(w) PROVE BytesInv'
  <2>1. CASE pc'[w] = "open"
    BY <1>3, <2>1, TakeBudgetFacts, BytesAdmit
  <2>2. CASE pc'[w] # "open"
    BY <1>3, <2>2, TakeBudgetFacts, BytesKeeps DEF InPool, Reserved, Queued, Locked, Signalling
  <2>3. QED
    BY <2>1, <2>2
<1>4. ASSUME NEW w \in Workers, Open(w) PROVE BytesInv'
  <2>1. CASE pc'[w] = "group"
    BY <1>4, <2>1, OpenFacts, BytesOpen
  <2>2. CASE pc'[w] # "group"
    BY <1>4, <2>2, OpenFacts, BytesKeeps DEF InPool, Reserved, Queued, Locked, Signalling
  <2>3. QED
    BY <2>1, <2>2
<1>5. ASSUME NEW w \in Workers, NextGroup(w) PROVE BytesInv'
  BY <1>5, NextGroupFacts, BytesKeeps DEF InPool, Reserved, Queued, Locked, Signalling
<1>6. ASSUME NEW w \in Workers, TryReserve(w) PROVE BytesInv'
  BY <1>6, TryReserveFacts, BytesKeeps DEF InPool, Reserved, Queued, Locked, Signalling
<1>7. ASSUME NEW w \in Workers, Lock(w) PROVE BytesInv'
  BY <1>7, LockFacts, BytesKeeps DEF InPool, Reserved, Queued, Locked, Signalling
<1>8. ASSUME NEW w \in Workers, Retry(w) PROVE BytesInv'
  BY <1>8, RetryFacts, BytesKeeps DEF InPool, Reserved, Queued, Locked, Signalling
<1>9. ASSUME NEW w \in Workers, Wait(w) PROVE BytesInv'
  BY <1>9, WaitFacts, BytesKeeps DEF InPool, Reserved, Queued, Locked, Signalling
<1>10. ASSUME NEW w \in Workers, Relock(w) PROVE BytesInv'
  BY <1>10, RelockFacts, BytesKeeps DEF InPool, Reserved, Queued, Locked, Signalling
<1>11. ASSUME NEW w \in Workers, TakeDecoder(w) PROVE BytesInv'
  BY <1>11, TakeDecoderFacts, BytesKeeps DEF InPool, Reserved, Queued, Locked, Signalling
<1>12. ASSUME NEW w \in Workers, Read(w) PROVE BytesInv'
  BY <1>12, ReadFacts, BytesKeeps DEF InPool, Reserved, Queued, Locked, Signalling
<1>13. ASSUME NEW w \in Workers, PreFilter(w) PROVE BytesInv'
  BY <1>13, PreFilterFacts, BytesKeeps DEF InPool, Reserved, Queued, Locked, Signalling
<1>14. ASSUME NEW w \in Workers, CountRows(w) PROVE BytesInv'
  BY <1>14, CountRowsFacts, BytesKeeps DEF InPool, Reserved, Queued, Locked, Signalling
<1>15. ASSUME NEW w \in Workers, WriteBlock(w) PROVE BytesInv'
  BY <1>15, WriteBlockFacts, BytesKeeps DEF InPool, Reserved, Queued, Locked, Signalling
<1>16. ASSUME NEW w \in Workers, Free(w) PROVE BytesInv'
  BY <1>16, FreeFacts, BytesKeeps DEF InPool, Reserved, Queued, Locked, Signalling
<1>17. ASSUME NEW w \in Workers, Signal(w) PROVE BytesInv'
  <2>1. grp[w] >= 1
    BY <1>17, <1>n, SignalFacts, SMT DEF Local, Busy, Signalling
  <2>2. QED
    BY <1>17, <1>n, <2>1, SignalFacts, BytesKeeps, SMT DEF InPool, Reserved, Queued, Locked, Signalling
<1>18. ASSUME NEW w \in Workers, Wake(w) PROVE BytesInv'
  <2>1. grp[w] >= 1
    BY <1>18, <1>n, WakeFacts, SMT DEF Local, Busy, Signalling
  <2>2. QED
    BY <1>18, <1>n, <2>1, WakeFacts, BytesKeeps, SMT DEF InPool, Reserved, Queued, Locked, Signalling
<1>19. ASSUME NEW w \in Workers, Close(w) PROVE BytesInv'
  BY <1>19, CloseFacts, BytesClose
<1>20. ASSUME NEW w \in Workers, ContextWake(w) PROVE BytesInv'
  <2>1. /\ Moves(w) /\ UNCHANGED <<obj, grp, outBytes>>
        /\ pc'[w] = pc[w] \/ (pc[w] = "asleep" /\ pc'[w] = "awake")
    BY <1>20 DEF ContextWake, Moves, Broadcast, Types, WorkerTypes, poolVars
  <2>2. QED
    BY <2>1, BytesKeeps DEF InPool, Reserved, Queued, Locked, Signalling
<1>21. ASSUME UNCHANGED <<pc, obj, grp, outBytes>> PROVE BytesInv'
  <2>1. HeldFile' = HeldFile /\ HeldAdmission' = HeldAdmission
    BY <1>21 DEF HeldFile, HeldAdmission, Resident, FileCharge
  <2>2. UnitsOf(HeldFile)' = UnitsOf(HeldFile) /\ UnitsOf(HeldAdmission)' = UnitsOf(HeldAdmission)
    BY <2>1 DEF UnitsOf
  <2>3. QED
    BY <1>21, <2>2 DEF BytesInv
<1>22. QED
  BY ZenonT(60), <1>1, <1>2, <1>3, <1>4, <1>5, <1>6, <1>7, <1>8, <1>9, <1>10, <1>11, <1>12, <1>13, <1>14, <1>15,
     <1>16, <1>17, <1>18, <1>19, <1>20, <1>21
     DEF Next, WorkerStep, Answer, GiveUp, vars, workerVars, poolVars

-----------------------------------------------------------------------------
(* The row ceiling. *)

\* A step that counts no rows and brings no block past the check.
LEMMA CeilingKeeps ==
    ASSUME Types, CeilingInv, NEW w \in Workers, Moves(w), UNCHANGED <<rows, ceiling>>,
           pc[w] # "count", pc'[w] # "count"
    PROVE  CeilingInv'
<1>1. \A q \in Queries : Cardinality(AtQ(q, {"count"})') = Cardinality(AtQ(q, {"count"}))
  BY CountedQ DEF StepSets
<1>2. QED
  BY <1>1 DEF CeilingInv

\* Rows and blocks past the check stay below the ceiling and one block per decoder.
LEMMA CeilingStep == IInv /\ Counts' /\ [Next]_vars => CeilingInv'
<1> SUFFICES ASSUME Types, Locals, Counts, Counts', CeilingInv, [Next]_vars PROVE CeilingInv'
  BY DEF IInv
<1>c. Decoders \in Nat /\ \A w \in Workers : QueryOf[w] \in Queries
  BY ConstantsAssumption DEF ConstantsAssumption
<1>t. /\ rows \in [Queries -> Nat] /\ ceiling \in [Queries -> Nat]
  BY DEF Types, QueryTypes
<1>1. ASSUME NEW w \in Workers, NextObject(w) PROVE CeilingInv'
  BY <1>1, NextObjectFacts, CeilingKeeps
<1>2. ASSUME NEW w \in Workers, TakeSlot(w) PROVE CeilingInv'
  BY <1>2, TakeSlotFacts, CeilingKeeps
<1>3. ASSUME NEW w \in Workers, TakeBudget(w) PROVE CeilingInv'
  BY <1>3, TakeBudgetFacts, CeilingKeeps
<1>4. ASSUME NEW w \in Workers, Open(w) PROVE CeilingInv'
  BY <1>4, OpenFacts, CeilingKeeps
<1>5. ASSUME NEW w \in Workers, NextGroup(w) PROVE CeilingInv'
  BY <1>5, NextGroupFacts, CeilingKeeps
<1>6. ASSUME NEW w \in Workers, TryReserve(w) PROVE CeilingInv'
  BY <1>6, TryReserveFacts, CeilingKeeps
<1>7. ASSUME NEW w \in Workers, Lock(w) PROVE CeilingInv'
  BY <1>7, LockFacts, CeilingKeeps
<1>8. ASSUME NEW w \in Workers, Retry(w) PROVE CeilingInv'
  BY <1>8, RetryFacts, CeilingKeeps
<1>9. ASSUME NEW w \in Workers, Wait(w) PROVE CeilingInv'
  BY <1>9, WaitFacts, CeilingKeeps
<1>10. ASSUME NEW w \in Workers, Relock(w) PROVE CeilingInv'
  BY <1>10, RelockFacts, CeilingKeeps
<1>11. ASSUME NEW w \in Workers, TakeDecoder(w) PROVE CeilingInv'
  BY <1>11, TakeDecoderFacts, CeilingKeeps
<1>12. ASSUME NEW w \in Workers, Read(w) PROVE CeilingInv'
  BY <1>12, ReadFacts, CeilingKeeps
<1>13. ASSUME NEW w \in Workers, PreFilter(w) PROVE CeilingInv'
  <2>1. CASE pc'[w] # "count"
    BY <1>13, <2>1, PreFilterFacts, CeilingKeeps
  <2>2. CASE pc'[w] = "count"
    <3> SUFFICES ASSUME NEW q \in Queries, ceiling[q] > 0
                 PROVE  rows[q] + Cardinality(AtQ(q, {"count"})') < ceiling[q] + Decoders
      BY <1>13, PreFilterFacts DEF CeilingInv
    <3>1. CASE q = QueryOf[w]
      <4>1. rows[q] < ceiling[q]
        BY <1>13, <1>t, <2>2, <3>1, PreFilterFacts, SMT DEF AtCeiling
      <4>2. IsFiniteSet(At(Decoding)')
        BY ConstantsAssumption, FS_Subset DEF ConstantsAssumption, At
      <4>3. AtQ(q, {"count"})' \subseteq At(Decoding)'
        BY DEF AtQ, Of, At, Decoding
      <4>4. /\ Cardinality(AtQ(q, {"count"})') <= Cardinality(At(Decoding)')
            /\ Cardinality(AtQ(q, {"count"})') \in Nat /\ Cardinality(At(Decoding)') \in Nat
        BY <4>2, <4>3, FS_Subset, FS_CardinalityType
      <4>5. Cardinality(At(Decoding)') <= Decoders
        BY DEF Counts
      <4>6. QED
        BY <1>c, <1>t, <4>1, <4>4, <4>5, SMT
    <3>2. CASE q # QueryOf[w]
      <4>1. AtQ(q, {"count"})' = AtQ(q, {"count"})
        BY <1>13, <3>2, PreFilterFacts, CountedQ DEF StepSets
      <4>2. QED
        BY <4>1 DEF CeilingInv
    <3>3. QED
      BY <3>1, <3>2
  <2>3. QED
    BY <2>1, <2>2
<1>14. ASSUME NEW w \in Workers, CountRows(w) PROVE CeilingInv'
  <2> SUFFICES ASSUME NEW q \in Queries, ceiling[q] > 0
               PROVE  rows'[q] + Cardinality(AtQ(q, {"count"})') < ceiling[q] + Decoders
    BY <1>14, CountRowsFacts DEF CeilingInv
  <2>1. Cardinality(AtQ(q, {"count"})) \in Nat
    BY <1>14, CountRowsFacts, CountedQ DEF StepSets
  <2>2. CASE q = QueryOf[w]
    <3>1. rows'[q] = rows[q] + 1 /\ Cardinality(AtQ(q, {"count"})') = Cardinality(AtQ(q, {"count"})) - 1
      BY <1>14, <1>c, <1>t, <2>2, CountRowsFacts, CountedQ DEF StepSets
    <3>2. QED
      BY <1>t, <2>1, <3>1, SMT DEF CeilingInv
  <2>3. CASE q # QueryOf[w]
    <3>1. rows'[q] = rows[q] /\ AtQ(q, {"count"})' = AtQ(q, {"count"})
      <4>1. rows'[q] = rows[q]
        BY <1>14, <1>c, <1>t, <2>3, CountRowsFacts
      <4>2. AtQ(q, {"count"})' = AtQ(q, {"count"})
        BY <1>14, <2>3, CountRowsFacts, CountedQ DEF StepSets
      <4>3. QED
        BY <4>1, <4>2
    <3>2. QED
      BY <3>1 DEF CeilingInv
  <2>4. QED
    BY <2>2, <2>3
<1>15. ASSUME NEW w \in Workers, WriteBlock(w) PROVE CeilingInv'
  BY <1>15, WriteBlockFacts, CeilingKeeps
<1>16. ASSUME NEW w \in Workers, Free(w) PROVE CeilingInv'
  BY <1>16, FreeFacts, CeilingKeeps
<1>17. ASSUME NEW w \in Workers, Signal(w) PROVE CeilingInv'
  BY <1>17, SignalFacts, CeilingKeeps
<1>18. ASSUME NEW w \in Workers, Wake(w) PROVE CeilingInv'
  BY <1>18, WakeFacts, CeilingKeeps
<1>19. ASSUME NEW w \in Workers, Close(w) PROVE CeilingInv'
  BY <1>19, CloseFacts, CeilingKeeps
<1>20. ASSUME NEW w \in Workers, ContextWake(w) PROVE CeilingInv'
  <2>1. \A q \in Queries : AtQ(q, {"count"})' = AtQ(q, {"count"})
    BY <1>20 DEF ContextWake, Broadcast, AtQ, Of, Types, WorkerTypes
  <2>2. QED
    BY <1>20, <2>1 DEF ContextWake, queryVars, CeilingInv
<1>21. ASSUME UNCHANGED <<pc, rows, ceiling>> PROVE CeilingInv'
  BY <1>21 DEF CeilingInv, AtQ
<1>22. QED
  BY ZenonT(60), <1>1, <1>2, <1>3, <1>4, <1>5, <1>6, <1>7, <1>8, <1>9, <1>10, <1>11, <1>12, <1>13, <1>14, <1>15,
     <1>16, <1>17, <1>18, <1>19, <1>20, <1>21
     DEF Next, WorkerStep, Answer, GiveUp, vars, workerVars, queryVars

-----------------------------------------------------------------------------
(* Wakeups. *)

\* A step after which the gate has not more room, and no promised signal is gone.
LEMMA GateKeeps ==
    ASSUME GateInv, NEW w \in Workers, Moves(w),
           \A v \in Workers : pc'[v] \in {"wait", "asleep"} /\ Fits(QueryOf[v], Need(v))' =>
                                 Fits(QueryOf[v], Need(v)),
           pc[w] \in Signalling => pc'[w] \in Signalling,
           pc'[w] \in {"wait", "asleep"} => pc[w] = "wait"
    PROVE  GateInv'
<1> SUFFICES ASSUME NEW v \in Workers, pc'[v] \in {"wait", "asleep"}, Fits(QueryOf[v], Need(v))'
             PROVE  \E u \in Of(QueryOf[v]) : pc'[u] \in Signalling
  BY DEF GateInv, Of
<1>1. pc[v] \in {"wait", "asleep"}
  BY DEF Moves
<1>2. PICK u \in Of(QueryOf[v]) : pc[u] \in Signalling
  BY <1>1 DEF GateInv
<1>3. u \in Workers /\ pc'[u] \in Signalling
  BY <1>2 DEF Of, Moves, Signalling
<1>4. QED
  BY <1>2, <1>3

\* A step that leaves no worker of its query asleep or about to sleep.
LEMMA GateEmpties ==
    ASSUME GateInv, NEW w \in Workers, Moves(w), live' = live,
           \A v \in Of(QueryOf[w]) : pc'[v] \notin {"wait", "asleep"}
    PROVE  GateInv'
<1> SUFFICES ASSUME NEW v \in Workers, pc'[v] \in {"wait", "asleep"}, Fits(QueryOf[v], Need(v))'
             PROVE  \E u \in Of(QueryOf[v]) : pc'[u] \in Signalling
  BY DEF GateInv, Of
<1>1. v # w /\ QueryOf[v] # QueryOf[w]
  BY DEF Of
<1>2. pc[v] \in {"wait", "asleep"} /\ Fits(QueryOf[v], Need(v))
  BY <1>1 DEF Moves, Fits, Need
<1>3. PICK u \in Of(QueryOf[v]) : pc[u] \in Signalling
  BY <1>2 DEF GateInv
<1>4. u \in Workers /\ pc'[u] \in Signalling
  BY <1>1, <1>3 DEF Of, Moves, Signalling
<1>5. QED
  BY <1>3, <1>4

\* What does not fit does not fit after a reservation.
LEMMA GateReserves ==
    ASSUME Types, Locals, NEW w \in Workers, Moves(w), pc[w] \in Busy, pc'[w] = "decode",
           live' = [live EXCEPT ![QueryOf[w]] = @ + Need(w)], LiveInv,
           NEW v \in Workers, pc'[v] \in {"wait", "asleep"}, Fits(QueryOf[v], Need(v))'
    PROVE  Fits(QueryOf[v], Need(v))
<1>1. v # w /\ Need(v)' = Need(v) /\ pc[v] \in Busy
  BY DEF Moves, Need, Busy, Queued, Locked
<1>2. QueryOf[v] \in Queries /\ QueryOf[w] \in Queries /\ MaxLive \in Nat
  BY ConstantsAssumption DEF ConstantsAssumption
<1>3. live \in [Queries -> Int] /\ Need(w) \in Nat \ {0} /\ Need(v) \in Nat
  BY <1>1, Sizes DEF Types, GateTypes
<1>4. live[QueryOf[v]] \in Nat
  <2>1. IsFiniteSet(UnitsOf(HeldLive(QueryOf[v]))) /\ live[QueryOf[v]] = Cardinality(UnitsOf(HeldLive(QueryOf[v])))
    BY <1>2 DEF LiveInv
  <2>2. QED
    BY <2>1, FS_CardinalityType
<1>5. live'[QueryOf[v]] = 0 \/ live'[QueryOf[v]] + Need(v) <= MaxLive
  BY <1>1 DEF Fits
<1>6. live'[QueryOf[v]] = live[QueryOf[v]] \/ live'[QueryOf[v]] = live[QueryOf[v]] + Need(w)
  BY <1>2, <1>3
<1>7. live[QueryOf[v]] = 0 \/ live[QueryOf[v]] + Need(v) <= MaxLive
  <2>1. Need(w) \in Nat /\ Need(w) # 0 /\ Need(v) \in Nat /\ live[QueryOf[v]] \in Nat /\ MaxLive \in Nat
    BY <1>2, <1>3, <1>4
  <2>2. CASE live'[QueryOf[v]] = live[QueryOf[v]]
    BY <1>5, <2>2
  <2>3. CASE live'[QueryOf[v]] = live[QueryOf[v]] + Need(w)
    <3>1. live'[QueryOf[v]] # 0
      BY ONLY <2>1, <2>3, SMT
    <3>2. live[QueryOf[v]] + Need(w) + Need(v) <= MaxLive
      BY <1>5, <2>3, <3>1
    <3>3. QED
      BY ONLY <2>1, <3>2, SMT
  <2>4. QED
    BY <1>6, <2>2, <2>3
<1>8. QED
  BY <1>7 DEF Fits

\* No step loses a wakeup.
LEMMA GateStep == IInv /\ [Next]_vars => GateInv'
<1> SUFFICES ASSUME Types, Locals, Counts, LiveInv, GateInv, [Next]_vars PROVE GateInv'
  BY DEF IInv
<1>k. ASSUME NEW w \in Workers, Moves(w), live' = live, pc[w] \in Signalling => pc'[w] \in Signalling,
             pc'[w] \in {"wait", "asleep"} => pc[w] = "wait" /\ obj'[w] = obj[w] /\ grp'[w] = grp[w]
      PROVE  GateInv'
  <2>1. \A v \in Workers : pc'[v] \in {"wait", "asleep"} => obj'[v] = obj[v] /\ grp'[v] = grp[v]
    BY <1>k DEF Moves
  <2>2. \A v \in Workers : pc'[v] \in {"wait", "asleep"} /\ Fits(QueryOf[v], Need(v))' =>
                              Fits(QueryOf[v], Need(v))
    BY <1>k, <2>1 DEF Fits, Need
  <2>3. QED
    BY <1>k, <2>2, GateKeeps
<1>1. ASSUME NEW w \in Workers, NextObject(w) PROVE GateInv'
  BY <1>1, <1>k, NextObjectFacts DEF Signalling
<1>2. ASSUME NEW w \in Workers, TakeSlot(w) PROVE GateInv'
  BY <1>2, <1>k, TakeSlotFacts DEF Signalling
<1>3. ASSUME NEW w \in Workers, TakeBudget(w) PROVE GateInv'
  BY <1>3, <1>k, TakeBudgetFacts DEF Signalling
<1>4. ASSUME NEW w \in Workers, Open(w) PROVE GateInv'
  BY <1>4, <1>k, OpenFacts DEF Signalling
<1>5. ASSUME NEW w \in Workers, NextGroup(w) PROVE GateInv'
  BY <1>5, <1>k, NextGroupFacts DEF Signalling
<1>6. ASSUME NEW w \in Workers, TryReserve(w) PROVE GateInv'
  <2>1. CASE pc'[w] = "decode"
    <3>1. /\ Moves(w) /\ pc[w] \in Busy /\ pc[w] \notin Signalling
          /\ live' = [live EXCEPT ![QueryOf[w]] = @ + Need(w)]
      BY <1>6, <2>1, TryReserveFacts DEF Busy, Queued, Locked, Signalling
    <3>2. \A v \in Workers : pc'[v] \in {"wait", "asleep"} /\ Fits(QueryOf[v], Need(v))' =>
                                Fits(QueryOf[v], Need(v))
      BY <2>1, <3>1, GateReserves
    <3>3. QED
      BY <2>1, <3>1, <3>2, GateKeeps
  <2>2. CASE pc'[w] = "lock"
    BY <1>6, <1>k, <2>2, TryReserveFacts DEF Signalling
  <2>3. QED
    BY <1>6, <2>1, <2>2, TryReserveFacts
<1>7. ASSUME NEW w \in Workers, Lock(w) PROVE GateInv'
  BY <1>7, <1>k, LockFacts DEF Signalling
<1>8. ASSUME NEW w \in Workers, Retry(w) PROVE GateInv'
  <2>1. CASE pc'[w] = "decode"
    <3>1. /\ Moves(w) /\ pc[w] \in Busy /\ pc[w] \notin Signalling
          /\ live' = [live EXCEPT ![QueryOf[w]] = @ + Need(w)]
      BY <1>8, <2>1, RetryFacts DEF Busy, Queued, Locked, Signalling
    <3>2. \A v \in Workers : pc'[v] \in {"wait", "asleep"} /\ Fits(QueryOf[v], Need(v))' =>
                                Fits(QueryOf[v], Need(v))
      BY <2>1, <3>1, GateReserves
    <3>3. QED
      BY <2>1, <3>1, <3>2, GateKeeps
  <2>2. CASE pc'[w] = "wait"
    <3>1. /\ Moves(w) /\ UNCHANGED <<live, obj, grp>> /\ pc[w] = "try" /\ ~Fits(QueryOf[w], Need(w))
      BY <1>8, <2>2, RetryFacts
    <3> SUFFICES ASSUME NEW v \in Workers, pc'[v] \in {"wait", "asleep"}, Fits(QueryOf[v], Need(v))'
                 PROVE  \E u \in Of(QueryOf[v]) : pc'[u] \in Signalling
      BY DEF GateInv, Of
    <3>2. Fits(QueryOf[v], Need(v)) /\ v # w /\ pc[v] \in {"wait", "asleep"}
      BY <3>1 DEF Fits, Need, Moves
    <3>3. PICK u \in Of(QueryOf[v]) : pc[u] \in Signalling
      BY <3>2 DEF GateInv
    <3>4. u \in Workers /\ pc'[u] \in Signalling
      BY <3>1, <3>3 DEF Of, Moves, Signalling
    <3>5. QED
      BY <3>3, <3>4
  <2>3. QED
    BY <1>8, <2>1, <2>2, RetryFacts
<1>9. ASSUME NEW w \in Workers, Wait(w) PROVE GateInv'
  BY <1>9, <1>k, WaitFacts DEF Signalling
<1>10. ASSUME NEW w \in Workers, Relock(w) PROVE GateInv'
  BY <1>10, <1>k, RelockFacts DEF Signalling
<1>11. ASSUME NEW w \in Workers, TakeDecoder(w) PROVE GateInv'
  BY <1>11, <1>k, TakeDecoderFacts DEF Signalling
<1>12. ASSUME NEW w \in Workers, Read(w) PROVE GateInv'
  BY <1>12, <1>k, ReadFacts DEF Signalling
<1>13. ASSUME NEW w \in Workers, PreFilter(w) PROVE GateInv'
  BY <1>13, <1>k, PreFilterFacts DEF Signalling
<1>14. ASSUME NEW w \in Workers, CountRows(w) PROVE GateInv'
  BY <1>14, <1>k, CountRowsFacts DEF Signalling
<1>15. ASSUME NEW w \in Workers, WriteBlock(w) PROVE GateInv'
  BY <1>15, <1>k, WriteBlockFacts DEF Signalling
<1>16. ASSUME NEW w \in Workers, Free(w) PROVE GateInv'
  <2>1. Moves(w) /\ pc'[w] = "signal" /\ live' = [live EXCEPT ![QueryOf[w]] = @ - Need(w)]
    BY <1>16, FreeFacts
  <2> SUFFICES ASSUME NEW v \in Workers, pc'[v] \in {"wait", "asleep"}, Fits(QueryOf[v], Need(v))'
               PROVE  \E u \in Of(QueryOf[v]) : pc'[u] \in Signalling
    BY DEF GateInv, Of
  <2>2. CASE QueryOf[v] = QueryOf[w]
    BY <2>1, <2>2 DEF Of, Signalling
  <2>3. CASE QueryOf[v] # QueryOf[w]
    <3>1. live'[QueryOf[v]] = live[QueryOf[v]] /\ v # w
      BY <2>1, <2>3, ConstantsAssumption DEF ConstantsAssumption, Types, GateTypes
    <3>2. Fits(QueryOf[v], Need(v)) /\ pc[v] \in {"wait", "asleep"}
      BY <2>1, <3>1 DEF Fits, Need, Moves
    <3>3. PICK u \in Of(QueryOf[v]) : pc[u] \in Signalling
      BY <3>2 DEF GateInv
    <3>4. u \in Workers /\ pc'[u] \in Signalling
      BY <2>1, <2>3, <3>3 DEF Of, Moves, Signalling
    <3>5. QED
      BY <3>3, <3>4
  <2>4. QED
    BY <2>2, <2>3
<1>17. ASSUME NEW w \in Workers, Signal(w) PROVE GateInv'
  <2>1. CASE pc'[w] = "wake"
    BY <1>17, <1>k, <2>1, SignalFacts DEF Signalling
  <2>2. CASE pc'[w] # "wake"
    <3>1. waiters[QueryOf[w]] <= 0 /\ pc'[w] \in {"group", "close"} /\ Moves(w) /\ live' = live
      BY <1>17, <2>2, SignalFacts
    <3>2. AtQ(QueryOf[w], Queued) = {}
      <4>1. QueryOf[w] \in Queries
        BY ConstantsAssumption DEF ConstantsAssumption
      <4>2. IsFiniteSet(AtQ(QueryOf[w], Queued)) /\ Cardinality(AtQ(QueryOf[w], Queued)) \in Nat
        BY <3>1, <4>1, CountedQ DEF StepSets
      <4>3. Cardinality(AtQ(QueryOf[w], Queued)) = 0
        <5>1. waiters[QueryOf[w]] = Cardinality(AtQ(QueryOf[w], Queued))
          BY <4>1 DEF Counts
        <5>2. QED
          BY ONLY <3>1, <4>2, <5>1, SMT
      <4>4. QED
        BY <4>2, <4>3, FS_EmptySet
    <3>3. \A v \in Of(QueryOf[w]) : pc'[v] \notin {"wait", "asleep"}
      BY <3>1, <3>2, SMT DEF AtQ, Of, Queued, Locked, Moves
    <3>4. QED
      BY <3>1, <3>3, GateEmpties
  <2>3. QED
    BY <2>1, <2>2
<1>18. ASSUME NEW w \in Workers, Wake(w) PROVE GateInv'
  <2>1. Moves(w) /\ live' = live /\ pc'[w] \in {"group", "close"}
    BY <1>18, WakeFacts
  <2>2. \A v \in Of(QueryOf[w]) : v # w => pc'[v] \notin {"wait", "asleep"}
    BY <1>18 DEF Wake, MuFree, Broadcast, Of, Locked, Types, WorkerTypes
  <2>3. QED
    BY <2>1, <2>2, GateEmpties
<1>19. ASSUME NEW w \in Workers, Close(w) PROVE GateInv'
  BY <1>19, <1>k, CloseFacts DEF Signalling
<1>20. ASSUME NEW w \in Workers, ContextWake(w) PROVE GateInv'
  <2>1. Moves(w) /\ live' = live
    BY <1>20 DEF ContextWake, Moves, Broadcast, Types, WorkerTypes, gateVars
  <2>2. \A v \in Of(QueryOf[w]) : pc'[v] \notin {"wait", "asleep"}
    BY <1>20 DEF ContextWake, MuFree, Broadcast, Of, Locked, Types, WorkerTypes
  <2>3. QED
    BY <2>1, <2>2, GateEmpties
<1>21. ASSUME UNCHANGED <<pc, obj, grp, live>> PROVE GateInv'
  BY <1>21 DEF GateInv, Fits, Need, Of
<1>22. QED
  BY ZenonT(60), <1>1, <1>2, <1>3, <1>4, <1>5, <1>6, <1>7, <1>8, <1>9, <1>10, <1>11, <1>12, <1>13, <1>14, <1>15,
     <1>16, <1>17, <1>18, <1>19, <1>20, <1>21
     DEF Next, WorkerStep, Answer, GiveUp, vars, workerVars, gateVars

-----------------------------------------------------------------------------
(* The invariant, and what follows from it. *)

\* A process in which no query has begun satisfies the invariant.
LEMMA InitIInv == Init => IInv
<1> SUFFICES ASSUME Init PROVE IInv
  OBVIOUS
<1>3. Types /\ Locals
  BY InitTypes
<1>4. \A w \in Workers : pc[w] = "next" /\ grp[w] = 0 /\ res[w] = "none"
  BY DEF Init
<1>6. /\ At(InSlot) = {} /\ At(InPool) = {} /\ At(Decoding) = {}
      /\ \A q : AtQ(q, Queued) = {} /\ AtQ(q, Reserved) = {} /\ AtQ(q, {"count"}) = {}
  BY <1>4 DEF At, AtQ, Of, InSlot, InPool, Decoding, Reserved, Queued, Locked, Signalling
<1>7. IsFiniteSet({}) /\ Cardinality({}) = 0
  BY FS_EmptySet
<1>i. /\ slots = 0 /\ outBytes = 0 /\ outCount = 0 /\ decoding = 0
      /\ \A q \in Queries : live[q] = 0 /\ waiters[q] = 0 /\ rows[q] = 0
  BY DEF Init
<1>n. /\ FileSlots \in Nat /\ MaxFiles \in Nat /\ Decoders \in Nat \ {0} /\ MaxLive \in Nat
  BY ConstantsAssumption DEF ConstantsAssumption
<1>8. Counts
  <2>1. /\ slots = Cardinality(At(InSlot)) /\ outCount = Cardinality(At(InPool))
        /\ decoding = Cardinality(At(Decoding))
    BY <1>6, <1>7, <1>i
  <2>2. \A q \in Queries : waiters[q] = Cardinality(AtQ(q, Queued))
    BY <1>6, <1>7, <1>i
  <2>3. slots <= FileSlots /\ outCount <= MaxFiles /\ decoding <= Decoders
    BY <1>i, <1>n, SMT
  <2>4. QED
    BY <2>1, <2>2, <2>3 DEF Counts
<1>9. /\ \A q : \A w \in Workers : HeldLive(q)[w] = 0
      /\ \A w \in Workers : HeldFile[w] = 0 /\ HeldAdmission[w] = 0
  BY <1>4 DEF HeldLive, HeldFile, HeldAdmission, InPool, Reserved, Queued, Locked, Signalling
<1>10. \A q : HeldLive(q) \in [Workers -> Nat]
  BY <1>3, Holdings
<1>11. HeldFile \in [Workers -> Nat] /\ HeldAdmission \in [Workers -> Nat]
  BY <1>3, Holdings
<1>12. /\ \A q : UnitsOf(HeldLive(q)) = {}
       /\ UnitsOf(HeldFile) = {} /\ UnitsOf(HeldAdmission) = {}
  BY <1>9, <1>10, <1>11, NoUnits
<1>13. LiveInv
  <2> SUFFICES ASSUME NEW q \in Queries
               PROVE  /\ IsFiniteSet(UnitsOf(HeldLive(q)))
                      /\ live[q] = Cardinality(UnitsOf(HeldLive(q)))
                      /\ live[q] <= MaxLive
    BY DEF LiveInv
  <2>1. UnitsOf(HeldLive(q)) = {}
    BY <1>12
  <2>2. QED
    BY <1>7, <1>i, <1>n, <2>1, SMT
<1>14. BytesInv
  <2>1. 0 <= MaxResident
    BY ConstantsAssumption, SMT DEF ConstantsAssumption
  <2>2. QED
    BY <1>7, <1>12, <1>i, <2>1 DEF BytesInv
<1>15. CeilingInv
  <2> SUFFICES ASSUME NEW q \in Queries, ceiling[q] > 0
               PROVE  rows[q] + Cardinality(AtQ(q, {"count"})) < ceiling[q] + Decoders
    BY DEF CeilingInv
  <2>1. rows[q] = 0 /\ Cardinality(AtQ(q, {"count"})) = 0 /\ ceiling[q] \in Nat
    BY <1>3, <1>6, <1>7, <1>i DEF Types, QueryTypes
  <2>2. QED
    BY <1>n, <2>1, SMT
<1>16. GateInv
  BY <1>4 DEF GateInv
<1>17. QED
  BY <1>3, <1>8, <1>13, <1>14, <1>15, <1>16 DEF IInv

\* The invariant holds of every state of the scan.
LEMMA Invariant == Spec => []IInv
<1>1. IInv /\ [Next]_vars => IInv'
  <2> SUFFICES ASSUME IInv, [Next]_vars PROVE IInv'
    OBVIOUS
  <2>1. Types /\ Locals /\ Counts
    BY DEF IInv
  <2>2. Types' /\ Locals' /\ Counts'
    BY <2>1, TypesStep, LocalsStep, CountsStep
  <2>3. LiveInv' /\ BytesInv' /\ CeilingInv' /\ GateInv'
    BY <2>2, LiveStep, BytesStep, CeilingStep, GateStep
  <2>4. QED
    BY <2>2, <2>3 DEF IInv
<1>2. QED
  BY <1>1, InitIInv, PTL DEF Spec

\* Every variable keeps its type; in particular no counter of the scan (the
\* gate's bytes and waiters, the slots, the budget, the decoders) goes below zero.
THEOREM TypesHold == Spec => []TypeOK
<1>1. IInv => TypeOK
  <2> SUFFICES ASSUME IInv PROVE TypeOK
    OBVIOUS
  <2>1. live \in [Queries -> Nat]
    BY FS_CardinalityType DEF IInv, Types, GateTypes, LiveInv
  <2>2. \A q \in Queries : \A S : Cardinality(AtQ(q, S)) \in Nat
    BY ConstantsAssumption, FS_Subset, FS_CardinalityType DEF ConstantsAssumption, AtQ, Of
  <2>3. \A S : Cardinality(At(S)) \in Nat
    BY ConstantsAssumption, FS_Subset, FS_CardinalityType DEF ConstantsAssumption, At
  <2>4. waiters \in [Queries -> Nat]
    BY <2>2 DEF IInv, Types, GateTypes, Counts
  <2>5. slots \in Nat /\ outCount \in Nat /\ decoding \in Nat
    BY <2>3 DEF IInv, Counts
  <2>6. outBytes \in Nat
    BY FS_CardinalityType DEF IInv, BytesInv
  <2>7. WorkerTypes /\ QueryTypes /\ FlagTypes
    BY DEF IInv, Types
  <2>8. QED
    BY <2>1, <2>4, <2>5, <2>6, <2>7 DEF TypeOK, WorkerTypes, QueryTypes, FlagTypes
<1>2. QED
  BY <1>1, Invariant, PTL

\* However a release and a wait interleave, a worker asleep in the gate cannot
\* reserve, or a worker of its query is about to wake it (reserve, release).
THEOREM WakeupsArrive == Spec => []NoLostWakeup
<1>1. IInv => NoLostWakeup
  BY DEF IInv, GateInv, NoLostWakeup
<1>2. QED
  BY <1>1, Invariant, PTL

\* Any number of workers and any ceiling: the rows emitted overshoot the ceiling
\* by less than one block per decoder (preFilter, rgDecodeSem).
THEOREM OvershootBounded == Spec => []CeilingOvershoot
<1>1. IInv => CeilingOvershoot
  <2> SUFFICES ASSUME IInv, NEW q \in Queries, ceiling[q] > 0 PROVE rows[q] < ceiling[q] + Decoders
    BY DEF CeilingOvershoot
  <2>1. Cardinality(AtQ(q, {"count"})) \in Nat
    BY ConstantsAssumption, FS_Subset, FS_CardinalityType DEF ConstantsAssumption, AtQ, Of
  <2>2. rows[q] \in Nat /\ ceiling[q] \in Nat /\ Decoders \in Nat
    BY ConstantsAssumption DEF ConstantsAssumption, IInv, Types, QueryTypes
  <2>3. QED
    BY <2>1, <2>2, SMT DEF IInv, CeilingInv
<1>2. QED
  BY <1>1, Invariant, PTL

\* The gate's counter is the sum of what the workers hold decoded, and passes the
\* ceiling only for one row group held alone (tryReserve, release).
THEOREM LiveBytesBounded == Spec => []LiveCeiling
<1>1. IInv => LiveCeiling
  <2> SUFFICES ASSUME IInv, NEW q \in Queries
               PROVE  /\ live[q] = Cardinality(Units(q))
                      /\ live[q] <= MaxLive \/ Cardinality(Holders(q)) = 1
    BY DEF LiveCeiling
  <2>1. Units(q) = UnitsOf(HeldLive(q))
    <3>1. \A w \in Workers : w \notin Holders(q) => HeldLive(q)[w] = 0
      BY DEF HeldLive, Holders, Of
    <3>2. \A w \in Workers : w \in Holders(q) => HeldLive(q)[w] = Need(w)
      BY DEF HeldLive, Holders, Of
    <3>3. Holders(q) \subseteq Workers
      BY DEF Holders, Of
    <3>4. ASSUME NEW x PROVE x \in UnitsOf(HeldLive(q)) <=> \E w \in Holders(q) : x \in {w} \X (1..Need(w))
      <4>1. x \in UnitsOf(HeldLive(q)) <=> \E w \in Workers : x \in {w} \X (1..HeldLive(q)[w])
        BY UnitOwner
      <4>2. \A w \in Workers : HeldLive(q)[w] = 0 => x \notin {w} \X (1..HeldLive(q)[w])
        BY SMT
      <4>3. QED
        BY <3>1, <3>2, <3>3, <4>1, <4>2
    <3>5. ASSUME NEW x PROVE x \in Units(q) <=> \E w \in Holders(q) : x \in {w} \X (1..Need(w))
      BY DEF Units
    <3>6. QED
      BY <3>4, <3>5
  <2>2. live[q] = Cardinality(Units(q))
    BY <2>1 DEF IInv, LiveInv
  <2>3. ASSUME ~(live[q] <= MaxLive) PROVE Cardinality(Holders(q)) = 1
    <3>1. Holders(q) = AtQ(q, Reserved)
      BY DEF Holders, AtQ
    <3>2. \A v, w \in Holders(q) : v = w
      BY <2>3, <3>1 DEF IInv, LiveInv
    <3>3. live[q] # 0
      BY <2>3, ConstantsAssumption, SMT DEF ConstantsAssumption
    <3>4. Units(q) # {}
      BY <2>2, <3>3, FS_EmptySet
    <3>5. Holders(q) # {}
      BY <3>4 DEF Units
    <3>6. PICK w : Holders(q) = {w}
      BY <3>2, <3>5
    <3>7. QED
      BY <3>6, FS_Singleton
  <2>4. QED
    BY <2>2, <2>3
<1>2. QED
  BY <1>1, Invariant, PTL

\* What is charged to the slots, the file budget and the decoders is what the
\* workers hold, on every path out of an object, and the limits are kept.
THEOREM PoolsBalance == Spec => []PoolsAccounted
<1>1. IInv => PoolsAccounted
  <2> SUFFICES ASSUME IInv PROVE PoolsAccounted
    OBVIOUS
  <2>1. FileUnits = UnitsOf(HeldFile)
    <3>1. /\ \A w \in Workers : w \notin At(InPool) => HeldFile[w] = 0
          /\ \A w \in Workers : w \in At(InPool) => HeldFile[w] = Resident(w)
          /\ At(InPool) \subseteq Workers
      BY DEF HeldFile, At
    <3>2. ASSUME NEW x PROVE x \in UnitsOf(HeldFile) <=> \E w \in At(InPool) : x \in {w} \X (1..Resident(w))
      <4>1. x \in UnitsOf(HeldFile) <=> \E w \in Workers : x \in {w} \X (1..HeldFile[w])
        BY UnitOwner
      <4>2. \A w \in Workers : HeldFile[w] = 0 => x \notin {w} \X (1..HeldFile[w])
        BY SMT
      <4>3. QED
        BY <3>1, <4>1, <4>2
    <3>3. ASSUME NEW x PROVE x \in FileUnits <=> \E w \in At(InPool) : x \in {w} \X (1..Resident(w))
      BY DEF FileUnits
    <3>4. QED
      BY <3>2, <3>3
  <2>2. Admitted = UnitsOf(HeldAdmission)
    <3>1. /\ \A w \in Workers : w \notin At(InPool) => HeldAdmission[w] = 0
          /\ \A w \in Workers : w \in At(InPool) => HeldAdmission[w] = FileCharge(obj[w])
          /\ At(InPool) \subseteq Workers
      BY DEF HeldAdmission, At
    <3>2. ASSUME NEW x
          PROVE  x \in UnitsOf(HeldAdmission) <=> \E w \in At(InPool) : x \in {w} \X (1..FileCharge(obj[w]))
      <4>1. x \in UnitsOf(HeldAdmission) <=> \E w \in Workers : x \in {w} \X (1..HeldAdmission[w])
        BY UnitOwner
      <4>2. \A w \in Workers : HeldAdmission[w] = 0 => x \notin {w} \X (1..HeldAdmission[w])
        BY SMT
      <4>3. QED
        BY <3>1, <4>1, <4>2
    <3>3. ASSUME NEW x PROVE x \in Admitted <=> \E w \in At(InPool) : x \in {w} \X (1..FileCharge(obj[w]))
      BY DEF Admitted
    <3>4. QED
      BY <3>2, <3>3
  <2>3. QED
    BY <2>1, <2>2 DEF IInv, Counts, BytesInv, PoolsAccounted
<1>2. QED
  BY <1>1, Invariant, PTL


-----------------------------------------------------------------------------
(* Complete answers. *)


RangeOf(q) == {Tasks[q][k] : k \in 1..Len(Tasks[q])}
Quiet(q) == ~err[q] /\ ~gaveUp[q] /\ ~panicked[q] /\ ~AtCeiling(q)
Ahead == {"group", "reserve", "lock", "decode", "read", "filter", "count", "write"} \cup Queued

\* The worker reaches row group g of its object, or reports that it cannot.
Pending(w, o, g) ==
    /\ obj[w] = o
    /\ \/ pc[w] \in {"slot", "budget", "open"}
       \/ res[w] = "failed"
       \/ pc[w] \in Ahead /\ grp[w] <= g
       \/ pc[w] \in {"free"} \cup Signalling /\ grp[w] < g

InTodo(q, o) == \E k \in 1..Len(todo[q]) : todo[q][k] = o

\* A stopped scan has an error or its ceiling; workers read the query's objects.
StopInv == \A q \in Queries : stopped[q] => err[q] \/ AtCeiling(q)
TodoInv == \A q \in Queries : \A o \in Objects : InTodo(q, o) => o \in RangeOf(q)
ObjectInv ==
    \A w \in Workers : pc[w] \in InSlot \cup {"slot"} => obj[w] \in RangeOf(QueryOf[w])
\* A worker is done when the channel is empty, or because the scan ended early.
DoneInv ==
    \A w \in Workers : pc[w] = "done" =>
        todo[QueryOf[w]] = <<>> \/ err[QueryOf[w]] \/ AtCeiling(QueryOf[w])
AnswerInv ==
    \A q \in Queries : answer[q] = "ok" => ~err[q] /\ ~gaveUp[q] /\ \A w \in Of(q) : pc[w] = "done"
GotInv == \A q \in Queries : got[q] \subseteq Selected(q)
CoverInv ==
    \A q \in Queries : Quiet(q) =>
        \A o \in Objects, g \in Nat : <<o, g>> \in Selected(q) =>
            <<o, g>> \in got[q] \/ InTodo(q, o) \/ \E w \in Of(q) : Pending(w, o, g)

CInv == StopInv /\ TodoInv /\ ObjectInv /\ DoneInv /\ AnswerInv /\ GotInv /\ CoverInv

\* What a worker's step may change of its query, and that it changes no other.
Apart(w) ==
    \A q \in Queries : q # QueryOf[w] =>
        /\ todo'[q] = todo[q] /\ err'[q] = err[q] /\ stopped'[q] = stopped[q]
        /\ panicked'[q] = panicked[q] /\ got'[q] = got[q] /\ rows'[q] = rows[q]
Grows(w) ==
    LET q == QueryOf[w] IN
    /\ err[q] => err'[q]
    /\ panicked[q] => panicked'[q]
    /\ rows'[q] >= rows[q]
    /\ stopped'[q] => stopped[q] \/ err'[q] \/ AtCeiling(q)
    /\ pc'[w] = "done" => todo[q] = <<>> \/ err'[q] \/ AtCeiling(q)
    /\ todo'[q] = todo[q] \/ (todo[q] # <<>> /\ todo'[q] = Tail(todo[q]))
Effects(w) == Apart(w) /\ Grows(w) /\ UNCHANGED <<ceiling, gaveUp, answer>>

\* A step of a worker has these effects.
LEMMA StepEffects == ASSUME Types, Locals, NEW w \in Workers, WorkerStep(w) PROVE Effects(w)
<1>q. QueryOf[w] \in Queries
  BY ConstantsAssumption DEF ConstantsAssumption
<1>t. /\ rows \in [Queries -> Nat] /\ todo \in [Queries -> Seq(Objects)] /\ got \in [Queries -> SUBSET (Objects \X Nat)]
      /\ err \in [Queries -> BOOLEAN] /\ stopped \in [Queries -> BOOLEAN] /\ panicked \in [Queries -> BOOLEAN]
      /\ pc \in [Workers -> Steps]
  BY DEF Types, QueryTypes, FlagTypes, WorkerTypes
<1>e. ASSUME EndObject(w) PROVE Effects(w)
  <2>1. /\ err' = [err EXCEPT ![QueryOf[w]] = @ \/ (res[w] = "failed" /\ ~CtxDone(QueryOf[w]))]
        /\ stopped' = [stopped EXCEPT ![QueryOf[w]] = @ \/ (res[w] = "failed" /\ ~CtxDone(QueryOf[w]))]
        /\ pc' = [pc EXCEPT ![w] = IF res[w] = "failed" /\ ~CtxDone(QueryOf[w]) THEN "done" ELSE "next"]
        /\ UNCHANGED <<todo, ceiling, rows, gaveUp, panicked, answer, got>>
    BY <1>e DEF EndObject
  <2>2. Apart(w)
    BY <1>t, <2>1 DEF Apart
  <2>3. CASE res[w] = "failed" /\ ~CtxDone(QueryOf[w])
    <3>1. err'[QueryOf[w]]
      BY <1>q, <1>t, <2>1, <2>3
    <3>2. QED
      BY <1>q, <1>t, <2>1, <2>2, <3>1, SMT DEF Effects, Grows
  <2>4. CASE ~(res[w] = "failed" /\ ~CtxDone(QueryOf[w]))
    <3>1. pc'[w] = "next" /\ err'[QueryOf[w]] = err[QueryOf[w]] /\ stopped'[QueryOf[w]] = stopped[QueryOf[w]]
      BY <1>q, <1>t, <2>1, <2>4
    <3>2. QED
      BY <1>q, <1>t, <2>1, <2>2, <3>1, SMT DEF Effects, Grows
  <2>5. QED
    BY <2>3, <2>4
<1>u. ASSUME UNCHANGED queryVars, pc'[w] # "done" PROVE Effects(w)
  BY <1>u, <1>q, <1>t, SMT DEF Effects, Apart, Grows, queryVars
<1>1. CASE NextObject(w)
  <2>1. UNCHANGED <<ceiling, rows, stopped, gaveUp, panicked, answer, got>>
    BY <1>1 DEF NextObject
  <2>2. CASE todo[QueryOf[w]] = <<>>
    BY <1>1, <1>q, <1>t, <2>1, <2>2, SMT DEF Effects, Apart, Grows, NextObject
  <2>3. CASE todo[QueryOf[w]] # <<>>
    <3>1. /\ todo' = [todo EXCEPT ![QueryOf[w]] = Tail(@)]
          /\ err' = [err EXCEPT ![QueryOf[w]] = @ \/ CtxDone(QueryOf[w])]
      BY <1>1, <2>3 DEF NextObject
    <3>2. /\ err[QueryOf[w]] => err'[QueryOf[w]]
          /\ CtxDone(QueryOf[w]) => err'[QueryOf[w]]
      BY <1>q, <1>t, <3>1
    <3>3. pc'[w] = "done" => CtxDone(QueryOf[w]) \/ AtCeiling(QueryOf[w])
      BY <1>1, <1>t, <2>3 DEF NextObject
    <3>4. todo'[QueryOf[w]] = Tail(todo[QueryOf[w]])
      BY <1>q, <1>t, <3>1
    <3>5. Apart(w)
      BY <1>t, <2>1, <3>1 DEF Apart
    <3>6. QED
      BY <1>q, <1>t, <2>1, <2>3, <3>2, <3>3, <3>4, <3>5, SMT DEF Effects, Grows
  <2>4. QED
    BY <2>2, <2>3
<1>2. CASE TakeSlot(w)
  BY <1>2, <1>q, <1>t, SMT DEF Effects, Apart, Grows, TakeSlot, AtCeiling
<1>3. CASE TakeBudget(w)
  <2>1. CASE CtxDone(QueryOf[w])
    BY <1>3, <2>1, <1>e DEF TakeBudget
  <2>2. CASE ~CtxDone(QueryOf[w])
    BY <1>3, <2>2, <1>t, <1>u DEF TakeBudget
  <2>3. QED
    BY <2>1, <2>2
<1>4. CASE Open(w)
  BY <1>4, <1>t, <1>u DEF Open
<1>5. CASE NextGroup(w)
  BY <1>5, <1>t, <1>u DEF NextGroup
<1>6. CASE TryReserve(w)
  BY <1>6, <1>t, <1>u DEF TryReserve
<1>7. CASE Lock(w)
  BY <1>7, <1>t, <1>u DEF Lock
<1>8. CASE Retry(w)
  BY <1>8, <1>t, <1>u DEF Retry
<1>9. CASE Wait(w)
  BY <1>9, <1>t, <1>u DEF Wait
<1>10. CASE Relock(w)
  BY <1>10, <1>t, <1>u DEF Relock
<1>11. CASE TakeDecoder(w)
  BY <1>11, <1>t, <1>u DEF TakeDecoder
<1>12. CASE Read(w)
  BY <1>12, <1>t, <1>u DEF Read
<1>13. CASE PreFilter(w)
  BY <1>13, <1>q, <1>t, SMT DEF Effects, Apart, Grows, PreFilter, AtCeiling
<1>14. CASE CountRows(w)
  BY <1>14, <1>q, <1>t, SMT DEF Effects, Apart, Grows, CountRows, AtCeiling
<1>15. CASE WriteBlock(w)
  BY <1>15, <1>q, <1>t, SMT DEF Effects, Apart, Grows, WriteBlock, AtCeiling
<1>16. CASE Free(w)
  BY <1>16, <1>t, <1>u DEF Free
<1>17. CASE Signal(w)
  BY <1>17, <1>t, <1>u DEF Signal, AfterGroup
<1>18. CASE Wake(w)
  BY <1>18, <1>t, <1>u DEF Wake, AfterGroup, Broadcast
<1>19. CASE Close(w)
  BY <1>19, <1>e DEF Close
<1>20. QED
  BY ZenonT(60), <1>1, <1>2, <1>3, <1>4, <1>5, <1>6, <1>7, <1>8, <1>9, <1>10, <1>11, <1>12, <1>13, <1>14, <1>15, <1>16, <1>17, <1>18, <1>19 DEF WorkerStep

\* Nothing that has gone wrong with a query goes right again.
LEMMA QuietBefore ==
    ASSUME Types, NEW w \in Workers, Effects(w), rows' \in [Queries -> Nat], NEW q \in Queries
    PROVE  (AtCeiling(q) => AtCeiling(q)') /\ (Quiet(q)' => Quiet(q))
<1>a. rows \in [Queries -> Nat] /\ ceiling \in [Queries -> Nat]
  BY DEF Types, QueryTypes
<1>b. ceiling' = ceiling /\ gaveUp' = gaveUp
  BY DEF Effects
<1>c. rows'[q] >= rows[q]
  <2>1. CASE q = QueryOf[w]
    BY <2>1 DEF Effects, Grows
  <2>2. CASE q # QueryOf[w]
    BY <1>a, <2>2, SMT DEF Effects, Apart
  <2>3. QED
    BY <2>1, <2>2
<1>1. /\ rows \in [Queries -> Nat] /\ ceiling' = ceiling /\ gaveUp' = gaveUp /\ ceiling \in [Queries -> Nat]
      /\ rows'[q] >= rows[q]
  BY <1>a, <1>b, <1>c
<1>2. AtCeiling(q) => AtCeiling(q)'
  BY <1>1, SMT DEF AtCeiling
<1>3. (err[q] => err'[q]) /\ (panicked[q] => panicked'[q])
  BY ZenonT(60) DEF Effects, Apart, Grows
<1>4. QED
  BY <1>1, <1>2, <1>3 DEF Quiet

\* A step of a worker: it was not done, it keeps its object or takes the next one, and its
\* consumer takes at most its row group.
Takes(w) ==
    /\ Moves(w) /\ pc[w] # "done"
    /\ pc'[w] \in InSlot \cup {"slot"} =>
         \/ pc[w] \in InSlot \cup {"slot"} /\ obj'[w] = obj[w]
         \/ todo[QueryOf[w]] # <<>> /\ obj'[w] = Head(todo[QueryOf[w]])
    /\ \/ got'[QueryOf[w]] = got[QueryOf[w]]
       \/ /\ pc[w] = "write"
          /\ got'[QueryOf[w]] = got[QueryOf[w]] \cup {<<obj[w], grp[w]>>}

\* A step of a worker does this.
LEMMA StepTakes == ASSUME Types, Locals, NEW w \in Workers, WorkerStep(w) PROVE Takes(w)
<1>q. QueryOf[w] \in Queries
  BY ConstantsAssumption DEF ConstantsAssumption
<1>t. /\ obj \in [Workers -> Objects \cup {NoObject}] /\ pc \in [Workers -> Steps]
      /\ got \in [Queries -> SUBSET (Objects \X Nat)]
  BY DEF Types, QueryTypes, WorkerTypes
<1>i. /\ "next" \notin InSlot \cup {"slot"} /\ "done" \notin InSlot \cup {"slot"}
      /\ {"budget", "open", "group", "reserve", "lock", "try", "wait", "asleep", "awake", "decode", "read",
          "filter", "count", "write", "free", "signal", "wake", "close", "slot"} = InSlot \cup {"slot"}
  BY DEF InSlot, InPool, Reserved, Queued, Locked, Signalling
<1>u. ASSUME Moves(w), pc[w] \in InSlot \cup {"slot"}, obj' = obj, got' = got PROVE Takes(w)
  BY <1>u, <1>i DEF Takes
<1>d. ASSUME Moves(w), pc[w] # "done", pc'[w] \in {"next", "done"}, got' = got PROVE Takes(w)
  BY <1>d, <1>i DEF Takes
<1>1. CASE NextObject(w)
  <2>1. pc[w] = "next" /\ Moves(w) /\ got' = got
    BY <1>1, NextObjectFacts DEF NextObject
  <2>2. \/ pc'[w] = "done"
        \/ pc'[w] = "slot" /\ todo[QueryOf[w]] # <<>> /\ obj'[w] = Head(todo[QueryOf[w]])
    BY <1>1, <1>t DEF NextObject
  <2>3. QED
    BY <1>i, <2>1, <2>2 DEF Takes
<1>2. CASE TakeSlot(w)
  <2>1. Moves(w) /\ pc[w] \in InSlot \cup {"slot"} /\ obj' = obj
    BY <1>2, <1>i, TakeSlotFacts
  <2>2. got' = got
    BY <1>2 DEF TakeSlot, queryVars
  <2>3. QED
    BY <1>u, <2>1, <2>2
<1>3. CASE TakeBudget(w)
  <2>1. Moves(w) /\ pc[w] = "budget" /\ got' = got
    BY <1>3, TakeBudgetFacts DEF TakeBudget, EndObject, queryVars
  <2>2. pc'[w] \in {"next", "done"} \/ obj' = obj
    BY <1>3, TakeBudgetFacts DEF TakeBudget
  <2>3. QED
    BY <1>u, <1>d, <1>i, <2>1, <2>2
<1>4. CASE Open(w)
  <2>1. Moves(w) /\ pc[w] \in InSlot \cup {"slot"} /\ obj' = obj
    BY <1>4, <1>i, OpenFacts
  <2>2. got' = got
    BY <1>4 DEF Open, queryVars
  <2>3. QED
    BY <1>u, <2>1, <2>2
<1>5. CASE NextGroup(w)
  <2>1. Moves(w) /\ pc[w] \in InSlot \cup {"slot"} /\ obj' = obj
    BY <1>5, <1>i, NextGroupFacts
  <2>2. got' = got
    BY <1>5 DEF NextGroup, queryVars
  <2>3. QED
    BY <1>u, <2>1, <2>2
<1>6. CASE TryReserve(w)
  <2>1. Moves(w) /\ pc[w] \in InSlot \cup {"slot"} /\ obj' = obj
    BY <1>6, <1>i, TryReserveFacts
  <2>2. got' = got
    BY <1>6 DEF TryReserve, queryVars
  <2>3. QED
    BY <1>u, <2>1, <2>2
<1>7. CASE Lock(w)
  <2>1. Moves(w) /\ pc[w] \in InSlot \cup {"slot"} /\ obj' = obj
    BY <1>7, <1>i, LockFacts
  <2>2. got' = got
    BY <1>7 DEF Lock, queryVars
  <2>3. QED
    BY <1>u, <2>1, <2>2
<1>8. CASE Retry(w)
  <2>1. Moves(w) /\ pc[w] \in InSlot \cup {"slot"} /\ obj' = obj
    BY <1>8, <1>i, RetryFacts
  <2>2. got' = got
    BY <1>8 DEF Retry, queryVars
  <2>3. QED
    BY <1>u, <2>1, <2>2
<1>9. CASE Wait(w)
  <2>1. Moves(w) /\ pc[w] \in InSlot \cup {"slot"} /\ obj' = obj
    BY <1>9, <1>i, WaitFacts
  <2>2. got' = got
    BY <1>9 DEF Wait, queryVars
  <2>3. QED
    BY <1>u, <2>1, <2>2
<1>10. CASE Relock(w)
  <2>1. Moves(w) /\ pc[w] \in InSlot \cup {"slot"} /\ obj' = obj
    BY <1>10, <1>i, RelockFacts
  <2>2. got' = got
    BY <1>10 DEF Relock, queryVars
  <2>3. QED
    BY <1>u, <2>1, <2>2
<1>11. CASE TakeDecoder(w)
  <2>1. Moves(w) /\ pc[w] \in InSlot \cup {"slot"} /\ obj' = obj
    BY <1>11, <1>i, TakeDecoderFacts
  <2>2. got' = got
    BY <1>11 DEF TakeDecoder, queryVars
  <2>3. QED
    BY <1>u, <2>1, <2>2
<1>12. CASE Read(w)
  <2>1. Moves(w) /\ pc[w] \in InSlot \cup {"slot"} /\ obj' = obj
    BY <1>12, <1>i, ReadFacts
  <2>2. got' = got
    BY <1>12 DEF Read, queryVars
  <2>3. QED
    BY <1>u, <2>1, <2>2
<1>13. CASE PreFilter(w)
  <2>1. Moves(w) /\ pc[w] \in InSlot \cup {"slot"} /\ obj' = obj
    BY <1>13, <1>i, PreFilterFacts
  <2>2. got' = got
    BY <1>13 DEF PreFilter, queryVars
  <2>3. QED
    BY <1>u, <2>1, <2>2
<1>14. CASE CountRows(w)
  <2>1. Moves(w) /\ pc[w] \in InSlot \cup {"slot"} /\ obj' = obj
    BY <1>14, <1>i, CountRowsFacts
  <2>2. got' = got
    BY <1>14 DEF CountRows, queryVars
  <2>3. QED
    BY <1>u, <2>1, <2>2
<1>15. CASE WriteBlock(w)
  <2>1. Moves(w) /\ pc[w] = "write" /\ obj' = obj
    BY <1>15, WriteBlockFacts
  <2>2. \/ got'[QueryOf[w]] = got[QueryOf[w]]
        \/ got'[QueryOf[w]] = got[QueryOf[w]] \cup {<<obj[w], grp[w]>>}
    BY <1>15, <1>q, <1>t DEF WriteBlock
  <2>3. QED
    BY <1>i, <2>1, <2>2 DEF Takes
<1>16. CASE Free(w)
  <2>1. Moves(w) /\ pc[w] \in InSlot \cup {"slot"} /\ obj' = obj
    BY <1>16, <1>i, FreeFacts
  <2>2. got' = got
    BY <1>16 DEF Free, queryVars
  <2>3. QED
    BY <1>u, <2>1, <2>2
<1>17. CASE Signal(w)
  <2>1. Moves(w) /\ pc[w] \in InSlot \cup {"slot"} /\ obj' = obj
    BY <1>17, <1>i, SignalFacts
  <2>2. got' = got
    BY <1>17 DEF Signal, queryVars
  <2>3. QED
    BY <1>u, <2>1, <2>2
<1>18. CASE Wake(w)
  <2>1. Moves(w) /\ pc[w] \in InSlot \cup {"slot"} /\ obj' = obj
    BY <1>18, <1>i, WakeFacts
  <2>2. got' = got
    BY <1>18 DEF Wake, queryVars
  <2>3. QED
    BY <1>u, <2>1, <2>2
<1>19. CASE Close(w)
  BY <1>19, <1>d, CloseFacts DEF Close, EndObject
<1>20. QED
  BY <1>1, <1>2, <1>3, <1>4, <1>5, <1>6, <1>7, <1>8, <1>9, <1>10, <1>11, <1>12, <1>13, <1>14, <1>15, <1>16, <1>17, <1>18, <1>19 DEF WorkerStep

\* What is in the channel after a step was there before.
LEMMA TodoShrinks ==
    ASSUME Types, NEW w \in Workers, Effects(w), NEW q \in Queries, NEW o
    PROVE  InTodo(q, o)' => InTodo(q, o)
<1>1. todo[q] \in Seq(Objects)
  BY DEF Types, QueryTypes
<1>2. todo'[q] = todo[q] \/ (todo[q] # <<>> /\ todo'[q] = Tail(todo[q]))
  BY DEF Effects, Apart, Grows
<1>3. CASE todo'[q] = todo[q]
  BY <1>3 DEF InTodo
<1>4. CASE todo[q] # <<>> /\ todo'[q] = Tail(todo[q])
  <2> SUFFICES ASSUME NEW k \in 1..Len(todo'[q]), todo'[q][k] = o PROVE InTodo(q, o)
    BY DEF InTodo
  <2>1. k + 1 \in 1..Len(todo[q]) /\ todo[q][k + 1] = o
    BY <1>1, <1>4, SMT
  <2>2. QED
    BY <2>1 DEF InTodo
<1>5. QED
  BY <1>2, <1>3, <1>4

\* What is in the channel before a step is there after it, or is the object taken.
LEMMA TodoTaken ==
    ASSUME Types, NEW q \in Queries, NEW o, InTodo(q, o)
    PROVE  \/ o = Head(todo[q])
           \/ \E k \in 1..Len(Tail(todo[q])) : Tail(todo[q])[k] = o
<1>1. todo[q] \in Seq(Objects)
  BY DEF Types, QueryTypes
<1>2. PICK k \in 1..Len(todo[q]) : todo[q][k] = o
  BY DEF InTodo
<1>3. CASE k = 1
  BY <1>1, <1>2, <1>3, SMT
<1>4. CASE k # 1
  <2>1. k - 1 \in 1..Len(Tail(todo[q])) /\ Tail(todo[q])[k - 1] = o
    BY <1>1, <1>2, <1>4, SMT
  <2>2. QED
    BY <2>1
<1>5. QED
  BY <1>3, <1>4

\* A row group of a query's object is selected.
LEMMA IsSelected ==
    ASSUME NEW q \in Queries, NEW o, NEW g
    PROVE  <<o, g>> \in Selected(q) <=> o \in RangeOf(q) /\ g \in 1..Len(Groups[o])
<1>1. ASSUME <<o, g>> \in Selected(q) PROVE o \in RangeOf(q) /\ g \in 1..Len(Groups[o])
  <2>1. PICK k \in 1..Len(Tasks[q]) : <<o, g>> \in {Tasks[q][k]} \X (1..Len(Groups[Tasks[q][k]]))
    BY <1>1 DEF Selected
  <2>2. QED
    BY <2>1 DEF RangeOf
<1>2. ASSUME o \in RangeOf(q), g \in 1..Len(Groups[o]) PROVE <<o, g>> \in Selected(q)
  <2>1. PICK k \in 1..Len(Tasks[q]) : o = Tasks[q][k]
    BY <1>2 DEF RangeOf
  <2>2. <<o, g>> \in {Tasks[q][k]} \X (1..Len(Groups[Tasks[q][k]]))
    BY <1>2, <2>1
  <2>3. QED
    BY <2>2 DEF Selected
<1>3. QED
  BY <1>1, <1>2

\* A worker's step keeps the invariant of the answer, but for the cover.
LEMMA EndsStep ==
    ASSUME Types, Locals, rows' \in [Queries -> Nat], CInv, NEW w \in Workers, WorkerStep(w)
    PROVE  StopInv' /\ TodoInv' /\ ObjectInv' /\ DoneInv' /\ AnswerInv' /\ GotInv'
<1>e. Effects(w) /\ Takes(w) /\ Moves(w)
  BY StepEffects, StepTakes DEF Takes
<1>q. /\ QueryOf[w] \in Queries /\ \A v \in Workers : QueryOf[v] \in Queries
  BY ConstantsAssumption DEF ConstantsAssumption
<1>c. \A q \in Queries : AtCeiling(q) => AtCeiling(q)'
  BY <1>e, QuietBefore
<1>r. \A q \in Queries : err[q] => err'[q]
  BY <1>e DEF Effects, Apart, Grows
<1>1. StopInv'
  <2> SUFFICES ASSUME NEW q \in Queries, stopped'[q] PROVE err'[q] \/ AtCeiling(q)'
    BY DEF StopInv
  <2>1. stopped[q] \/ err'[q] \/ AtCeiling(q)
    BY <1>e DEF Effects, Apart, Grows
  <2>2. QED
    BY <1>c, <1>r, <2>1 DEF CInv, StopInv
<1>2. TodoInv'
  <2>1. \A q \in Queries : \A o \in Objects : InTodo(q, o)' => InTodo(q, o)
    BY <1>e, TodoShrinks
  <2>2. QED
    BY <2>1 DEF CInv, TodoInv, RangeOf
<1>3. ObjectInv'
  <2> SUFFICES ASSUME NEW v \in Workers, pc'[v] \in InSlot \cup {"slot"} PROVE obj'[v] \in RangeOf(QueryOf[v])
    BY DEF ObjectInv, RangeOf
  <2>1. CASE v # w
    <3>1. obj'[v] = obj[v] /\ (pc'[v] = pc[v] \/ (pc[v] = "asleep" /\ pc'[v] = "awake"))
      BY <1>e, <2>1 DEF Moves
    <3>2. pc[v] \in InSlot \cup {"slot"}
      BY <3>1 DEF InSlot, InPool, Queued
    <3>3. QED
      BY <3>1, <3>2 DEF CInv, ObjectInv
  <2>2. CASE v = w
    <3>1. CASE pc[w] \in InSlot \cup {"slot"} /\ obj'[w] = obj[w]
      BY <2>2, <3>1 DEF CInv, ObjectInv
    <3>2. CASE todo[QueryOf[w]] # <<>> /\ obj'[w] = Head(todo[QueryOf[w]])
      <4>1. todo[QueryOf[w]] \in Seq(Objects)
        BY <1>q DEF Types, QueryTypes
      <4>2. 1 \in 1..Len(todo[QueryOf[w]]) /\ todo[QueryOf[w]][1] = obj'[w] /\ obj'[w] \in Objects
        BY <3>2, <4>1, SMT
      <4>3. InTodo(QueryOf[w], obj'[w])
        BY <4>2 DEF InTodo
      <4>4. QED
        BY <1>q, <2>2, <4>2, <4>3 DEF CInv, TodoInv
    <3>3. QED
      BY <1>e, <2>2, <3>1, <3>2 DEF Takes
  <2>3. QED
    BY <2>1, <2>2
<1>4. DoneInv'
  <2> SUFFICES ASSUME NEW v \in Workers, pc'[v] = "done"
               PROVE  todo'[QueryOf[v]] = <<>> \/ err'[QueryOf[v]] \/ AtCeiling(QueryOf[v])'
    BY DEF DoneInv
  <2>1. todo[QueryOf[v]] = <<>> \/ err'[QueryOf[v]] \/ AtCeiling(QueryOf[v])
    <3>1. CASE v = w
      BY <1>e, <3>1 DEF Effects, Grows
    <3>2. CASE v # w
      BY <1>e, <1>q, <1>r, <3>2 DEF Moves, CInv, DoneInv
    <3>3. QED
      BY <3>1, <3>2
  <2>2. todo[QueryOf[v]] = <<>> => todo'[QueryOf[v]] = <<>>
    BY <1>e, <1>q DEF Effects, Apart, Grows
  <2>3. QED
    BY <1>c, <1>q, <2>1, <2>2
<1>5. AnswerInv'
  <2> SUFFICES ASSUME NEW q \in Queries, answer'[q] = "ok"
               PROVE  ~err'[q] /\ ~gaveUp'[q] /\ \A v \in Of(q) : pc'[v] = "done"
    BY DEF AnswerInv, Of
  <2>1. answer[q] = "ok" /\ gaveUp' = gaveUp
    BY <1>e DEF Effects
  <2>2. ~err[q] /\ ~gaveUp[q] /\ \A v \in Of(q) : pc[v] = "done"
    BY <2>1 DEF CInv, AnswerInv
  <2>3. q # QueryOf[w]
    BY <1>e, <2>2 DEF Takes, Of
  <2>4. err'[q] = err[q]
    BY <1>e, <2>3 DEF Effects, Apart
  <2>5. \A v \in Of(q) : pc'[v] = "done"
    BY <1>e, <2>2, <2>3 DEF Moves, Of
  <2>6. QED
    BY <2>1, <2>2, <2>4, <2>5
<1>6. GotInv'
  <2> SUFFICES ASSUME NEW q \in Queries PROVE got'[q] \subseteq Selected(q)
    BY DEF GotInv, Selected
  <2>1. got[q] \subseteq Selected(q)
    BY DEF CInv, GotInv
  <2>2. CASE got'[q] = got[q]
    BY <2>1, <2>2
  <2>3. CASE q = QueryOf[w] /\ pc[w] = "write" /\ got'[q] = got[q] \cup {<<obj[w], grp[w]>>}
    <3>1. obj[w] \in RangeOf(q)
      BY <2>3 DEF CInv, ObjectInv, InSlot, InPool, Reserved
    <3>2. grp[w] \in 1..Len(Groups[obj[w]])
      BY <2>3 DEF Locals, Local, Busy, Reserved
    <3>3. <<obj[w], grp[w]>> \in Selected(q)
      BY <3>1, <3>2, IsSelected
    <3>4. QED
      BY <2>1, <2>3, <3>3
  <2>4. QED
    BY <1>e, <2>2, <2>3 DEF Takes, Effects, Apart
<1>7. QED
  BY <1>1, <1>2, <1>3, <1>4, <1>5, <1>6

\* A worker that another one's step leaves alone, or wakes, keeps what it has before it.
LEMMA PendingKeeps ==
    ASSUME NEW w \in Workers, Moves(w), NEW v \in Workers, v # w, NEW o, NEW g
    PROVE  Pending(v, o, g) => Pending(v, o, g)'
<1>1. /\ obj'[v] = obj[v] /\ grp'[v] = grp[v] /\ res'[v] = res[v]
      /\ pc'[v] = pc[v] \/ (pc[v] = "asleep" /\ pc'[v] = "awake")
  BY DEF Moves
<1>2. "awake" \in Ahead
  BY DEF Ahead, Queued
<1>3. "asleep" \notin {"free"} \cup Signalling
  BY DEF Signalling
<1>4. QED
  BY <1>1, <1>2, <1>3 DEF Pending

\* What worker w has before it stays so or is handed over, and what it takes from the
\* channel it has before it.
Hands(w) ==
    LET q == QueryOf[w] IN
    \A o \in Objects, g \in Nat :
        /\ <<o, g>> \in Selected(q) /\ Pending(w, o, g) => Pending(w, o, g)' \/ <<o, g>> \in got'[q]
        /\ <<o, g>> \in Selected(q) /\ InTodo(q, o) => InTodo(q, o)' \/ Pending(w, o, g)'

\* While its query is quiet, a worker's step drops no row group it has before it.
LEMMA StepHands ==
    ASSUME Types, Locals, CInv, NEW w \in Workers, WorkerStep(w), Quiet(QueryOf[w]), Quiet(QueryOf[w])'
    PROVE  Hands(w)
<1> DEFINE q == QueryOf[w]
<1>q. q \in Queries
  BY ConstantsAssumption DEF ConstantsAssumption
<1>t. /\ obj \in [Workers -> Objects \cup {NoObject}] /\ pc \in [Workers -> Steps]
      /\ grp \in [Workers -> Nat] /\ res \in [Workers -> {"none", "failed"}]
  BY DEF Types, WorkerTypes
<1>f. got \in [Queries -> SUBSET (Objects \X Nat)] /\ todo \in [Queries -> Seq(Objects)]
  BY DEF Types, QueryTypes
<1>b. err \in [Queries -> BOOLEAN] /\ panicked \in [Queries -> BOOLEAN]
  BY DEF Types, FlagTypes
<1>c. ~CtxDone(q) /\ ~panicked[q] /\ ~AtCeiling(q)
  BY <1>q DEF Quiet, CtxDone, CInv, StopInv
<1>l. Local(w)
  BY DEF Locals
<1>k. ASSUME todo' = todo,
             \A o \in Objects, g \in Nat : <<o, g>> \in Selected(q) /\ Pending(w, o, g) =>
                 Pending(w, o, g)' \/ <<o, g>> \in got'[q]
      PROVE  Hands(w)
  <2>1. \A o : InTodo(q, o) => InTodo(q, o)'
    BY <1>k DEF InTodo
  <2>2. QED
    BY <1>k, <2>1 DEF Hands
<1>m. ASSUME todo' = todo, UNCHANGED <<obj, grp, res>>,
             \/ pc[w] \in {"slot", "budget"} /\ pc'[w] \in {"budget", "open"}
             \/ pc[w] \in Ahead /\ pc'[w] \in Ahead
             \/ pc[w] \in {"free"} \cup Signalling /\ pc'[w] \in {"free"} \cup Signalling
      PROVE  Hands(w)
  <2>1. \A o \in Objects, g \in Nat : Pending(w, o, g) => Pending(w, o, g)'
    BY <1>m DEF Pending, Ahead, Queued, Locked, Signalling
  <2>2. QED
    BY <1>k, <1>m, <2>1
<1>1. CASE NextObject(w)
  <2>1. pc[w] = "next" /\ res[w] # "failed"
    BY <1>1, <1>l, NextObjectFacts DEF Local, Signalling
  <2>2. \A o, g : ~Pending(w, o, g)
    BY <2>1 DEF Pending, Ahead, Queued, Locked, Signalling
  <2>3. CASE todo[q] = <<>>
    BY <1>1, <1>k, <2>2, <2>3 DEF NextObject
  <2>4. CASE todo[q] # <<>>
    <3>1. todo'[q] = Tail(todo[q]) /\ pc'[w] = "slot" /\ obj'[w] = Head(todo[q])
      BY <1>1, <1>q, <1>t, <1>f, <1>c, <2>4 DEF NextObject
    <3>2. ASSUME NEW o \in Objects, NEW g \in Nat, InTodo(q, o) PROVE InTodo(q, o)' \/ Pending(w, o, g)'
      <4>1. CASE o = Head(todo[q])
        BY <3>1, <4>1 DEF Pending
      <4>2. CASE \E k \in 1..Len(Tail(todo[q])) : Tail(todo[q])[k] = o
        BY <3>1, <4>2 DEF InTodo
      <4>3. QED
        BY <1>q, <3>2, <4>1, <4>2, TodoTaken
    <3>3. QED
      BY <2>2, <3>2 DEF Hands
  <2>5. QED
    BY <2>3, <2>4
<1>2. CASE TakeSlot(w)
  <2>1. /\ todo' = todo /\ UNCHANGED <<obj, grp, res>>
        /\ pc[w] \in {"slot", "budget"} /\ pc'[w] \in {"budget", "open"}
    BY <1>2, <1>t, <1>c DEF TakeSlot, queryVars
  <2>2. QED
    BY <1>m, <2>1
<1>3. CASE TakeBudget(w)
  <2>1. /\ todo' = todo /\ UNCHANGED <<obj, grp, res>>
        /\ pc[w] \in {"slot", "budget"} /\ pc'[w] \in {"budget", "open"}
    BY <1>3, <1>t, <1>c DEF TakeBudget, queryVars
  <2>2. QED
    BY <1>m, <2>1
<1>4. CASE Open(w)
  <2>1. todo' = todo /\ obj' = obj
    BY <1>4 DEF Open, queryVars
  <2>2. \/ pc'[w] = "group" /\ grp'[w] = 1
        \/ res'[w] = "failed"
    BY <1>4, OpenFacts
  <2>3. \A o \in Objects, g \in Nat : <<o, g>> \in Selected(q) => g >= 1
    BY <1>q, IsSelected, SMT
  <2>4. \A o \in Objects, g \in Nat : <<o, g>> \in Selected(q) /\ Pending(w, o, g) => Pending(w, o, g)'
    BY <2>1, <2>2, <2>3 DEF Pending, Ahead
  <2>5. QED
    BY <1>k, <2>1, <2>4
<1>5. CASE NextGroup(w)
  <2>1. todo' = todo /\ UNCHANGED <<obj, grp, res>> /\ pc[w] = "group"
    BY <1>5 DEF NextGroup, queryVars
  <2>2. CASE pc'[w] = "reserve"
    BY <1>m, <2>1, <2>2 DEF Ahead
  <2>3. CASE pc'[w] # "reserve"
    <3>1. grp[w] > Len(Groups[obj[w]])
      BY <1>5, <1>t, <1>c, <2>3 DEF NextGroup
    <3>2. res[w] # "failed"
      BY <1>l, <2>1 DEF Local, Signalling
    <3>3. obj[w] \in Objects /\ Len(Groups[obj[w]]) \in Nat /\ grp[w] \in Nat
      <4>1. obj[w] \in Objects /\ grp[w] \in Nat
        BY <1>l, <1>t, <2>1 DEF Local, InSlot, InPool
      <4>2. QED
        BY <4>1, ConstantsAssumption, SMT DEF ConstantsAssumption
    <3>4. ASSUME NEW o \in Objects, NEW g \in Nat, <<o, g>> \in Selected(q), Pending(w, o, g) PROVE FALSE
      <4>1. obj[w] = o /\ grp[w] <= g
        BY <2>1, <3>2, <3>4 DEF Pending, Signalling
      <4>2. g \in 1..Len(Groups[o])
        BY <1>q, <3>4, IsSelected
      <4>3. QED
        BY <3>1, <3>3, <4>1, <4>2, SMT
    <3>5. QED
      BY <1>k, <2>1, <3>4
  <2>4. QED
    BY <2>2, <2>3
<1>6. CASE TryReserve(w)
  <2>1. todo' = todo /\ UNCHANGED <<obj, grp, res>>
    BY <1>6 DEF TryReserve, queryVars
  <2>2. pc[w] \in Ahead /\ pc'[w] \in Ahead
    BY <1>6, TryReserveFacts DEF Ahead, Queued, Locked
  <2>3. QED
    BY <1>m, <2>1, <2>2
<1>7. CASE Lock(w)
  <2>1. todo' = todo /\ UNCHANGED <<obj, grp, res>>
    BY <1>7 DEF Lock, queryVars
  <2>2. pc[w] \in Ahead /\ pc'[w] \in Ahead
    BY <1>7, LockFacts DEF Ahead, Queued, Locked
  <2>3. QED
    BY <1>m, <2>1, <2>2
<1>8. CASE Retry(w)
  <2>1. todo' = todo /\ UNCHANGED <<obj, grp, res>>
    BY <1>8 DEF Retry, queryVars
  <2>2. pc[w] \in Ahead /\ pc'[w] \in Ahead
    BY <1>8, RetryFacts DEF Ahead, Queued, Locked
  <2>3. QED
    BY <1>m, <2>1, <2>2
<1>9. CASE Wait(w)
  <2>1. todo' = todo /\ UNCHANGED <<obj, grp, res>>
    BY <1>9 DEF Wait, queryVars
  <2>2. pc[w] \in Ahead /\ pc'[w] \in Ahead
    BY <1>9, <1>t, <1>c, WaitFacts DEF Wait, Ahead, Queued, Locked
  <2>3. QED
    BY <1>m, <2>1, <2>2
<1>10. CASE Relock(w)
  <2>1. todo' = todo /\ UNCHANGED <<obj, grp, res>>
    BY <1>10 DEF Relock, queryVars
  <2>2. pc[w] \in Ahead /\ pc'[w] \in Ahead
    BY <1>10, RelockFacts DEF Ahead, Queued, Locked
  <2>3. QED
    BY <1>m, <2>1, <2>2
<1>11. CASE TakeDecoder(w)
  <2>1. todo' = todo /\ UNCHANGED <<obj, grp>> /\ pc[w] = "decode"
    BY <1>11 DEF TakeDecoder, queryVars
  <2>2. (pc'[w] = "read" /\ res' = res) \/ res'[w] = "failed"
    BY <1>11, <1>t, <1>c DEF TakeDecoder
  <2>3. CASE pc'[w] = "read" /\ res' = res
    BY <1>m, <2>1, <2>3 DEF Ahead
  <2>4. CASE res'[w] = "failed"
    <3>1. \A o \in Objects, g \in Nat : Pending(w, o, g) => Pending(w, o, g)'
      BY <2>1, <2>4 DEF Pending
    <3>2. QED
      BY <1>k, <2>1, <3>1
  <2>5. QED
    BY <2>2, <2>3, <2>4
<1>12. CASE Read(w)
  <2>1. todo' = todo /\ UNCHANGED <<obj, grp>> /\ pc[w] = "read"
    BY <1>12 DEF Read, queryVars
  <2>2. (pc'[w] = "filter" /\ res' = res) \/ res'[w] = "failed"
    BY <1>12, <1>t, <1>c DEF Read
  <2>3. CASE pc'[w] = "filter" /\ res' = res
    BY <1>m, <2>1, <2>3 DEF Ahead
  <2>4. CASE res'[w] = "failed"
    <3>1. \A o \in Objects, g \in Nat : Pending(w, o, g) => Pending(w, o, g)'
      BY <2>1, <2>4 DEF Pending
    <3>2. QED
      BY <1>k, <2>1, <3>1
  <2>5. QED
    BY <2>2, <2>3, <2>4
<1>13. CASE PreFilter(w)
  <2>1. todo' = todo /\ UNCHANGED <<obj, grp, res>>
    BY <1>13 DEF PreFilter, queryVars
  <2>2. pc[w] \in Ahead /\ pc'[w] \in Ahead
    BY <1>13, <1>t, <1>c, PreFilterFacts DEF PreFilter, Ahead, Queued, Locked
  <2>3. QED
    BY <1>m, <2>1, <2>2
<1>14. CASE CountRows(w)
  <2>1. todo' = todo /\ UNCHANGED <<obj, grp, res>>
    BY <1>14 DEF CountRows, queryVars
  <2>2. pc[w] \in Ahead /\ pc'[w] \in Ahead
    BY <1>14, CountRowsFacts DEF Ahead, Queued, Locked
  <2>3. QED
    BY <1>m, <2>1, <2>2
<1>15. CASE WriteBlock(w)
  <2>1. todo' = todo /\ UNCHANGED <<obj, grp, res>>
    BY <1>15 DEF WriteBlock
  <2>2. pc[w] = "write" /\ pc'[w] = "free" /\ res[w] # "failed" /\ grp[w] \in Nat
    BY <1>15, <1>t, <1>l, WriteBlockFacts DEF Local, Signalling
  <2>3. <<obj[w], grp[w]>> \in got'[q]
    <3>1. ~panicked'[q]
      BY DEF Quiet
    <3>2. \/ got' = [got EXCEPT ![q] = @ \cup {<<obj[w], grp[w]>>}]
          \/ panicked' = [panicked EXCEPT ![q] = TRUE]
      BY <1>15 DEF WriteBlock
    <3>3. got' = [got EXCEPT ![q] = @ \cup {<<obj[w], grp[w]>>}]
      BY <1>q, <1>b, <3>1, <3>2
    <3>4. QED
      BY <1>q, <1>f, <3>3
  <2>4. ASSUME NEW o \in Objects, NEW g \in Nat, Pending(w, o, g) PROVE Pending(w, o, g)' \/ <<o, g>> \in got'[q]
    <3>1. obj[w] = o /\ grp[w] <= g
      BY <2>2, <2>4 DEF Pending, Signalling
    <3>2. CASE grp[w] = g
      BY <2>3, <3>1, <3>2
    <3>3. CASE grp[w] < g
      BY <2>1, <2>2, <3>1, <3>3 DEF Pending
    <3>4. grp[w] = g \/ grp[w] < g
      BY ONLY <2>2, <3>1, g \in Nat, SMT
    <3>5. QED
      BY <3>2, <3>3, <3>4
  <2>5. QED
    BY <1>k, <2>1, <2>4
<1>16. CASE Free(w)
  <2>1. todo' = todo /\ UNCHANGED <<obj, grp, res>>
    BY <1>16 DEF Free, queryVars
  <2>2. pc[w] = "free" /\ pc'[w] = "signal"
    BY <1>16, FreeFacts
  <2>3. QED
    BY <1>m, <2>1, <2>2 DEF Signalling
<1>17. CASE Signal(w)
  <2>1. todo' = todo /\ UNCHANGED <<obj, res>> /\ pc[w] \in Signalling /\ grp[w] \in Nat
    BY <1>17, <1>t DEF Signal, queryVars, Signalling
  <2>2. CASE pc'[w] = "wake" /\ grp' = grp
    BY <1>m, <2>1, <2>2 DEF Signalling
  <2>3. CASE pc'[w] = AfterGroup(w) /\ grp'[w] = grp[w] + 1
    <3>1. ASSUME NEW o \in Objects, NEW g \in Nat, Pending(w, o, g) PROVE Pending(w, o, g)'
      <4>1. CASE res[w] = "failed"
        BY <2>1, <3>1, <4>1 DEF Pending
      <4>2. CASE res[w] # "failed"
        <5>1. obj[w] = o /\ grp[w] < g
          BY <2>1, <3>1, <4>2 DEF Pending, Ahead, Queued, Locked, Signalling
        <5>2. pc'[w] = "group"
          BY <1>t, <2>3, <4>2 DEF AfterGroup
        <5>3. grp[w] \in Nat /\ grp'[w] = grp[w] + 1
          BY <2>1, <2>3
        <5>4. grp'[w] <= g
          BY ONLY <5>1, <5>3, g \in Nat, SMT
        <5>5. QED
          BY <2>1, <5>1, <5>2, <5>4 DEF Pending, Ahead
      <4>3. QED
        BY <4>1, <4>2
    <3>2. QED
      BY <1>k, <2>1, <3>1
  <2>4. QED
    BY <1>17, <1>t, <2>2, <2>3 DEF Signal
<1>18. CASE Wake(w)
  <2>1. todo' = todo /\ UNCHANGED <<obj, res>> /\ pc[w] \in Signalling /\ grp[w] \in Nat
    BY <1>18, <1>t DEF Wake, queryVars, Signalling
  <2>3. pc'[w] = AfterGroup(w) /\ grp'[w] = grp[w] + 1
    BY <1>18, <1>t DEF Wake, Broadcast, AfterGroup
  <2>4. QED
    <3>1. ASSUME NEW o \in Objects, NEW g \in Nat, Pending(w, o, g) PROVE Pending(w, o, g)'
      <4>1. CASE res[w] = "failed"
        BY <2>1, <3>1, <4>1 DEF Pending
      <4>2. CASE res[w] # "failed"
        <5>1. obj[w] = o /\ grp[w] < g
          BY <2>1, <3>1, <4>2 DEF Pending, Ahead, Queued, Locked, Signalling
        <5>2. pc'[w] = "group"
          BY <1>t, <2>3, <4>2 DEF AfterGroup
        <5>3. grp[w] \in Nat /\ grp'[w] = grp[w] + 1
          BY <2>1, <2>3
        <5>4. grp'[w] <= g
          BY ONLY <5>1, <5>3, g \in Nat, SMT
        <5>5. QED
          BY <2>1, <5>1, <5>2, <5>4 DEF Pending, Ahead
      <4>3. QED
        BY <4>1, <4>2
    <3>2. QED
      BY <1>k, <2>1, <3>1
<1>19. CASE Close(w)
  <2>1. todo' = todo /\ pc[w] = "close"
    BY <1>19 DEF Close, EndObject
  <2>2. err' = [err EXCEPT ![q] = @ \/ (res[w] = "failed" /\ ~CtxDone(q))]
    BY <1>19 DEF Close, EndObject
  <2>3. ~err'[q]
    BY DEF Quiet
  <2>4. res[w] # "failed"
    BY <1>q, <1>b, <1>c, <2>2, <2>3
  <2>5. \A o, g : ~Pending(w, o, g)
    BY <2>1, <2>4 DEF Pending, Ahead, Queued, Locked, Signalling
  <2>6. QED
    BY <1>k, <2>1, <2>5
<1>20. QED
  BY ZenonT(60), <1>1, <1>2, <1>3, <1>4, <1>5, <1>6, <1>7, <1>8, <1>9, <1>10, <1>11, <1>12, <1>13, <1>14, <1>15, <1>16, <1>17, <1>18, <1>19 DEF WorkerStep

\* A worker's step loses sight of no row group.
LEMMA CoverStep ==
    ASSUME Types, Locals, rows' \in [Queries -> Nat], CInv, NEW w \in Workers, WorkerStep(w)
    PROVE  CoverInv'
<1> SUFFICES ASSUME NEW q \in Queries, Quiet(q)', NEW o \in Objects, NEW g \in Nat, <<o, g>> \in Selected(q)
             PROVE  <<o, g>> \in got'[q] \/ InTodo(q, o)' \/ \E v \in Of(q) : Pending(v, o, g)'
  BY DEF CoverInv, Selected, Of
<1>e. Effects(w) /\ Takes(w) /\ Moves(w)
  BY StepEffects, StepTakes DEF Takes
<1>1. Quiet(q)
  BY <1>e, QuietBefore
<1>2. <<o, g>> \in got[q] \/ InTodo(q, o) \/ \E v \in Of(q) : Pending(v, o, g)
  BY <1>1 DEF CInv, CoverInv
<1>3. got[q] \subseteq got'[q]
  BY <1>e DEF Takes, Effects, Apart
<1>4. ASSUME NEW v \in Of(q), Pending(v, o, g), v # w PROVE Pending(v, o, g)'
  BY <1>e, <1>4, PendingKeeps DEF Of
<1>5. CASE q = QueryOf[w]
  <2>1. Hands(w)
    BY <1>1, <1>5, StepHands
  <2>2. ASSUME Pending(w, o, g) PROVE Pending(w, o, g)' \/ <<o, g>> \in got'[q]
    BY <1>5, <2>1, <2>2 DEF Hands
  <2>3. ASSUME InTodo(q, o) PROVE InTodo(q, o)' \/ Pending(w, o, g)'
    BY <1>5, <2>1, <2>3 DEF Hands
  <2>4. w \in Of(q)
    BY <1>5 DEF Of
  <2>5. QED
    BY <1>2, <1>3, <1>4, <2>2, <2>3, <2>4
<1>6. CASE q # QueryOf[w]
  <2>1. InTodo(q, o) => InTodo(q, o)'
    BY <1>e, <1>6 DEF InTodo, Effects, Apart
  <2>2. \A v \in Of(q) : v # w
    BY <1>6 DEF Of
  <2>3. QED
    BY <1>2, <1>3, <1>4, <2>1, <2>2
<1>7. QED
  BY <1>5, <1>6

\* A worker whose step changes none of what the answer depends on keeps its invariant.
LEMMA AnswerKeeps ==
    ASSUME CInv, UNCHANGED <<obj, grp, res, todo, ceiling, rows, stopped, err, panicked, got>>,
           \A w \in Workers : pc'[w] = pc[w] \/ (pc[w] = "asleep" /\ pc'[w] = "awake"),
           \A q \in Queries : gaveUp[q] => gaveUp'[q],
           AnswerInv'
    PROVE  CInv'
<1>1. \A q \in Queries : AtCeiling(q)' <=> AtCeiling(q)
  BY DEF AtCeiling
<1>2. \A q \in Queries : Quiet(q)' => Quiet(q)
  BY <1>1 DEF Quiet
<1>3. \A w \in Workers : /\ pc'[w] = "done" => pc[w] = "done"
                         /\ pc'[w] \in InSlot \cup {"slot"} => pc[w] \in InSlot \cup {"slot"}
  BY DEF InSlot, InPool, Queued
<1>4. StopInv'
  BY <1>1 DEF CInv, StopInv
<1>5. TodoInv' /\ GotInv'
  BY DEF CInv, TodoInv, InTodo, RangeOf, GotInv, Selected
<1>6. ObjectInv'
  BY <1>3 DEF CInv, ObjectInv, RangeOf
<1>7. DoneInv'
  <2>1. \A w \in Workers : QueryOf[w] \in Queries
    BY ConstantsAssumption DEF ConstantsAssumption
  <2>2. QED
    BY <1>1, <1>3, <2>1 DEF CInv, DoneInv
<1>8. CoverInv'
  <2>1. ASSUME NEW w \in Workers, NEW o, NEW g, Pending(w, o, g) PROVE Pending(w, o, g)'
    <3>1. "awake" \in Ahead /\ "asleep" \notin {"free"} \cup Signalling
      BY DEF Ahead, Queued, Signalling
    <3>2. QED
      BY <2>1, <3>1 DEF Pending
  <2>2. \A q \in Queries : \A o : InTodo(q, o)' <=> InTodo(q, o)
    BY DEF InTodo
  <2>3. QED
    BY <1>2, <2>1, <2>2 DEF CInv, CoverInv, Selected, Of
<1>9. QED
  BY <1>4, <1>5, <1>6, <1>7, <1>8 DEF CInv

\* Every step keeps the invariant of the answer.
LEMMA AnswerStep == Types /\ Locals /\ Types' /\ CInv /\ [Next]_vars => CInv'
<1> SUFFICES ASSUME Types, Locals, Types', CInv, [Next]_vars PROVE CInv'
  OBVIOUS
<1>1. ASSUME NEW w \in Workers, WorkerStep(w) PROVE CInv'
  <2>1. rows' \in [Queries -> Nat]
    BY DEF Types, QueryTypes
  <2>2. QED
    BY <1>1, <2>1, EndsStep, CoverStep DEF CInv
<1>2. ASSUME NEW w \in Workers, ContextWake(w) PROVE CInv'
  <2>1. /\ UNCHANGED <<obj, grp, res, todo, ceiling, rows, stopped, err, panicked, got>>
        /\ UNCHANGED <<gaveUp, answer>>
    BY <1>2 DEF ContextWake, queryVars
  <2>2. \A v \in Workers : pc'[v] = pc[v] \/ (pc[v] = "asleep" /\ pc'[v] = "awake")
    BY <1>2 DEF ContextWake, Broadcast, Types, WorkerTypes
  <2>3. AnswerInv'
    BY <2>1, <2>2 DEF CInv, AnswerInv, Of
  <2>4. QED
    BY <2>1, <2>2, <2>3, AnswerKeeps
<1>3. ASSUME NEW q \in Queries, Answer(q) PROVE CInv'
  <2>1. /\ UNCHANGED <<pc, obj, grp, res, todo, ceiling, rows, stopped, err, panicked, got>>
        /\ UNCHANGED gaveUp
    BY <1>3 DEF Answer, workerVars
  <2>2. AnswerInv'
    <3> SUFFICES ASSUME NEW p \in Queries, answer'[p] = "ok"
                 PROVE  ~err[p] /\ ~gaveUp[p] /\ \A w \in Of(p) : pc[w] = "done"
      BY <2>1 DEF AnswerInv, Of
    <3>1. CASE p = q
      BY <1>3, <3>1 DEF Answer, ReadFailure, Types, QueryTypes
    <3>2. CASE p # q
      <4>1. answer[p] = "ok"
        BY <1>3, <3>2 DEF Answer, Types, QueryTypes
      <4>2. QED
        BY <4>1 DEF CInv, AnswerInv
    <3>3. QED
      BY <3>1, <3>2
  <2>3. QED
    BY <2>1, <2>2, AnswerKeeps
<1>4. ASSUME NEW q \in Queries, GiveUp(q) PROVE CInv'
  <2>1. UNCHANGED <<pc, obj, grp, res, todo, ceiling, rows, stopped, err, panicked, got, answer>>
    BY <1>4 DEF GiveUp, workerVars
  <2>2. gaveUp' = [gaveUp EXCEPT ![q] = TRUE] /\ answer[q] = "none"
    BY <1>4 DEF GiveUp
  <2>3. gaveUp \in [Queries -> BOOLEAN]
    BY DEF Types, FlagTypes
  <2>4. /\ \A p \in Queries : gaveUp[p] => gaveUp'[p]
        /\ \A p \in Queries : p # q => gaveUp'[p] = gaveUp[p]
    BY <2>2, <2>3
  <2>5. AnswerInv'
    BY <2>1, <2>2, <2>4 DEF CInv, AnswerInv, Of
  <2>6. QED
    BY <2>1, <2>4, <2>5, AnswerKeeps
<1>5. ASSUME UNCHANGED vars PROVE CInv'
  <2>1. /\ UNCHANGED <<pc, obj, grp, res, todo, ceiling, rows, stopped, err, panicked, got>>
        /\ UNCHANGED <<gaveUp, answer>>
    BY <1>5 DEF vars, workerVars, queryVars
  <2>2. AnswerInv'
    BY <2>1 DEF CInv, AnswerInv, Of
  <2>3. QED
    BY <2>1, <2>2, AnswerKeeps
<1>6. QED
  BY <1>1, <1>2, <1>3, <1>4, <1>5 DEF Next

\* Before its first step a query's objects are all in its channel.
LEMMA AnswerInit == Init => CInv
<1> SUFFICES ASSUME Init PROVE CInv
  OBVIOUS
<1>1. /\ \A w \in Workers : pc[w] = "next"
      /\ \A q \in Queries : todo[q] = Tasks[q] /\ ~stopped[q] /\ answer[q] = "none" /\ got[q] = {}
  BY DEF Init
<1>2. StopInv /\ AnswerInv /\ GotInv
  BY <1>1 DEF StopInv, AnswerInv, GotInv
<1>3. ObjectInv /\ DoneInv
  BY <1>1 DEF ObjectInv, DoneInv, InSlot, InPool, Reserved, Queued, Locked, Signalling
<1>4. \A q \in Queries : \A o : InTodo(q, o) <=> o \in RangeOf(q)
  BY <1>1 DEF InTodo, RangeOf
<1>5. TodoInv
  BY <1>4 DEF TodoInv
<1>6. CoverInv
  BY <1>4, IsSelected DEF CoverInv
<1>7. QED
  BY <1>2, <1>3, <1>5, <1>6 DEF CInv

\* An answer without an error is complete.
LEMMA AnswerComplete == ASSUME Types, Locals, CInv PROVE Complete
<1> SUFFICES ASSUME NEW q \in Queries, answer[q] = "ok", ~panicked[q], ~AtCeiling(q) PROVE got[q] = Selected(q)
  BY DEF Complete
<1>1. ~err[q] /\ ~gaveUp[q] /\ \A w \in Of(q) : pc[w] = "done"
  BY DEF CInv, AnswerInv
<1>2. Quiet(q)
  BY <1>1 DEF Quiet
<1>3. got[q] \subseteq Selected(q)
  BY DEF CInv, GotInv
<1>4. ASSUME NEW o \in Objects, NEW g \in Nat, <<o, g>> \in Selected(q) PROVE <<o, g>> \in got[q]
  <2>1. <<o, g>> \in got[q] \/ InTodo(q, o) \/ \E w \in Of(q) : Pending(w, o, g)
    BY <1>2, <1>4 DEF CInv, CoverInv
  <2>2. ASSUME NEW w \in Of(q), Pending(w, o, g) PROVE FALSE
    <3>1. w \in Workers /\ pc[w] = "done"
      BY <1>1 DEF Of
    <3>2. res[w] # "failed"
      BY <3>1 DEF Locals, Local, Signalling
    <3>3. QED
      BY <2>2, <3>1, <3>2 DEF Pending, Ahead, Queued, Locked, Signalling
  <2>3. ~InTodo(q, o)
    <3>1. o \in RangeOf(q)
      BY <1>4, IsSelected
    <3>2. Tasks[q] # <<>>
      BY <3>1, SMT DEF RangeOf
    <3>3. PICK w \in Workers : QueryOf[w] = q
      BY <3>2, ConstantsAssumption DEF ConstantsAssumption
    <3>4. todo[q] = <<>>
      BY <1>1, <3>3 DEF CInv, DoneInv, Of
    <3>5. QED
      BY <3>4, SMT DEF InTodo
  <2>4. QED
    BY <2>1, <2>2, <2>3
<1>5. Selected(q) \subseteq Objects \X Nat
  <2> SUFFICES ASSUME NEW k \in 1..Len(Tasks[q])
               PROVE  {Tasks[q][k]} \X (1..Len(Groups[Tasks[q][k]])) \subseteq Objects \X Nat
    BY DEF Selected
  <2>1. Tasks[q][k] \in Objects
    BY ConstantsAssumption, SMT DEF ConstantsAssumption
  <2>2. QED
    BY <2>1, SMT
<1>6. ASSUME NEW x \in Selected(q) PROVE x \in got[q]
  <2>1. PICK o \in Objects, g \in Nat : x = <<o, g>>
    BY <1>5, SMT
  <2>2. QED
    BY <1>4, <2>1
<1>7. QED
  BY <1>3, <1>6

\* A query answered without an error took every row group it selected, unless its
\* consumer panicked or its row ceiling was reached: no failed, vanished or
\* interrupted read, whatever the workers' order, is silent (RunQuery, readFailure).
THEOREM AnswersComplete == Spec => []Complete
<1>2. Types /\ Locals /\ Types' /\ CInv /\ [Next]_vars => CInv'
  BY AnswerStep
<1>3. Init => CInv
  BY AnswerInit
<1>4. Types /\ Locals /\ CInv => Complete
  BY AnswerComplete
<1>5. Spec => []CInv
  <2>1. CInv /\ (Types /\ Locals) /\ (Types /\ Locals)' /\ [Next]_vars => CInv'
    BY <1>2
  <2>2. QED
    BY <1>3, <2>1, TypesInvariant, PTL DEF Spec
<1>6. QED
  BY <1>4, <1>5, TypesInvariant, PTL


=============================================================================
