----------------------------- MODULE QueryScan -----------------------------
(***************************************************************************)
(* The object scan of a query (RunQuery, fileWorkerLoop, queryFile): the   *)
(* workers of several queries take objects from their query's list, pass   *)
(* the process-wide limits (file-worker slots, the file budget, row-group  *)
(* decoders) and the query's own ceiling on decoded bytes (liveBytesGate,  *)
(* at the granularity of its atomic operations), and hand row groups to    *)
(* the query's consumer one at a time.  A read may fail, a consumer may    *)
(* panic, a caller may give up, and the row ceiling may stop the scan.     *)
(***************************************************************************)
EXTENDS Integers, Sequences, FiniteSets

CONSTANTS
    Queries,        \* the queries running in the process
    Workers,        \* the file workers of all of them
    QueryOf,        \* the query a worker reads for
    Objects,        \* the objects they select
    Tasks,          \* per query, its objects in the order of its channel
    Size,           \* an object's stored size
    Plan,           \* the bytes of its planned ranges; 0: read whole
    Groups,         \* an object's row groups: the decoded estimate of each
    FileSlots,      \* query.file_workers_limit
    MaxResident,    \* the file budget, in bytes
    MaxFiles,       \* the file budget, in objects
    MaxLive,        \* query.max_live_bytes
    Decoders,       \* the capacity of rgDecodeSem
    RowCeilings,    \* per query, the row ceilings it may run with, in row groups
    NoObject

ASSUME ConstantsAssumption ==
    /\ IsFiniteSet(Workers)
    /\ QueryOf \in [Workers -> Queries]
    /\ NoObject \notin Objects
    /\ Tasks \in [Queries -> Seq(Objects)]
    /\ Size \in [Objects -> Nat \ {0}]
    /\ Plan \in [Objects -> Nat]
    /\ Groups \in [Objects -> Seq(Nat \ {0})]
    /\ \A q \in Queries : Tasks[q] # <<>> => \E w \in Workers : QueryOf[w] = q
    /\ FileSlots \in Nat \ {0} /\ MaxFiles \in Nat \ {0} /\ Decoders \in Nat \ {0}
    /\ MaxResident \in Nat \ {0} /\ MaxLive \in Nat
    /\ RowCeilings \in [Queries -> SUBSET Nat]

VARIABLES
    pc, obj, grp,   \* per worker: where it is, its object, its row group
    res,            \* per worker: why it leaves its object
    hook,           \* per worker: its context.AfterFunc(ctx, wake) is armed
    todo,           \* per query: the objects left in the channel
    live, waiters,  \* per query: liveBytesGate's atomics
    ceiling,        \* per query: rowCeilingOf, 0 for none
    rows,           \* per query: rowsEmitted, in row groups
    stopped,        \* per query: cancel() was called
    gaveUp,         \* per query: the caller's context ended
    err,            \* per query: an error was recorded (firstErr)
    panicked,       \* per query: writeBlockPanic
    answer,         \* per query: what RunQuery returned
    got,            \* per query: the row groups its consumer took
    slots, outBytes, outCount, decoding  \* process-wide counters

workerVars == <<pc, obj, grp, res, hook>>
gateVars == <<live, waiters>>
queryVars == <<todo, ceiling, rows, stopped, gaveUp, err, panicked, answer, got>>
poolVars == <<slots, outBytes, outCount, decoding>>
vars == <<workerVars, gateVars, queryVars, poolVars>>

Of(q) == {w \in Workers : QueryOf[w] = q}
CtxDone(q) == stopped[q] \/ gaveUp[q]
Need(w) == Groups[obj[w]][grp[w]]
MutAtCeiling(q) == ceiling[q] > 0 /\ rows[q] > ceiling[q]
AtCeiling(q) == ceiling[q] > 0 /\ rows[q] >= ceiling[q]

\* A worker between its reservation and its release of the row group's bytes.
Reserved == {"decode", "read", "filter", "count", "write", "free"}
\* A worker counted in the gate's waiters; the first two hold the gate's mutex.
Locked == {"try", "wait"}
Queued == Locked \cup {"asleep", "awake"}
\* A worker that changed the gate and has not yet signalled it.
Signalling == {"signal", "wake"}

MuFree(q) == \A w \in Of(q) : pc[w] \notin Locked
Broadcast(q, f) ==
    [w \in Workers |-> IF QueryOf[w] = q /\ f[w] = "asleep" THEN "awake" ELSE f[w]]

Init ==
    /\ pc = [w \in Workers |-> "next"]
    /\ obj = [w \in Workers |-> NoObject]
    /\ grp = [w \in Workers |-> 0]
    /\ res = [w \in Workers |-> "none"]
    /\ hook = [w \in Workers |-> FALSE]
    /\ todo = Tasks
    /\ live = [q \in Queries |-> 0]
    /\ waiters = [q \in Queries |-> 0]
    /\ ceiling \in {f \in [Queries -> UNION {RowCeilings[q] : q \in Queries}] :
                      \A q \in Queries : f[q] \in RowCeilings[q]}
    /\ rows = [q \in Queries |-> 0]
    /\ stopped = [q \in Queries |-> FALSE]
    /\ gaveUp = [q \in Queries |-> FALSE]
    /\ err = [q \in Queries |-> FALSE]
    /\ panicked = [q \in Queries |-> FALSE]
    /\ answer = [q \in Queries |-> "none"]
    /\ got = [q \in Queries |-> {}]
    /\ slots = 0 /\ outBytes = 0 /\ outCount = 0 /\ decoding = 0

-----------------------------------------------------------------------------
(* fileWorkerLoop *)

\* The next object of the channel, unless the context ended (which is an error
\* of the read) or the row ceiling is reached (which is none).
NextObject(w) ==
    LET q == QueryOf[w] IN
    /\ pc[w] = "next"
    /\ IF todo[q] = <<>>
       THEN pc' = [pc EXCEPT ![w] = "done"] /\ UNCHANGED <<todo, err, obj>>
       ELSE /\ todo' = [todo EXCEPT ![q] = Tail(@)]
            /\ err' = [err EXCEPT ![q] = @ \/ CtxDone(q)]
            /\ IF CtxDone(q) \/ AtCeiling(q)
               THEN pc' = [pc EXCEPT ![w] = "done"] /\ UNCHANGED obj
               ELSE /\ pc' = [pc EXCEPT ![w] = "slot"]
                    /\ obj' = [obj EXCEPT ![w] = Head(todo[q])]
    /\ UNCHANGED <<grp, res, hook, gateVars, ceiling, rows, stopped, gaveUp, panicked,
                   answer, got, poolVars>>

\* Bound.Acquire on the FileWorkers bound, which charges one unit a file.
FileSlotsLeft == slots + 1 <= FileSlots \/ slots = 0
TakeSlot(w) ==
    LET q == QueryOf[w] IN
    /\ pc[w] = "slot"
    /\ IF CtxDone(q)
       THEN /\ err' = [err EXCEPT ![q] = TRUE]
            /\ stopped' = [stopped EXCEPT ![q] = TRUE]
            /\ pc' = [pc EXCEPT ![w] = "done"]
            /\ UNCHANGED slots
       ELSE /\ FileSlotsLeft
            /\ slots' = slots + 1
            /\ pc' = [pc EXCEPT ![w] = "budget"]
            /\ UNCHANGED <<err, stopped>>
    /\ UNCHANGED <<obj, grp, res, hook, gateVars, todo, ceiling, rows, gaveUp, panicked,
                   answer, got, outBytes, outCount, decoding>>

\* An object larger than the budget is charged the whole of it.
FileCharge(o) == IF Size[o] > MaxResident THEN MaxResident ELSE Size[o]

\* What a worker holds of the budget: its admission, and the planned ranges of
\* an object it opened (addBytes).
Resident(w) == FileCharge(obj[w]) + (IF grp[w] = 0 THEN 0 ELSE Plan[obj[w]])

\* fileReadFailure and failFileRead, with the slot returned: a failed read fails
\* the query and stops its other workers, unless the context had ended, which
\* RunQuery reports.
EndObject(w) ==
    LET q == QueryOf[w]
        fails == res[w] = "failed" /\ ~CtxDone(q) IN
    /\ slots' = slots - 1
    /\ err' = [err EXCEPT ![q] = @ \/ fails]
    /\ stopped' = [stopped EXCEPT ![q] = @ \/ fails]
    /\ pc' = [pc EXCEPT ![w] = IF fails THEN "done" ELSE "next"]
    /\ obj' = [obj EXCEPT ![w] = NoObject]
    /\ grp' = [grp EXCEPT ![w] = 0]
    /\ res' = [res EXCEPT ![w] = "none"]
    /\ UNCHANGED <<hook, gateVars, todo, ceiling, rows, gaveUp, panicked, answer, got,
                   decoding>>

\* The view is not closed: its planned ranges stay charged.
MutClose(w) ==
    /\ pc[w] = "close"
    /\ outBytes' = outBytes - FileCharge(obj[w])
    /\ outCount' = outCount - 1
    /\ EndObject(w)

\* queryFile returns: its file budget goes back, and the object ends.
Close(w) ==
    /\ pc[w] = "close"
    /\ outBytes' = outBytes - Resident(w)
    /\ outCount' = outCount - 1
    /\ EndObject(w)

\* The file budget admits an object when both of its gates allow it, and any
\* object into an empty pool.
Admits(o) ==
    /\ outBytes + FileCharge(o) <= MaxResident \/ outCount = 0
    /\ outCount < MaxFiles

\* fileBudget.acquire, before the object is opened.
TakeBudget(w) ==
    /\ pc[w] = "budget"
    /\ IF CtxDone(QueryOf[w])
       THEN EndObject(w) /\ UNCHANGED <<outBytes, outCount>>
       ELSE /\ Admits(obj[w])
            /\ outBytes' = outBytes + FileCharge(obj[w])
            /\ outCount' = outCount + 1
            /\ pc' = [pc EXCEPT ![w] = "open"]
            /\ UNCHANGED <<obj, grp, res, hook, gateVars, queryVars, slots, decoding>>

\* openParquetFileWithPlan and armProjectedPlan: the object is opened, and its
\* planned ranges charged without waiting, or it is not (gone, unreadable).
Open(w) ==
    /\ pc[w] = "open"
    /\ \/ /\ pc' = [pc EXCEPT ![w] = "group"]
          /\ grp' = [grp EXCEPT ![w] = 1]
          /\ outBytes' = outBytes + Plan[obj[w]]
          /\ UNCHANGED res
       \/ /\ pc' = [pc EXCEPT ![w] = "close"]
          /\ res' = [res EXCEPT ![w] = "failed"]
          /\ UNCHANGED <<grp, outBytes>>
    /\ UNCHANGED <<obj, hook, gateVars, queryVars, slots, outCount, decoding>>

\* The loop over the matched row groups of queryFile.
NextGroup(w) ==
    /\ pc[w] = "group"
    /\ pc' = [pc EXCEPT ![w] =
                IF grp[w] > Len(Groups[obj[w]]) \/ CtxDone(QueryOf[w])
                THEN "close" ELSE "reserve"]
    /\ UNCHANGED <<obj, grp, res, hook, gateVars, queryVars, poolVars>>

-----------------------------------------------------------------------------
(* liveBytesGate *)

\* A ceiling that looks only at what is reserved, and one without the exception
\* for a row group larger than it.
MutFitsEarly(q, n) == live[q] <= MaxLive
MutFitsNever(q, n) == live[q] + n <= MaxLive
\* tryReserve: one compare-and-swap.
Fits(q, n) == live[q] = 0 \/ live[q] + n <= MaxLive

\* reserve without waiting; else the context is hooked to wake the gate.
TryReserve(w) ==
    LET q == QueryOf[w] IN
    /\ pc[w] = "reserve"
    /\ IF Fits(q, Need(w))
       THEN /\ live' = [live EXCEPT ![q] = @ + Need(w)]
            /\ pc' = [pc EXCEPT ![w] = "decode"]
            /\ UNCHANGED hook
       ELSE /\ pc' = [pc EXCEPT ![w] = "lock"]
            /\ hook' = [hook EXCEPT ![w] = TRUE]
            /\ UNCHANGED live
    /\ UNCHANGED <<obj, grp, res, waiters, queryVars, poolVars>>

\* The waiter takes the mutex and counts itself.
Lock(w) ==
    /\ pc[w] = "lock" /\ MuFree(QueryOf[w])
    /\ pc' = [pc EXCEPT ![w] = "try"]
    /\ waiters' = [waiters EXCEPT ![QueryOf[w]] = @ + 1]
    /\ UNCHANGED <<obj, grp, res, hook, live, queryVars, poolVars>>

\* tryReserve under the mutex; the waiter that got its bytes unlocks.
Retry(w) ==
    LET q == QueryOf[w] IN
    /\ pc[w] = "try"
    /\ IF Fits(q, Need(w))
       THEN /\ live' = [live EXCEPT ![q] = @ + Need(w)]
            /\ waiters' = [waiters EXCEPT ![q] = @ - 1]
            /\ hook' = [hook EXCEPT ![w] = FALSE]
            /\ pc' = [pc EXCEPT ![w] = "decode"]
       ELSE pc' = [pc EXCEPT ![w] = "wait"] /\ UNCHANGED <<live, waiters, hook>>
    /\ UNCHANGED <<obj, grp, res, queryVars, poolVars>>

\* The waiter gives up with its context, or sleeps and lets the mutex go.
Wait(w) ==
    LET q == QueryOf[w] IN
    /\ pc[w] = "wait"
    /\ IF CtxDone(q)
       THEN /\ waiters' = [waiters EXCEPT ![q] = @ - 1]
            /\ hook' = [hook EXCEPT ![w] = FALSE]
            /\ pc' = [pc EXCEPT ![w] = "close"]
       ELSE pc' = [pc EXCEPT ![w] = "asleep"] /\ UNCHANGED <<waiters, hook>>
    /\ UNCHANGED <<obj, grp, res, live, queryVars, poolVars>>

\* cond.Wait returns with the mutex.
Relock(w) ==
    /\ pc[w] = "awake" /\ MuFree(QueryOf[w])
    /\ pc' = [pc EXCEPT ![w] = "try"]
    /\ UNCHANGED <<obj, grp, res, hook, gateVars, queryVars, poolVars>>

\* The end of the context wakes the gate, once for every waiter's hook.
ContextWake(w) ==
    /\ hook[w] /\ CtxDone(QueryOf[w]) /\ MuFree(QueryOf[w])
    /\ hook' = [hook EXCEPT ![w] = FALSE]
    /\ pc' = Broadcast(QueryOf[w], pc)
    /\ UNCHANGED <<obj, grp, res, gateVars, queryVars, poolVars>>

\* release: the bytes first, then a look at the waiters, then the broadcast.
Free(w) ==
    /\ pc[w] = "free"
    /\ live' = [live EXCEPT ![QueryOf[w]] = @ - Need(w)]
    /\ pc' = [pc EXCEPT ![w] = "signal"]
    /\ UNCHANGED <<obj, grp, res, hook, waiters, queryVars, poolVars>>

\* After a row group: the next one, or out of the object with the error.
AfterGroup(w) == IF res[w] = "none" THEN "group" ELSE "close"

MutSignal(w) ==
    /\ pc[w] = "signal"
    /\ IF waiters[QueryOf[w]] > 1
       THEN pc' = [pc EXCEPT ![w] = "wake"] /\ UNCHANGED grp
       ELSE /\ pc' = [pc EXCEPT ![w] = AfterGroup(w)]
            /\ grp' = [grp EXCEPT ![w] = @ + 1]
    /\ UNCHANGED <<obj, res, hook, gateVars, queryVars, poolVars>>

Signal(w) ==
    /\ pc[w] = "signal"
    /\ IF waiters[QueryOf[w]] > 0
       THEN pc' = [pc EXCEPT ![w] = "wake"] /\ UNCHANGED grp
       ELSE /\ pc' = [pc EXCEPT ![w] = AfterGroup(w)]
            /\ grp' = [grp EXCEPT ![w] = @ + 1]
    /\ UNCHANGED <<obj, res, hook, gateVars, queryVars, poolVars>>

Wake(w) ==
    /\ pc[w] = "wake" /\ MuFree(QueryOf[w])
    /\ pc' = Broadcast(QueryOf[w], [pc EXCEPT ![w] = AfterGroup(w)])
    /\ grp' = [grp EXCEPT ![w] = @ + 1]
    /\ UNCHANGED <<obj, res, hook, gateVars, queryVars, poolVars>>

-----------------------------------------------------------------------------
(* readRowGroupWithProjectionKeys and the write function of RunQuery *)

\* The release runs although no slot was taken.
MutTakeDecoder(w) ==
    /\ pc[w] = "decode"
    /\ \/ /\ decoding < Decoders
          /\ decoding' = decoding + 1
          /\ pc' = [pc EXCEPT ![w] = "read"]
          /\ UNCHANGED res
       \/ /\ CtxDone(QueryOf[w])
          /\ pc' = [pc EXCEPT ![w] = "free"]
          /\ res' = [res EXCEPT ![w] = "failed"]
          /\ decoding' = decoding - 1
    /\ UNCHANGED <<obj, grp, hook, gateVars, queryVars, slots, outBytes, outCount>>

\* acquireRGDecode: a decoder slot or the end of the context, whichever the
\* select takes.
TakeDecoder(w) ==
    /\ pc[w] = "decode"
    /\ \/ /\ decoding < Decoders
          /\ decoding' = decoding + 1
          /\ pc' = [pc EXCEPT ![w] = "read"]
          /\ UNCHANGED res
       \/ /\ CtxDone(QueryOf[w])
          /\ pc' = [pc EXCEPT ![w] = "free"]
          /\ res' = [res EXCEPT ![w] = "failed"]
          /\ UNCHANGED decoding
    /\ UNCHANGED <<obj, grp, hook, gateVars, queryVars, slots, outBytes, outCount>>

\* The row group is decoded, or the read fails.
Read(w) ==
    /\ pc[w] = "read"
    /\ \/ pc' = [pc EXCEPT ![w] = "filter"] /\ UNCHANGED <<res, decoding>>
       \/ /\ pc' = [pc EXCEPT ![w] = "free"]
          /\ res' = [res EXCEPT ![w] = "failed"]
          /\ decoding' = decoding - 1
    /\ UNCHANGED <<obj, grp, hook, gateVars, queryVars, slots, outBytes, outCount>>

\* preFilter: after a panic, or at the row ceiling, the block is dropped; the
\* ceiling also cancels the scan.
PreFilter(w) ==
    LET q == QueryOf[w] IN
    /\ pc[w] = "filter"
    /\ IF panicked[q] \/ AtCeiling(q)
       THEN /\ stopped' = [stopped EXCEPT ![q] = @ \/ ~panicked[q]]
            /\ pc' = [pc EXCEPT ![w] = "free"]
            /\ decoding' = decoding - 1
       ELSE pc' = [pc EXCEPT ![w] = "count"] /\ UNCHANGED <<stopped, decoding>>
    /\ UNCHANGED <<obj, grp, res, hook, gateVars, todo, ceiling, rows, gaveUp, err,
                   panicked, answer, got, slots, outBytes, outCount>>

\* rowsEmitted.Add, before the mutex of the consumer.
CountRows(w) ==
    /\ pc[w] = "count"
    /\ rows' = [rows EXCEPT ![QueryOf[w]] = @ + 1]
    /\ pc' = [pc EXCEPT ![w] = "write"]
    /\ UNCHANGED <<obj, grp, res, hook, gateVars, todo, ceiling, stopped, gaveUp, err,
                   panicked, answer, got, poolVars>>

\* writeBlock under wbMu: the consumer takes the block or panics, which is
\* recovered; the decoder slot is returned when the function ends.
WriteBlock(w) ==
    LET q == QueryOf[w] IN
    /\ pc[w] = "write"
    /\ \/ /\ got' = [got EXCEPT ![q] = @ \cup {<<obj[w], grp[w]>>}]
          /\ UNCHANGED panicked
       \/ panicked' = [panicked EXCEPT ![q] = TRUE] /\ UNCHANGED got
    /\ pc' = [pc EXCEPT ![w] = "free"]
    /\ decoding' = decoding - 1
    /\ UNCHANGED <<obj, grp, res, hook, gateVars, todo, ceiling, rows, stopped, gaveUp,
                   err, answer, slots, outBytes, outCount>>

-----------------------------------------------------------------------------
(* The end of the query *)

\* Only the errors the workers saw.
MutReadFailure(q) == err[q]
\* readFailure, once every worker has returned.
ReadFailure(q) == err[q] \/ gaveUp[q]
Answer(q) ==
    /\ answer[q] = "none"
    /\ \A w \in Of(q) : pc[w] = "done"
    /\ answer' = [answer EXCEPT ![q] = IF ReadFailure(q) THEN "error" ELSE "ok"]
    /\ UNCHANGED <<workerVars, gateVars, todo, ceiling, rows, stopped, gaveUp, err,
                   panicked, got, poolVars>>

\* The caller goes away or its deadline passes.
GiveUp(q) ==
    /\ answer[q] = "none" /\ ~gaveUp[q]
    /\ gaveUp' = [gaveUp EXCEPT ![q] = TRUE]
    /\ UNCHANGED <<workerVars, gateVars, todo, ceiling, rows, stopped, err, panicked,
                   answer, got, poolVars>>

WorkerStep(w) ==
    \/ NextObject(w) \/ TakeSlot(w) \/ TakeBudget(w) \/ Open(w) \/ NextGroup(w)
    \/ TryReserve(w) \/ Lock(w) \/ Retry(w) \/ Wait(w) \/ Relock(w)
    \/ TakeDecoder(w) \/ Read(w) \/ PreFilter(w) \/ CountRows(w) \/ WriteBlock(w)
    \/ Free(w) \/ Signal(w) \/ Wake(w) \/ Close(w)

Next ==
    \/ \E w \in Workers : WorkerStep(w) \/ ContextWake(w)
    \/ \E q \in Queries : Answer(q) \/ GiveUp(q)

Spec == Init /\ [][Next]_vars

\* Goroutines run, mutexes and semaphores are granted, S3 calls and consumers
\* return.  A caller need not give up, and no query needs the context's wake.
FairSpec ==
    /\ Spec
    /\ \A w \in Workers : WF_vars(WorkerStep(w))
    /\ WF_vars(\E q \in Queries : Answer(q))

-----------------------------------------------------------------------------
Steps ==
    {"next", "slot", "budget", "open", "group", "reserve", "lock", "close", "done"}
        \cup Reserved \cup Queued \cup Signalling

\* The types; no counter of the gate or of the pools goes below zero.
TypeOK ==
    /\ pc \in [Workers -> Steps]
    /\ obj \in [Workers -> Objects \cup {NoObject}]
    /\ grp \in [Workers -> Nat]
    /\ res \in [Workers -> {"none", "failed"}]
    /\ hook \in [Workers -> BOOLEAN]
    /\ todo \in [Queries -> Seq(Objects)]
    /\ live \in [Queries -> Nat]
    /\ waiters \in [Queries -> Nat]
    /\ ceiling \in [Queries -> Nat]
    /\ rows \in [Queries -> Nat]
    /\ stopped \in [Queries -> BOOLEAN]
    /\ gaveUp \in [Queries -> BOOLEAN]
    /\ err \in [Queries -> BOOLEAN]
    /\ panicked \in [Queries -> BOOLEAN]
    /\ answer \in [Queries -> {"none", "ok", "error"}]
    /\ got \in [Queries -> SUBSET (Objects \X Nat)]
    /\ slots \in Nat /\ outBytes \in Nat /\ outCount \in Nat /\ decoding \in Nat

\* The row groups of the objects a query selected.
Selected(q) ==
    UNION {{Tasks[q][k]} \X (1..Len(Groups[Tasks[q][k]])) : k \in 1..Len(Tasks[q])}

\* RunQuery answers without an error only when its consumer took every row
\* group of every object it selected, unless the consumer panicked or the row
\* ceiling was reached: a failed, vanished or interrupted read, a caller that
\* gave up or a wait that was cut short never leaves a silent hole, whatever the
\* order in which the workers notice it (readFailure, fileReadFailure).
Complete ==
    \A q \in Queries :
        answer[q] = "ok" /\ ~panicked[q] /\ ~AtCeiling(q) => got[q] = Selected(q)

\* The row ceiling is overshot by less than one block per decoder: rowsEmitted is
\* read before the block is counted, but a worker emits while it still holds its
\* decoder slot (preFilter, writeBlockWith, acquireRGDecode).
CeilingOvershoot ==
    \A q \in Queries : ceiling[q] > 0 => rows[q] < ceiling[q] + Decoders

\* The workers that hold reserved bytes, one unit for each byte they hold.
Holders(q) == {w \in Of(q) : pc[w] \in Reserved}
Units(q) == UNION {{w} \X (1..Need(w)) : w \in Holders(q)}

\* The bytes a query's workers hold decoded stay within query.max_live_bytes,
\* except for one row group larger than it, which is then held alone; and the
\* gate's counter is what they hold, so a release never leaves it adrift
\* (tryReserve, release).
LiveCeiling ==
    \A q \in Queries :
        /\ live[q] = Cardinality(Units(q))
        /\ live[q] <= MaxLive \/ Cardinality(Holders(q)) = 1

\* A worker that sleeps in the gate could not reserve now, or a worker is on its
\* way to wake it: no release slips between a waiter's failed tryReserve and its
\* cond.Wait (release reads waiters without the mutex, reserve counts itself
\* before it tries).
NoLostWakeup ==
    \A w \in Workers :
        pc[w] = "asleep" /\ Fits(QueryOf[w], Need(w)) =>
            \E v \in Of(QueryOf[w]) : pc[v] \in Signalling

\* Workers past the file budget; those that hold a slot; those that decode; and
\* one unit for each byte of the file budget they hold, admitted or in all.
InPool ==
    {"open", "group", "reserve", "lock", "close"} \cup Reserved \cup Queued \cup Signalling
InSlot == InPool \cup {"budget"}
Decoding == {"read", "filter", "count", "write"}
At(S) == {w \in Workers : pc[w] \in S}
Admitted == UNION {{w} \X (1..FileCharge(obj[w])) : w \in At(InPool)}
FileUnits == UNION {{w} \X (1..Resident(w)) : w \in At(InPool)}

\* What is charged to the process-wide pools is what the workers hold, so a
\* query that ended, failed, panicked or was given up has returned everything
\* (the deferred releases of fileWorkerLoop, queryFile and acquireRGDecode), and
\* the objects admitted at one time fit the limits.
PoolsAccounted ==
    /\ slots = Cardinality(At(InSlot)) /\ slots <= FileSlots
    /\ outCount = Cardinality(At(InPool)) /\ outCount <= MaxFiles
    /\ decoding = Cardinality(At(Decoding)) /\ decoding <= Decoders
    /\ outBytes = Cardinality(FileUnits) /\ Cardinality(Admitted) <= MaxResident

\* Every query is answered: the waits of the scan (slot, budget, gate, decoder)
\* never wait for each other in a circle, of one query or of two, and no waiter
\* is left asleep.
EveryQueryEnds == <>(\A q \in Queries : answer[q] # "none")
=============================================================================
