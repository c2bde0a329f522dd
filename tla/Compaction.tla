----------------------------- MODULE Compaction -----------------------------
(***************************************************************************)
(* One pod's compaction: the planner (one merge per tenant group of a      *)
(* partition), the scan with its failure backoff and per-tenant fair       *)
(* share, the forced recompaction of a partition, the orphan sweep's steal *)
(* of a partition this pod is second in line for, and the drain.  The      *)
(* three run concurrently on one manifest; a merge publishes by            *)
(* ReplaceFiles, which refuses when a source has left the manifest.        *)
(*                                                                         *)
(* Time is kept to what the planner tells apart: a partition is open,      *)
(* closed (old enough for the rollup) or past its tenant's freeze or size  *)
(* limit, and the backoff counts scans.                                    *)
(***************************************************************************)
EXTENDS Integers, Sequences, FiniteSets, FiniteSetsExt, SequencesExt

CONSTANTS
    Partitions,     \* hours, numbered from the oldest
    Groups,         \* tenant groups (prefix and bucket), in the order of their names
    Stored,         \* the files registered at the start
    AgeAtStart,     \* per partition: its age then
    Late,           \* the files flushed later
    MinFilesL0, MinFilesL1,
    Mature,         \* matureBytes, in rows
    CurrentFP,      \* the fingerprint the pod writes
    HasRule,        \* the groups a lifecycle rule moves out of STANDARD
    Unknown,        \* the rows whose object holds a column this version lacks
    Failing,        \* the <<partition, group>> whose merge fails every time
    MaxConcurrent, PerTenant,
    MaxWait,        \* maxPlanBackoff, in scans
    MaxEvents       \* bound on the disturbances: other failed merges, hours and
                    \* objects that age, ring changes, forces, steals, a drain

Mergers == {"scan", "force", "steal"}

\* Keys are unique; for a merge's output it is enough to say who wrote it.
File == [rows : SUBSET Nat, by : Mergers \cup {"flush"}, part : Partitions, grp : Groups, level : Nat, fp : Nat \ {0}]

ASSUME ConstantsAssumption ==
    /\ Partitions \subseteq Nat /\ IsFiniteSet(Partitions)
    /\ Groups \subseteq Nat /\ IsFiniteSet(Groups)
    /\ IsFiniteSet(Stored \cup Late) /\ \A f \in Stored \cup Late : f \in File /\ f.rows # {}
    /\ \A f, g \in Stored \cup Late : f # g => f.rows \cap g.rows = {}
    /\ AgeAtStart \in [Partitions -> 0..2]
    /\ MinFilesL0 \in Nat /\ MinFilesL1 \in Nat /\ Mature \in Nat
    /\ MaxConcurrent \in Nat \ {0} /\ PerTenant \in Nat \ {0} /\ MaxWait \in Nat \ {0}

VARIABLES
    files,      \* the manifest
    age,        \* per partition: 0 open, 1 closed, 2 past the freeze or size limit
    frozen,     \* the files whose recorded class is not rewritable
    fenceLog,   \* the files the forward fence refused
    owned,      \* the partitions this pod is the primary owner of
    stable,     \* the ring is not in its stabilization window
    backoff,    \* per <<partition, group>>: the last wait and the scans left of it
    cursor,     \* FairShareScheduler.cursor
    pc, todo, inputs,   \* per merger: where it is, its plans, the files it merges
    served,     \* the tenants this scan has served
    drain,      \* "no", "waiting" (draining is set), "drained" or "timedOut"
    events      \* how many disturbances there were

manifestVars == <<files, age, frozen, fenceLog>>
ringVars == <<owned, stable>>
shareVars == <<backoff, cursor, served>>
jobVars == <<pc, todo, inputs>>
vars == <<manifestVars, ringVars, shareVars, jobVars, drain, events>>

Keys == Partitions \X Groups
PlanKey(plan) == <<plan.part, plan.grp>>
NoWait == [wait |-> 0, left |-> 0]

Size(f) == Cardinality(f.rows)
Bytes(S) == MapThenSumSet(Size, S)
AtLevel(S, level) == {f \in S : f.level = level}

\* The elements of S in an order: one sequence where the order is total.
SortedSeqs(S, before(_, _)) ==
    {s \in SetToSeqs(S) : \A i, j \in DOMAIN s : i < j => before(s[i], s[j])}
-----------------------------------------------------------------------------
(* The planner. *)

\* The files of the majority fingerprint (majorityFingerprint): ties go to
\* tieFP, then to the smallest.
OfMajority(S, tieFP) ==
    LET Count(fp) == Cardinality({f \in S : f.fp = fp})
        Beats(fp, other) ==
            \/ Count(fp) > Count(other)
            \/ Count(fp) = Count(other) /\ (fp = tieFP \/ (other # tieFP /\ fp <= other))
    IN  {f \in S : \A g \in S : Beats(f.fp, g.fp)}

SelectFiles(S, level) == OfMajority(AtLevel(S, level), 0)

TopLevel(S) == Max({f.level : f \in S} \cup {0})

Stale(S, current) == current # 0 /\ \E f \in S : f.fp # current

RecompactionNeeded(S, current) ==
    \/ Stale(S, current)
    \/ TopLevel(S) >= 2 /\ Cardinality(AtLevel(S, TopLevel(S))) >= 2

Small(S) == {f \in S : Size(f) < Mature}

\* The plans a branch of planGroup offers: a plan has two files or more.
Offer(level, S, reason) ==
    IF Cardinality(S) >= 2 THEN {[level |-> level, files |-> S, reason |-> reason]} ELSE {}

PlanHint(S, current, fragmentOK) ==
    LET sel == SelectFiles(S, TopLevel(S))
    IN  CASE ~RecompactionNeeded(S, current) -> {}
          [] RecompactionNeeded(S, current) /\ Stale(sel, current) -> Offer(TopLevel(S), sel, "stale")
          [] OTHER -> IF fragmentOK THEN Offer(TopLevel(S), Small(sel), "fragmented") ELSE {}

Rollup(S, current) ==
    LET sel == OfMajority(Small(S), current) IN Offer(TopLevel(sel), sel, "rollup")

Threshold(S, level, least, reason) ==
    IF Cardinality(AtLevel(S, level)) >= least THEN Offer(level, SelectFiles(S, level), reason) ELSE {}

\* The offers of the first branch that makes one.
FirstOffers(branches) ==
    UNION {branches[i] : i \in {k \in DOMAIN branches : \A j \in 1..(k - 1) : branches[j] = {}}}

\* The first branch of planGroup that offers a merge; at age 2 the group has
\* no lifecycle rule (Plans) and only the heal is left.
PlanGroup(S, partAge, current) ==
    LET branches == IF partAge = 2
                    THEN <<PlanHint(S, current, FALSE)>>
                    ELSE <<Threshold(S, 0, MinFilesL0, "l0"), Threshold(S, 1, MinFilesL1, "l1"),
                           IF partAge = 1 THEN Rollup(S, current) ELSE {},
                           PlanHint(S, current, TRUE)>>
    IN  IF Cardinality(S) < 2 THEN {} ELSE UNION {FirstOffers(b) : b \in {branches}}

AgeFrozen(p, g) == age[p] = 2 /\ g \in HasRule

Compactable(p, g) ==
    {f \in files : f.part = p /\ f.grp = g /\ f \notin fenceLog \cup frozen /\ ~AgeFrozen(p, g)}

PlansOf(p, g, offers) ==
    {[part |-> p, grp |-> g, level |-> x.level, files |-> x.files, reason |-> x.reason] : x \in offers}

Plans(parts, current) ==
    UNION {UNION {PlansOf(p, g, PlanGroup(S, age[p], current)) : S \in {Compactable(p, g)}} :
           p \in parts, g \in Groups}

\* sortPlans: open hours, then files removed per byte, then the oldest.
Before(a, b) ==
    LET open(x) == x.reason \in {"l0", "l1"}
        gain(x, y) == (Cardinality(x.files) - 1) * Bytes(y.files)
    IN  IF open(a) # open(b) THEN open(a)
        ELSE IF gain(a, b) # gain(b, a) THEN gain(a, b) > gain(b, a)
        ELSE IF a.part # b.part THEN a.part < b.part
        ELSE a.grp < b.grp
-----------------------------------------------------------------------------
(* Backoff and fair share. *)

\* filter, at the start of a scan: an entry whose plan is gone is dropped.
Ticked(plans) ==
    [k \in Keys |-> IF \E x \in plans : PlanKey(x) = k
                    THEN [backoff[k] EXCEPT !.left = IF @ = 0 THEN 0 ELSE @ - 1]
                    ELSE NoWait]

MutFailed(key) == [backoff EXCEPT ![key] = [wait |-> 1, left |-> 1]]
MutFailedUncapped(key) ==
    LET wait == IF backoff[key].wait = 0 THEN 1 ELSE 2 * backoff[key].wait
    IN  [backoff EXCEPT ![key] = [wait |-> wait, left |-> wait]]
Failed(key) ==
    LET wait == IF backoff[key].wait = 0 THEN 1 ELSE Min({2 * backoff[key].wait, MaxWait})
    IN  [backoff EXCEPT ![key] = [wait |-> wait, left |-> wait]]

\* PickCandidates over the sorted plans: rounds of PerTenant plans per tenant,
\* from the tenant at the cursor, at most MaxConcurrent per tenant in all.
PickCandidates(sorted, tenants) ==
    LET turn(g) == CHOOSE i \in DOMAIN tenants : tenants[i] = g
        place(i) == (turn(sorted[i].grp) - 1 + Len(tenants) - (cursor % Len(tenants))) % Len(tenants)
        round(i) == Cardinality({j \in 1..(i - 1) : sorted[j].grp = sorted[i].grp}) \div PerTenant
        earlier(i, j) == IF round(i) # round(j) THEN round(i) < round(j)
                         ELSE IF place(i) # place(j) THEN place(i) < place(j)
                         ELSE i < j
        first(order) == Min({Len(order), MaxConcurrent * Len(tenants)})
    IN  {[i \in 1..first(order) |-> sorted[order[i]]] : order \in SortedSeqs(DOMAIN sorted, earlier)}
-----------------------------------------------------------------------------
Init ==
    /\ files = Stored /\ frozen = {} /\ fenceLog = {}
    /\ age = AgeAtStart
    /\ owned = Partitions /\ stable = TRUE
    /\ backoff = [k \in Keys |-> NoWait] /\ cursor = 0 /\ served = {}
    /\ pc = [m \in Mergers |-> "idle"]
    /\ todo = [m \in Mergers |-> <<>>]
    /\ inputs = [m \in Mergers |-> {}]
    /\ drain = "no"
    /\ events = 0

(* What happens around the pod. *)

Disturbance == events < MaxEvents /\ events' = events + 1

Flush(f) ==
    /\ f \in Late /\ \A g \in files : f.rows \cap g.rows = {}
    /\ files' = files \cup {f}
    /\ UNCHANGED <<age, frozen, fenceLog, ringVars, shareVars, jobVars, drain, events>>

Grow(p) ==
    /\ age[p] < 2 /\ Disturbance
    /\ age' = [age EXCEPT ![p] = @ + 1]
    /\ UNCHANGED <<files, frozen, fenceLog, ringVars, shareVars, jobVars, drain>>

\* A refresh records the archive class S3 lists for an object.
ArchiveSeen(f) ==
    /\ f \in files \ frozen /\ Disturbance
    /\ frozen' = frozen \cup {f}
    /\ UNCHANGED <<files, age, fenceLog, ringVars, shareVars, jobVars, drain>>

RingChange(p) ==
    /\ Disturbance
    /\ owned' = IF p \in owned THEN owned \ {p} ELSE owned \cup {p}
    /\ stable' = FALSE
    /\ UNCHANGED <<manifestVars, shareVars, jobVars, drain>>

Stabilized ==
    /\ ~stable /\ stable' = TRUE
    /\ UNCHANGED <<owned, manifestVars, shareVars, jobVars, drain, events>>
-----------------------------------------------------------------------------
(* The three mergers take up plans. *)

\* No new work once draining is set or while the ring settles.
Accepts(m) == pc[m] = "idle" /\ drain = "no" /\ stable

\* Scan up to its loop, on a tick of Start.
Scan ==
    /\ Accepts("scan")
    /\ \E plans \in {Plans(owned, CurrentFP)} :
       \E ready \in {{x \in plans : backoff[PlanKey(x)].left <= 1}} :
       \E sorted \in SortedSeqs(ready, Before) :
       \E tenants \in SortedSeqs({x.grp : x \in ready}, <) :
       \E picked \in PickCandidates(sorted, tenants) :
          /\ backoff' = Ticked(plans)
          /\ cursor' = IF ready = {} THEN cursor ELSE (cursor + 1) % Len(tenants)
          /\ pc' = [pc EXCEPT !["scan"] = IF ready = {} THEN "idle" ELSE "next"]
          /\ todo' = [todo EXCEPT !["scan"] = picked]
    /\ served' = {}
    /\ UNCHANGED <<inputs, manifestVars, ringVars, drain, events>>

\* ForceCompactPartition: no thresholds, one merge per tenant group; level 0
\* asks for the hinted or the top level, which are the same.
ForceCompactPartition(p, level) ==
    LET plan(g) == LET S == Compactable(p, g)
                       from == IF level = 0 THEN TopLevel(S) ELSE level
                   IN  PlansOf(p, g, Offer(from, SelectFiles(S, from), "force"))
    IN  /\ Accepts("force") /\ p \in owned /\ Disturbance
        /\ pc' = [pc EXCEPT !["force"] = "next"]
        /\ \E order \in SortedSeqs(UNION {plan(g) : g \in Groups}, LAMBDA a, b : a.grp < b.grp) :
              todo' = [todo EXCEPT !["force"] = order]
        /\ UNCHANGED <<inputs, manifestVars, ringVars, shareVars, drain>>

\* RunTierA takes one partition.  The stabilization check is made once per
\* run, so a later partition may be taken while the ring settles; attempts
\* are kept per pod, so this pod's view of the primary's is always stale.
Steal(p) ==
    /\ pc["steal"] = "idle" /\ p \notin owned /\ Plans({p}, 0) # {} /\ Disturbance
    /\ pc' = [pc EXCEPT !["steal"] = "next"]
    /\ \E order \in SetToSeqs(Plans({p}, 0)) : todo' = [todo EXCEPT !["steal"] = order]
    /\ UNCHANGED <<inputs, manifestVars, ringVars, shareVars, drain>>

\* compactableNow: the plan was made from a snapshot.
MutCompactableNow(plan) == plan.files
CompactableNow(plan) == plan.files \cap Compactable(plan.part, plan.grp)

Leave(m) ==
    /\ pc' = [pc EXCEPT ![m] = "idle"]
    /\ todo' = [todo EXCEPT ![m] = <<>>]
    /\ inputs' = [inputs EXCEPT ![m] = {}]

\* Mutant: the cursor stays where the start of the scan left it.
MutStop(m) ==
    /\ pc[m] = "next"
    /\ \/ todo[m] = <<>> \/ (m = "scan" /\ drain # "no")
       \/ m = "scan" /\ todo[m] # <<>> /\ drain = "no" /\ served # {}
    /\ Leave(m)
    /\ UNCHANGED <<shareVars, manifestVars, ringVars, drain, events>>

\* The loop's top: a scan sees the drain, or that its budget is used up.
Stop(m) ==
    /\ pc[m] = "next"
    /\ \/ /\ todo[m] = <<>> \/ (m = "scan" /\ drain # "no")
          /\ UNCHANGED cursor
       \/ /\ m = "scan" /\ todo[m] # <<>> /\ drain = "no" /\ served # {}
          /\ cursor' = cursor + Cardinality(served) - 1
    /\ Leave(m)
    /\ UNCHANGED <<backoff, served, manifestVars, ringVars, drain, events>>

\* The loop's body up to runMerge.
TakePlan(m) ==
    LET plan == Head(todo[m])
        selected == CompactableNow(plan)
    IN  /\ pc[m] = "next" /\ todo[m] # <<>> /\ (m = "scan" => drain = "no")
        /\ served' = IF m = "scan" THEN served \cup {plan.grp} ELSE served
        /\ IF Cardinality(selected) < 2
           THEN /\ todo' = [todo EXCEPT ![m] = Tail(@)]
                /\ UNCHANGED <<pc, inputs>>
           ELSE /\ pc' = [pc EXCEPT ![m] = "start"]
                /\ inputs' = [inputs EXCEPT ![m] = selected]
                /\ UNCHANGED todo
        /\ UNCHANGED <<backoff, cursor, manifestVars, ringVars, drain, events>>

\* inFlight.Add; a steal is not counted.
Begin(m) ==
    /\ pc[m] = "start"
    /\ pc' = [pc EXCEPT ![m] = "merge"]
    /\ UNCHANGED <<todo, inputs, manifestVars, ringVars, shareVars, drain, events>>

Output(m, plan, kept) ==
    [rows |-> UNION {f.rows : f \in kept}, by |-> m, part |-> plan.part, grp |-> plan.grp,
     level |-> plan.level + 1, fp |-> (CHOOSE f \in kept : TRUE).fp]

\* The merge is over: on to the next plan, with the backoff a scan records.
Done(m, next) ==
    /\ pc' = [pc EXCEPT ![m] = "next"]
    /\ todo' = [todo EXCEPT ![m] = Tail(@)]
    /\ inputs' = [inputs EXCEPT ![m] = {}]
    /\ backoff' = IF m = "scan" THEN next ELSE backoff
    /\ UNCHANGED <<cursor, served, age, frozen, ringVars, drain>>

\* A read, the upload or the merge itself fails; what the fence had refused
\* by then stays refused.
MergeFails(m) ==
    LET key == PlanKey(Head(todo[m]))
    IN  /\ pc[m] = "merge"
        /\ IF key \in Failing THEN UNCHANGED events ELSE Disturbance
        /\ \E S \in SUBSET {f \in inputs[m] : f.rows \cap Unknown # {}} : fenceLog' = fenceLog \cup S
        /\ Done(m, Failed(key))
        /\ UNCHANGED files

\* compactGroup: the forward fence, then ReplaceFiles.
MutPublishable(kept) == TRUE
Publishable(kept) == kept \subseteq files

Fenced(m) == {f \in inputs[m] : f.rows \cap Unknown # {} \/ f \in fenceLog}

Merge(m) ==
    LET plan == Head(todo[m])
        kept == inputs[m] \ Fenced(m)
    IN  /\ pc[m] = "merge" /\ PlanKey(plan) \notin Failing
        /\ fenceLog' = fenceLog \cup Fenced(m)
        /\ IF Cardinality(kept) < 2
           THEN UNCHANGED files /\ Done(m, backoff)
           ELSE IF Publishable(kept)
           THEN /\ files' = (files \ kept) \cup {Output(m, plan, kept)}
                /\ Done(m, [backoff EXCEPT ![PlanKey(plan)] = NoWait])
           ELSE UNCHANGED files /\ Done(m, Failed(PlanKey(plan)))
        /\ UNCHANGED events
-----------------------------------------------------------------------------
(* The drain. *)

InFlight == {m \in {"scan", "force"} : pc[m] = "merge"}

Drain ==
    /\ drain = "no" /\ drain' = "waiting" /\ Disturbance
    /\ UNCHANGED <<manifestVars, ringVars, shareVars, jobVars>>

DrainReturns ==
    /\ drain = "waiting"
    /\ drain' \in (IF InFlight = {} THEN {"drained"} ELSE {"timedOut"})
    /\ UNCHANGED <<manifestVars, ringVars, shareVars, jobVars, events>>

Next ==
    \/ \E f \in Late : Flush(f)
    \/ \E p \in Partitions : Grow(p)
    \/ \E f \in files : ArchiveSeen(f)
    \/ \E p \in Partitions : RingChange(p)
    \/ Stabilized
    \/ Scan
    \/ \E p \in Partitions, level \in 0..1 : ForceCompactPartition(p, level)
    \/ \E p \in Partitions : Steal(p)
    \/ \E m \in Mergers : Stop(m)
    \/ \E m \in Mergers : TakePlan(m)
    \/ \E m \in Mergers : Begin(m)
    \/ \E m \in Mergers : MergeFails(m)
    \/ \E m \in Mergers : Merge(m)
    \/ Drain
    \/ DrainReturns

Spec == Init /\ [][Next]_vars

MergerStep(m) == Stop(m) \/ TakePlan(m) \/ Begin(m) \/ MergeFails(m) \/ Merge(m)

\* The ticker fires, goroutines run, S3 calls return, the ring settles.
FairSpec ==
    /\ Spec /\ WF_vars(Scan) /\ WF_vars(Stabilized)
    /\ \A m \in Mergers : WF_vars(MergerStep(m))
-----------------------------------------------------------------------------
Reasons == {"l0", "l1", "rollup", "stale", "fragmented", "force"}
Plan == [part : Partitions, grp : Groups, level : Nat, files : SUBSET File, reason : Reasons]

\* The types.
TypeOK ==
    /\ \A f \in files \cup frozen \cup fenceLog : f \in File
    /\ age \in [Partitions -> 0..2] /\ owned \subseteq Partitions /\ stable \in BOOLEAN
    /\ backoff \in [Keys -> [wait : 0..MaxWait, left : 0..MaxWait]]
    /\ cursor \in Nat /\ served \subseteq Groups
    /\ pc \in [Mergers -> {"idle", "next", "start", "merge"}]
    /\ todo \in [Mergers -> Seq(Plan)] /\ inputs \in [Mergers -> SUBSET File]
    /\ \A m \in Mergers : inputs[m] # {} <=> pc[m] \in {"start", "merge"}
    /\ drain \in {"no", "waiting", "drained", "timedOut"}

RowsIn(S) == UNION {f.rows : f \in S}

RowsApart == \A f, g \in files : f # g => f.rows \cap g.rows = {}

\* Whatever the scan, a forced recompaction and a steal do to the same
\* partition at once, no step leaves a row in two files of the manifest and
\* none takes a row out of it: a merge of a source another merge took is
\* abandoned (compactor.go, ReplaceFiles).
RowsOnce == [][RowsApart' /\ RowsIn(files) \subseteq RowsIn(files')]_vars

\* A merge of S may be begun: two registered files or more, of one tenant group,
\* partition and schema, none archived, past its freeze age or fenced.
Allowed(S) ==
    /\ Cardinality(S) >= 2 /\ S \subseteq files /\ S \cap (frozen \cup fenceLog) = {}
    /\ \A f, g \in S : f.part = g.part /\ f.grp = g.grp /\ f.fp = g.fp
    /\ \A f \in S : ~AgeFrozen(f.part, f.grp)

\* When a merge is chosen, its files may be merged at that moment, although the
\* plan was made earlier (compactableNow).
MergesOnlyCompactable ==
    [][\A m \in Mergers : pc[m] = "next" /\ pc'[m] = "start" => Allowed(inputs'[m])]_vars

\* At most one small file of each schema is left, archived and fenced files apart.
Settled(p, g) ==
    \A f, h \in Small(Compactable(p, g)) :
        f # h => f.fp # h.fp \/ (f.rows \cup h.rows) \cap Unknown # {}

\* A closed hour this pod owns ends with at most one small file per tenant
\* group and schema, although another of the tenant's plans fails on every try
\* and scans are cut short (planBackoff, FairShareScheduler, fenceLog).
Settles ==
    <>[](drain # "no" \/ \A p \in owned, g \in Groups :
            age[p] = 1 /\ <<p, g>> \notin Failing => Settled(p, g))

\* The tenant whose turn it is, of those with work (fair_share.go).
TurnOf(tenants, turn) ==
    CHOOSE g \in tenants : Cardinality({h \in tenants : h < g}) = turn % Cardinality(tenants)

\* "The fair-share cursor moves past the tenants served, so the next scan starts
\* with the ones this scan did not reach" (scheduler.go, Scan): wherever the scan
\* budget stops a scan, the turn goes to a tenant it has not served.
MovesPast ==
    [][LET left == {todo["scan"][i].grp : i \in DOMAIN todo["scan"]}
       IN  pc["scan"] = "next" /\ pc'["scan"] = "idle" /\ drain = "no" /\ ~(left \subseteq served)
               => TurnOf(served \cup left, cursor') \notin served]_vars

\* "After Drain returns, no new partitions will be started" (scheduler.go, Drain):
\* neither the scan nor a forced recompaction begins a merge from then on.
DrainStartsNothing ==
    [][\A m \in {"scan", "force"} :
           pc[m] = "start" /\ pc'[m] = "merge" => drain \in {"no", "waiting"}]_vars
=============================================================================
