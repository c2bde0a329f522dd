-------------------------- MODULE CompactionProofs --------------------------
(***************************************************************************)
(* Proofs about Compaction, for any files, tenants, partitions, thresholds *)
(* and number of disturbances: the types, that no row is ever in two files *)
(* or taken out of all (RowsOnce), and that no merge is begun on files it  *)
(* may not touch (MergesOnlyCompactable).  A leaf is Zenon's unless it     *)
(* names SMT.                                                              *)
(***************************************************************************)
EXTENDS Compaction, TLAPS, FiniteSetTheorems, WellFoundedInduction

USE Zenon

\* A plan's files are of one schema (majorityFingerprint).
OneSchema(plan) == \A f, g \in plan.files : f.fp = g.fp

\* A merger that has chosen its files still has their plan.
PlansInv ==
    /\ \A m \in Mergers : \A i \in 1..Len(todo[m]) : OneSchema(todo[m][i])
    /\ \A m \in Mergers : pc[m] \in {"start", "merge"} => todo[m] # <<>>

IInv == TypeOK /\ IsFiniteSet(files) /\ PlansInv /\ RowsApart
-----------------------------------------------------------------------------
(* Least and greatest elements. *)

\* A set of naturals that has an element has a least one.
LEMMA LeastNat ==
    ASSUME NEW T \in SUBSET Nat, T # {}
    PROVE  \E x \in T : \A y \in T : x <= y
<1> DEFINE R == {e \in Nat \X Nat : e[1] < e[2]}
<1>1. IsWellFoundedOn(R, Nat)
  BY NatLessThanWellFounded DEF OpToRel
<1> HIDE DEF R
<1>2. PICK x \in T : \A y \in T : ~(<<y, x>> \in R)
  BY <1>1, WFMin
<1>3. \A y \in T : ~(y < x)
  BY <1>2 DEF R
<1>4. QED
  BY <1>3, SMT

\* The finite sets of naturals of a size that have no greatest element.
Endless(n) ==
    {T \in SUBSET Nat : /\ IsFiniteSet(T) /\ T # {} /\ Cardinality(T) = n
                        /\ ~\E x \in T : \A y \in T : x >= y}

\* A finite set of naturals that has an element has a greatest one.
LEMMA GreatestNat ==
    ASSUME NEW T \in SUBSET Nat, IsFiniteSet(T), T # {}
    PROVE  \E x \in T : \A y \in T : x >= y
<1> SUFFICES ASSUME ~\E x \in T : \A y \in T : x >= y PROVE FALSE
  OBVIOUS
<1> DEFINE D == {n \in Nat : Endless(n) # {}}
<1>1. Cardinality(T) \in Nat
  BY FS_CardinalityType
<1>2. T \in Endless(Cardinality(T))
  BY DEF Endless
<1>3. Cardinality(T) \in D
  BY <1>1, <1>2
<1>4. PICK n \in D : \A k \in D : n <= k
  BY <1>3, LeastNat
<1>5. PICK U : U \in Endless(n)
  BY <1>4
<1>6. U \subseteq Nat /\ IsFiniteSet(U) /\ Cardinality(U) = n /\ ~\E x \in U : \A y \in U : x >= y
  BY <1>5 DEF Endless
<1>7. PICK x \in U : TRUE
  BY <1>5 DEF Endless
<1>8. IsFiniteSet(U \ {x}) /\ Cardinality(U \ {x}) = n - 1 /\ n \in Nat
  BY <1>4, <1>6, <1>7, FS_RemoveElement
<1>9. CASE U \ {x} = {}
  BY <1>6, <1>7, <1>9, SMT
<1>10. CASE U \ {x} # {}
  <2>1. n - 1 \in Nat
    BY <1>8, FS_CardinalityType
  <2>2. n - 1 \notin D
    BY <1>4, <1>8, SMT
  <2>3. U \ {x} \notin Endless(n - 1)
    BY <2>1, <2>2
  <2>4. PICK z \in U \ {x} : \A y \in U \ {x} : z >= y
    BY <1>6, <1>8, <1>10, <2>3 DEF Endless
  <2>5. CASE x >= z
    BY <1>6, <1>7, <2>4, <2>5, SMT
  <2>6. CASE ~(x >= z)
    BY <1>6, <1>7, <2>4, <2>6, SMT
  <2>7. QED
    BY <2>5, <2>6
<1>11. QED
  BY <1>9, <1>10

\* The levels of a group's files have a greatest one (recompactionLevel).
LEMMA TopLevelNat ==
    ASSUME NEW S \in SUBSET File, IsFiniteSet(S)
    PROVE  TopLevel(S) \in Nat
<1> DEFINE L == {f.level : f \in S}
           lv == [f \in S |-> f.level]
<1>1. lv \in Surjection(S, L)
  BY DEF Surjection
<1>2. IsFiniteSet(L)
  BY <1>1, FS_Surjection
<1>3. IsFiniteSet(L \cup {0})
  BY <1>2, FS_AddElement
<1>4. L \cup {0} \in SUBSET Nat
  BY SMT DEF File
<1>5. \E x \in L \cup {0} : \A y \in L \cup {0} : x >= y
  BY <1>3, <1>4, GreatestNat
<1>6. Max(L \cup {0}) \in L \cup {0}
  BY <1>5 DEF Max
<1>7. QED
  BY <1>4, <1>6 DEF TopLevel

\* The files of the majority fingerprint are of one schema, whatever the tie
\* break (majorityFingerprint).
LEMMA MajorityIsOne ==
    ASSUME NEW S \in SUBSET File, IsFiniteSet(S), NEW tie,
           NEW f \in OfMajority(S, tie), NEW g \in OfMajority(S, tie)
    PROVE  f.fp = g.fp
<1> DEFINE Count(fp) == Cardinality({h \in S : h.fp = fp})
           a == f.fp
           b == g.fp
<1>1. Count(a) \in Nat /\ Count(b) \in Nat
  BY FS_Subset, FS_CardinalityType
<1>2. a \in Nat /\ b \in Nat
  BY DEF File, OfMajority
<1>3. /\ Count(a) > Count(b) \/ (Count(a) = Count(b) /\ (a = tie \/ (b # tie /\ a <= b)))
      /\ Count(b) > Count(a) \/ (Count(b) = Count(a) /\ (b = tie \/ (a # tie /\ b <= a)))
  BY DEF OfMajority
<1> HIDE DEF Count, a, b
<1>4. a = b
  BY <1>1, <1>2, <1>3, SMT
<1>5. QED
  BY <1>4 DEF a, b
-----------------------------------------------------------------------------
(* The planner offers merges of files of one schema. *)

GoodOffers(offers, S) ==
    /\ IsFiniteSet(offers)
    /\ \A x \in offers : x.level \in Nat /\ x.files \subseteq S /\ x.reason \in Reasons /\ OneSchema(x)

\* A branch that offers files of one schema.
LEMMA OfferIsGood ==
    ASSUME NEW S, NEW T \in SUBSET S, \A f, g \in T : f.fp = g.fp,
           NEW level \in Nat, NEW reason \in Reasons
    PROVE  GoodOffers(Offer(level, T, reason), S)
<1>1. IsFiniteSet({[level |-> level, files |-> T, reason |-> reason]})
  BY FS_Singleton
<1>2. IsFiniteSet({})
  BY FS_EmptySet
<1>3. QED
  BY <1>1, <1>2, SMT DEF GoodOffers, Offer, OneSchema

\* No offer at all.
LEMMA NoOfferIsGood == \A S : GoodOffers({}, S)
  BY FS_EmptySet DEF GoodOffers

\* The files of one level, of the majority's schema.
LEMMA SelectIsOne ==
    ASSUME NEW S \in SUBSET File, IsFiniteSet(S), NEW level
    PROVE  /\ SelectFiles(S, level) \subseteq S
           /\ \A f, g \in SelectFiles(S, level) : f.fp = g.fp
<1>1. AtLevel(S, level) \in SUBSET File /\ IsFiniteSet(AtLevel(S, level)) /\ AtLevel(S, level) \subseteq S
  BY FS_Subset DEF AtLevel
<1>2. SelectFiles(S, level) \subseteq AtLevel(S, level)
  BY DEF SelectFiles, OfMajority
<1>3. QED
  BY <1>1, <1>2, MajorityIsOne DEF SelectFiles

\* planHint's offer.
LEMMA HintIsGood ==
    ASSUME NEW S \in SUBSET File, IsFiniteSet(S), NEW current, NEW ok \in BOOLEAN
    PROVE  GoodOffers(PlanHint(S, current, ok), S)
<1> DEFINE sel == SelectFiles(S, TopLevel(S))
<1>1. TopLevel(S) \in Nat
  BY TopLevelNat
<1>2. sel \subseteq S /\ \A f, g \in sel : f.fp = g.fp
  BY SelectIsOne
<1>3. Small(sel) \subseteq S /\ \A f, g \in Small(sel) : f.fp = g.fp
  BY <1>2 DEF Small
<1> HIDE DEF sel
<1>4. GoodOffers(Offer(TopLevel(S), sel, "stale"), S)
  BY <1>1, <1>2, OfferIsGood DEF Reasons
<1>5. GoodOffers(Offer(TopLevel(S), Small(sel), "fragmented"), S)
  BY <1>1, <1>3, OfferIsGood DEF Reasons
<1>6. PlanHint(S, current, ok) \in {{}, Offer(TopLevel(S), sel, "stale"), Offer(TopLevel(S), Small(sel), "fragmented")}
  BY DEF PlanHint, sel
<1>7. QED
  BY <1>4, <1>5, <1>6, NoOfferIsGood

\* A rollup's offer.
LEMMA RollupIsGood ==
    ASSUME NEW S \in SUBSET File, IsFiniteSet(S), NEW current
    PROVE  GoodOffers(Rollup(S, current), S)
<1> DEFINE sel == OfMajority(Small(S), current)
<1>1. Small(S) \in SUBSET File /\ IsFiniteSet(Small(S)) /\ Small(S) \subseteq S
  BY FS_Subset DEF Small
<1>2. sel \subseteq Small(S)
  BY DEF OfMajority
<1>3. \A f, g \in sel : f.fp = g.fp
  BY <1>1, MajorityIsOne
<1> HIDE DEF sel
<1>4. sel \in SUBSET S /\ sel \in SUBSET File /\ IsFiniteSet(sel)
  BY <1>1, <1>2, FS_Subset
<1>5. TopLevel(sel) \in Nat
  BY <1>4, TopLevelNat
<1>6. GoodOffers(Offer(TopLevel(sel), sel, "rollup"), S)
  BY <1>3, <1>4, <1>5, OfferIsGood DEF Reasons
<1>7. QED
  BY <1>6 DEF Rollup, sel

\* The offer of a branch with a threshold.
LEMMA ThresholdIsGood ==
    ASSUME NEW S \in SUBSET File, IsFiniteSet(S), NEW level \in Nat, NEW least, NEW reason \in {"l0", "l1"}
    PROVE  GoodOffers(Threshold(S, level, least, reason), S)
<1>1. GoodOffers(Offer(level, SelectFiles(S, level), reason), S)
  BY SelectIsOne, OfferIsGood DEF Reasons
<1>2. Threshold(S, level, least, reason) \in {{}, Offer(level, SelectFiles(S, level), reason)}
  BY DEF Threshold
<1>3. QED
  BY <1>1, <1>2, NoOfferIsGood

\* The offers of the first branch that makes one are those of a branch.
LEMMA FirstIsGood ==
    ASSUME NEW S, NEW n \in Nat, NEW b, DOMAIN b = 1..n, \A i \in 1..n : GoodOffers(b[i], S)
    PROVE  GoodOffers(FirstOffers(b), S)
<1> DEFINE I == {k \in DOMAIN b : \A j \in 1..(k - 1) : b[j] = {}}
           B == {b[i] : i \in I}
           br == [i \in I |-> b[i]]
<1>1. I \in SUBSET (1..n) /\ IsFiniteSet(1..n)
  BY FS_Interval, SMT
<1>2. IsFiniteSet(I)
  BY <1>1, FS_Subset
<1>3. br \in Surjection(I, B)
  BY DEF Surjection
<1>4. IsFiniteSet(B)
  BY <1>2, <1>3, FS_Surjection
<1>5. IsFiniteSet(UNION B)
  BY <1>1, <1>4, FS_UNION DEF GoodOffers
<1>6. FirstOffers(b) = UNION B
  BY DEF FirstOffers
<1>7. \A x \in UNION B : \E i \in 1..n : x \in b[i]
  BY <1>1
<1>8. QED
  BY <1>5, <1>6, <1>7 DEF GoodOffers

\* planGroup's offers.
LEMMA GroupIsGood ==
    ASSUME NEW S \in SUBSET File, IsFiniteSet(S), NEW partAge, NEW current
    PROVE  GoodOffers(PlanGroup(S, partAge, current), S)
<1> DEFINE heal == PlanHint(S, current, FALSE)
           hint == PlanHint(S, current, TRUE)
           l0 == Threshold(S, 0, MinFilesL0, "l0")
           l1 == Threshold(S, 1, MinFilesL1, "l1")
           roll == IF partAge = 1 THEN Rollup(S, current) ELSE {}
           one == <<heal>>
           all == <<l0, l1, roll, hint>>
<1>1. GoodOffers(heal, S) /\ GoodOffers(hint, S)
  BY HintIsGood
<1>2. GoodOffers(l0, S) /\ GoodOffers(l1, S)
  BY ThresholdIsGood
<1>3. GoodOffers(roll, S)
  BY RollupIsGood, NoOfferIsGood
<1> HIDE DEF heal, hint, l0, l1, roll
<1>4. GoodOffers(FirstOffers(one), S)
  <2>1. DOMAIN one = 1..1 /\ \A i \in 1..1 : GoodOffers(one[i], S)
    BY <1>1, SMT
  <2> HIDE DEF one
  <2>2. QED
    BY <2>1, FirstIsGood
<1>5. GoodOffers(FirstOffers(all), S)
  <2>1. DOMAIN all = 1..4 /\ \A i \in 1..4 : GoodOffers(all[i], S)
    BY <1>1, <1>2, <1>3, SMT
  <2> HIDE DEF all
  <2>2. QED
    BY <2>1, FirstIsGood
<1> HIDE DEF one, all
<1>6. PlanGroup(S, partAge, current) \in {{}, FirstOffers(one), FirstOffers(all)}
  <2>1. UNION {FirstOffers(b) : b \in {one}} = FirstOffers(one)
    OBVIOUS
  <2>2. UNION {FirstOffers(b) : b \in {all}} = FirstOffers(all)
    OBVIOUS
  <2>3. CASE partAge = 2
    BY <2>1, <2>3 DEF PlanGroup, one, heal
  <2>4. CASE partAge # 2
    BY <2>2, <2>4 DEF PlanGroup, all, roll, l0, l1, hint
  <2>5. QED
    BY <2>3, <2>4
<1>7. QED
  BY <1>4, <1>5, <1>6, NoOfferIsGood

\* The plans of a group's offers.
LEMMA PlansOfGood ==
    ASSUME NEW p \in Partitions, NEW g \in Groups, NEW S \in SUBSET File, NEW offers, GoodOffers(offers, S)
    PROVE  /\ IsFiniteSet(PlansOf(p, g, offers))
           /\ \A x \in PlansOf(p, g, offers) : x \in Plan /\ OneSchema(x) /\ x.part = p /\ x.grp = g
<1> DEFINE mk == [x \in offers |-> [part |-> p, grp |-> g, level |-> x.level, files |-> x.files, reason |-> x.reason]]
<1>1. mk \in Surjection(offers, PlansOf(p, g, offers))
  BY DEF Surjection, PlansOf
<1>2. QED
  BY <1>1, FS_Surjection, SMT DEF GoodOffers, PlansOf, Plan, OneSchema

\* The files a group may merge are files of the manifest.
LEMMA CompactableFiles ==
    ASSUME TypeOK, IsFiniteSet(files), NEW p, NEW g
    PROVE  Compactable(p, g) \in SUBSET File /\ IsFiniteSet(Compactable(p, g))
<1>1. Compactable(p, g) \in SUBSET files
  BY DEF Compactable
<1>2. IsFiniteSet(Compactable(p, g))
  BY <1>1, FS_Subset
<1>3. QED
  BY <1>1, <1>2 DEF TypeOK

\* A set of sets of plans, one for each pair, that is finite.
GoodPlans(S) == IsFiniteSet(S) /\ \A x \in S : x \in Plan /\ OneSchema(x)

\* The planner's plans: finitely many, each of files of one schema.
LEMMA PlansGood ==
    ASSUME TypeOK, IsFiniteSet(files), NEW parts \in SUBSET Partitions, NEW current
    PROVE  GoodPlans(Plans(parts, current))
<1> DEFINE of(e) == PlansOf(e[1], e[2], PlanGroup(Compactable(e[1], e[2]), age[e[1]], current))
           E == parts \X Groups
           U == {of(e) : e \in E}
           fn == [e \in E |-> of(e)]
<1>1. IsFiniteSet(E)
  BY ConstantsAssumption, FS_Subset, FS_Product
<1>2. ASSUME NEW e \in E PROVE GoodPlans(of(e))
  <2>1. e[1] \in Partitions /\ e[2] \in Groups
    OBVIOUS
  <2>2. GoodOffers(PlanGroup(Compactable(e[1], e[2]), age[e[1]], current), Compactable(e[1], e[2]))
    BY CompactableFiles, GroupIsGood
  <2>3. QED
    BY <2>1, <2>2, CompactableFiles, PlansOfGood, SMT DEF GoodPlans
<1> HIDE DEF of
<1>3. fn \in Surjection(E, U)
  BY DEF Surjection
<1>4. IsFiniteSet(U)
  BY <1>1, <1>3, FS_Surjection
<1>5. IsFiniteSet(UNION U)
  BY <1>2, <1>4, FS_UNION DEF GoodPlans
<1>6. Plans(parts, current) \subseteq UNION U
  <2> SUFFICES ASSUME NEW x \in Plans(parts, current) PROVE x \in UNION U
    OBVIOUS
  <2>1. \E p \in parts, g \in Groups :
           x \in UNION {PlansOf(p, g, PlanGroup(S, age[p], current)) : S \in {Compactable(p, g)}}
    BY SMT DEF Plans
  <2>2. PICK p \in parts, g \in Groups :
           x \in UNION {PlansOf(p, g, PlanGroup(S, age[p], current)) : S \in {Compactable(p, g)}}
    BY <2>1
  <2>3. x \in of(<<p, g>>)
    BY <2>2 DEF of
  <2>4. <<p, g>> \in E
    OBVIOUS
  <2>5. QED
    BY <2>3, <2>4
<1>7. IsFiniteSet(Plans(parts, current))
  BY <1>5, <1>6, FS_Subset
<1>8. QED
  BY <1>2, <1>6, <1>7 DEF GoodPlans

\* A sequence of a finite set's elements.
LEMMA SeqOfSet ==
    ASSUME NEW S, IsFiniteSet(S), NEW s \in SetToSeqs(S)
    PROVE  s \in Seq(S) /\ Len(s) = Cardinality(S) /\ DOMAIN s = 1..Cardinality(S) /\ Cardinality(S) \in Nat
<1>1. Cardinality(S) \in Nat
  BY FS_CardinalityType
<1>2. s \in [1..Cardinality(S) -> S]
  BY DEF SetToSeqs
<1>3. QED
  BY <1>1, <1>2, SMT

\* A remainder is a natural.
LEMMA ModNat ==
    ASSUME NEW a \in Nat, NEW n \in Nat \ {0}
    PROVE  (a + 1) % n \in Nat
  BY SMT

\* A plan waits for a number of scans up to the limit (maxPlanBackoff).
LEMMA NoWaitType == NoWait \in [wait : 0..MaxWait, left : 0..MaxWait]
<1>1. 0 \in 0..MaxWait
  BY ConstantsAssumption, SMT
<1>2. QED
  BY <1>1 DEF NoWait

\* A scan ends one scan of the wait (filter).
LEMMA WaitLess ==
    ASSUME NEW b \in [wait : 0..MaxWait, left : 0..MaxWait]
    PROVE  [b EXCEPT !.left = IF @ = 0 THEN 0 ELSE @ - 1] \in [wait : 0..MaxWait, left : 0..MaxWait]
<1>1. b.wait \in 0..MaxWait /\ b.left \in 0..MaxWait
  OBVIOUS
<1>2. (IF b.left = 0 THEN 0 ELSE b.left - 1) \in 0..MaxWait
  BY <1>1, ConstantsAssumption, SMT
<1>3. QED
  BY <1>1, <1>2

\* The smaller of two naturals.
LEMMA MinPair ==
    ASSUME NEW a \in Nat, NEW b \in Nat
    PROVE  Min({a, b}) \in {a, b} /\ Min({a, b}) <= a /\ Min({a, b}) <= b
<1>1. \E x \in {a, b} : \A y \in {a, b} : x <= y
  BY SMT
<1>2. Min({a, b}) \in {a, b} /\ \A y \in {a, b} : Min({a, b}) <= y
  BY <1>1 DEF Min
<1>3. QED
  BY <1>2

\* PickCandidates picks plans that are ready.
LEMMA PickedReady ==
    ASSUME NEW ready, IsFiniteSet(ready), NEW sorted \in SetToSeqs(ready),
           NEW tenants, Len(tenants) \in Nat, NEW picked \in PickCandidates(sorted, tenants)
    PROVE  picked \in Seq(ready)
<1>1. /\ sorted \in [1..Cardinality(ready) -> ready] /\ DOMAIN sorted = 1..Cardinality(ready)
      /\ Cardinality(ready) \in Nat
  BY SeqOfSet, FS_CardinalityType DEF SetToSeqs
<1>2. IsFiniteSet(DOMAIN sorted) /\ Cardinality(DOMAIN sorted) = Cardinality(ready)
  BY <1>1, FS_Interval, SMT
<1>3. PICK order \in SetToSeqs(DOMAIN sorted) :
         picked = [i \in 1..Min({Len(order), MaxConcurrent * Len(tenants)}) |-> sorted[order[i]]]
  BY DEF PickCandidates, SortedSeqs
<1>4. Len(order) = Cardinality(ready) /\ order \in [1..Cardinality(ready) -> DOMAIN sorted]
  BY <1>2, <1>3, SeqOfSet DEF SetToSeqs
<1>5. PICK n : n = Min({Len(order), MaxConcurrent * Len(tenants)})
  OBVIOUS
<1>6. MaxConcurrent * Len(tenants) \in Nat
  BY ConstantsAssumption, SMT
<1>7. n \in Nat /\ n <= Cardinality(ready)
  BY <1>1, <1>4, <1>5, <1>6, MinPair
<1>8. \A i \in 1..n : sorted[order[i]] \in ready
  BY <1>1, <1>4, <1>7, SMT
<1>9. picked = [i \in 1..n |-> sorted[order[i]]]
  BY <1>3, <1>5
<1>10. QED
  BY <1>7, <1>8, <1>9, SMT

\* What TypeOK and PlansInv say of the manifest, of the ring and the fair
\* share, and of the mergers.
ManifestOK == (\A f \in files \cup frozen \cup fenceLog : f \in File) /\ age \in [Partitions -> 0..2]
ShareOK ==
    /\ owned \subseteq Partitions /\ stable \in BOOLEAN
    /\ backoff \in [Keys -> [wait : 0..MaxWait, left : 0..MaxWait]]
    /\ cursor \in Nat /\ served \subseteq Groups
    /\ drain \in {"no", "waiting", "drained", "timedOut"}
JobsOK ==
    /\ pc \in [Mergers -> {"idle", "next", "start", "merge"}]
    /\ todo \in [Mergers -> Seq(Plan)] /\ inputs \in [Mergers -> SUBSET File]
    /\ \A m \in Mergers : inputs[m] # {} <=> pc[m] \in {"start", "merge"}

\* The types are these three.
LEMMA TypeParts == TypeOK <=> ManifestOK /\ ShareOK /\ JobsOK
  BY DEF TypeOK, ManifestOK, ShareOK, JobsOK

\* A merger takes up plans of one schema each.
LEMMA TakeUp ==
    ASSUME JobsOK, PlansInv, NEW m \in Mergers, pc[m] = "idle", NEW order \in Seq(Plan),
           \A i \in 1..Len(order) : OneSchema(order[i]), NEW to \in {"idle", "next"},
           pc' = [pc EXCEPT ![m] = to], todo' = [todo EXCEPT ![m] = order], inputs' = inputs
    PROVE  JobsOK' /\ PlansInv'
<1>1. pc' \in [Mergers -> {"idle", "next", "start", "merge"}] /\ todo' \in [Mergers -> Seq(Plan)]
  BY DEF JobsOK
<1>2. \A k \in Mergers : pc'[k] = (IF k = m THEN to ELSE pc[k]) /\ todo'[k] = (IF k = m THEN order ELSE todo[k])
  BY DEF JobsOK
<1>3. \A k \in Mergers : inputs'[k] # {} <=> pc'[k] \in {"start", "merge"}
  BY <1>2 DEF JobsOK
<1>4. PlansInv'
  BY <1>2, SMT DEF PlansInv
<1>5. QED
  BY <1>1, <1>3, <1>4 DEF JobsOK

\* The plans of a set, in an order.
LEMMA SeqOfPlans ==
    ASSUME NEW S, GoodPlans(S), NEW s \in Seq(S)
    PROVE  s \in Seq(Plan) /\ \A i \in 1..Len(s) : OneSchema(s[i])
<1>1. S \subseteq Plan
  BY DEF GoodPlans
<1>2. \A i \in 1..Len(s) : s[i] \in S
  BY SMT
<1>3. s \in Seq(Plan)
  BY <1>1, SMT
<1>4. QED
  BY <1>2, <1>3 DEF GoodPlans

\* A scan's plans are good, and its cursor stays a number.
LEMMA ScanStep ==
    ASSUME TypeOK, IsFiniteSet(files), PlansInv, Scan
    PROVE  TypeOK' /\ PlansInv'
<1>0. ManifestOK /\ ShareOK /\ JobsOK
  BY TypeParts
<1>1. PICK plans \in {Plans(owned, CurrentFP)} :
         \E ready \in {{x \in plans : backoff[PlanKey(x)].left <= 1}} :
         \E sorted \in SortedSeqs(ready, Before) :
         \E tenants \in SortedSeqs({x.grp : x \in ready}, <) :
         \E picked \in PickCandidates(sorted, tenants) :
          /\ backoff' = Ticked(plans)
          /\ cursor' = IF ready = {} THEN cursor ELSE (cursor + 1) % Len(tenants)
          /\ pc' = [pc EXCEPT !["scan"] = IF ready = {} THEN "idle" ELSE "next"]
          /\ todo' = [todo EXCEPT !["scan"] = picked]
  BY DEF Scan
<1>2. PICK ready : /\ ready = {x \in plans : backoff[PlanKey(x)].left <= 1}
                   /\ \E sorted \in SortedSeqs(ready, Before) :
                      \E tenants \in SortedSeqs({x.grp : x \in ready}, <) :
                      \E picked \in PickCandidates(sorted, tenants) :
                        /\ backoff' = Ticked(plans)
                        /\ cursor' = IF ready = {} THEN cursor ELSE (cursor + 1) % Len(tenants)
                        /\ pc' = [pc EXCEPT !["scan"] = IF ready = {} THEN "idle" ELSE "next"]
                        /\ todo' = [todo EXCEPT !["scan"] = picked]
  BY <1>1
<1>3. PICK sorted \in SortedSeqs(ready, Before) :
         \E tenants \in SortedSeqs({x.grp : x \in ready}, <) :
         \E picked \in PickCandidates(sorted, tenants) :
           /\ backoff' = Ticked(plans)
           /\ cursor' = IF ready = {} THEN cursor ELSE (cursor + 1) % Len(tenants)
           /\ pc' = [pc EXCEPT !["scan"] = IF ready = {} THEN "idle" ELSE "next"]
           /\ todo' = [todo EXCEPT !["scan"] = picked]
  BY <1>2
<1>4. PICK tenants \in SortedSeqs({x.grp : x \in ready}, <) :
         \E picked \in PickCandidates(sorted, tenants) :
           /\ backoff' = Ticked(plans)
           /\ cursor' = IF ready = {} THEN cursor ELSE (cursor + 1) % Len(tenants)
           /\ pc' = [pc EXCEPT !["scan"] = IF ready = {} THEN "idle" ELSE "next"]
           /\ todo' = [todo EXCEPT !["scan"] = picked]
  BY <1>3
<1>5. PICK picked \in PickCandidates(sorted, tenants) :
           /\ backoff' = Ticked(plans)
           /\ cursor' = IF ready = {} THEN cursor ELSE (cursor + 1) % Len(tenants)
           /\ pc' = [pc EXCEPT !["scan"] = IF ready = {} THEN "idle" ELSE "next"]
           /\ todo' = [todo EXCEPT !["scan"] = picked]
  BY <1>4
<1>6. GoodPlans(plans)
  <2>1. owned \in SUBSET Partitions
    BY <1>0 DEF ShareOK
  <2>2. GoodPlans(Plans(owned, CurrentFP))
    BY <2>1, PlansGood
  <2>3. QED
    BY <1>1, <2>2
<1>7. GoodPlans(ready)
  BY <1>2, <1>6, FS_Subset DEF GoodPlans
<1> DEFINE T == {x.grp : x \in ready}
<1>8. T \in SUBSET Groups
  BY <1>7 DEF GoodPlans, Plan
<1>9. IsFiniteSet(T)
  BY <1>8, ConstantsAssumption, FS_Subset
<1>10. tenants \in SetToSeqs(T) /\ sorted \in SetToSeqs(ready)
  BY <1>3, <1>4 DEF SortedSeqs
<1>11. Len(tenants) = Cardinality(T) /\ Cardinality(T) \in Nat
  BY <1>9, <1>10, SeqOfSet
<1>12. ready # {} => Cardinality(T) # 0
  <2>1. ready # {} => T # {}
    OBVIOUS
  <2> HIDE DEF T
  <2>2. QED
    BY <1>9, <2>1, FS_EmptySet
<1> HIDE DEF T
<1>13. picked \in Seq(ready)
  BY <1>5, <1>7, <1>10, <1>11, PickedReady DEF GoodPlans
<1>14. picked \in Seq(Plan) /\ \A i \in 1..Len(picked) : OneSchema(picked[i])
  BY <1>7, <1>13, SeqOfPlans
<1>15. cursor' \in Nat
  <2>1. cursor \in Nat
    BY <1>0 DEF ShareOK
  <2>2. Len(tenants) \in Nat \ {0} => (cursor + 1) % Len(tenants) \in Nat
    BY <2>1, ModNat
  <2>3. QED
    BY <1>5, <1>11, <1>12, <2>1, <2>2
<1>16. backoff' \in [Keys -> [wait : 0..MaxWait, left : 0..MaxWait]]
  <2>1. backoff \in [Keys -> [wait : 0..MaxWait, left : 0..MaxWait]]
    BY <1>0 DEF ShareOK
  <2>2. ASSUME NEW k \in Keys
        PROVE  [backoff[k] EXCEPT !.left = IF @ = 0 THEN 0 ELSE @ - 1] \in [wait : 0..MaxWait, left : 0..MaxWait]
    BY <2>1, WaitLess
  <2>3. NoWait \in [wait : 0..MaxWait, left : 0..MaxWait]
    BY NoWaitType
  <2>4. QED
    BY <1>5, <2>2, <2>3 DEF Ticked
<1>17. /\ "scan" \in Mergers /\ pc["scan"] = "idle" /\ inputs' = inputs
       /\ served' = {} /\ UNCHANGED <<files, age, frozen, fenceLog, owned, stable, drain>>
  BY DEF Scan, Accepts, Mergers, manifestVars, ringVars
<1>18. JobsOK' /\ PlansInv'
  <2>1. PICK to : to = IF ready = {} THEN "idle" ELSE "next"
    OBVIOUS
  <2>2. to \in {"idle", "next"} /\ pc' = [pc EXCEPT !["scan"] = to]
    BY <1>5, <2>1
  <2>3. QED
    BY <1>0, <1>5, <1>14, <1>17, <2>2, TakeUp
<1>19. ManifestOK'
  BY <1>0, <1>17 DEF ManifestOK
<1>20. ShareOK'
  BY <1>0, <1>15, <1>16, <1>17 DEF ShareOK
<1>21. QED
  BY <1>18, <1>19, <1>20 DEF TypeOK, ManifestOK, ShareOK, JobsOK

\* A forced recompaction's plans are good.
LEMMA ForceStep ==
    ASSUME TypeOK, IsFiniteSet(files), PlansInv, NEW p \in Partitions, NEW level \in 0..1, ForceCompactPartition(p, level)
    PROVE  TypeOK' /\ PlansInv'
<1>0. ManifestOK /\ ShareOK /\ JobsOK
  BY TypeParts
<1> DEFINE from(g) == IF level = 0 THEN TopLevel(Compactable(p, g)) ELSE level
           plan(g) == PlansOf(p, g, Offer(from(g), SelectFiles(Compactable(p, g), from(g)), "force"))
           U == {plan(g) : g \in Groups}
           fn == [g \in Groups |-> plan(g)]
<1>1. ASSUME NEW g \in Groups PROVE GoodPlans(plan(g))
  <2>1. Compactable(p, g) \in SUBSET File /\ IsFiniteSet(Compactable(p, g))
    BY CompactableFiles
  <2>2. from(g) \in Nat
    BY <2>1, TopLevelNat, SMT
  <2> HIDE DEF from
  <2>3. GoodOffers(Offer(from(g), SelectFiles(Compactable(p, g), from(g)), "force"), Compactable(p, g))
    BY <2>1, <2>2, SelectIsOne, OfferIsGood DEF Reasons
  <2>4. QED
    BY <2>1, <2>3, PlansOfGood, SMT DEF GoodPlans
<1>2. \E order \in SortedSeqs(UNION U, LAMBDA a, b : a.grp < b.grp) : todo' = [todo EXCEPT !["force"] = order]
  BY DEF ForceCompactPartition
<1> HIDE DEF plan, from
<1>3. fn \in Surjection(Groups, U)
  BY DEF Surjection
<1>4. IsFiniteSet(U)
  BY <1>3, ConstantsAssumption, FS_Surjection
<1>5. GoodPlans(UNION U)
  BY <1>1, <1>4, FS_UNION DEF GoodPlans
<1> HIDE DEF U
<1>6. PICK order \in SetToSeqs(UNION U) : todo' = [todo EXCEPT !["force"] = order]
  BY <1>2 DEF SortedSeqs
<1>7. order \in Seq(UNION U)
  BY <1>5, <1>6, SeqOfSet DEF GoodPlans
<1>8. order \in Seq(Plan) /\ \A i \in 1..Len(order) : OneSchema(order[i])
  BY <1>5, <1>7, SeqOfPlans
<1>9. /\ "force" \in Mergers /\ pc["force"] = "idle" /\ inputs' = inputs /\ pc' = [pc EXCEPT !["force"] = "next"]
      /\ UNCHANGED <<files, age, frozen, fenceLog, owned, stable, backoff, cursor, served, drain>>
  BY DEF ForceCompactPartition, Accepts, Mergers, manifestVars, ringVars, shareVars
<1>10. JobsOK' /\ PlansInv'
  BY <1>0, <1>6, <1>8, <1>9, TakeUp
<1>11. ManifestOK' /\ ShareOK'
  BY <1>0, <1>9 DEF ManifestOK, ShareOK
<1>12. QED
  BY <1>10, <1>11 DEF TypeOK, ManifestOK, ShareOK, JobsOK

\* A steal's plans are good.
LEMMA StealStep ==
    ASSUME TypeOK, IsFiniteSet(files), PlansInv, NEW p \in Partitions, Steal(p)
    PROVE  TypeOK' /\ PlansInv'
<1>0. ManifestOK /\ ShareOK /\ JobsOK
  BY TypeParts
<1>1. GoodPlans(Plans({p}, 0))
  BY PlansGood
<1>2. PICK order \in SetToSeqs(Plans({p}, 0)) : todo' = [todo EXCEPT !["steal"] = order]
  BY DEF Steal
<1>3. order \in Seq(Plans({p}, 0))
  BY <1>1, <1>2, SeqOfSet DEF GoodPlans
<1>4. order \in Seq(Plan) /\ \A i \in 1..Len(order) : OneSchema(order[i])
  BY <1>1, <1>3, SeqOfPlans
<1>5. /\ "steal" \in Mergers /\ pc["steal"] = "idle" /\ inputs' = inputs /\ pc' = [pc EXCEPT !["steal"] = "next"]
      /\ UNCHANGED <<files, age, frozen, fenceLog, owned, stable, backoff, cursor, served, drain>>
  BY DEF Steal, Mergers, manifestVars, ringVars, shareVars
<1>6. JobsOK' /\ PlansInv'
  BY <1>0, <1>2, <1>4, <1>5, TakeUp
<1>7. ManifestOK' /\ ShareOK'
  BY <1>0, <1>5 DEF ManifestOK, ShareOK
<1>8. QED
  BY <1>6, <1>7 DEF TypeOK, ManifestOK, ShareOK, JobsOK

\* The head and the rest of a merger's plans.
LEMMA HeadAndTail ==
    ASSUME JobsOK, PlansInv, NEW m \in Mergers, todo[m] # <<>>
    PROVE  /\ Head(todo[m]) \in Plan /\ OneSchema(Head(todo[m]))
           /\ Tail(todo[m]) \in Seq(Plan) /\ \A i \in 1..Len(Tail(todo[m])) : OneSchema(Tail(todo[m])[i])
<1>1. PICK s \in Seq(Plan) : s = todo[m]
  BY DEF JobsOK
<1>2. s # <<>> /\ \A i \in 1..Len(s) : OneSchema(s[i])
  BY <1>1 DEF PlansInv
<1>3. Len(s) \in Nat \ {0} /\ Head(s) = s[1] /\ s[1] \in Plan
  BY <1>2, SMT
<1>4. Tail(s) \in Seq(Plan) /\ Len(Tail(s)) = Len(s) - 1 /\ \A i \in 1..(Len(s) - 1) : Tail(s)[i] = s[i + 1]
  BY <1>2, SMT
<1>5. OneSchema(Head(s)) /\ \A i \in 1..Len(Tail(s)) : OneSchema(Tail(s)[i])
  BY <1>2, <1>3, <1>4, SMT
<1>6. QED
  BY <1>1, <1>3, <1>4, <1>5

\* A merger goes to another point of its loop with plans of one schema each.
LEMMA JobMoves ==
    ASSUME JobsOK, PlansInv, NEW m \in Mergers, NEW to \in {"idle", "next", "start", "merge"},
           NEW plans \in Seq(Plan), \A i \in 1..Len(plans) : OneSchema(plans[i]), NEW S \in SUBSET File,
           S # {} <=> to \in {"start", "merge"}, to \in {"start", "merge"} => plans # <<>>,
           pc' = [pc EXCEPT ![m] = to], todo' = [todo EXCEPT ![m] = plans], inputs' = [inputs EXCEPT ![m] = S]
    PROVE  JobsOK' /\ PlansInv'
<1>1. /\ pc' \in [Mergers -> {"idle", "next", "start", "merge"}] /\ todo' \in [Mergers -> Seq(Plan)]
      /\ inputs' \in [Mergers -> SUBSET File]
  BY DEF JobsOK
<1>2. \A k \in Mergers : /\ pc'[k] = (IF k = m THEN to ELSE pc[k])
                         /\ todo'[k] = (IF k = m THEN plans ELSE todo[k])
                         /\ inputs'[k] = (IF k = m THEN S ELSE inputs[k])
  BY DEF JobsOK
<1>3. \A k \in Mergers : inputs'[k] # {} <=> pc'[k] \in {"start", "merge"}
  BY <1>2 DEF JobsOK
<1>4. PlansInv'
  BY <1>2, SMT DEF PlansInv
<1>5. QED
  BY <1>1, <1>3, <1>4 DEF JobsOK

\* The same, without files to merge.
LEMMA JobRests ==
    ASSUME JobsOK, PlansInv, NEW m \in Mergers, NEW to \in {"idle", "next"},
           NEW plans \in Seq(Plan), \A i \in 1..Len(plans) : OneSchema(plans[i]),
           pc' = [pc EXCEPT ![m] = to], todo' = [todo EXCEPT ![m] = plans], inputs' = [inputs EXCEPT ![m] = {}]
    PROVE  JobsOK' /\ PlansInv'
<1>1. PICK S \in SUBSET File : S = {}
  OBVIOUS
<1>2. to \in {"idle", "next", "start", "merge"} /\ to \notin {"start", "merge"}
  OBVIOUS
<1>3. inputs' = [inputs EXCEPT ![m] = S]
  BY <1>1
<1>4. QED
  BY <1>1, <1>2, <1>3, JobMoves

\* A merger leaves its loop.
LEMMA StopStep ==
    ASSUME TypeOK, PlansInv, NEW m \in Mergers, Stop(m)
    PROVE  TypeOK' /\ PlansInv'
<1>0. ManifestOK /\ ShareOK /\ JobsOK
  BY TypeParts
<1>1. JobsOK' /\ PlansInv'
  <2>0. <<>> \in Seq(Plan) /\ Len(<<>>) = 0 /\ 1..0 = {}
    BY SMT
  <2>1. PICK none \in Seq(Plan) : none = <<>> /\ \A i \in 1..Len(none) : OneSchema(none[i])
    BY <2>0
  <2>2. /\ pc' = [pc EXCEPT ![m] = "idle"] /\ todo' = [todo EXCEPT ![m] = none]
        /\ inputs' = [inputs EXCEPT ![m] = {}]
    BY <2>1 DEF Stop, Leave
  <2>3. QED
    BY <1>0, <2>1, <2>2, JobRests
<1>2. UNCHANGED <<files, age, frozen, fenceLog, owned, stable, backoff, served, drain>>
  BY DEF Stop, manifestVars, ringVars
<1>3. cursor' \in Nat
  <2>1. cursor \in Nat /\ served \in SUBSET Groups
    BY <1>0 DEF ShareOK
  <2>2. CASE served # {} /\ cursor' = cursor + Cardinality(served) - 1
    <3>1. IsFiniteSet(served)
      BY <2>1, ConstantsAssumption, FS_Subset
    <3>2. Cardinality(served) \in Nat /\ Cardinality(served) # 0
      BY <2>2, <3>1, FS_CardinalityType, FS_EmptySet
    <3>3. QED
      BY <2>1, <2>2, <3>2, SMT
  <2>3. CASE cursor' = cursor
    BY <2>1, <2>3
  <2>4. QED
    BY <2>2, <2>3 DEF Stop
<1>4. ManifestOK' /\ ShareOK'
  BY <1>0, <1>2, <1>3 DEF ManifestOK, ShareOK
<1>5. QED
  BY <1>1, <1>4 DEF TypeOK, ManifestOK, ShareOK, JobsOK

\* A merger takes a plan: it passes over it or chooses files to merge.
LEMMA TakePlanStep ==
    ASSUME TypeOK, PlansInv, NEW m \in Mergers, TakePlan(m)
    PROVE  TypeOK' /\ PlansInv'
<1>0. ManifestOK /\ ShareOK /\ JobsOK
  BY TypeParts
<1> DEFINE plan == Head(todo[m])
           S == CompactableNow(plan)
<1>1. pc[m] = "next" /\ todo[m] # <<>>
  BY DEF TakePlan
<1>2. /\ plan \in Plan /\ OneSchema(plan)
      /\ Tail(todo[m]) \in Seq(Plan) /\ \A i \in 1..Len(Tail(todo[m])) : OneSchema(Tail(todo[m])[i])
  BY <1>0, <1>1, HeadAndTail
<1>3. UNCHANGED <<files, age, frozen, fenceLog, owned, stable, backoff, cursor, drain>>
  BY DEF TakePlan, manifestVars, ringVars
<1>4. served' \subseteq Groups
  <2>1. served' = served \cup {plan.grp} \/ served' = served
    BY DEF TakePlan
  <2>2. plan.grp \in Groups
    BY <1>2 DEF Plan
  <2>3. QED
    BY <1>0, <2>1, <2>2 DEF ShareOK
<1>5. ManifestOK' /\ ShareOK'
  BY <1>0, <1>3, <1>4 DEF ManifestOK, ShareOK
<1>6. CASE Cardinality(S) < 2
  <2>1. pc' = pc /\ todo' = [todo EXCEPT ![m] = Tail(todo[m])] /\ inputs' = inputs
    BY <1>6 DEF TakePlan
  <2>2. pc' = [pc EXCEPT ![m] = "next"] /\ inputs' = [inputs EXCEPT ![m] = {}]
    BY <1>0, <1>1, <2>1 DEF JobsOK
  <2>3. JobsOK' /\ PlansInv'
    BY <1>0, <1>2, <2>1, <2>2, JobRests
  <2>4. QED
    BY <1>5, <2>3 DEF TypeOK, ManifestOK, ShareOK, JobsOK
<1>7. CASE ~(Cardinality(S) < 2)
  <2>1. pc' = [pc EXCEPT ![m] = "start"] /\ todo' = todo /\ inputs' = [inputs EXCEPT ![m] = S]
    BY <1>7 DEF TakePlan
  <2>2. S # {}
    BY <1>7, FS_EmptySet, SMT
  <2>3. S \in SUBSET File
    BY <1>2 DEF CompactableNow, Plan
  <2>4. /\ todo[m] \in Seq(Plan) /\ todo' = [todo EXCEPT ![m] = todo[m]]
        /\ \A i \in 1..Len(todo[m]) : OneSchema(todo[m][i])
    BY <1>0, <2>1 DEF JobsOK, PlansInv
  <2> HIDE DEF S, plan
  <2>5. JobsOK' /\ PlansInv'
    BY <1>0, <1>1, <2>1, <2>2, <2>3, <2>4, JobMoves
  <2>6. QED
    BY <1>5, <2>5 DEF TypeOK, ManifestOK, ShareOK, JobsOK
<1>8. QED
  BY <1>6, <1>7

\* A merge begins.
LEMMA BeginStep ==
    ASSUME TypeOK, PlansInv, NEW m \in Mergers, Begin(m)
    PROVE  TypeOK' /\ PlansInv'
<1>0. ManifestOK /\ ShareOK /\ JobsOK
  BY TypeParts
<1>1. /\ pc[m] = "start" /\ pc' = [pc EXCEPT ![m] = "merge"] /\ todo' = todo /\ inputs' = inputs
      /\ UNCHANGED <<files, age, frozen, fenceLog, owned, stable, backoff, cursor, served, drain>>
  BY DEF Begin, manifestVars, ringVars, shareVars
<1>2. ManifestOK' /\ ShareOK'
  BY <1>0, <1>1 DEF ManifestOK, ShareOK
<1>3. /\ todo[m] \in Seq(Plan) /\ todo' = [todo EXCEPT ![m] = todo[m]]
      /\ inputs[m] \in SUBSET File /\ inputs' = [inputs EXCEPT ![m] = inputs[m]]
  BY <1>0, <1>1 DEF JobsOK
<1>4. /\ inputs[m] # {} /\ todo[m] # <<>>
      /\ \A i \in 1..Len(todo[m]) : OneSchema(todo[m][i])
  BY <1>0, <1>1 DEF JobsOK, PlansInv
<1>5. JobsOK' /\ PlansInv'
  BY <1>0, <1>1, <1>3, <1>4, JobMoves
<1>6. QED
  BY <1>2, <1>5 DEF TypeOK, ManifestOK, ShareOK, JobsOK

\* A failed merge doubles the plan's wait, up to the limit (backoff.go, failed).
LEMMA FailedType ==
    ASSUME ShareOK, NEW key \in Keys
    PROVE  Failed(key) \in [Keys -> [wait : 0..MaxWait, left : 0..MaxWait]]
<1> DEFINE w == IF backoff[key].wait = 0 THEN 1 ELSE Min({2 * backoff[key].wait, MaxWait})
<1>1. backoff \in [Keys -> [wait : 0..MaxWait, left : 0..MaxWait]] /\ MaxWait \in Nat \ {0}
  BY ConstantsAssumption DEF ShareOK
<1>2. backoff[key].wait \in 0..MaxWait
  BY <1>1
<1>3. 2 * backoff[key].wait \in Nat
  BY <1>1, <1>2, SMT
<1>4. Min({2 * backoff[key].wait, MaxWait}) \in 0..MaxWait
  BY <1>1, <1>3, MinPair, SMT
<1>5. w \in 0..MaxWait
  BY <1>1, <1>4, SMT
<1> HIDE DEF w
<1>6. [wait |-> w, left |-> w] \in [wait : 0..MaxWait, left : 0..MaxWait]
  BY <1>5
<1>7. Failed(key) = [backoff EXCEPT ![key] = [wait |-> w, left |-> w]]
  BY DEF Failed, w
<1>8. QED
  BY <1>1, <1>6, <1>7

\* The end of a merge: the plan is dropped, and the backoff kept in its type.
LEMMA DoneStep ==
    ASSUME ManifestOK, ShareOK, JobsOK, PlansInv, NEW m \in Mergers, pc[m] = "merge",
           NEW next \in [Keys -> [wait : 0..MaxWait, left : 0..MaxWait]], Done(m, next),
           \A f \in files' \cup fenceLog' : f \in File
    PROVE  TypeOK' /\ PlansInv'
<1>1. todo[m] # <<>>
  BY DEF PlansInv
<1>2. Tail(todo[m]) \in Seq(Plan) /\ \A i \in 1..Len(Tail(todo[m])) : OneSchema(Tail(todo[m])[i])
  BY <1>1, HeadAndTail
<1>3. /\ pc' = [pc EXCEPT ![m] = "next"] /\ todo' = [todo EXCEPT ![m] = Tail(todo[m])]
      /\ inputs' = [inputs EXCEPT ![m] = {}]
  BY DEF Done
<1>4. JobsOK' /\ PlansInv'
  BY <1>2, <1>3, JobRests
<1>5. UNCHANGED <<cursor, served, age, frozen, owned, stable, drain>> /\ backoff' \in {next, backoff}
  BY DEF Done, ringVars
<1>6. ManifestOK'
  BY <1>5 DEF ManifestOK
<1>7. ShareOK'
  BY <1>5 DEF ShareOK
<1>8. QED
  BY <1>4, <1>6, <1>7 DEF TypeOK, ManifestOK, ShareOK, JobsOK

\* The plan a merge is at.
LEMMA PlanAtHand ==
    ASSUME JobsOK, PlansInv, NEW m \in Mergers, pc[m] = "merge"
    PROVE  Head(todo[m]) \in Plan /\ PlanKey(Head(todo[m])) \in Keys
<1>1. Head(todo[m]) \in Plan
  BY HeadAndTail DEF PlansInv
<1>2. QED
  BY <1>1 DEF Plan, PlanKey, Keys

\* A merge fails.
LEMMA MergeFailsStep ==
    ASSUME TypeOK, PlansInv, NEW m \in Mergers, MergeFails(m)
    PROVE  TypeOK' /\ PlansInv'
<1>0. ManifestOK /\ ShareOK /\ JobsOK
  BY TypeParts
<1> DEFINE key == PlanKey(Head(todo[m]))
<1>1. pc[m] = "merge" /\ Done(m, Failed(key)) /\ files' = files
  BY DEF MergeFails
<1>2. PICK S \in SUBSET inputs[m] : fenceLog' = fenceLog \cup S
  BY DEF MergeFails
<1>3. inputs[m] \in SUBSET File
  BY <1>0 DEF JobsOK
<1>4. \A f \in files' \cup fenceLog' : f \in File
  BY <1>0, <1>1, <1>2, <1>3 DEF ManifestOK
<1>5. key \in Keys
  BY <1>0, <1>1, PlanAtHand
<1> HIDE DEF key
<1>6. Failed(key) \in [Keys -> [wait : 0..MaxWait, left : 0..MaxWait]]
  BY <1>0, <1>5, FailedType
<1>7. QED
  BY <1>0, <1>1, <1>4, <1>6, DoneStep

\* A merge's output is a file.
LEMMA OutputType ==
    ASSUME NEW m \in Mergers, NEW plan \in Plan, NEW kept \in SUBSET File, kept # {}
    PROVE  Output(m, plan, kept) \in File
<1>1. PICK f : f = CHOOSE g \in kept : TRUE
  OBVIOUS
<1>2. f \in kept
  BY <1>1
<1>3. f.fp \in Nat \ {0}
  BY <1>2 DEF File
<1>4. UNION {g.rows : g \in kept} \in SUBSET Nat
  BY DEF File
<1>5. plan.part \in Partitions /\ plan.grp \in Groups /\ plan.level + 1 \in Nat
  BY SMT DEF Plan
<1>6. Output(m, plan, kept) = [rows |-> UNION {g.rows : g \in kept}, by |-> m, part |-> plan.part,
                               grp |-> plan.grp, level |-> plan.level + 1, fp |-> f.fp]
  BY <1>1 DEF Output
<1>7. QED
  BY <1>3, <1>4, <1>5, <1>6, SMT DEF File

\* What a merge does to the manifest: nothing, or it puts the union of two or
\* more registered files in their place.
LEMMA MergeFiles ==
    ASSUME TypeOK, PlansInv, NEW m \in Mergers, Merge(m)
    PROVE  \/ files' = files
           \/ \E kept \in SUBSET files : \E o \in File :
                 kept # {} /\ o.rows = UNION {f.rows : f \in kept} /\ files' = (files \ kept) \cup {o}
<1>0. ManifestOK /\ ShareOK /\ JobsOK
  BY TypeParts
<1> DEFINE plan == Head(todo[m])
           kept == inputs[m] \ Fenced(m)
<1>1. pc[m] = "merge"
  BY DEF Merge
<1>2. \/ files' = files
      \/ ~(Cardinality(kept) < 2) /\ kept \subseteq files /\ files' = (files \ kept) \cup {Output(m, plan, kept)}
  BY DEF Merge, Publishable
<1>3. CASE ~(Cardinality(kept) < 2) /\ kept \subseteq files /\ files' = (files \ kept) \cup {Output(m, plan, kept)}
  <2>1. kept # {} /\ kept \in SUBSET File
    <3>1. kept # {}
      BY <1>3, FS_EmptySet, SMT
    <3>2. inputs[m] \in SUBSET File
      BY <1>0 DEF JobsOK
    <3>3. QED
      BY <3>1, <3>2
  <2>2. plan \in Plan
    BY <1>0, <1>1, PlanAtHand
  <2> HIDE DEF kept, plan
  <2>3. PICK o : o = Output(m, plan, kept)
    OBVIOUS
  <2>4. o \in File /\ o.rows = UNION {f.rows : f \in kept}
    BY <2>1, <2>2, <2>3, OutputType DEF Output
  <2>5. QED
    BY <1>3, <2>1, <2>3, <2>4
<1>4. QED
  BY <1>2, <1>3

\* A merge ends.
LEMMA MergeStep ==
    ASSUME TypeOK, PlansInv, NEW m \in Mergers, Merge(m)
    PROVE  TypeOK' /\ PlansInv'
<1>0. ManifestOK /\ ShareOK /\ JobsOK
  BY TypeParts
<1> DEFINE key == PlanKey(Head(todo[m]))
<1>1. pc[m] = "merge" /\ fenceLog' = fenceLog \cup Fenced(m)
  BY DEF Merge
<1>2. Done(m, backoff) \/ Done(m, [backoff EXCEPT ![key] = NoWait]) \/ Done(m, Failed(key))
  BY DEF Merge
<1>3. Fenced(m) \in SUBSET File
  BY <1>0 DEF JobsOK, Fenced
<1>4. \A f \in files' : f \in File
  BY <1>0, MergeFiles DEF ManifestOK
<1>5. \A f \in files' \cup fenceLog' : f \in File
  BY <1>0, <1>1, <1>3, <1>4 DEF ManifestOK
<1>6. key \in Keys
  BY <1>0, <1>1, PlanAtHand
<1> HIDE DEF key
<1>7. backoff \in [Keys -> [wait : 0..MaxWait, left : 0..MaxWait]]
  BY <1>0 DEF ShareOK
<1>8. Failed(key) \in [Keys -> [wait : 0..MaxWait, left : 0..MaxWait]]
  BY <1>0, <1>6, FailedType
<1>9. [backoff EXCEPT ![key] = NoWait] \in [Keys -> [wait : 0..MaxWait, left : 0..MaxWait]]
  BY <1>7, NoWaitType
<1>10. QED
  BY <1>0, <1>1, <1>2, <1>5, <1>7, <1>8, <1>9, DoneStep
-----------------------------------------------------------------------------
(* The invariant. *)

\* The steps around the pod leave the mergers and the plans alone.
LEMMA AroundStep ==
    ASSUME TypeOK, PlansInv,
           \/ \E f \in Late : Flush(f)
           \/ \E p \in Partitions : Grow(p)
           \/ \E f \in files : ArchiveSeen(f)
           \/ \E p \in Partitions : RingChange(p)
           \/ Stabilized \/ Drain \/ DrainReturns \/ UNCHANGED vars
    PROVE  TypeOK' /\ PlansInv'
<1>0. ManifestOK /\ ShareOK /\ JobsOK
  BY TypeParts
<1>1. UNCHANGED <<pc, todo, inputs, backoff, cursor, served>>
  BY DEF Flush, Grow, ArchiveSeen, RingChange, Stabilized, Drain, DrainReturns, vars,
         jobVars, shareVars, manifestVars, ringVars
<1>2. JobsOK' /\ PlansInv'
  BY <1>0, <1>1 DEF JobsOK, PlansInv
<1>3. CASE \E f \in Late : Flush(f)
  <2>1. PICK f \in Late : Flush(f)
    BY <1>3
  <2>2. UNCHANGED <<age, frozen, fenceLog, owned, stable, drain>> /\ files' = files \cup {f}
    BY <2>1 DEF Flush, ringVars
  <2>3. f \in File
    BY ConstantsAssumption
  <2>4. ManifestOK' /\ ShareOK'
    BY <1>0, <1>1, <2>2, <2>3 DEF ManifestOK, ShareOK
  <2>5. QED
    BY <1>2, <2>4 DEF TypeOK, ManifestOK, ShareOK, JobsOK
<1>4. CASE \E p \in Partitions : Grow(p)
  <2>1. PICK p \in Partitions : Grow(p)
    BY <1>4
  <2>2. /\ UNCHANGED <<files, frozen, fenceLog, owned, stable, drain>> /\ age[p] < 2
        /\ age' = [age EXCEPT ![p] = age[p] + 1]
    BY <2>1 DEF Grow, ringVars
  <2>3. age' \in [Partitions -> 0..2]
    BY <1>0, <2>2, SMT DEF ManifestOK
  <2>4. ManifestOK' /\ ShareOK'
    BY <1>0, <1>1, <2>2, <2>3 DEF ManifestOK, ShareOK
  <2>5. QED
    BY <1>2, <2>4 DEF TypeOK, ManifestOK, ShareOK, JobsOK
<1>5. CASE \E f \in files : ArchiveSeen(f)
  <2>1. PICK f \in files : ArchiveSeen(f)
    BY <1>5
  <2>2. UNCHANGED <<files, age, fenceLog, owned, stable, drain>> /\ frozen' = frozen \cup {f}
    BY <2>1 DEF ArchiveSeen, ringVars
  <2>3. ManifestOK' /\ ShareOK'
    BY <1>0, <1>1, <2>1, <2>2 DEF ManifestOK, ShareOK
  <2>4. QED
    BY <1>2, <2>3 DEF TypeOK, ManifestOK, ShareOK, JobsOK
<1>6. CASE \E p \in Partitions : RingChange(p)
  <2>1. PICK p \in Partitions : RingChange(p)
    BY <1>6
  <2>2. /\ UNCHANGED <<files, age, frozen, fenceLog, drain>> /\ stable' \in BOOLEAN
        /\ owned' = owned \ {p} \/ owned' = owned \cup {p}
    BY <2>1 DEF RingChange, manifestVars
  <2>3. ManifestOK' /\ ShareOK'
    BY <1>0, <1>1, <2>2 DEF ManifestOK, ShareOK
  <2>4. QED
    BY <1>2, <2>3 DEF TypeOK, ManifestOK, ShareOK, JobsOK
<1>7. CASE Stabilized \/ Drain \/ DrainReturns \/ UNCHANGED vars
  <2>1. /\ UNCHANGED <<files, age, frozen, fenceLog, owned>> /\ stable' \in {TRUE, stable}
        /\ drain' \in {"waiting", "drained", "timedOut", drain}
    BY <1>7 DEF Stabilized, Drain, DrainReturns, vars, manifestVars, ringVars
  <2>2. ManifestOK' /\ ShareOK'
    BY <1>0, <1>1, <2>1 DEF ManifestOK, ShareOK
  <2>3. QED
    BY <1>2, <2>2 DEF TypeOK, ManifestOK, ShareOK, JobsOK
<1>8. QED
  BY <1>3, <1>4, <1>5, <1>6, <1>7

\* Only a flush and a merge change the manifest's files: a flush adds rows no
\* file has, a merge keeps the rows of what it replaces.
LEMMA FilesStep ==
    ASSUME IInv, [Next]_vars
    PROVE  IsFiniteSet(files)' /\ RowsApart' /\ RowsIn(files) \subseteq RowsIn(files')
<1>0. TypeOK /\ IsFiniteSet(files) /\ PlansInv /\ RowsApart
  BY DEF IInv
<1>1. CASE files' = files
  BY <1>0, <1>1 DEF RowsApart, RowsIn
<1>2. ASSUME NEW f \in Late, Flush(f) PROVE IsFiniteSet(files)' /\ RowsApart' /\ RowsIn(files) \subseteq RowsIn(files')
  <2>1. files' = files \cup {f} /\ \A g \in files : f.rows \cap g.rows = {}
    BY <1>2 DEF Flush
  <2>2. IsFiniteSet(files')
    BY <1>0, <2>1, FS_AddElement
  <2>3. RowsApart' /\ RowsIn(files) \subseteq RowsIn(files')
    BY <1>0, <2>1 DEF RowsApart, RowsIn
  <2>4. QED
    BY <2>2, <2>3
<1>3. ASSUME NEW m \in Mergers, Merge(m) PROVE IsFiniteSet(files)' /\ RowsApart' /\ RowsIn(files) \subseteq RowsIn(files')
  <2>1. ASSUME NEW kept \in SUBSET files, NEW o \in File,
               o.rows = UNION {f.rows : f \in kept}, files' = (files \ kept) \cup {o}
        PROVE  IsFiniteSet(files)' /\ RowsApart' /\ RowsIn(files) \subseteq RowsIn(files')
    <3>1. IsFiniteSet(files \ kept)
      BY <1>0, FS_Difference
    <3>2. IsFiniteSet(files')
      BY <2>1, <3>1, FS_AddElement
    <3>3. \A f \in files \ kept : f.rows \cap o.rows = {}
      BY <1>0, <2>1, SMT DEF RowsApart
    <3>4. \A f, g \in files' : f # g => f.rows \cap g.rows = {}
      BY <1>0, <2>1, <3>3 DEF RowsApart
    <3>5. RowsIn(files) \subseteq RowsIn(files')
      BY <2>1 DEF RowsIn
    <3>6. QED
      BY <1>0, <3>2, <3>4, <3>5 DEF RowsApart
  <2>2. QED
    BY <1>0, <1>1, <1>3, <2>1, MergeFiles
<1>4. \/ files' = files \/ (\E f \in Late : Flush(f)) \/ (\E m \in Mergers : Merge(m))
  <2>1. CASE Scan
    BY <2>1 DEF Scan, manifestVars
  <2>2. CASE \E p \in Partitions, level \in 0..1 : ForceCompactPartition(p, level)
    BY <2>2 DEF ForceCompactPartition, manifestVars
  <2>3. CASE \E m \in Mergers : MergeFails(m)
    BY <2>3 DEF MergeFails
  <2>4. CASE \E m \in Mergers : Stop(m) \/ TakePlan(m) \/ Begin(m)
    BY <2>4 DEF Stop, TakePlan, Begin, manifestVars
  <2>5. CASE \/ \E p \in Partitions : Grow(p) \/ RingChange(p) \/ Steal(p)
             \/ \E f \in files : ArchiveSeen(f)
    BY <2>5 DEF Grow, RingChange, Steal, ArchiveSeen, manifestVars
  <2>6. CASE Stabilized \/ Drain \/ DrainReturns \/ UNCHANGED vars
    BY <2>6 DEF Stabilized, Drain, DrainReturns, vars, manifestVars
  <2>7. QED
    BY <2>1, <2>2, <2>3, <2>4, <2>5, <2>6 DEF Next
<1>5. QED
  BY <1>1, <1>2, <1>3, <1>4

\* The invariant holds at the start.
LEMMA InitIInv == Init => IInv
<1> SUFFICES ASSUME Init PROVE IInv
  OBVIOUS
<1>1. Stored \in SUBSET (Stored \cup Late) /\ IsFiniteSet(Stored \cup Late)
  BY ConstantsAssumption
<1>2. IsFiniteSet(files)
  BY <1>1, FS_Subset DEF Init
<1>3. \A f \in files \cup frozen \cup fenceLog : f \in File
  BY ConstantsAssumption DEF Init
<1>4. <<>> \in Seq(Plan) /\ Len(<<>>) = 0 /\ 1..0 = {}
  BY SMT
<1>5. todo \in [Mergers -> Seq(Plan)] /\ \A m \in Mergers : todo[m] = <<>> /\ pc[m] = "idle" /\ inputs[m] = {}
  BY <1>4 DEF Init
<1>6. backoff \in [Keys -> [wait : 0..MaxWait, left : 0..MaxWait]]
  BY NoWaitType DEF Init
<1>7. PlansInv
  BY <1>4, <1>5 DEF PlansInv
<1>8. /\ age \in [Partitions -> 0..2] /\ owned \subseteq Partitions /\ stable \in BOOLEAN
      /\ cursor \in Nat /\ served \subseteq Groups /\ drain \in {"no", "waiting", "drained", "timedOut"}
      /\ pc \in [Mergers -> {"idle", "next", "start", "merge"}] /\ inputs \in [Mergers -> SUBSET File]
  BY ConstantsAssumption DEF Init
<1>9. \A m \in Mergers : inputs[m] # {} <=> pc[m] \in {"start", "merge"}
  BY <1>5
<1>10. TypeOK
  BY <1>3, <1>5, <1>6, <1>8, <1>9 DEF TypeOK
<1>11. RowsApart
  BY ConstantsAssumption DEF Init, RowsApart
<1>12. QED
  BY <1>2, <1>7, <1>10, <1>11 DEF IInv

\* Every step keeps the invariant.
LEMMA NextIInv == IInv /\ [Next]_vars => IInv'
<1> SUFFICES ASSUME IInv, [Next]_vars PROVE IInv'
  OBVIOUS
<1>0. TypeOK /\ IsFiniteSet(files) /\ PlansInv
  BY DEF IInv
<1>1. IsFiniteSet(files)' /\ RowsApart' /\ RowsIn(files) \subseteq RowsIn(files')
  BY FilesStep
<1>2. TypeOK' /\ PlansInv'
  <2>1. CASE Scan
    BY <1>0, <2>1, ScanStep
  <2>2. CASE \E p \in Partitions, level \in 0..1 : ForceCompactPartition(p, level)
    BY <1>0, <2>2, ForceStep
  <2>3. CASE \E p \in Partitions : Steal(p)
    BY <1>0, <2>3, StealStep
  <2>4. CASE \E m \in Mergers : Stop(m)
    BY <1>0, <2>4, StopStep
  <2>5. CASE \E m \in Mergers : TakePlan(m)
    BY <1>0, <2>5, TakePlanStep
  <2>6. CASE \E m \in Mergers : Begin(m)
    BY <1>0, <2>6, BeginStep
  <2>7. CASE \E m \in Mergers : MergeFails(m)
    BY <1>0, <2>7, MergeFailsStep
  <2>8. CASE \E m \in Mergers : Merge(m)
    BY <1>0, <2>8, MergeStep
  <2>9. CASE \/ \E f \in Late : Flush(f)
             \/ \E p \in Partitions : Grow(p)
             \/ \E f \in files : ArchiveSeen(f)
             \/ \E p \in Partitions : RingChange(p)
             \/ Stabilized \/ Drain \/ DrainReturns \/ UNCHANGED vars
    BY <1>0, <2>9, AroundStep
  <2>10. QED
    BY <2>1, <2>2, <2>3, <2>4, <2>5, <2>6, <2>7, <2>8, <2>9 DEF Next
<1>3. QED
  BY <1>1, <1>2 DEF IInv

\* The types, the plans and the rows, at every moment.
THEOREM Invariance == Spec => []IInv
<1>1. Init => IInv
  BY InitIInv
<1>2. IInv /\ [Next]_vars => IInv'
  BY NextIInv
<1>3. QED
  BY <1>1, <1>2, PTL DEF Spec

\* The types of the planner's, the scheduler's and the mergers' state.
THEOREM TypesHold == Spec => []TypeOK
<1>1. IInv => TypeOK
  BY DEF IInv
<1>2. QED
  BY <1>1, Invariance, PTL

\* No row is ever in two files of the manifest and none leaves it, whatever the scan, a
\* forced recompaction and a steal do to the same files at once (compactor.go,
\* ReplaceFiles).
THEOREM RowsStayOnce == Spec => RowsOnce
<1>1. IInv /\ [Next]_vars => [RowsApart' /\ RowsIn(files) \subseteq RowsIn(files')]_vars
  BY FilesStep
<1>2. QED
  BY <1>1, Invariance, PTL DEF Spec, RowsOnce
-----------------------------------------------------------------------------
(* What a merge is begun on. *)

\* A merge is begun by TakePlan alone.
LEMMA StartsByTaking ==
    ASSUME TypeOK, [Next]_vars, NEW m \in Mergers, pc[m] = "next", pc'[m] = "start"
    PROVE  TakePlan(m) /\ inputs'[m] = CompactableNow(Head(todo[m])) /\ ~(Cardinality(inputs'[m]) < 2)
<1>0. pc \in [Mergers -> {"idle", "next", "start", "merge"}] /\ inputs \in [Mergers -> SUBSET File]
  BY DEF TypeOK
<1>1. pc' # pc
  OBVIOUS
<1>2. ~Scan
  BY <1>0 DEF Scan
<1>3. \A k \in Mergers : ~Stop(k)
  BY <1>0 DEF Stop, Leave
<1>4. \A k \in Mergers : ~Begin(k)
  BY <1>0 DEF Begin
<1>5. \A k \in Mergers : ~MergeFails(k) /\ ~Merge(k)
  <2>1. \A k \in Mergers : pc' # [pc EXCEPT ![k] = "next"]
    BY <1>0
  <2>2. QED
    BY <2>1 DEF MergeFails, Merge, Done
<1>6. \A p \in Partitions : ~Steal(p) /\ \A level \in 0..1 : ~ForceCompactPartition(p, level)
  <2>1. \A k \in Mergers : pc' # [pc EXCEPT ![k] = "next"]
    BY <1>0
  <2>2. "steal" \in Mergers /\ "force" \in Mergers
    BY DEF Mergers
  <2>3. QED
    BY <2>1, <2>2 DEF Steal, ForceCompactPartition
<1>7. /\ ~(\E f \in Late : Flush(f)) /\ ~(\E p \in Partitions : Grow(p) \/ RingChange(p))
      /\ ~(\E f \in files : ArchiveSeen(f)) /\ ~Stabilized /\ ~Drain /\ ~DrainReturns /\ ~UNCHANGED vars
  BY <1>1 DEF Flush, Grow, RingChange, ArchiveSeen, Stabilized, Drain, DrainReturns, vars, jobVars
<1>8. PICK k \in Mergers : TakePlan(k)
  BY <1>2, <1>3, <1>4, <1>5, <1>6, <1>7 DEF Next
<1> DEFINE S == CompactableNow(Head(todo[k]))
<1>9. ~(Cardinality(S) < 2) /\ pc' = [pc EXCEPT ![k] = "start"] /\ inputs' = [inputs EXCEPT ![k] = S]
  BY <1>1, <1>8 DEF TakePlan
<1> HIDE DEF S
<1>10. k = m
  BY <1>0, <1>9
<1>11. inputs'[m] = S
  BY <1>0, <1>9, <1>10
<1>12. QED
  BY <1>8, <1>9, <1>10, <1>11 DEF S

\* What is left of a plan when its turn comes may be merged.
LEMMA TakenIsAllowed ==
    ASSUME IInv, NEW plan, OneSchema(plan), NEW S, S = CompactableNow(plan), ~(Cardinality(S) < 2)
    PROVE  Allowed(S)
<1>1. S \in SUBSET files /\ IsFiniteSet(files)
  BY DEF CompactableNow, Compactable, IInv
<1>2. Cardinality(S) \in Nat
  BY <1>1, FS_Subset, FS_CardinalityType
<1>3. Cardinality(S) >= 2
  BY <1>2, SMT
<1>4. \A f \in S : /\ f.part = plan.part /\ f.grp = plan.grp /\ f \in plan.files
                   /\ f \notin frozen \cup fenceLog /\ ~AgeFrozen(plan.part, plan.grp)
  BY DEF CompactableNow, Compactable
<1>5. \A f, g \in S : f.part = g.part /\ f.grp = g.grp /\ f.fp = g.fp
  BY <1>4 DEF OneSchema
<1>6. S \cap (frozen \cup fenceLog) = {} /\ \A f \in S : ~AgeFrozen(f.part, f.grp)
  BY <1>4
<1>7. QED
  BY <1>1, <1>3, <1>5, <1>6 DEF Allowed

\* When the scan, a forced recompaction or a steal begins a merge, its files are
\* two or more registered files of one tenant, hour and schema, none archived,
\* frozen or fenced, although the plan was made earlier (compactableNow).
THEOREM OnlyCompactableIsMerged == Spec => MergesOnlyCompactable
<1>1. IInv /\ [Next]_vars =>
        [\A m \in Mergers : pc[m] = "next" /\ pc'[m] = "start" => Allowed(inputs'[m])]_vars
  <2> SUFFICES ASSUME IInv, [Next]_vars, NEW m \in Mergers, pc[m] = "next", pc'[m] = "start"
               PROVE  Allowed(inputs'[m])
    OBVIOUS
  <2>1. TypeOK /\ PlansInv /\ JobsOK
    BY DEF IInv, TypeOK, JobsOK
  <2>2. TakePlan(m) /\ inputs'[m] = CompactableNow(Head(todo[m])) /\ ~(Cardinality(inputs'[m]) < 2)
    BY <2>1, StartsByTaking
  <2>3. todo[m] # <<>>
    BY <2>2 DEF TakePlan
  <2>4. OneSchema(Head(todo[m]))
    BY <2>1, <2>3, HeadAndTail
  <2>5. QED
    BY <2>2, <2>4, TakenIsAllowed
<1>2. QED
  BY <1>1, Invariance, PTL DEF Spec, MergesOnlyCompactable
=============================================================================
