------------------------------ MODULE S3Proofs ------------------------------
(***************************************************************************)
(* Proofs about modules S3Fetch, for every bucket, plan and set of workers,*)
(* and S3Keys, for any number of threads, any lifetimes of keys and any    *)
(* windows.                                                                *)
(***************************************************************************)
EXTENDS S3Fetch, S3Keys, SequenceTheorems, FiniteSetTheorems, WellFoundedInduction, TLAPS

(***************************************************************************)
(* Max, of FiniteSetsExt.                                                  *)
(***************************************************************************)
\* Every nonempty set of naturals up to n has a largest element, and Max is it.
LEMMA MaxOfBounded ==
  ASSUME NEW n \in Nat, NEW S \in SUBSET (0..n), S # {}
  PROVE  Max(S) \in S /\ \A y \in S : y <= Max(S)
<1> DEFINE T == {n - x : x \in S}
<1>1. \A x \in S : n - x \in Nat /\ n - x \in T
  OBVIOUS
<1>2. T \subseteq Nat /\ T # {}
  BY <1>1
<1>3. \A t \in T : \E x \in S : t = n - x
  OBVIOUS
<1> HIDE DEF T
<1>4. PICK t \in T : \A y \in T : ~(<<y, t>> \in OpToRel(<, Nat))
  BY <1>2, WFMin, NatLessThanWellFounded
<1>5. \A y \in T : ~(y < t)
  <2> SUFFICES ASSUME NEW y \in T, y < t PROVE FALSE
    OBVIOUS
  <2>1. y \in Nat /\ t \in Nat
    BY <1>2
  <2>2. <<y, t>> \in OpToRel(<, Nat)
    BY <2>1 DEF OpToRel
  <2>3. QED
    BY <1>4, <2>2
<1>6. PICK x \in S : t = n - x
  BY <1>3
<1>7. \A y \in S : x >= y
  BY <1>1, <1>5, <1>6
<1>8. \E m \in S : \A y \in S : m >= y
  BY <1>7
<1>9. Max(S) \in S /\ \A y \in S : Max(S) >= y
  BY <1>8 DEF Max
<1>10. QED
  BY <1>9

(***************************************************************************)
(* The inductive invariant: besides the properties themselves, `order`     *)
(* lists every range once, with discovery's ranges in their own order, and *)
(* nobody is inside a range that is done.                                  *)
(***************************************************************************)
OrderIsPermutation ==
  /\ \A p, q \in DOMAIN order : order[p] = order[q] => p = q
  /\ \A id \in DOMAIN ranges : \E p \in DOMAIN order : order[p] = id

PlannedInOrder ==
  /\ Len(Planned) <= Len(ranges)
  /\ \A id \in DOMAIN ranges : ranges[id].planned <=> id \in DOMAIN Planned
  /\ \A p, q \in DOMAIN order :
       p < q /\ order[p] \in DOMAIN Planned /\ order[q] \in DOMAIN Planned
         => order[p] < order[q]

InsideIsOpen ==
  \A w \in Workers :
    Inside(w) => worker[w].id \in DOMAIN ranges /\ ~ranges[worker[w].id].done

ControlInv ==
  /\ TypeOK
  /\ OneWorkerPerRange
  /\ InsideIsOpen
  /\ OrderIsPermutation
  /\ PlannedInOrder
  /\ CallerInSync

(***************************************************************************)
(* Lemmas about the operators.                                             *)
(***************************************************************************)
\* A split falls strictly after the folder the range is in, at or before the
\* last one that is still its own, so what it takes was not reached yet.
LEMMA SplitPoint ==
  ASSUME NEW live \in Live, HasUnreached(live)
  PROVE  /\ CurrentFolder(live) \in Nat \ {0}
         /\ FolderEnd(live) \in DOMAIN live.range.folders
         /\ live.range.folders[FolderEnd(live)] < live.range.until
         /\ SplitAt(live) \in DOMAIN live.range.folders
         /\ CurrentFolder(live) < SplitAt(live)
         /\ SplitAt(live) <= FolderEnd(live)
         /\ live.range.folders[SplitAt(live)] > live.emitted
<1> DEFINE folders == live.range.folders
           below == {i \in DOMAIN folders : folders[i] <= live.emitted}
           ahead == {i \in DOMAIN folders : folders[i] < live.range.until}
<1>1. folders \in Seq(Position) /\ live.emitted \in Nat
  BY DEF Live, ListRange
<1>2. Len(folders) \in Nat /\ DOMAIN folders = 1..Len(folders)
  BY <1>1, LenProperties
<1>3. CurrentFolder(live) \in {1} \cup below
      /\ \A i \in {1} \cup below : i <= CurrentFolder(live)
  <2>1. {1} \cup below \in SUBSET (0..Len(folders) + 1)
    BY <1>2
  <2>2. Len(folders) + 1 \in Nat
    BY <1>2
  <2> HIDE DEF below, folders
  <2>3. {1} \cup below # {}
    OBVIOUS
  <2>4. Max({1} \cup below) \in {1} \cup below
        /\ \A i \in {1} \cup below : i <= Max({1} \cup below)
    BY <2>1, <2>2, <2>3, MaxOfBounded
  <2>5. QED
    BY <2>4 DEF CurrentFolder, below, folders
<1>4. FolderEnd(live) \in {0} \cup ahead
  <2>1. {0} \cup ahead \in SUBSET (0..Len(folders))
    BY <1>2
  <2>2. Len(folders) \in Nat
    BY <1>2
  <2> HIDE DEF ahead, folders
  <2>3. {0} \cup ahead # {}
    OBVIOUS
  <2>4. Max({0} \cup ahead) \in {0} \cup ahead
    BY <2>1, <2>2, <2>3, MaxOfBounded
  <2>5. QED
    BY <2>4 DEF FolderEnd, ahead, folders
<1>5. CurrentFolder(live) \in Nat \ {0}
  BY <1>2, <1>3
<1>6. FolderEnd(live) \in ahead
  BY <1>4, <1>5 DEF HasUnreached
<1>7. FolderEnd(live) \in 1..Len(folders)
  BY <1>6, <1>2
<1>8. CurrentFolder(live) < SplitAt(live) /\ SplitAt(live) <= FolderEnd(live)
      /\ SplitAt(live) \in Nat
  <2> DEFINE c == CurrentFolder(live)
             e == FolderEnd(live)
  <2>1. c \in Nat /\ e \in Nat /\ e > c
    BY <1>5, <1>7 DEF HasUnreached
  <2>2. SplitAt(live) = c + 1 + (e - c) \div 2
    BY DEF SplitAt
  <2> HIDE DEF c, e
  <2>3. QED
    <3>1. c < SplitAt(live) /\ SplitAt(live) <= e /\ SplitAt(live) \in Nat
      BY <2>1, <2>2
    <3>2. QED
      BY <3>1 DEF c, e
<1>9. SplitAt(live) \in DOMAIN folders
  BY <1>5, <1>7, <1>8, <1>2
<1>10. SplitAt(live) \notin below
  BY <1>3, <1>5, <1>8
<1>11. folders[SplitAt(live)] \in Int
  <2> HIDE DEF folders
  <2>1. folders[SplitAt(live)] \in Position
    BY <1>1, <1>2, <1>9, ElementOfSeq
  <2>2. QED
    BY <2>1 DEF Position
<1>12. folders[SplitAt(live)] > live.emitted
  BY <1>1, <1>9, <1>10, <1>11
<1>13. QED
  BY <1>2, <1>5, <1>6, <1>8, <1>9, <1>12

(***************************************************************************)
(* What no step but a split changes: which ranges there are, which of them *)
(* are discovery's, and that a range done and drained stays so.            *)
(***************************************************************************)
RangesKept ==
  /\ ranges' \in Seq(Live)
  /\ Len(ranges') = Len(ranges)
  /\ \A id \in DOMAIN ranges :
       /\ ranges'[id].planned = ranges[id].planned
       /\ ranges[id].done /\ ranges[id].pages = <<>> =>
            ranges'[id].done /\ ranges'[id].pages = <<>>

LEMMA TypeFacts ==
  ASSUME TypeOK
  PROVE  /\ Len(ranges) \in Nat /\ DOMAIN ranges = 1..Len(ranges)
         /\ Len(order) = Len(ranges) /\ DOMAIN order = 1..Len(ranges)
         /\ \A id \in DOMAIN ranges : ranges[id] \in Live
         /\ \A p \in DOMAIN order : order[p] \in DOMAIN ranges
         /\ taking \in Nat \ {0}
         /\ caller.position \in Nat \ {0} /\ caller.step \in Nat \ {0}
<1>1. ranges \in Seq(Live) /\ order \in Seq(DOMAIN ranges)
      /\ Len(order) = Len(ranges)
  BY DEF TypeOK
<1>2. Len(ranges) \in Nat /\ DOMAIN ranges = 1..Len(ranges)
  BY <1>1, LenProperties
<1>3. DOMAIN order = 1..Len(ranges)
  BY <1>1, LenProperties
<1>4. \A id \in DOMAIN ranges : ranges[id] \in Live
  BY <1>1, <1>2, ElementOfSeq
<1>5. \A p \in DOMAIN order : order[p] \in DOMAIN ranges
  <2> DEFINE ids == DOMAIN ranges
  <2>1. order \in Seq(ids)
    BY <1>1
  <2> HIDE DEF ids
  <2>2. \A p \in DOMAIN order : order[p] \in ids
    BY <1>1, <1>3, <2>1, ElementOfSeq
  <2>3. QED
    BY <2>2 DEF ids
<1>6. QED
  BY <1>1, <1>2, <1>3, <1>4, <1>5 DEF TypeOK

LEMMA OrderKept ==
  ASSUME TypeOK, OrderIsPermutation, PlannedInOrder, RangesKept,
         UNCHANGED order
  PROVE  /\ DOMAIN ranges' = DOMAIN ranges
         /\ order' \in Seq(DOMAIN ranges') /\ Len(order') = Len(ranges')
         /\ OrderIsPermutation'
         /\ PlannedInOrder'
<1>1. DOMAIN ranges' = DOMAIN ranges
  BY TypeFacts, LenProperties DEF RangesKept
<1>2. order' \in Seq(DOMAIN ranges') /\ Len(order') = Len(ranges')
  BY <1>1 DEF TypeOK, RangesKept
<1>3. OrderIsPermutation'
  BY <1>1 DEF OrderIsPermutation
<1>4. PlannedInOrder'
  BY <1>1 DEF PlannedInOrder, RangesKept
<1>5. QED
  BY <1>1, <1>2, <1>3, <1>4

LEMMA CallerInSyncKept ==
  ASSUME TypeOK, CallerInSync, RangesKept, UNCHANGED <<order, taking, caller>>
  PROVE  CallerInSync'
<1>1. \A p \in DOMAIN order :
        /\ Gone(p) => Gone(p)'
        /\ ranges'[order'[p]].planned = ranges[order[p]].planned
  BY TypeFacts DEF RangesKept, Gone
<1>2. TakenInOrder'
  <2>1. taking <= Len(order) /\ \A p \in 1..taking : p \in DOMAIN order
    BY TypeFacts DEF CallerInSync, TakenInOrder
  <2>2. (caller.position <= Len(order)) => caller.position \in DOMAIN order
    BY TypeFacts
  <2>3. taking \in 1..taking /\ 1..taking - 1 \subseteq 1..taking
    BY TypeFacts
  <2>4. QED
    BY <1>1, <2>1, <2>2, <2>3 DEF CallerInSync, TakenInOrder
<1>3. StepsInSync'
  BY <1>1 DEF CallerInSync, StepsInSync, InTake, Behind, Begun
<1>4. QED
  BY <1>2, <1>3 DEF CallerInSync

LEMMA SameInside ==
  ASSUME TypeOK, OneWorkerPerRange, InsideIsOpen, RangesKept,
         \A id \in DOMAIN ranges : /\ ranges'[id].busy = ranges[id].busy
                                   /\ ranges'[id].done = ranges[id].done,
         \A w \in Workers : /\ Inside(w)' <=> Inside(w)
                            /\ Inside(w) => worker'[w].id = worker[w].id
  PROVE  OneWorkerPerRange' /\ InsideIsOpen'
<1>1. DOMAIN ranges' = DOMAIN ranges
  BY TypeFacts, LenProperties DEF RangesKept
<1>2. OneWorkerPerRange'
  BY <1>1 DEF OneWorkerPerRange
<1>3. InsideIsOpen'
  BY <1>1 DEF InsideIsOpen
<1>4. QED
  BY <1>2, <1>3

(***************************************************************************)
(* The initial state.                                                      *)
(***************************************************************************)
LEMMA InitControl == Init => ControlInv
<1> SUFFICES ASSUME Init PROVE ControlInv
  OBVIOUS
<1> DEFINE n == Len(Planned)
<1>1. n \in Nat \ {0} /\ DOMAIN Planned = 1..n
      /\ \A i \in 1..n : Planned[i] \in ListRange
  <2>1. Planned \in Seq(ListRange) /\ Planned # <<>>
    BY PlanAssumption
  <2>2. n \in Nat /\ DOMAIN Planned = 1..n /\ n # 0
    BY <2>1, LenProperties, EmptySeq
  <2>3. QED
    BY <2>1, <2>2, ElementOfSeq
<1>2. ranges = [i \in 1..n |-> NewLive(Planned[i], TRUE, FALSE)]
  BY <1>1 DEF Init
<1>3. \A i \in 1..n : NewLive(Planned[i], TRUE, FALSE) \in Live
  BY <1>1, EmptySeq DEF NewLive, Live, NoKey
<1> HIDE DEF n
<1>4. ranges \in Seq(Live) /\ Len(ranges) = n /\ DOMAIN ranges = 1..n
  <2>1. ranges \in [1..n -> Live]
    BY <1>2, <1>3
  <2>2. QED
    BY <1>1, <2>1
<1>5. order = [i \in 1..n |-> i]
  BY <1>1 DEF Init
<1>6. order \in Seq(1..n) /\ Len(order) = n /\ DOMAIN order = 1..n
  BY <1>1, <1>5
<1>7. TypeOK
  <2>1. delivered \in Seq(SUBSET Key)
    BY EmptySeq DEF Init
  <2>2. caller \in [pc : {"step", "page", "next", "half", "stopping", "joining",
                         "returned"},
                   step : Nat \ {0}, position : Nat \ {0}, failed : BOOLEAN]
    BY DEF Init
  <2>3. worker \in [Workers -> [pc : {"idle", "listing", "leaving", "returned"},
                               id : Nat, after : Nat, empty : Nat,
                               left : {"done", "paused", "error"}]]
    BY DEF Init, NoKey
  <2>4. order \in Seq(DOMAIN ranges)
    BY <1>4, <1>6
  <2>5. taking \in Nat \ {0} /\ buffered \in Int /\ failure \in BOOLEAN
        /\ stop \in BOOLEAN /\ cancelled \in BOOLEAN
        /\ result \in {"running", "ok", "failed"}
    <3>1. taking \in Nat \ {0} /\ buffered \in Int
      BY DEF Init
    <3>2. failure \in BOOLEAN /\ stop \in BOOLEAN /\ cancelled \in BOOLEAN
      BY Zenon DEF Init
    <3>3. result \in {"running", "ok", "failed"}
      BY DEF Init
    <3>4. QED
      BY <3>1, <3>2, <3>3
  <2>6. QED
    BY <1>4, <1>6, <2>1, <2>2, <2>3, <2>4, <2>5 DEF TypeOK
<1>8. \A w \in Workers : ~Inside(w)
  BY DEF Init, Inside
<1>9. \A i \in 1..n : ranges[i].planned /\ ~ranges[i].busy
  BY <1>2 DEF NewLive
<1>10. OneWorkerPerRange /\ InsideIsOpen
  BY <1>4, <1>8, <1>9 DEF OneWorkerPerRange, InsideIsOpen
<1>11. OrderIsPermutation
  BY <1>4, <1>5, <1>6 DEF OrderIsPermutation
<1>12. PlannedInOrder
  BY <1>1, <1>4, <1>5, <1>6, <1>9 DEF PlannedInOrder, n
<1>13. TakenInOrder
  <2>1. taking = 1 /\ caller.pc = "step" /\ caller.position = 1
    BY DEF Init
  <2>2. 1 \in 1..n /\ order[1] = 1 /\ 1..taking - 1 = {}
    BY <1>1, <1>5, <2>1
  <2>3. QED
    BY <1>1, <1>6, <1>9, <2>1, <2>2 DEF TakenInOrder
<1>14. StepsInSync
  <2> SUFFICES ASSUME NEW at \in [DOMAIN Planned -> DOMAIN Steps], InStep(at),
                      NEW p \in DOMAIN order
               PROVE  Behind(p) <=> Begun(at[order[p]])
    BY DEF StepsInSync
  <2>1. p \in 1..n /\ order[p] \in DOMAIN Planned
    BY <1>1, <1>5, <1>6 DEF n
  <2>2. ~Behind(p)
    BY <1>1, <2>1 DEF Behind, Init
  <2>3. at[order[p]] \in Nat /\ at[order[p]] >= 1
    <3>1. DOMAIN Steps = 1..Len(Steps) /\ Len(Steps) \in Nat
      BY PlanAssumption, LenProperties
    <3>2. QED
      BY <2>1, <3>1
  <2>4. ~Begun(at[order[p]])
    BY <2>3 DEF Begun, Init
  <2>5. QED
    BY <2>2, <2>4
<1>15. QED
  BY <1>7, <1>10, <1>11, <1>12, <1>13, <1>14 DEF ControlInv, CallerInSync

(***************************************************************************)
(* The workers' steps.                                                     *)
(***************************************************************************)
LEMMA OneRangeChanges ==
  ASSUME TypeOK, NEW id \in DOMAIN ranges, NEW live \in Live,
         ranges' = [ranges EXCEPT ![id] = live],
         live.planned = ranges[id].planned,
         ranges[id].done /\ ranges[id].pages = <<>> =>
           live.done /\ live.pages = <<>>
  PROVE  /\ RangesKept
         /\ DOMAIN ranges' = DOMAIN ranges
         /\ \A i \in DOMAIN ranges : ranges'[i] = IF i = id THEN live ELSE ranges[i]
<1>1. ranges \in Seq(Live) /\ id \in 1..Len(ranges)
      /\ DOMAIN ranges = 1..Len(ranges)
  BY TypeFacts DEF TypeOK
<1>2. /\ ranges' \in Seq(Live) /\ Len(ranges') = Len(ranges)
      /\ \A i \in 1..Len(ranges) :
           ranges'[i] = IF i = id THEN live ELSE ranges[i]
  BY <1>1, ExceptSeq
<1>3. DOMAIN ranges' = DOMAIN ranges
  BY <1>1, <1>2, LenProperties
<1>4. QED
  BY <1>1, <1>2, <1>3 DEF RangesKept

\* What a step of one worker that splits nothing has to show.
LEMMA WorkerControl ==
  ASSUME ControlInv, RangesKept, NEW w \in Workers,
         NEW x \in [pc : {"idle", "listing", "leaving", "returned"},
                   id : Nat, after : Nat, empty : Nat,
                   left : {"done", "paused", "error"}],
         worker' = [worker EXCEPT ![w] = x],
         buffered' \in Int, failure' \in BOOLEAN, stop' \in BOOLEAN,
         OneWorkerPerRange', InsideIsOpen',
         UNCHANGED <<order, taking, cancelled, caller, delivered, result>>
  PROVE  ControlInv'
<1> USE DEF ControlInv
<1>1. /\ order' \in Seq(DOMAIN ranges') /\ Len(order') = Len(ranges')
      /\ OrderIsPermutation' /\ PlannedInOrder'
  BY OrderKept
<1>2. CallerInSync'
  BY CallerInSyncKept
<1>3. worker' \in [Workers -> [pc : {"idle", "listing", "leaving", "returned"},
                              id : Nat, after : Nat, empty : Nat,
                              left : {"done", "paused", "error"}]]
  BY DEF TypeOK
<1>4. TypeOK'
  BY <1>1, <1>3, Zenon DEF TypeOK, RangesKept
<1>5. QED
  BY <1>1, <1>2, <1>4

LEMMA RangesUnchanged ==
  ASSUME TypeOK, UNCHANGED ranges
  PROVE  RangesKept
  BY DEF RangesKept, TypeOK

LEMMA ClaimIdleControl ==
  ASSUME ControlInv, NEW w \in Workers, NEW p \in Ahead,
         ClaimIdle(w, p)
  PROVE  ControlInv'
<1> USE DEF ControlInv
<1> DEFINE id == order[p]
           live == [ranges[id] EXCEPT !.busy = TRUE]
           x == [pc |-> "listing", id |-> id,
                 after |-> ranges[id].range.start_after, empty |-> 0,
                 left |-> "done"]
<1>1. p \in DOMAIN order /\ id \in DOMAIN ranges /\ id \in Nat
      /\ ranges[id] \in Live
  BY TypeFacts DEF Ahead
<1>2. ~ranges[id].done /\ ~ranges[id].busy
  BY DEF ClaimIdle, Earliest, Idle, Open
<1>3. live \in Live /\ live.planned = ranges[id].planned /\ live.busy
      /\ live.done = ranges[id].done
  BY <1>1 DEF Live
<1>4. ranges' = [ranges EXCEPT ![id] = live]
  BY <1>1 DEF ClaimIdle
<1>5. x \in [pc : {"idle", "listing", "leaving", "returned"},
            id : Nat, after : Nat, empty : Nat, left : {"done", "paused", "error"}]
  BY <1>1 DEF Live, ListRange
<1>6. worker' = [worker EXCEPT ![w] = x]
  BY DEF ClaimIdle, Lists
<1>7. worker[w].pc = "idle"
  BY DEF ClaimIdle, MayClaim
<1> HIDE DEF live, x
<1>8. /\ RangesKept
      /\ DOMAIN ranges' = DOMAIN ranges
      /\ \A i \in DOMAIN ranges : ranges'[i] = IF i = id THEN live ELSE ranges[i]
  BY <1>1, <1>2, <1>3, <1>4, OneRangeChanges
<1>9. /\ \A v \in Workers : v # w => worker'[v] = worker[v]
      /\ worker'[w].pc = "listing" /\ worker'[w].id = id
  BY <1>6 DEF x, TypeOK
<1>10. \A v \in Workers : Inside(v)' <=> (Inside(v) \/ v = w)
  BY <1>7, <1>9 DEF Inside
<1>11. \A v \in Workers : Inside(v) => worker[v].id # id /\ v # w
  BY <1>1, <1>2, <1>7 DEF OneWorkerPerRange, Inside
<1>12. OneWorkerPerRange'
  BY <1>1, <1>3, <1>8, <1>9, <1>10, <1>11 DEF OneWorkerPerRange
<1>13. InsideIsOpen'
  BY <1>1, <1>2, <1>3, <1>8, <1>9, <1>10, <1>11 DEF InsideIsOpen
<1>14. UNCHANGED <<order, taking, buffered, failure, stop, cancelled, caller,
                   delivered, result>>
  BY DEF ClaimIdle
<1>15. buffered' \in Int /\ failure' \in BOOLEAN /\ stop' \in BOOLEAN
  BY <1>14, Zenon DEF TypeOK
<1>16. QED
  BY <1>5, <1>6, <1>8, <1>12, <1>13, <1>14, <1>15, WorkerControl

\* A worker returns, or its stream ends without touching any range.
LEMMA WorkerMovesControl ==
  ASSUME ControlInv, NEW w \in Workers,
         Exit(w) \/ PageAfterStop(w) \/ RequestFails(w)
  PROVE  ControlInv'
<1> USE DEF ControlInv
<1> DEFINE X == [pc : {"idle", "listing", "leaving", "returned"},
               id : Nat, after : Nat, empty : Nat, left : {"done", "paused", "error"}]
<1>1. worker[w] \in X
  BY DEF TypeOK
<1>2. PICK x \in X : /\ worker' = [worker EXCEPT ![w] = x]
                     /\ x.id = worker[w].id
                     /\ x.pc \in {"listing", "leaving"} <=> Inside(w)
  <2>1. CASE Exit(w)
    <3>1. [worker[w] EXCEPT !.pc = "returned"] \in X
      BY <1>1
    <3>2. worker' = [worker EXCEPT ![w] = [worker[w] EXCEPT !.pc = "returned"]]
      BY <2>1 DEF Exit, TypeOK
    <3>3. ~Inside(w)
      BY <2>1 DEF Exit, Inside
    <3>4. QED
      BY <1>1, <3>1, <3>2, <3>3
  <2>2. ASSUME NEW left \in {"done", "error"}, Leaves(w, left), worker[w].pc = "listing"
        PROVE  \E x \in X : /\ worker' = [worker EXCEPT ![w] = x]
                            /\ x.id = worker[w].id
                            /\ x.pc \in {"listing", "leaving"} <=> Inside(w)
    <3> DEFINE x == [worker[w] EXCEPT !.pc = "leaving", !.left = left,
                                      !.after = NoKey, !.empty = 0]
    <3>1. x \in X /\ x.id = worker[w].id /\ x.pc = "leaving"
      BY <1>1 DEF NoKey
    <3>2. worker' = [worker EXCEPT ![w] = x]
      BY <2>2 DEF Leaves, TypeOK
    <3>3. Inside(w)
      BY <2>2 DEF Inside
    <3>4. QED
      BY <3>1, <3>2, <3>3
  <2>3. QED
    BY <2>1, <2>2 DEF PageAfterStop, RequestFails
<1>3. UNCHANGED <<shared, caller, delivered, result>>
  BY DEF Exit, PageAfterStop, RequestFails
<1>4. RangesKept
  BY <1>3, RangesUnchanged DEF shared
<1>5. \A v \in Workers : /\ Inside(v)' <=> Inside(v)
                         /\ worker'[v].id = worker[v].id
  BY <1>2 DEF Inside, TypeOK
<1>6. OneWorkerPerRange' /\ InsideIsOpen'
  BY <1>3, <1>4, <1>5, SameInside DEF shared
<1>7. cancelled' = cancelled
  BY DEF Exit, PageAfterStop, RequestFails
<1>8. buffered' \in Int /\ failure' \in BOOLEAN /\ stop' \in BOOLEAN
  BY <1>3, Zenon DEF TypeOK, shared
<1>9. QED
  BY <1>2, <1>3, <1>4, <1>6, <1>7, <1>8, WorkerControl DEF shared

LEMMA LeaveControl ==
  ASSUME ControlInv, NEW w \in Workers, Leave(w)
  PROVE  ControlInv'
<1> USE DEF ControlInv
<1> DEFINE X == [pc : {"idle", "listing", "leaving", "returned"},
               id : Nat, after : Nat, empty : Nat, left : {"done", "paused", "error"}]
           id == worker[w].id
           live == [ranges[id] EXCEPT !.busy = FALSE,
                                      !.done = @ \/ worker[w].left = "done"]
           x == [worker[w] EXCEPT !.pc = "idle", !.id = 0, !.left = "done"]
<1>1. worker[w].pc = "leaving" /\ Inside(w) /\ worker[w] \in X
  BY DEF Leave, Inside, TypeOK
<1>2. id \in DOMAIN ranges /\ ~ranges[id].done /\ ranges[id] \in Live
  BY <1>1, TypeFacts DEF InsideIsOpen
<1>3. live.planned = ranges[id].planned /\ ~live.busy
  BY <1>2 DEF Live
<1>4. live \in Live
  <2>1. (ranges[id].done \/ worker[w].left = "done") \in BOOLEAN
    OBVIOUS
  <2>2. QED
    BY <1>2, <2>1 DEF Live
<1>5. ranges' = [ranges EXCEPT ![id] = live]
  BY <1>2 DEF Leave
<1>6. x \in X /\ x.pc = "idle"
  BY <1>1
<1>7. worker' = [worker EXCEPT ![w] = x]
  BY DEF Leave, TypeOK
<1>8. /\ buffered' \in Int
      /\ UNCHANGED <<order, taking, cancelled, caller, delivered, result>>
  BY DEF Leave, TypeOK
<1>9. failure' \in BOOLEAN /\ stop' \in BOOLEAN
  BY DEF Leave
<1> HIDE DEF live, x
<1>10. /\ RangesKept
       /\ DOMAIN ranges' = DOMAIN ranges
       /\ \A i \in DOMAIN ranges : ranges'[i] = IF i = id THEN live ELSE ranges[i]
  BY <1>2, <1>3, <1>4, <1>5, OneRangeChanges
<1>11. /\ \A v \in Workers : v # w => worker'[v] = worker[v]
       /\ worker'[w].pc = "idle"
  BY <1>6, <1>7 DEF TypeOK
<1>12. \A v \in Workers : Inside(v)' <=> (Inside(v) /\ v # w)
  BY <1>11 DEF Inside
<1>13. \A v \in Workers : Inside(v) /\ v # w => worker[v].id # id
  BY <1>1 DEF OneWorkerPerRange
<1>14. OneWorkerPerRange'
  BY <1>2, <1>3, <1>10, <1>11, <1>12, <1>13 DEF OneWorkerPerRange
<1>15. InsideIsOpen'
  BY <1>10, <1>11, <1>12, <1>13 DEF InsideIsOpen
<1>16. QED
  BY <1>6, <1>7, <1>8, <1>9, <1>10, <1>14, <1>15, WorkerControl

\* Pages are finite sets of positions.
LEMMA PageFacts ==
  ASSUME NEW S \in SUBSET Key
  PROVE  /\ Cardinality(S) \in Nat
         /\ S # {} => Max(S) \in S /\ Max(S) \in Nat /\ \A k \in S : k <= Max(S)
<1>1. MaxKey \in Nat /\ S \in SUBSET (0..MaxKey)
  BY ConstantsAssumption DEF Position
<1>2. IsFiniteSet(0..MaxKey)
  BY <1>1, FS_Interval
<1>3. Cardinality(S) \in Nat
  BY <1>1, <1>2, FS_Subset, FS_CardinalityType
<1>4. S # {} => Max(S) \in S /\ \A k \in S : k <= Max(S)
  BY <1>1, MaxOfBounded
<1>5. S # {} => Max(S) \in Nat
  <2> SUFFICES ASSUME S # {} PROVE Max(S) \in Nat
    OBVIOUS
  <2>1. Max(S) \in S
    BY <1>4
  <2>2. \A k \in S : k \in Nat
    BY <1>1
  <2>3. QED
    BY <2>1, <2>2
<1>6. QED
  BY <1>3, <1>4, <1>5

LEMMA HandOverControl ==
  ASSUME ControlInv, NEW w \in Workers, HandOver(w)
  PROVE  ControlInv'
<1> USE DEF ControlInv
<1> DEFINE X == [pc : {"idle", "listing", "leaving", "returned"},
               id : Nat, after : Nat, empty : Nat, left : {"done", "paused", "error"}]
           id == worker[w].id
           live == ranges[id]
<1>1. worker[w].pc = "listing" /\ Inside(w) /\ worker[w] \in X
  BY DEF HandOver, Inside, TypeOK
<1>2. id \in DOMAIN ranges /\ ~live.done /\ live \in Live
  BY <1>1, TypeFacts DEF InsideIsOpen
<1>3. PICK r \in Responses(live.range.prefix, worker[w].after) :
           LET kept == Kept(live.range, r.keys)
               reachedEnd == \E k \in r.keys : k >= live.range.until
               resume == IF reachedEnd \/ r.keys = {}
                         THEN live.range.start_after ELSE Max(r.keys)
               next == [live EXCEPT
                          !.range.start_after = resume,
                          !.emitted = IF kept = {} THEN @ ELSE Max(kept),
                          !.handed = @ + Cardinality(kept),
                          !.queued = @ + Cardinality(kept),
                          !.pages = IF kept = {} THEN @ ELSE Append(@, kept)]
           IN  /\ ranges' = [ranges EXCEPT ![id] = next]
               /\ buffered' = buffered + Cardinality(kept)
               /\ Continue(w, r, reachedEnd, HasRoom(ranges', buffered', id))
  BY DEF HandOver
<1> DEFINE kept == Kept(live.range, r.keys)
           reachedEnd == \E k \in r.keys : k >= live.range.until
           resume == IF reachedEnd \/ r.keys = {}
                     THEN live.range.start_after ELSE Max(r.keys)
           next == [live EXCEPT
                      !.range.start_after = resume,
                      !.emitted = IF kept = {} THEN @ ELSE Max(kept),
                      !.handed = @ + Cardinality(kept),
                      !.queued = @ + Cardinality(kept),
                      !.pages = IF kept = {} THEN @ ELSE Append(@, kept)]
<1>4. r.keys \in SUBSET Key /\ kept \in SUBSET Key
  BY DEF Responses, Kept
<1>5. /\ Cardinality(kept) \in Nat
      /\ kept # {} => Max(kept) \in Nat
      /\ r.keys # {} => Max(r.keys) \in Nat
  BY <1>4, PageFacts
<1>6. resume \in Nat
  BY <1>2, <1>5 DEF Live, ListRange
<1>7. ranges' = [ranges EXCEPT ![id] = next]
      /\ buffered' = buffered + Cardinality(kept)
      /\ Continue(w, r, reachedEnd, HasRoom(ranges', buffered', id))
  BY <1>3
<1>8. next \in Live /\ next.planned = live.planned /\ next.done = live.done
      /\ next.busy = live.busy
  <2> HIDE DEF kept, resume, live
  <2>1. [live.range EXCEPT !.start_after = resume] \in ListRange
    BY <1>2, <1>6 DEF Live, ListRange
  <2>2. (IF kept = {} THEN live.emitted ELSE Max(kept)) \in Nat
    BY <1>2, <1>5 DEF Live
  <2>3. live.handed + Cardinality(kept) \in Nat /\ live.queued + Cardinality(kept) \in Int
    BY <1>2, <1>5 DEF Live
  <2>4. (IF kept = {} THEN live.pages ELSE Append(live.pages, kept)) \in Seq(SUBSET Key)
    <3>1. live.pages \in Seq(SUBSET Key)
      BY <1>2 DEF Live
    <3>2. QED
      BY <1>4, <3>1, AppendProperties
  <2>5. QED
    BY <1>2, <2>1, <2>2, <2>3, <2>4 DEF Live
<1>9. PICK x \in X : /\ worker' = [worker EXCEPT ![w] = x]
                     /\ x.id = id /\ x.pc \in {"listing", "leaving"}
  <2> DEFINE again(after, empty) == [worker[w] EXCEPT !.after = after, !.empty = empty]
             leaving(left) == [worker[w] EXCEPT !.pc = "leaving", !.left = left,
                                                !.after = NoKey, !.empty = 0]
             empty == IF r.keys = {} THEN worker[w].empty + 1 ELSE 0
             after == IF r.keys = {} THEN worker[w].after ELSE Max(r.keys)
  <2>1. empty \in Nat /\ after \in Nat
    BY <1>1, <1>5
  <2>2. again(after, empty) \in X /\ again(after, empty).id = id
        /\ again(after, empty).pc = "listing"
    BY <1>1, <2>1
  <2>3. ASSUME NEW left \in {"done", "paused", "error"}
        PROVE  /\ leaving(left) \in X /\ leaving(left).id = id
               /\ leaving(left).pc = "leaving"
    BY <1>1 DEF NoKey
  <2>4. \A left : Leaves(w, left) => worker' = [worker EXCEPT ![w] = leaving(left)]
    BY DEF Leaves, TypeOK
  <2>5. \/ \E left \in {"done", "paused", "error"} : Leaves(w, left)
        \/ worker' = [worker EXCEPT ![w].after = after, ![w].empty = empty]
    BY <1>7 DEF Continue
  <2>6. [worker EXCEPT ![w].after = after, ![w].empty = empty]
          = [worker EXCEPT ![w] = again(after, empty)]
    BY DEF TypeOK
  <2> HIDE DEF again, leaving, after, empty
  <2>7. QED
    BY <2>2, <2>3, <2>4, <2>5, <2>6
<1>10. UNCHANGED <<order, taking, failure, stop, cancelled, caller, delivered, result>>
  BY DEF HandOver
<1> HIDE DEF next, kept, resume
<1>11. buffered' \in Int
  BY <1>5, <1>7 DEF TypeOK
<1>12. failure' \in BOOLEAN /\ stop' \in BOOLEAN
  BY <1>10, Zenon DEF TypeOK
<1>13. /\ RangesKept
       /\ DOMAIN ranges' = DOMAIN ranges
       /\ \A i \in DOMAIN ranges : ranges'[i] = IF i = id THEN next ELSE ranges[i]
  BY <1>2, <1>7, <1>8, OneRangeChanges
<1>14. \A v \in Workers : /\ Inside(v)' <=> Inside(v)
                          /\ worker'[v].id = worker[v].id
  BY <1>1, <1>9 DEF Inside, TypeOK
<1>15. OneWorkerPerRange' /\ InsideIsOpen'
  BY <1>2, <1>8, <1>13, <1>14, SameInside
<1>16. QED
  BY <1>9, <1>10, <1>11, <1>12, <1>13, <1>15, WorkerControl

(***************************************************************************)
(* The caller's steps.                                                     *)
(***************************************************************************)
CallerType == [pc : {"step", "page", "next", "half", "stopping", "joining",
                     "returned"},
               step : Nat \ {0}, position : Nat \ {0}, failed : BOOLEAN]

LEMMA CallerFacts ==
  ASSUME TypeOK,
         NEW pc \in {"step", "page", "next", "half", "stopping", "joining", "returned"}
  PROVE  LET onward  == [caller EXCEPT !.pc = pc, !.step = @ + 1]
             onto    == [caller EXCEPT !.pc = pc, !.position = @ + 1]
             instead == [caller EXCEPT !.pc = pc]
         IN  /\ caller.step \in Nat \ {0} /\ caller.position \in Nat \ {0}
             /\ onward \in CallerType /\ onto \in CallerType
             /\ instead \in CallerType
             /\ caller.pc = "step" => [caller EXCEPT !.step = @ + 1] \in CallerType
             /\ onward.pc = pc /\ onward.step = caller.step + 1
             /\ onward.position = caller.position
             /\ onto.pc = pc /\ onto.step = caller.step
             /\ onto.position = caller.position + 1
             /\ instead.pc = pc /\ instead.step = caller.step
             /\ instead.position = caller.position
<1>1. caller \in CallerType
  BY DEF TypeOK, CallerType
<1>2. caller.step \in Nat \ {0} /\ caller.position \in Nat \ {0}
  BY <1>1 DEF CallerType
<1>3. caller.step + 1 \in Nat \ {0} /\ caller.position + 1 \in Nat \ {0}
  BY <1>2
<1>4. QED
  BY <1>1, <1>2, <1>3 DEF CallerType

\* What a step of the caller has to show besides what it does to CallerInSync.
LEMMA CallerControl ==
  ASSUME ControlInv, RangesKept,
         \A id \in DOMAIN ranges : /\ ranges'[id].busy = ranges[id].busy
                                   /\ ranges'[id].done = ranges[id].done,
         UNCHANGED <<order, worker, cancelled>>,
         taking' \in Nat \ {0}, buffered' \in Int, failure' \in BOOLEAN,
         stop' \in BOOLEAN, caller' \in CallerType,
         delivered' \in Seq(SUBSET Key), result' \in {"running", "ok", "failed"},
         CallerInSync'
  PROVE  ControlInv'
<1> USE DEF ControlInv
<1>1. /\ order' \in Seq(DOMAIN ranges') /\ Len(order') = Len(ranges')
      /\ OrderIsPermutation' /\ PlannedInOrder'
  BY OrderKept
<1>2. \A w \in Workers : (Inside(w)' <=> Inside(w)) /\ worker'[w].id = worker[w].id
  BY DEF Inside
<1>3. OneWorkerPerRange' /\ InsideIsOpen'
  BY <1>2, SameInside
<1>4. TypeOK'
  BY <1>1, Zenon DEF TypeOK, RangesKept, CallerType
<1>5. QED
  BY <1>1, <1>3, <1>4

\* The caller leaves `take`: only the ranges behind it matter from then on.
LEMMA OutOfTake ==
  ASSUME TypeOK, CallerInSync, RangesKept, UNCHANGED <<order, taking>>,
         caller'.pc \in {"stopping", "joining", "returned"}
  PROVE  CallerInSync'
<1>1. \A p \in DOMAIN order : Gone(p) => Gone(p)'
  BY TypeFacts DEF RangesKept, Gone
<1>2. taking <= Len(order) /\ \A p \in 1..taking - 1 : p \in DOMAIN order
  BY TypeFacts DEF CallerInSync, TakenInOrder
<1>3. TakenInOrder'
  BY <1>1, <1>2 DEF CallerInSync, TakenInOrder
<1>4. StepsInSync'
  BY DEF StepsInSync, InTake
<1>5. QED
  BY <1>3, <1>4 DEF CallerInSync

\* Taking a page leaves the range with the others of its queue.
LEMMA PoppedFacts ==
  ASSUME TypeOK, CallerInSync, CanTakePage, ranges' = Popped,
         buffered' = buffered - Cardinality(Head(Taken.pages))
  PROVE  /\ RangesKept
         /\ \A id \in DOMAIN ranges : /\ ranges'[id].busy = ranges[id].busy
                                      /\ ranges'[id].done = ranges[id].done
         /\ Head(Taken.pages) \in SUBSET Key
         /\ buffered' \in Int
<1> DEFINE id == order[caller.position]
           live == [ranges[id] EXCEPT !.pages = Tail(@),
                      !.queued = @ - Cardinality(Head(Taken.pages))]
<1>1. caller.position \in DOMAIN order /\ id \in DOMAIN ranges /\ ranges[id] \in Live
      /\ Taken = ranges[id]
  BY TypeFacts DEF CanTakePage, CallerInSync, TakenInOrder, Taken
<1>2. ranges[id].pages \in Seq(SUBSET Key) /\ ranges[id].pages # <<>>
  BY <1>1 DEF CanTakePage, Live
<1>3. Head(Taken.pages) \in SUBSET Key /\ Tail(ranges[id].pages) \in Seq(SUBSET Key)
  BY <1>1, <1>2, HeadTailProperties
<1>4. Cardinality(Head(Taken.pages)) \in Nat
  BY <1>3, PageFacts
<1>5. ranges' = [ranges EXCEPT ![id] = live]
  BY <1>1 DEF Popped
<1>6. live.queued \in Int /\ live.pages = Tail(ranges[id].pages)
  BY <1>1, <1>4 DEF Live
<1>7. live \in Live /\ live.planned = ranges[id].planned
      /\ live.busy = ranges[id].busy /\ live.done = ranges[id].done
  BY <1>1, <1>3, <1>6 DEF Live
<1>8. buffered' \in Int
  BY <1>4 DEF TypeOK
<1> HIDE DEF live
<1>9. /\ RangesKept
      /\ \A i \in DOMAIN ranges : ranges'[i] = IF i = id THEN live ELSE ranges[i]
  BY <1>1, <1>2, <1>5, <1>7, OneRangeChanges
<1>10. QED
  BY <1>3, <1>7, <1>8, <1>9

LEMMA TakePageControl == ControlInv /\ TakePage => ControlInv'
<1> SUFFICES ASSUME ControlInv, TakePage PROVE ControlInv'
  OBVIOUS
<1> USE DEF ControlInv
<1>1. /\ RangesKept
      /\ \A id \in DOMAIN ranges : /\ ranges'[id].busy = ranges[id].busy
                                   /\ ranges'[id].done = ranges[id].done
      /\ Head(Taken.pages) \in SUBSET Key
      /\ buffered' \in Int
  BY PoppedFacts DEF TakePage
<1>2. UNCHANGED <<order, taking, failure, stop, cancelled, worker, caller, result>>
  BY DEF TakePage
<1>3. CallerInSync'
  BY <1>1, <1>2, CallerInSyncKept
<1>4. delivered' \in Seq(SUBSET Key)
  BY <1>1, AppendProperties DEF TakePage, TypeOK
<1>5. taking' \in Nat \ {0} /\ caller' \in CallerType
  BY <1>2 DEF TypeOK, CallerType
<1>6. failure' \in BOOLEAN /\ stop' \in BOOLEAN
      /\ result' \in {"running", "ok", "failed"}
  BY <1>2, Zenon DEF TypeOK
<1>7. QED
  BY <1>1, <1>2, <1>3, <1>4, <1>5, <1>6, CallerControl

LEMMA SinkFailsControl == ControlInv /\ SinkFails => ControlInv'
<1> SUFFICES ASSUME ControlInv, SinkFails PROVE ControlInv'
  OBVIOUS
<1> USE DEF ControlInv
<1>1. /\ RangesKept
      /\ \A id \in DOMAIN ranges : /\ ranges'[id].busy = ranges[id].busy
                                   /\ ranges'[id].done = ranges[id].done
      /\ buffered' \in Int
  <2>1. CASE AtObjects /\ UNCHANGED <<ranges, buffered>>
    BY <2>1, RangesUnchanged DEF TypeOK
  <2>2. CASE CanTakePage /\ ranges' = Popped
             /\ buffered' = buffered - Cardinality(Head(Taken.pages))
    BY <2>2, PoppedFacts
  <2>3. QED
    BY <2>1, <2>2 DEF SinkFails
<1>2. UNCHANGED <<order, taking, failure, stop, cancelled, worker, delivered, result>>
      /\ caller' = [caller EXCEPT !.pc = "stopping", !.failed = TRUE]
  BY DEF SinkFails, Fails
<1>3. caller' \in CallerType /\ caller'.pc = "stopping"
  BY <1>2 DEF TypeOK, CallerType
<1>4. CallerInSync'
  BY <1>1, <1>2, <1>3, OutOfTake
<1>5. delivered' \in Seq(SUBSET Key) /\ taking' \in Nat \ {0}
  BY <1>2 DEF TypeOK
<1>6. failure' \in BOOLEAN /\ stop' \in BOOLEAN
      /\ result' \in {"running", "ok", "failed"}
  BY <1>2, Zenon DEF TypeOK
<1>7. QED
  BY <1>1, <1>2, <1>3, <1>4, <1>5, <1>6, CallerControl

\* The caller gives up, ends the listing or joins the workers.
LEMMA EndControl == ControlInv /\ (TakeFailure \/ Stop \/ Join) => ControlInv'
<1> SUFFICES ASSUME ControlInv, TakeFailure \/ Stop \/ Join PROVE ControlInv'
  OBVIOUS
<1> USE DEF ControlInv
<1>1. UNCHANGED <<ranges, order, taking, buffered, cancelled, worker, delivered>>
  BY DEF TakeFailure, Stop, Join, shared
<1>2. caller' \in CallerType /\ caller'.pc \in {"stopping", "joining", "returned"}
  BY DEF TakeFailure, Stop, Join, Fails, TypeOK, CallerType
<1>3. failure' \in BOOLEAN /\ stop' \in BOOLEAN
  BY Zenon DEF TakeFailure, Stop, Join, shared, TypeOK
<1>4. result' \in {"running", "ok", "failed"}
  BY Zenon DEF TakeFailure, Stop, Join, TypeOK
<1>5. RangesKept
  BY <1>1, RangesUnchanged
<1>6. CallerInSync'
  BY <1>1, <1>2, <1>5, OutOfTake
<1>7. delivered' \in Seq(SUBSET Key) /\ taking' \in Nat \ {0} /\ buffered' \in Int
  BY <1>1 DEF TypeOK
<1>8. QED
  BY <1>1, <1>2, <1>3, <1>4, <1>5, <1>6, <1>7, CallerControl

(***************************************************************************)
(* The caller's way through the plan.                                      *)
(***************************************************************************)
\* Two planned ranges of one step are one range, and steps are numbers.
LEMMA StepFacts ==
  ASSUME NEW at \in [DOMAIN Planned -> DOMAIN Steps], InStep(at)
  PROVE  /\ \A i \in DOMAIN Planned :
              at[i] \in Nat \ {0} /\ Steps[at[i]] = NextRange
         /\ \A i, j \in DOMAIN Planned : at[i] = at[j] => i = j
<1>1. DOMAIN Steps = 1..Len(Steps) /\ Len(Steps) \in Nat
      /\ DOMAIN Planned = 1..Len(Planned) /\ Len(Planned) \in Nat
  BY PlanAssumption, LenProperties
<1>2. \A i \in DOMAIN Planned : at[i] \in Nat \ {0}
  BY <1>1
<1>3. \A i \in DOMAIN Planned : Steps[at[i]] = NextRange
  BY DEF InStep
<1>4. ASSUME NEW i \in DOMAIN Planned, NEW j \in DOMAIN Planned, at[i] = at[j]
      PROVE  i = j
  <2>1. i < j => at[i] < at[j]
    BY DEF InStep
  <2>2. j < i => at[j] < at[i]
    BY DEF InStep
  <2>3. i \in Nat /\ j \in Nat /\ at[i] \in Nat /\ at[j] \in Nat
    BY <1>1, <1>2
  <2>4. QED
    BY <1>4, <2>1, <2>2, <2>3
<1>5. QED
  BY <1>2, <1>3, <1>4

\* A step of the caller that leaves the ranges alone.
LEMMA WalkControl ==
  ASSUME ControlInv,
         UNCHANGED <<ranges, order, buffered, failure, stop, cancelled, worker, result>>,
         taking' \in Nat \ {0}, caller' \in CallerType,
         delivered' \in Seq(SUBSET Key), CallerInSync'
  PROVE  ControlInv'
<1> USE DEF ControlInv
<1>1. RangesKept
  BY RangesUnchanged
<1>2. buffered' \in Int
  BY DEF TypeOK
<1>3. failure' \in BOOLEAN /\ stop' \in BOOLEAN
      /\ result' \in {"running", "ok", "failed"}
  BY Zenon DEF TypeOK
<1>4. QED
  BY <1>1, <1>2, <1>3, CallerControl

LEMMA SinkObjectsControl == ControlInv /\ SinkObjects => ControlInv'
<1> SUFFICES ASSUME ControlInv, SinkObjects PROVE ControlInv'
  OBVIOUS
<1> USE DEF ControlInv
<1>1. /\ caller.pc = "step" /\ caller.step <= Len(Steps)
      /\ Steps[caller.step] # NextRange
      /\ caller' = [caller EXCEPT !.step = @ + 1]
      /\ UNCHANGED <<ranges, order, taking, buffered, failure, stop, cancelled,
                     worker, result>>
  BY DEF SinkObjects, AtObjects, shared
<1>2. caller' \in CallerType /\ caller'.pc = "step"
      /\ caller'.position = caller.position /\ caller'.step = caller.step + 1
  BY <1>1, CallerFacts
<1>3. delivered' \in Seq(SUBSET Key)
  <2>1. Steps \in Seq(SUBSET Key) /\ caller.step \in 1..Len(Steps)
    BY <1>1, PlanAssumption, TypeFacts, LenProperties
  <2>2. Steps[caller.step] \in SUBSET Key
    BY <2>1, ElementOfSeq
  <2>3. QED
    BY <2>2, AppendProperties DEF SinkObjects, TypeOK
<1>4. TakenInOrder'
  BY <1>1, <1>2 DEF CallerInSync, TakenInOrder, Gone
<1>5. StepsInSync'
  <2> SUFFICES ASSUME NEW at \in [DOMAIN Planned -> DOMAIN Steps], InStep(at),
                      NEW p \in DOMAIN order, ranges[order[p]].planned
               PROVE  Behind(p)' <=> Begun(at[order[p]])'
    BY <1>1 DEF StepsInSync, Begun
  <2>1. order[p] \in DOMAIN Planned
    BY TypeFacts DEF PlannedInOrder
  <2>2. at[order[p]] \in Nat \ {0} /\ at[order[p]] # caller.step
    BY <1>1, <2>1, StepFacts
  <2>3. Behind(p) <=> Begun(at[order[p]])
    BY <1>1 DEF CallerInSync, StepsInSync, InTake
  <2>4. Begun(at[order[p]])' <=> Begun(at[order[p]])
    BY <1>1, <1>2, <2>2, TypeFacts DEF Begun
  <2>5. Behind(p)' <=> Behind(p)
    BY <1>1, <1>2 DEF Behind
  <2>6. QED
    BY <2>3, <2>4, <2>5
<1>6. taking' \in Nat \ {0}
  BY <1>1 DEF TypeOK
<1>7. QED
  BY <1>1, <1>2, <1>3, <1>4, <1>5, <1>6, WalkControl DEF CallerInSync

LEMMA DrainedControl == ControlInv /\ Drained => ControlInv'
<1> SUFFICES ASSUME ControlInv, Drained PROVE ControlInv'
  OBVIOUS
<1> USE DEF ControlInv
<1>1. /\ caller.pc = "page" /\ Taken.pages = <<>> /\ Taken.done
      /\ caller' = [caller EXCEPT !.pc = "next", !.position = @ + 1]
      /\ UNCHANGED <<ranges, order, taking, buffered, failure, stop, cancelled,
                     worker, delivered, result>>
  BY DEF Drained, shared
<1>2. /\ caller' \in CallerType /\ caller'.pc = "next"
      /\ caller'.position = caller.position + 1 /\ caller'.step = caller.step
  BY <1>1, CallerFacts
<1>3. caller.position = taking /\ Gone(taking)
  BY <1>1 DEF CallerInSync, TakenInOrder, Gone, Taken
<1>4. TakenInOrder'
  BY <1>1, <1>2, <1>3 DEF CallerInSync, TakenInOrder, Gone
<1>5. \A p \in DOMAIN order : Behind(p)' <=> Behind(p)
  BY <1>1, <1>2, TypeFacts DEF Behind
<1>6. \A s : Begun(s)' <=> Begun(s)
  BY <1>1, <1>2 DEF Begun
<1>7. StepsInSync'
  BY <1>1, <1>5, <1>6 DEF CallerInSync, StepsInSync, InTake
<1>8. delivered' \in Seq(SUBSET Key) /\ taking' \in Nat \ {0}
  BY <1>1 DEF TypeOK
<1>9. QED
  BY <1>1, <1>2, <1>4, <1>7, <1>8, WalkControl DEF CallerInSync

LEMMA AdvanceControl == ControlInv /\ Advance => ControlInv'
<1> SUFFICES ASSUME ControlInv, Advance PROVE ControlInv'
  OBVIOUS
<1> USE DEF ControlInv
<1> DEFINE toHalf == caller.position <= Len(order)
                       /\ ~ranges[order[caller.position]].planned
<1>1. /\ caller.pc = "next"
      /\ UNCHANGED <<ranges, order, taking, buffered, failure, stop, cancelled,
                     worker, delivered, result>>
  BY DEF Advance, shared
<1>2. /\ caller' \in CallerType /\ caller'.position = caller.position
      /\ toHalf => caller'.pc = "half" /\ caller'.step = caller.step
      /\ ~toHalf => caller'.pc = "step" /\ caller'.step = caller.step + 1
  BY CallerFacts DEF Advance
<1>3. TakenInOrder'
  BY <1>1, <1>2 DEF CallerInSync, TakenInOrder, Gone
<1>4. \A p \in DOMAIN order : Behind(p)' <=> Behind(p)
  BY <1>1, <1>2 DEF Behind
<1>5. \A s \in Nat : Begun(s)' <=> Begun(s)
  BY <1>1, <1>2, TypeFacts DEF Begun
<1>6. StepsInSync'
  <2> SUFFICES ASSUME NEW at \in [DOMAIN Planned -> DOMAIN Steps], InStep(at),
                      NEW p \in DOMAIN order, ranges[order[p]].planned
               PROVE  Behind(p)' <=> Begun(at[order[p]])'
    BY <1>1 DEF StepsInSync, Begun
  <2>1. at[order[p]] \in Nat
    BY StepFacts, TypeFacts DEF PlannedInOrder
  <2>2. Behind(p) <=> Begun(at[order[p]])
    BY <1>1 DEF CallerInSync, StepsInSync, InTake
  <2>3. QED
    BY <1>1, <1>4, <1>5, <2>1, <2>2 DEF Begun
<1>7. delivered' \in Seq(SUBSET Key) /\ taking' \in Nat \ {0}
  BY <1>1 DEF TypeOK
<1>8. QED
  BY <1>1, <1>2, <1>3, <1>6, <1>7, WalkControl DEF CallerInSync

\* Where the plan's next step is a range, that range is at the caller's
\* position in `order`, and no other planned range is taken at that step.
LEMMA AtNextRange ==
  ASSUME ControlInv, caller.pc = "step", AtRange,
         NEW at \in [DOMAIN Planned -> DOMAIN Steps], InStep(at)
  PROVE  /\ caller.position \in DOMAIN order
         /\ \A p \in DOMAIN order : ranges[order[p]].planned =>
              (p = caller.position <=> at[order[p]] = caller.step)
<1> USE DEF ControlInv
<1>1. caller.step \in DOMAIN Steps /\ Steps[caller.step] = NextRange
  BY TypeFacts, PlanAssumption, LenProperties DEF AtRange
<1>2. PICK i \in DOMAIN Planned : at[i] = caller.step
  BY <1>1 DEF InStep
<1>3. i \in DOMAIN ranges /\ ranges[i].planned
  <2>1. DOMAIN Planned = 1..Len(Planned) /\ Len(Planned) \in Nat
    BY PlanAssumption, LenProperties
  <2>2. i \in DOMAIN ranges
    BY <2>1, TypeFacts DEF PlannedInOrder
  <2>3. QED
    BY <2>2 DEF PlannedInOrder
<1>4. PICK p \in DOMAIN order : order[p] = i
  BY <1>3 DEF OrderIsPermutation
<1>5. \A q \in DOMAIN order : ranges[order[q]].planned =>
        (q < caller.position <=> at[order[q]] < caller.step)
  BY DEF CallerInSync, StepsInSync, InTake, Behind, Begun
<1>6. caller.position <= p /\ p \in 1..Len(order) /\ caller.position \in Nat \ {0}
  <2>1. ~(p < caller.position)
    BY <1>2, <1>3, <1>4, <1>5, TypeFacts
  <2>2. QED
    BY <2>1, TypeFacts
<1>7. caller.position \in DOMAIN order
  BY <1>6, TypeFacts
<1>8. ranges[order[caller.position]].planned
  BY <1>6 DEF CallerInSync, TakenInOrder
<1>9. p = caller.position
  <2> SUFFICES ASSUME caller.position < p PROVE FALSE
    BY <1>6
  <2>1. order[caller.position] \in DOMAIN Planned /\ order[p] \in DOMAIN Planned
    BY <1>2, <1>4, <1>7, <1>8, TypeFacts DEF PlannedInOrder
  <2>2. order[caller.position] < order[p]
    BY <1>7, <2>1 DEF PlannedInOrder
  <2>3. at[order[caller.position]] < caller.step
    BY <1>2, <1>4, <2>1, <2>2 DEF InStep
  <2>4. QED
    BY <1>5, <1>6, <1>7, <1>8, <2>3
<1>10. ASSUME NEW q \in DOMAIN order, ranges[order[q]].planned
       PROVE  q = caller.position <=> at[order[q]] = caller.step
  <2>1. order[q] \in DOMAIN Planned
    BY <1>10, TypeFacts DEF PlannedInOrder
  <2>2. at[order[q]] = caller.step => order[q] = i
    BY <1>2, <2>1, StepFacts
  <2>3. QED
    BY <1>2, <1>4, <1>9, <2>2 DEF OrderIsPermutation
<1>11. QED
  BY <1>7, <1>10

LEMMA StartTakingControl == ControlInv /\ StartTaking => ControlInv'
<1> SUFFICES ASSUME ControlInv, StartTaking PROVE ControlInv'
  OBVIOUS
<1> USE DEF ControlInv
<1>1. /\ taking' = caller.position
      /\ caller' = [caller EXCEPT !.pc = "page"]
      /\ UNCHANGED <<ranges, order, buffered, failure, stop, cancelled, worker,
                     delivered, result>>
      /\ (caller.pc = "step" /\ AtRange) \/ caller.pc = "half"
  BY DEF StartTaking, AtRange
<1>2. /\ caller' \in CallerType /\ caller'.pc = "page"
      /\ caller'.position = caller.position /\ caller'.step = caller.step
  BY <1>1, CallerFacts
<1>3. caller.position \in DOMAIN order
  <2>1. CASE caller.pc = "step" /\ AtRange
    <3>1. PICK at \in [DOMAIN Planned -> DOMAIN Steps] : InStep(at)
      BY PlanAssumption
    <3>2. QED
      BY <2>1, <3>1, AtNextRange
  <2>2. CASE caller.pc = "half"
    BY <2>2, TypeFacts DEF CallerInSync, TakenInOrder
  <2>3. QED
    BY <1>1, <2>1, <2>2
<1>4. TakenInOrder'
  <2>1. \A p \in 1..caller.position - 1 : Gone(p)
    <3>1. \/ caller.position = taking + 1 /\ Gone(taking)
          \/ caller.position = 1
      BY <1>1 DEF CallerInSync, TakenInOrder
    <3>2. QED
      BY <3>1, TypeFacts DEF CallerInSync, TakenInOrder
  <2>2. \A p : Gone(p)' <=> Gone(p)
    BY <1>1 DEF Gone
  <2>3. caller.position <= Len(order)
    BY <1>3, TypeFacts
  <2>4. QED
    BY <1>1, <1>2, <2>1, <2>2, <2>3 DEF TakenInOrder
<1>5. StepsInSync'
  <2> SUFFICES ASSUME NEW at \in [DOMAIN Planned -> DOMAIN Steps], InStep(at),
                      NEW p \in DOMAIN order, ranges[order[p]].planned
               PROVE  Behind(p)' <=> Begun(at[order[p]])'
    BY <1>1 DEF StepsInSync, Begun
  <2>1. p \in Nat /\ caller.position \in Nat /\ caller.step \in Nat
    BY TypeFacts
  <2>2. at[order[p]] \in Nat
    BY StepFacts, TypeFacts DEF PlannedInOrder
  <2>3. Behind(p) <=> Begun(at[order[p]])
    BY <1>1 DEF CallerInSync, StepsInSync, InTake
  <2>4. ASSUME caller.pc = "step", AtRange
        PROVE  p <= caller.position <=> at[order[p]] <= caller.step
    <3>1. p = caller.position <=> at[order[p]] = caller.step
      BY <2>4, AtNextRange
    <3>2. p < caller.position <=> at[order[p]] < caller.step
      BY <2>3, <2>4 DEF Behind, Begun
    <3>3. QED
      BY <2>1, <2>2, <3>1, <3>2
  <2>5. ASSUME caller.pc = "half"
        PROVE  p <= caller.position <=> at[order[p]] <= caller.step
    <3>1. p # caller.position
      BY <2>5 DEF CallerInSync, TakenInOrder
    <3>2. p < caller.position <=> (at[order[p]] < caller.step \/ at[order[p]] = caller.step)
      BY <2>3, <2>5 DEF Behind, Begun
    <3>3. QED
      BY <2>1, <2>2, <3>1, <3>2
  <2>6. p <= caller.position <=> at[order[p]] <= caller.step
    BY <1>1, <2>4, <2>5
  <2>7. Behind(p)' <=> p <= caller.position
    BY <1>2, <2>1 DEF Behind
  <2>8. Begun(at[order[p]])' <=> at[order[p]] <= caller.step
    BY <1>1, <1>2, <2>1, <2>2 DEF Begun
  <2>9. QED
    BY <2>6, <2>7, <2>8
<1>6. delivered' \in Seq(SUBSET Key) /\ taking' \in Nat \ {0}
  BY <1>1, TypeFacts DEF TypeOK
<1>7. QED
  BY <1>1, <1>2, <1>4, <1>5, <1>6, WalkControl DEF CallerInSync

(***************************************************************************)
(* A split.                                                                *)
(***************************************************************************)
LEMMA InsertFacts ==
  ASSUME TypeOK, NEW p \in DOMAIN order, NEW id \in Nat
  PROVE  /\ InsertAfter(p, id) \in Seq(DOMAIN ranges \cup {id})
         /\ Len(InsertAfter(p, id)) = Len(order) + 1
         /\ \A q \in 1..p : InsertAfter(p, id)[q] = order[q]
         /\ InsertAfter(p, id)[p + 1] = id
         /\ \A q \in p + 2..Len(order) + 1 : InsertAfter(p, id)[q] = order[q - 1]
<1> DEFINE n == Len(order)
           at(q) == IF q <= p THEN order[q] ELSE IF q = p + 1 THEN id ELSE order[q - 1]
<1>1. n \in Nat /\ p \in 1..n /\ DOMAIN order = 1..n
      /\ \A q \in 1..n : order[q] \in DOMAIN ranges
  BY TypeFacts
<1>2. \A q \in 1..n + 1 : at(q) \in DOMAIN ranges \cup {id}
  BY <1>1
<1>3. InsertAfter(p, id) = [q \in 1..n + 1 |-> at(q)]
  BY DEF InsertAfter
<1> HIDE DEF n
<1>4. InsertAfter(p, id) \in [1..n + 1 -> DOMAIN ranges \cup {id}]
  BY <1>2, <1>3
<1>5. InsertAfter(p, id) \in Seq(DOMAIN ranges \cup {id})
      /\ Len(InsertAfter(p, id)) = n + 1
  BY <1>1, <1>4
<1>6. QED
  BY <1>1, <1>3, <1>5 DEF n

\* What a split leaves of the other ranges, and what it makes of the two halves.
LEMMA SplitFacts ==
  ASSUME ControlInv, NEW w \in Workers, NEW p \in Ahead,
         SplitBusy(w, p)
  PROVE  LET id == Len(ranges) + 1
         IN  /\ p \in DOMAIN order
             /\ ~ranges[order[p]].done
             /\ ranges' \in Seq(Live) /\ Len(ranges') = id
             /\ \A i \in 1..Len(ranges) :
                  /\ ranges'[i].planned = ranges[i].planned
                  /\ ranges'[i].busy = ranges[i].busy
                  /\ ranges'[i].done = ranges[i].done
                  /\ ranges'[i].pages = ranges[i].pages
             /\ ~ranges'[id].planned /\ ranges'[id].busy /\ ~ranges'[id].done
             /\ order' = InsertAfter(p, id)
             /\ worker'[w] \in [pc : {"listing"}, id : {id}, after : Nat, empty : Nat,
                                left : {"done"}]
             /\ worker' = [worker EXCEPT ![w] = worker'[w]]
<1> USE DEF ControlInv
<1> DEFINE old    == ranges[order[p]]
           folder == old.range.folders[SplitAt(old)]
           half   == [old.range EXCEPT
                        !.start_after = Seek(folder),
                        !.from = folder,
                        !.folders = SubSeq(@, SplitAt(old), FolderEnd(old))]
           id     == Len(ranges) + 1
           kept   == [old EXCEPT !.range.until = folder]
           cut    == [ranges EXCEPT ![order[p]] = kept]
           x      == [pc |-> "listing", id |-> id, after |-> half.start_after,
                      empty |-> 0, left |-> "done"]
<1>1. p \in DOMAIN order /\ order[p] \in DOMAIN ranges /\ old \in Live
      /\ ranges \in Seq(Live) /\ order[p] \in 1..Len(ranges) /\ Len(ranges) \in Nat
  <2>1. p \in DOMAIN order
    BY TypeFacts DEF Ahead
  <2>2. ranges \in Seq(Live)
    BY DEF TypeOK
  <2>3. QED
    BY <2>1, <2>2, TypeFacts
<1>2. ~old.done /\ old.busy /\ HasUnreached(old)
  BY DEF SplitBusy, Earliest, Splittable, Open
<1>3. folder \in Position
  <2>1. SplitAt(old) \in DOMAIN old.range.folders
    BY <1>1, <1>2, SplitPoint
  <2>2. old.range.folders \in Seq(Position)
    BY <1>1 DEF Live, ListRange
  <2>3. QED
    BY <2>1, <2>2, LenProperties, ElementOfSeq
<1>4. half \in ListRange /\ half.start_after \in Nat
  <2>1. SubSeq(old.range.folders, SplitAt(old), FolderEnd(old)) \in Seq(Position)
    <3>1. old.range.folders \in Seq(Position)
      BY <1>1 DEF Live, ListRange
    <3>2. Len(old.range.folders) \in Nat
          /\ DOMAIN old.range.folders = 1..Len(old.range.folders)
      BY <3>1, LenProperties
    <3>3. SplitAt(old) \in 1..Len(old.range.folders)
          /\ FolderEnd(old) \in 1..Len(old.range.folders)
      BY <1>1, <1>2, <3>2, SplitPoint
    <3>4. \A i \in SplitAt(old)..FolderEnd(old) : old.range.folders[i] \in Position
      BY <3>1, <3>2, <3>3, ElementOfSeq
    <3>5. QED
      BY <3>2, <3>3, <3>4, SubSeqProperties
  <2>2. Seek(folder) \in Nat /\ folder \in Nat
    <3>1. folder \in Nat
      BY <1>3, ConstantsAssumption DEF Position
    <3> HIDE DEF folder
    <3>2. QED
      BY <3>1 DEF Seek
  <2> HIDE DEF folder
  <2>3. QED
    BY <1>1, <2>1, <2>2 DEF Live, ListRange
<1>5. kept \in Live /\ kept.planned = old.planned /\ kept.busy = old.busy
      /\ kept.done = old.done /\ kept.pages = old.pages
  <2>1. folder \in 1..NoEnd
    BY <1>3, ConstantsAssumption DEF Position, NoEnd
  <2> HIDE DEF folder
  <2>2. [old.range EXCEPT !.until = folder] \in ListRange
    BY <1>1, <2>1 DEF Live, ListRange
  <2>3. QED
    BY <1>1, <2>2 DEF Live
<1>6. NewLive(half, FALSE, TRUE) \in Live
  <2> HIDE DEF half
  <2>1. <<>> \in Seq(SUBSET Key)
    BY EmptySeq
  <2>2. QED
    BY <1>4, <2>1 DEF NewLive, Live, NoKey
<1>7. ranges' = Append(cut, NewLive(half, FALSE, TRUE)) /\ order' = InsertAfter(p, id)
      /\ worker' = [worker EXCEPT ![w] = x]
  BY <1>1 DEF SplitBusy, Lists
<1>8. x \in [pc : {"listing"}, id : {id}, after : Nat, empty : Nat, left : {"done"}]
  BY <1>1, <1>4
<1>9. worker'[w] = x
  BY <1>7 DEF TypeOK
<1> DEFINE new == NewLive(half, FALSE, TRUE)
<1>10. ~new.planned /\ new.busy /\ ~new.done
  BY DEF NewLive
<1> HIDE DEF half, kept, x, new
<1>11. cut \in Seq(Live) /\ Len(cut) = Len(ranges)
       /\ \A i \in 1..Len(ranges) : cut[i] = IF i = order[p] THEN kept ELSE ranges[i]
  BY <1>1, <1>5, ExceptSeq
<1> HIDE DEF cut
<1>12. ranges' \in Seq(Live) /\ Len(ranges') = id /\ ranges'[id] = new
       /\ \A i \in 1..Len(ranges) : ranges'[i] = cut[i]
  <2>1. new \in Live
    BY <1>6 DEF new
  <2>2. ranges' = Append(cut, new)
    BY <1>7 DEF new
  <2>3. Append(cut, new) \in Seq(Live) /\ Len(Append(cut, new)) = Len(cut) + 1
        /\ Append(cut, new)[Len(cut) + 1] = new
        /\ \A i \in 1..Len(cut) : Append(cut, new)[i] = cut[i]
    BY <1>11, <2>1, AppendProperties
  <2>4. QED
    BY <1>11, <2>2, <2>3
<1>13. \A i \in 1..Len(ranges) :
         /\ ranges'[i].planned = ranges[i].planned
         /\ ranges'[i].busy = ranges[i].busy
         /\ ranges'[i].done = ranges[i].done
         /\ ranges'[i].pages = ranges[i].pages
  BY <1>5, <1>11, <1>12
<1>14. QED
  BY <1>1, <1>2, <1>7, <1>8, <1>9, <1>10, <1>12, <1>13

LEMMA SplitBusyControl ==
  ASSUME ControlInv, NEW w \in Workers, NEW p \in Ahead,
         SplitBusy(w, p)
  PROVE  ControlInv'
<1> USE DEF ControlInv
<1> DEFINE n     == Len(ranges)
           id    == n + 1
           was(q) == IF q <= p THEN q ELSE q - 1
           at(q)  == IF q <= p THEN q ELSE q + 1
<1>0. id \in Nat /\ order' = InsertAfter(p, id) /\ p \in DOMAIN order
  BY TypeFacts, SplitFacts
<1>1. /\ n \in Nat /\ id \in Nat /\ id = n + 1 /\ DOMAIN ranges = 1..n /\ DOMAIN order = 1..n /\ Len(order) = n
      /\ p \in 1..n /\ ~ranges[order[p]].done
      /\ taking \in Nat \ {0} /\ caller.position \in Nat \ {0}
      /\ taking <= p
  BY TypeFacts, SplitFacts DEF Ahead
<1>a. \A q \in 1..n : order[q] \in 1..n
  BY TypeFacts
<1>2. /\ ranges' \in Seq(Live) /\ Len(ranges') = id /\ DOMAIN ranges' = 1..id
      /\ \A i \in 1..n :
           /\ ranges'[i].planned = ranges[i].planned
           /\ ranges'[i].busy = ranges[i].busy
           /\ ranges'[i].done = ranges[i].done
           /\ ranges'[i].pages = ranges[i].pages
      /\ ~ranges'[id].planned /\ ranges'[id].busy /\ ~ranges'[id].done
  BY SplitFacts, LenProperties
<1> HIDE DEF n, id
<1>3. order' \in Seq(1..id) /\ Len(order') = id /\ DOMAIN order' = 1..id
  <2>1. DOMAIN ranges \cup {id} = 1..id
    BY <1>1
  <2>2. order' \in Seq(DOMAIN ranges \cup {id}) /\ Len(order') = Len(order) + 1
    BY <1>0, InsertFacts
  <2>3. order' \in Seq(1..id) /\ Len(order') = id
    BY <1>1, <2>1, <2>2
  <2>4. QED
    BY <2>3, LenProperties
<1>4. /\ order'[p + 1] = id
      /\ \A q \in 1..id : q # p + 1 =>
           was(q) \in 1..n /\ order'[q] = order[was(q)]
      /\ \A q \in 1..n : at(q) \in 1..id /\ was(at(q)) = q /\ at(q) # p + 1
  <2>1. /\ order'[p + 1] = id
        /\ \A q \in 1..p : order'[q] = order[q]
        /\ \A q \in p + 2..id : order'[q] = order[q - 1]
    <3>1. /\ order'[p + 1] = id
          /\ \A q \in 1..p : order'[q] = order[q]
          /\ \A q \in p + 2..Len(order) + 1 : order'[q] = order[q - 1]
      BY <1>0, InsertFacts
    <3>2. Len(order) + 1 = id
      BY <1>1
    <3>3. QED
      BY <3>1, <3>2
  <2>2. \A q \in 1..id : q # p + 1 => was(q) \in 1..n
    BY <1>1
  <2>3. \A q \in 1..n : at(q) \in 1..id /\ was(at(q)) = q /\ at(q) # p + 1
    BY <1>1
  <2>4. \A q \in 1..id : q # p + 1 => q \in 1..p \/ q \in p + 2..id
    BY <1>1
  <2>5. \A q \in 1..id : q # p + 1 => order'[q] = order[was(q)]
    BY <1>1, <2>1, <2>4
  <2>6. QED
    BY <2>1, <2>2, <2>3, <2>5
<1>5. /\ \A v \in Workers : v # w => worker'[v] = worker[v]
      /\ worker'[w].pc = "listing" /\ worker'[w].id = id
      /\ worker[w].pc = "idle"
  <2>1. worker' = [worker EXCEPT ![w] = worker'[w]]
    BY SplitFacts
  <2>2. \A v \in Workers : v # w => worker'[v] = worker[v]
    BY <2>1 DEF TypeOK
  <2>3. worker'[w].pc = "listing" /\ worker'[w].id = id
    BY SplitFacts DEF id, n
  <2>4. worker[w].pc = "idle"
    BY DEF SplitBusy, MayClaim
  <2>5. QED
    BY <2>2, <2>3, <2>4
<1>6. UNCHANGED <<taking, buffered, failure, stop, cancelled, caller, delivered, result>>
  BY DEF SplitBusy
<1>7. TypeOK'
  <2>1. worker' \in [Workers -> [pc : {"idle", "listing", "leaving", "returned"},
                               id : Nat, after : Nat, empty : Nat,
                               left : {"done", "paused", "error"}]]
    <3>1. worker'[w] \in [pc : {"idle", "listing", "leaving", "returned"},
                         id : Nat, after : Nat, empty : Nat,
                         left : {"done", "paused", "error"}]
      BY <1>1, SplitFacts DEF n
    <3>2. worker' = [worker EXCEPT ![w] = worker'[w]]
      BY SplitFacts
    <3>3. QED
      BY <3>1, <3>2 DEF TypeOK
  <2>2. order' \in Seq(DOMAIN ranges') /\ Len(order') = Len(ranges')
    BY <1>2, <1>3
  <2>3. caller' \in CallerType /\ taking' \in Nat \ {0} /\ buffered' \in Int
        /\ delivered' \in Seq(SUBSET Key)
    BY <1>6 DEF TypeOK, CallerType
  <2>4. failure' \in BOOLEAN /\ stop' \in BOOLEAN /\ cancelled' \in BOOLEAN
        /\ result' \in {"running", "ok", "failed"}
    BY <1>6, Zenon DEF TypeOK
  <2>5. QED
    BY <1>2, <2>1, <2>2, <2>3, <2>4, Zenon DEF TypeOK, CallerType
<1>8. \A v \in Workers : Inside(v)' <=> (Inside(v) \/ v = w)
  BY <1>5 DEF Inside
<1>9. \A v \in Workers : Inside(v) => worker[v].id \in 1..n /\ v # w
  BY <1>1, <1>5 DEF InsideIsOpen, Inside
<1>10. OneWorkerPerRange'
  <2>1. \A u, v \in Workers :
          Inside(u)' /\ Inside(v)' /\ worker'[u].id = worker'[v].id => u = v
    BY <1>1, <1>5, <1>8, <1>9 DEF OneWorkerPerRange
  <2>2. ASSUME NEW i \in 1..n
        PROVE  ranges'[i].busy <=> \E v \in Workers : Inside(v)' /\ worker'[v].id = i
    <3>1. i # id /\ i \in DOMAIN ranges
      BY <1>1
    <3>2. \A v \in Workers : (Inside(v)' /\ worker'[v].id = i)
                              <=> (Inside(v) /\ worker[v].id = i)
      BY <1>5, <1>8, <1>9, <3>1
    <3>3. ranges[i].busy <=> \E v \in Workers : Inside(v) /\ worker[v].id = i
      BY <3>1 DEF OneWorkerPerRange
    <3>4. QED
      BY <1>2, <3>2, <3>3
  <2>3. ranges'[id].busy <=> \E v \in Workers : Inside(v)' /\ worker'[v].id = id
    BY <1>2, <1>5, <1>8
  <2>4. \A i \in 1..id : i \in 1..n \/ i = id
    BY <1>1
  <2>5. QED
    BY <1>2, <2>1, <2>2, <2>3, <2>4 DEF OneWorkerPerRange
<1>11. InsideIsOpen'
  <2>1. 1..n \subseteq 1..id /\ id \in 1..id
    BY <1>1
  <2>2. ASSUME NEW v \in Workers, Inside(v)'
        PROVE  worker'[v].id \in 1..id /\ ~ranges'[worker'[v].id].done
    <3>1. CASE v = w
      BY <1>2, <1>5, <2>1, <3>1
    <3>2. CASE v # w
      <4>1. Inside(v) /\ worker'[v].id = worker[v].id /\ worker[v].id \in 1..n
        BY <1>5, <1>8, <1>9, <2>2, <3>2
      <4>2. ~ranges[worker[v].id].done
        BY <4>1 DEF InsideIsOpen
      <4>3. QED
        BY <1>2, <2>1, <4>1, <4>2
    <3>3. QED
      BY <3>1, <3>2
  <2>3. QED
    BY <1>2, <2>2 DEF InsideIsOpen
<1>12. OrderIsPermutation'
  <2>1. ASSUME NEW q \in 1..id, NEW r \in 1..id, order'[q] = order'[r]
        PROVE  q = r
    <3>1. ASSUME q # p + 1, r # p + 1 PROVE was(q) = was(r)
      <4> DEFINE wq == was(q)
                 wr == was(r)
      <4>1. wq \in 1..n /\ wr \in 1..n /\ order[wq] = order[wr]
        BY <1>4, <2>1, <3>1
      <4> HIDE DEF wq, wr
      <4>2. wq = wr
        BY <1>1, <4>1 DEF OrderIsPermutation
      <4>3. QED
        BY <4>2 DEF wq, wr
    <3>2. q = p + 1 <=> r = p + 1
      <4>1. \A u \in 1..id : u # p + 1 => order'[u] # id
        BY <1>1, <1>a, <1>4, SMTT(30)
      <4>2. QED
        BY <1>4, <2>1, <4>1
    <3>3. QED
      BY <1>1, <3>1, <3>2
  <2>2. ASSUME NEW i \in 1..id
        PROVE  \E q \in 1..id : order'[q] = i
    <3>1. CASE i = id
      BY <1>1, <1>4, <3>1
    <3>2. CASE i \in 1..n
      <4>1. PICK q \in 1..n : order[q] = i
        BY <1>1, <3>2 DEF OrderIsPermutation
      <4>2. at(q) \in 1..id /\ order'[at(q)] = i
        BY <1>4, <4>1
      <4>3. QED
        BY <4>2
    <3>3. QED
      BY <1>1, <3>1, <3>2
  <2>3. QED
    BY <1>2, <1>3, <2>1, <2>2 DEF OrderIsPermutation
<1>13. PlannedInOrder'
  <2>1. Len(Planned) <= n /\ DOMAIN Planned = 1..Len(Planned) /\ Len(Planned) \in Nat
    BY PlanAssumption, LenProperties DEF PlannedInOrder, n
  <2>2. \A i \in 1..id : ranges'[i].planned <=> i \in DOMAIN Planned
    BY <1>1, <1>2, <2>1 DEF PlannedInOrder
  <2>3. ASSUME NEW q \in 1..id, NEW r \in 1..id, q < r,
               order'[q] \in DOMAIN Planned, order'[r] \in DOMAIN Planned
        PROVE  order'[q] < order'[r]
    <3>1. q # p + 1 /\ r # p + 1
      BY <1>1, <1>4, <2>1, <2>3
    <3>2. was(q) \in 1..n /\ was(r) \in 1..n /\ was(q) < was(r)
      BY <1>1, <1>4, <2>3, <3>1
    <3> DEFINE wq == was(q)
               wr == was(r)
    <3>3. wq \in 1..n /\ wr \in 1..n /\ wq < wr
          /\ order'[q] = order[wq] /\ order'[r] = order[wr]
      BY <1>4, <3>1, <3>2
    <3> HIDE DEF wq, wr
    <3>4. QED
      BY <1>1, <2>3, <3>3 DEF PlannedInOrder
  <2>4. QED
    BY <1>1, <1>2, <1>3, <2>1, <2>2, <2>3, SMTT(30) DEF PlannedInOrder
<1>14. InTake => caller.position <= p
  BY <1>1 DEF CallerInSync, TakenInOrder, InTake, Gone
<1>15. \A q \in 1..p : q \in 1..n /\ order'[q] = order[q] /\ order[q] \in 1..n
                      /\ (Gone(q)' <=> Gone(q))
  <2>1. \A q \in 1..p : q \in 1..n /\ order'[q] = order[q] /\ order[q] \in 1..n
    BY <1>1, <1>a, <1>4, SMTT(30)
  <2>2. QED
    BY <1>2, <2>1 DEF Gone
<1>16. TakenInOrder'
  <2>1. \A q \in 1..taking : q \in 1..p
    BY <1>1
  <2>2. InTake => caller.position \in 1..p
    BY <1>1, <1>14
  <2>3. InTake => ranges'[order'[caller.position]].planned
                    = ranges[order[caller.position]].planned
    BY <1>2, <1>15, <2>2
  <2>4. taking \in 1..taking /\ 1..taking - 1 \subseteq 1..taking
    BY <1>1
  <2>5. taking <= Len(order')
    BY <1>1, <1>3
  <2>6. InTake => caller.position <= Len(order) /\ caller.position <= Len(order')
    <3>1. Len(order) = n /\ Len(order') = n + 1 /\ p <= n /\ n \in Nat /\ p \in Nat
      BY <1>1, <1>3
    <3>2. caller.position \in 1..p => caller.position <= n /\ caller.position <= n + 1
      BY <3>1
    <3>3. QED
      BY <2>2, <3>1, <3>2
  <2>7. TakenInOrder
    BY DEF CallerInSync
  <2>8. \A q \in 1..taking - 1 : Gone(q)'
    BY <1>15, <2>1, <2>4, <2>7 DEF TakenInOrder
  <2>9. Gone(taking)' <=> Gone(taking)
    BY <1>6, <1>15, <2>1, <2>4 DEF Gone
  <2>10. taking' = taking /\ caller' = caller
    BY <1>6
  <2>11. QED
    BY <2>3, <2>5, <2>6, <2>7, <2>8, <2>9, <2>10 DEF TakenInOrder, InTake
<1>17. StepsInSync'
  <2> SUFFICES ASSUME InTake, NEW f \in [DOMAIN Planned -> DOMAIN Steps], InStep(f),
                      NEW q \in 1..id, ranges'[order'[q]].planned
               PROVE  Behind(q)' <=> Begun(f[order[was(q)]])
    <3>1. \A q \in 1..id : ranges'[order'[q]].planned => order'[q] = order[was(q)]
      BY <1>2, <1>4
    <3>2. QED
      BY <1>3, <1>6, <3>1 DEF StepsInSync, InTake, Begun
  <2>1. q # p + 1
    BY <1>2, <1>4
  <2>2. was(q) \in 1..n /\ ranges[order[was(q)]].planned
    <3>1. was(q) \in 1..n /\ order'[q] = order[was(q)]
      BY <1>4, <2>1
    <3>2. order[was(q)] \in 1..n
      BY <1>a, <3>1
    <3>3. QED
      BY <1>2, <3>1, <3>2
  <2>3. Behind(was(q)) <=> Begun(f[order[was(q)]])
    BY <1>1, <2>2 DEF CallerInSync, StepsInSync
  <2>4. Behind(q)' <=> Behind(q)
    BY <1>6 DEF Behind
  <2>5. Behind(q) <=> Behind(was(q))
    BY <1>1, <1>14, <2>1 DEF Behind
  <2>6. QED
    BY <2>3, <2>4, <2>5
<1>18. QED
  BY <1>7, <1>10, <1>11, <1>12, <1>13, <1>16, <1>17 DEF CallerInSync

(***************************************************************************)
(* The theorems.                                                           *)
(***************************************************************************)
\* Cancelling, and doing nothing once returned, touch nothing of the listing.
LEMMA IdleControl == ControlInv /\ (Cancel \/ UNCHANGED vars) => ControlInv'
<1> SUFFICES ASSUME ControlInv, Cancel \/ UNCHANGED vars PROVE ControlInv'
  OBVIOUS
<1> USE DEF ControlInv
<1>1. UNCHANGED <<ranges, order, taking, buffered, failure, stop, worker, caller,
                  delivered, result>>
  BY DEF Cancel, vars, shared
<1>2. cancelled' \in BOOLEAN
  BY Zenon DEF Cancel, vars, TypeOK
<1>3. TypeOK'
  BY <1>1, <1>2, Zenon DEF TypeOK
<1>4. OneWorkerPerRange' /\ InsideIsOpen'
  BY <1>1 DEF OneWorkerPerRange, InsideIsOpen, Inside
<1>5. OrderIsPermutation' /\ PlannedInOrder'
  BY <1>1 DEF OrderIsPermutation, PlannedInOrder
<1>6. CallerInSync'
  BY <1>1, RangesUnchanged, CallerInSyncKept
<1>7. QED
  BY <1>3, <1>4, <1>5, <1>6

LEMMA NextControl == ControlInv /\ [Next]_vars => ControlInv'
<1> SUFFICES ASSUME ControlInv, [Next]_vars PROVE ControlInv'
  OBVIOUS
<1>1. ASSUME NEW w \in Workers, WorkerStep(w) \/ RequestFails(w)
      PROVE  ControlInv'
  <2>1. CASE Claim(w)
    BY <2>1, ClaimIdleControl, SplitBusyControl DEF Claim
  <2>2. CASE Exit(w) \/ PageAfterStop(w) \/ RequestFails(w)
    BY <2>2, WorkerMovesControl
  <2>3. CASE HandOver(w)
    BY <2>3, HandOverControl
  <2>4. CASE Leave(w)
    BY <2>4, LeaveControl
  <2>5. QED
    BY <1>1, <2>1, <2>2, <2>3, <2>4 DEF WorkerStep
<1>2. CASE CallerStep
  BY <1>2, SinkObjectsControl, StartTakingControl, TakePageControl, DrainedControl,
     AdvanceControl, EndControl DEF CallerStep
<1>3. CASE SinkFails
  BY <1>3, SinkFailsControl
<1>4. CASE Cancel \/ Finished \/ UNCHANGED vars
  BY <1>4, IdleControl DEF Finished
<1>5. QED
  BY <1>1, <1>2, <1>3, <1>4 DEF Next

THEOREM ControlHolds == Spec => []ControlInv
  BY InitControl, NextControl, PTL DEF Spec

\* Type correctness.
THEOREM TypeCorrect == Spec => []TypeOK
  BY ControlHolds, PTL DEF ControlInv

\* One range is never fed by two streams, and `busy` is exact: however claims,
\* splits, pauses, failures and cancels interleave.
THEOREM OneWorkerHolds == Spec => []OneWorkerPerRange
  BY ControlHolds, PTL DEF ControlInv

\* The position the caller counts for itself stays right while splits insert
\* into `order` under it.
THEOREM CallerInSyncHolds == Spec => []CallerInSync
  BY ControlHolds, PTL DEF ControlInv

\* Both of them, for every bucket, plan and set of workers.
THEOREM ListingSoundHolds == Spec => []ListingSound
  BY ControlHolds, PTL DEF ControlInv, ListingSound

(***************************************************************************)
(* Windows.                                                                *)
(***************************************************************************)

\* Keys with a lifetime ahead of them come with windows in the right order, and
\* are not due yet: the arithmetic of Keys::fetch.
LEMMA WindowsOrdered ==
  ASSUME NEW cred \in Nat, NEW at \in Nat, NEW lifetime \in Nat, lifetime > 0
  PROVE  LET h == Arrived(cred, at, lifetime) IN
           /\ h \in HeldKeys
           /\ h.cred = cred
           /\ h.expires = at + lifetime
           /\ at < h.refresh_at
           /\ h.refresh_at <= h.renew_by
           /\ h.renew_by <= h.expires
<1> DEFINE half    == lifetime \div 2
           quarter == lifetime \div 4
           early   == Lesser(ADVISORY, half)
           late    == Lesser(MANDATORY, quarter)
<1>1. half \in Nat /\ quarter \in Nat /\ quarter <= half /\ half < lifetime
  OBVIOUS
<1>2. early \in Nat /\ late \in Nat /\ late <= early /\ early < lifetime
  BY <1>1, WindowAssumption DEF Lesser
<1>3. /\ at + lifetime - early \in Nat
      /\ at + lifetime - late \in Nat
      /\ at < at + lifetime - early
      /\ at + lifetime - early <= at + lifetime - late
      /\ at + lifetime - late <= at + lifetime
  <2> HIDE DEF early, late
  <2> QED BY <1>2
<1> HIDE DEF early, late, half, quarter
<1>4. Arrived(cred, at, lifetime) =
        [cred |-> cred, expires |-> at + lifetime,
         refresh_at |-> at + lifetime - early, renew_by |-> at + lifetime - late]
  BY DEF Arrived, early, late, half, quarter
<1>5. QED
  BY <1>3, <1>4 DEF HeldKeys

\* The same for every answer `fetch` accepts: the keys are held, fresh, and their
\* mandatory deadline, if they have one, lies ahead.
LEMMA AnswersFresh ==
  ASSUME KeysTypeOK, NEW answer \in Answers, Usable(answer)
  PROVE  /\ answer \in HeldKeys
         /\ answer.cred \in Nat
         /\ IsHeld(answer)
         /\ Fresh(answer)
         /\ Expires(answer) => now < answer.renew_by
         /\ Expires(answer) => answer.refresh_at <= answer.renew_by
<1>1. CASE \E cred \in Nat \ {NoKeys} : answer = Forever(cred)
  BY <1>1 DEF Forever, Nothing, HeldKeys, IsHeld, Fresh, Expires, NoKeys, Never
<1>2. CASE \E cred \in Nat \ {NoKeys}, l \in Lifetimes : answer = Arrived(cred, now, l)
  <2>1. PICK cred \in Nat \ {NoKeys}, l \in Lifetimes : answer = Arrived(cred, now, l)
    BY <1>2
  <2>2. now \in Nat /\ l \in Nat
    BY <2>1, WindowAssumption DEF KeysTypeOK
  <2>3. answer.expires = now + l
    BY <2>1 DEF Arrived
  <2>4. l > 0
    BY <2>2, <2>3 DEF Usable, Expires, Never
  <2>5. /\ answer \in HeldKeys
        /\ answer.cred = cred
        /\ now < answer.refresh_at
        /\ answer.refresh_at <= answer.renew_by
    BY <2>1, <2>2, <2>4, WindowsOrdered
  <2>6. answer.refresh_at \in Int /\ answer.renew_by \in Int
    BY <2>5 DEF HeldKeys, Never
  <2>7. QED
    BY <2>1, <2>2, <2>5, <2>6 DEF IsHeld, Fresh
<1>3. CASE static
  <2>1. answer = Forever(1) /\ 1 \in Nat \ {NoKeys}
    BY <1>3 DEF Answers, NoKeys
  <2>2. QED
    BY <1>1, <2>1
<1>4. CASE ~static
  <2>1. PICK cred \in {issued, issued + 1} \ {NoKeys} :
          answer = Forever(cred) \/ \E l \in Lifetimes : answer = Arrived(cred, now, l)
    BY <1>4 DEF Answers
  <2>2. cred \in Nat \ {NoKeys}
    BY <2>1 DEF KeysTypeOK
  <2>3. QED
    BY <1>1, <1>2, <2>1, <2>2
<1>5. QED
  BY <1>3, <1>4

(***************************************************************************)
(* The invariant.                                                          *)
(***************************************************************************)

\* What the counters of `finish` and the waiters say of each other.
FailureIsLast == failed # NoError => failed = finished
WaitsAreOld   == \A t \in Thread : thread[t].waited_for <= finished
PagesLeft     == \A t \in Thread : At(t, "done") \/ thread[t].pages > 0

KeysInv == KeysTypeOK /\ OneFetch /\ FailureIsLast /\ WaitsAreOld /\ PagesLeft

LEMMA NothingTyped == Nothing \in HeldKeys
BY DEF Nothing, HeldKeys, NoKeys, Never

LEMMA RestingTyped == Resting \in ThreadState
BY NothingTyped, WindowAssumption DEF Resting, ThreadState, NotYet

LEMMA FailedTyped ==
  ASSUME KeysTypeOK, NEW t \in Thread
  PROVE  /\ Failed(t) \in ThreadState
         /\ Failed(t).pc = "failed"
         /\ Failed(t).pages = thread[t].pages
         /\ Failed(t).waited_for = NotYet
<1>1. thread[t].pages \in Nat
  BY DEF KeysTypeOK, ThreadState
<1>2. QED
  BY <1>1, RestingTyped DEF Failed, Resting, ThreadState

LEMMA InvInit == KeysInit => KeysInv
<1> SUFFICES ASSUME KeysInit PROVE KeysInv
  OBVIOUS
<1>1. KeysTypeOK
  BY NothingTyped, RestingTyped DEF KeysInit, KeysTypeOK, NoError
<1>2. \A t \in Thread : thread[t] = Resting
  BY DEF KeysInit
<1>3. OneFetch
  BY <1>2 DEF KeysInit, OneFetch, Fetching, At, Resting
<1>4. FailureIsLast /\ WaitsAreOld /\ PagesLeft
  BY <1>2, WindowAssumption
  DEF KeysInit, FailureIsLast, WaitsAreOld, PagesLeft, At, Resting, NotYet, NoError
<1>5. QED
  BY <1>1, <1>3, <1>4 DEF KeysInv

(***************************************************************************)
(* One lemma for each way a step changes a thread.                         *)
(***************************************************************************)

\* A step that leaves the keys alone, and one thread neither fetching nor short
\* of pages.
LEMMA ThreadMoves ==
  ASSUME KeysInv, NEW t \in Thread, ~Fetching(t), NEW r \in ThreadState,
         thread' = [thread EXCEPT ![t] = r], r.pc # "fetch",
         r.waited_for <= finished, r.pc = "done" \/ r.pages > 0,
         held' \in HeldKeys,
         UNCHANGED <<fetching, finished, failed, static, now, givenUp, issued>>
  PROVE  KeysInv'
<1> USE DEF KeysInv
<1>1. KeysTypeOK'
  BY DEF KeysTypeOK
<1>2. /\ thread'[t] = r
      /\ \A u \in Thread : u # t => thread'[u] = thread[u]
  BY DEF KeysTypeOK
<1>3. \A u \in Thread : Fetching(u)' <=> Fetching(u)
  BY <1>2 DEF Fetching, At
<1>4. OneFetch'
  BY <1>3 DEF OneFetch
<1>5. FailureIsLast' /\ WaitsAreOld' /\ PagesLeft'
  BY <1>2 DEF FailureIsLast, WaitsAreOld, PagesLeft, At
<1>6. QED
  BY <1>1, <1>4, <1>5

LEMMA SignMoves ==
  ASSUME KeysInv, NEW t \in Thread, ~Fetching(t), ~At(t, "done"), NEW h \in HeldKeys,
         Sign(t, h), held' \in HeldKeys,
         UNCHANGED <<fetching, finished, failed, static, now, givenUp, issued>>
  PROVE  KeysInv'
<1> DEFINE r == [thread[t] EXCEPT !.pc = "sent", !.used = h, !.current = Nothing,
                                  !.waited_for = NotYet]
<1>1. thread \in [Thread -> ThreadState] /\ finished \in Nat
  BY DEF KeysInv, KeysTypeOK
<1>2. thread' = [thread EXCEPT ![t] = r]
  BY <1>1 DEF Sign
<1>3. /\ r \in ThreadState
      /\ r.pc = "sent"
      /\ r.waited_for = NotYet
      /\ r.pages = thread[t].pages
  BY <1>1, NothingTyped DEF ThreadState
<1>4. r.pages > 0
  BY <1>3 DEF KeysInv, PagesLeft
<1> HIDE DEF r
<1>5. r.waited_for <= finished
  BY <1>1, <1>3 DEF NotYet
<1>6. QED
  BY <1>2, <1>3, <1>4, <1>5, ThreadMoves

LEMMA FailMoves ==
  ASSUME KeysInv, NEW t \in Thread, ~Fetching(t), ~At(t, "done"), Fail(t),
         held' \in HeldKeys,
         UNCHANGED <<fetching, finished, failed, static, now, givenUp, issued>>
  PROVE  KeysInv'
<1>1. /\ thread[t].pages > 0
      /\ finished \in Nat
      /\ KeysTypeOK
  BY DEF KeysInv, PagesLeft, KeysTypeOK
<1>2. Failed(t).waited_for <= finished
  BY <1>1, FailedTyped DEF NotYet
<1>3. QED
  BY <1>1, <1>2, FailedTyped, ThreadMoves DEF Fail

LEMMA AgainTyped ==
  ASSUME KeysInv, NEW t \in Thread
  PROVE  /\ Again(t) \in ThreadState
         /\ Again(t).pc = "get"
         /\ Again(t).pages = thread[t].pages
         /\ Again(t).waited_for = thread[t].waited_for
         /\ [Again(t) EXCEPT !.renewed = TRUE] \in ThreadState
         /\ [Again(t) EXCEPT !.renewed = TRUE].pc = "get"
         /\ [Again(t) EXCEPT !.renewed = TRUE].pages = thread[t].pages
         /\ [Again(t) EXCEPT !.renewed = TRUE].waited_for = thread[t].waited_for
<1>1. thread[t] \in ThreadState
  BY DEF KeysInv, KeysTypeOK
<1> DEFINE r == thread[t]
           n == r.attempt + 1
           a == [r EXCEPT !.pc = "get", !.attempt = n, !.used = Nothing]
<1>2. Again(t) = a
  BY DEF Again
<1>6. n \in Nat
  BY <1>1 DEF ThreadState
<1> HIDE DEF n
<1>3. /\ a \in ThreadState
      /\ a.pc = "get"
      /\ a.pages = r.pages
      /\ a.waited_for = r.waited_for
  BY <1>1, <1>6, NothingTyped DEF ThreadState
<1> HIDE DEF a
<1>4. /\ [a EXCEPT !.renewed = TRUE] \in ThreadState
      /\ [a EXCEPT !.renewed = TRUE].pc = a.pc
      /\ [a EXCEPT !.renewed = TRUE].pages = a.pages
      /\ [a EXCEPT !.renewed = TRUE].waited_for = a.waited_for
  BY <1>3 DEF ThreadState
<1>5. QED
  BY <1>2, <1>3, <1>4

(***************************************************************************)
(* The steps.                                                              *)
(***************************************************************************)

LEMMA StartFetchKeeps ==
  ASSUME KeysInv, NEW t \in Thread, At(t, "get"), ~fetching,
         NEW mandatory \in BOOLEAN, StartFetch(t, mandatory)
  PROVE  KeysInv'
<1> DEFINE r == [thread[t] EXCEPT !.pc = "fetch", !.mandatory = mandatory,
                                  !.current = IF mandatory THEN Nothing ELSE held]
<1>1. thread \in [Thread -> ThreadState] /\ held \in HeldKeys
  BY DEF KeysInv, KeysTypeOK
<1>2. thread' = [thread EXCEPT ![t] = r]
  BY <1>1 DEF StartFetch
<1>3. /\ r \in ThreadState
      /\ r.pc = "fetch"
      /\ r.waited_for = thread[t].waited_for
      /\ r.pages = thread[t].pages
  BY <1>1, NothingTyped DEF ThreadState
<1> HIDE DEF r
<1>4. /\ thread'[t] = r
      /\ \A u \in Thread : u # t => thread'[u] = thread[u]
  BY <1>1, <1>2
<1>5. KeysTypeOK'
  BY <1>2, <1>3, ZenonT(30) DEF KeysInv, KeysTypeOK, StartFetch
<1>6. OneFetch'
  BY <1>3, <1>4 DEF KeysInv, OneFetch, Fetching, At, StartFetch
<1>7. FailureIsLast' /\ WaitsAreOld'
  BY <1>3, <1>4 DEF KeysInv, FailureIsLast, WaitsAreOld, StartFetch
<1>8. PagesLeft'
  BY <1>3, <1>4 DEF KeysInv, PagesLeft, At, StartFetch
<1>9. QED
  BY <1>5, <1>6, <1>7, <1>8 DEF KeysInv

LEMMA GetKeeps ==
  ASSUME KeysInv, NEW t \in Thread, Get(t)
  PROVE  KeysInv'
<1>1. At(t, "get") /\ ~Fetching(t) /\ ~At(t, "done")
  BY DEF Get, GetCancelled, GetHeld, StartAdvisory, GetFailure, StartMandatory, Wait,
         At, Fetching
<1>2. held \in HeldKeys
  BY DEF KeysInv, KeysTypeOK
<1>3. CASE GetCancelled(t)
  BY <1>1, <1>2, <1>3, FailMoves DEF GetCancelled, keys
<1>4. CASE GetHeld(t)
  BY <1>1, <1>2, <1>4, SignMoves DEF GetHeld, keys
<1>5. CASE StartAdvisory(t)
  BY <1>1, <1>5, StartFetchKeeps DEF StartAdvisory, MayRenew
<1>6. CASE GetFailure(t)
  BY <1>1, <1>2, <1>6, FailMoves DEF GetFailure, keys
<1>7. CASE StartMandatory(t)
  BY <1>1, <1>7, StartFetchKeeps DEF StartMandatory
<1>8. CASE Wait(t)
  <2> DEFINE r == [thread[t] EXCEPT !.waited_for = finished]
  <2>1. thread \in [Thread -> ThreadState] /\ finished \in Nat
    BY DEF KeysInv, KeysTypeOK
  <2>2. thread' = [thread EXCEPT ![t] = r]
    BY <1>8, <2>1 DEF Wait
  <2>3. /\ r \in ThreadState
        /\ r.pc = "get"
        /\ r.waited_for = finished
        /\ r.pages = thread[t].pages
    BY <1>1, <2>1 DEF ThreadState, At
  <2> HIDE DEF r
  <2>4. r.waited_for <= finished /\ r.pages > 0
    BY <1>1, <2>1, <2>3 DEF KeysInv, PagesLeft
  <2>5. QED
    BY <1>1, <1>2, <1>8, <2>2, <2>3, <2>4, ThreadMoves DEF Wait, keys
<1>9. QED
  BY <1>3, <1>4, <1>5, <1>6, <1>7, <1>8 DEF Get

\* Only one thread fetches, so the end of its fetch leaves none.
LEMMA FetchLeaves ==
  ASSUME KeysInv, NEW t \in Thread, Fetching(t), Finish, NEW r \in ThreadState,
         thread' = [thread EXCEPT ![t] = r], r.pc # "fetch",
         r.waited_for <= finished, r.pages > 0,
         held' \in HeldKeys, issued' \in Nat, failed' \in {NoError, finished + 1},
         UNCHANGED <<static, now, givenUp>>
  PROVE  KeysInv'
<1> USE DEF KeysInv
<1>1. finished \in Nat /\ finished' = finished + 1 /\ ~fetching'
  BY DEF KeysTypeOK, Finish
<1>2. KeysTypeOK'
  <2>1. fetching' \in BOOLEAN
    BY Zenon DEF Finish
  <2>2. finished' \in Nat /\ failed' \in Nat
    BY <1>1 DEF NoError
  <2>3. thread' \in [Thread -> ThreadState]
    BY DEF KeysTypeOK
  <2>4. QED
    BY <2>1, <2>2, <2>3 DEF KeysTypeOK
<1>3. /\ thread'[t] = r
      /\ \A u \in Thread : u # t => thread'[u] = thread[u]
  BY DEF KeysTypeOK
<1>4. \A u \in Thread : ~Fetching(u)'
  BY <1>3 DEF OneFetch, Fetching, At
<1>5. OneFetch'
  BY <1>1, <1>4 DEF OneFetch
<1>6. FailureIsLast'
  BY <1>1 DEF FailureIsLast
<1>7. WaitsAreOld'
  <2>1. \A u \in Thread : thread'[u].waited_for <= finished
    BY <1>3 DEF WaitsAreOld
  <2>2. \A u \in Thread : thread'[u].waited_for \in Int
    BY <1>2 DEF KeysTypeOK, ThreadState, NotYet
  <2>3. QED
    BY <1>1, <2>1, <2>2 DEF WaitsAreOld
<1>8. PagesLeft'
  BY <1>3 DEF PagesLeft, At
<1>9. QED
  BY <1>2, <1>5, <1>6, <1>7, <1>8

LEMMA FetchEndsKeeps ==
  ASSUME KeysInv, NEW t \in Thread, FetchEnds(t)
  PROVE  KeysInv'
<1>1. /\ thread \in [Thread -> ThreadState]
      /\ thread[t].pages > 0
      /\ Fetching(t)
      /\ held \in HeldKeys
      /\ issued \in Nat
      /\ finished \in Nat
      /\ KeysTypeOK
  BY DEF KeysInv, KeysTypeOK, FetchEnds, FetchSucceeds, FetchFails, Fetching, PagesLeft, At
<1>2. CASE FetchSucceeds(t)
  <2>1. PICK answer \in {a \in Answers : Usable(a)} :
          held' = answer /\ issued' = answer.cred /\ Sign(t, answer)
    BY <1>2 DEF FetchSucceeds
  <2>2. answer \in HeldKeys /\ answer.cred \in Nat
    BY <1>1, <2>1, AnswersFresh
  <2> DEFINE r == [thread[t] EXCEPT !.pc = "sent", !.used = answer,
                                    !.current = Nothing, !.waited_for = NotYet]
  <2>3. thread' = [thread EXCEPT ![t] = r]
    BY <1>1, <2>1 DEF Sign
  <2>4. /\ r \in ThreadState
        /\ r.pc = "sent"
        /\ r.waited_for = NotYet
        /\ r.pages = thread[t].pages
    BY <1>1, <2>2, NothingTyped DEF ThreadState
  <2> HIDE DEF r
  <2>5. r.waited_for <= finished
    BY <1>1, <2>4 DEF NotYet
  <2>6. QED
    BY <1>1, <1>2, <2>1, <2>2, <2>3, <2>4, <2>5, FetchLeaves DEF FetchSucceeds
<1>3. CASE FetchFails(t) /\ Fail(t)
  <2>1. Failed(t).waited_for <= finished
    BY <1>1, FailedTyped DEF NotYet
  <2>2. QED
    BY <1>1, <1>3, <2>1, FailedTyped, FetchLeaves DEF FetchFails, Fail
<1>4. CASE FetchFails(t) /\ thread' = [thread EXCEPT ![t].pc = "report"]
  <2> DEFINE r == [thread[t] EXCEPT !.pc = "report"]
  <2>1. thread' = [thread EXCEPT ![t] = r]
    BY <1>1, <1>4
  <2>2. /\ r \in ThreadState
        /\ r.pc = "report"
        /\ r.waited_for = thread[t].waited_for
        /\ r.pages = thread[t].pages
    BY <1>1 DEF ThreadState
  <2> HIDE DEF r
  <2>3. r.waited_for <= finished
    BY <2>2 DEF KeysInv, WaitsAreOld
  <2>4. QED
    BY <1>1, <1>4, <2>1, <2>2, <2>3, FetchLeaves DEF FetchFails
<1>5. QED
  BY <1>2, <1>3, <1>4 DEF FetchEnds, FetchFails

LEMMA PostponedTyped ==
  ASSUME KeysTypeOK, NEW t \in Thread
  PROVE  Postponed(t) \in HeldKeys
BY DEF KeysTypeOK, Postponed, HeldKeys, Never

LEMMA ListPageKeeps ==
  ASSUME KeysInv, NEW t \in Thread, ListPage(t)
  PROVE  KeysInv'
<1>1. /\ thread[t] \in ThreadState
      /\ held \in HeldKeys
      /\ finished \in Nat
      /\ KeysTypeOK
      /\ thread[t].waited_for <= finished
  BY DEF KeysInv, KeysTypeOK, WaitsAreOld
<1>2. /\ ~Fetching(t)
      /\ ~At(t, "done")
      /\ thread[t].pages > 0
  BY DEF ListPage, Answered, Unanswered, Refused, Expire, Report, KeysInv, PagesLeft,
         Fetching, At
<1>3. CASE Answered(t)
  <2> DEFINE r == IF thread[t].pages = 1
                  THEN [Resting EXCEPT !.pc = "done", !.pages = 0]
                  ELSE [Resting EXCEPT !.pages = thread[t].pages - 1]
  <2>1. thread' = [thread EXCEPT ![t] = r]
    BY <1>3 DEF Answered
  <2>2. thread[t].pages \in Nat
    BY <1>1 DEF ThreadState
  <2>3. /\ r \in ThreadState
        /\ r.pc # "fetch"
        /\ r.waited_for = NotYet
        /\ r.pc = "done" \/ r.pages > 0
    <3>1. CASE thread[t].pages = 1
      BY <3>1, RestingTyped DEF ThreadState, Resting
    <3>2. CASE thread[t].pages # 1
      <4> DEFINE left == thread[t].pages - 1
                 q    == [Resting EXCEPT !.pages = left]
      <4>1. left \in Nat /\ left > 0
        BY <1>2, <2>2, <3>2
      <4>2. r = q
        BY <3>2
      <4> HIDE DEF left
      <4>3. q \in ThreadState /\ q.pc = "get" /\ q.waited_for = NotYet /\ q.pages = left
        BY <4>1, RestingTyped DEF ThreadState, Resting
      <4>4. QED
        BY <4>1, <4>2, <4>3
    <3>3. QED
      BY <3>1, <3>2
  <2> HIDE DEF r
  <2>4. r.waited_for <= finished
    BY <1>1, <2>3 DEF NotYet
  <2>5. QED
    BY <1>1, <1>2, <1>3, <2>1, <2>3, <2>4, ThreadMoves DEF Answered, keys
<1>4. CASE Unanswered(t)
  <2>1. CASE Fail(t)
    BY <1>1, <1>2, <1>4, <2>1, FailMoves DEF Unanswered, keys
  <2>2. CASE thread' = [thread EXCEPT ![t] = Again(t)]
    BY <1>1, <1>2, <1>4, <2>2, AgainTyped, ThreadMoves DEF Unanswered, keys
  <2>3. QED
    BY <1>4, <2>1, <2>2 DEF Unanswered
<1>5. CASE Refused(t)
  <2>1. CASE Fail(t)
    BY <1>1, <1>2, <1>5, <2>1, FailMoves DEF Refused, keys
  <2>2. CASE thread' = [thread EXCEPT ![t].pc = "refused"]
    <3> DEFINE r == [thread[t] EXCEPT !.pc = "refused"]
    <3>1. thread' = [thread EXCEPT ![t] = r]
      BY <2>2 DEF KeysInv, KeysTypeOK
    <3>2. /\ r \in ThreadState
          /\ r.pc = "refused"
          /\ r.waited_for = thread[t].waited_for
          /\ r.pages = thread[t].pages
      BY <1>1 DEF ThreadState
    <3> HIDE DEF r
    <3>3. QED
      BY <1>1, <1>2, <1>5, <3>1, <3>2, ThreadMoves DEF Refused, keys
  <2>3. QED
    BY <1>5, <2>1, <2>2 DEF Refused
<1>6. CASE Expire(t)
  <2>1. CASE Fail(t) /\ UNCHANGED held
    BY <1>1, <1>2, <1>6, <2>1, FailMoves DEF Expire
  <2>2. CASE /\ held' = Expired(t)
             /\ thread' = [thread EXCEPT ![t] = [Again(t) EXCEPT !.renewed = TRUE]]
    <3>1. held' \in HeldKeys
      BY <1>1, <2>2, NothingTyped DEF Expired
    <3>2. QED
      BY <1>1, <1>2, <1>6, <2>2, <3>1, AgainTyped, ThreadMoves DEF Expire
  <2>3. QED
    BY <1>6, <2>1, <2>2 DEF Expire
<1>7. CASE Report(t)
  <2>1. thread[t].current \in HeldKeys
    BY <1>1 DEF ThreadState
  <2>2. QED
    BY <1>1, <1>2, <1>7, <2>1, PostponedTyped, SignMoves DEF Report
<1>8. QED
  BY <1>3, <1>4, <1>5, <1>6, <1>7 DEF ListPage

LEMMA OthersKeep ==
  ASSUME KeysInv, Tick \/ GiveUp \/ UNCHANGED keyVars
  PROVE  KeysInv'
<1>1. KeysTypeOK'
  <2>1. now' \in Nat
    BY DEF KeysInv, KeysTypeOK, Tick, GiveUp, keyVars
  <2>2. givenUp' \in BOOLEAN
    BY Zenon DEF KeysInv, KeysTypeOK, Tick, GiveUp, keyVars
  <2>3. UNCHANGED <<held, fetching, finished, failed, static, issued, thread>>
    BY DEF Tick, GiveUp, keyVars, keys
  <2>4. QED
    BY <2>1, <2>2, <2>3 DEF KeysInv, KeysTypeOK
<1>2. OneFetch'
  BY DEF KeysInv, OneFetch, Fetching, At, Tick, GiveUp, keyVars, keys
<1>3. FailureIsLast' /\ WaitsAreOld' /\ PagesLeft'
  BY DEF KeysInv, FailureIsLast, WaitsAreOld, PagesLeft, At, Tick, GiveUp, keyVars, keys
<1>4. QED
  BY <1>1, <1>2, <1>3 DEF KeysInv

LEMMA InvNext == KeysInv /\ [KeysNext]_keyVars => KeysInv'
<1> SUFFICES ASSUME KeysInv, [KeysNext]_keyVars PROVE KeysInv'
  OBVIOUS
<1>1. CASE \E t \in Thread : Get(t) \/ FetchEnds(t) \/ ListPage(t)
  BY <1>1, GetKeeps, FetchEndsKeeps, ListPageKeeps
<1>2. CASE Tick \/ GiveUp \/ UNCHANGED keyVars
  BY <1>2, OthersKeep
<1>3. QED
  BY <1>1, <1>2 DEF KeysNext

(***************************************************************************)
(* The theorems.                                                           *)
(***************************************************************************)

\* The invariant above holds of every state of Keys and its callers.
THEOREM KeysHold == KeysSpec => []KeysInv
BY InvInit, InvNext, PTL DEF KeysSpec

\* The state of Keys and of every listing thread is type correct: in particular
\* no window ever reaches back before the clock's beginning.
THEOREM KeysTypeCorrect == KeysSpec => []KeysTypeOK
<1>1. KeysInv => KeysTypeOK
  BY DEF KeysInv
<1>2. QED
  BY <1>1, KeysHold, PTL

\* Any number of threads, any failures and refusals: one fetch at a time, and
\* the flag is up exactly while one runs.
THEOREM OneFetchHolds == KeysSpec => []OneFetch
<1>1. KeysInv => OneFetch
  BY DEF KeysInv
<1>2. QED
  BY <1>1, KeysHold, PTL

(***************************************************************************)
(* What no step may do.                                                    *)
(***************************************************************************)

\* A postponed renewal, and keys that arrive, never leave the advisory deadline
\* after the mandatory one.
HeldOrdered == Expires(held) => held.refresh_at <= held.renew_by

LEMMA HeldStaysOrdered == KeysInv /\ HeldOrdered /\ [KeysNext]_keyVars => HeldOrdered'
<1> SUFFICES ASSUME KeysInv, HeldOrdered, [KeysNext]_keyVars PROVE HeldOrdered'
  OBVIOUS
<1>1. CASE UNCHANGED held
  BY <1>1 DEF HeldOrdered, Expires
<1>2. ASSUME NEW t \in Thread, FetchSucceeds(t) PROVE HeldOrdered'
  <2>1. PICK answer \in {a \in Answers : Usable(a)} : held' = answer
    BY <1>2 DEF FetchSucceeds
  <2>2. QED
    BY <2>1, AnswersFresh DEF KeysInv, HeldOrdered, Expires
<1>3. ASSUME NEW t \in Thread, Report(t) PROVE HeldOrdered'
  <2>1. held \in HeldKeys
    BY DEF KeysInv, KeysTypeOK
  <2>2. held' = [held EXCEPT !.refresh_at = held.renew_by] \/ held' = held
    BY <1>3 DEF Report, Postponed
  <2>3. held.renew_by \in Int
    BY <2>1 DEF HeldKeys, Never
  <2>4. QED
    BY <2>1, <2>2, <2>3 DEF HeldOrdered, Expires, HeldKeys
<1>4. ASSUME NEW t \in Thread, Expire(t) PROVE HeldOrdered'
  BY <1>4 DEF Expire, Expired, HeldOrdered, Expires, Nothing, Never
<1>5. QED
  BY <1>1, <1>2, <1>3, <1>4
  DEF KeysNext, Get, FetchEnds, ListPage, GetCancelled, GetHeld, StartAdvisory, GetFailure,
      StartMandatory, StartFetch, Wait, FetchFails, Answered, Unanswered, Refused,
      Tick, GiveUp, keyVars, keys

\* The step that makes thread t sign is its own, and one of three.
LEMMA WhoSigns ==
  ASSUME KeysInv, [KeysNext]_keyVars, NEW t \in Thread, Signs(t)
  PROVE  \/ GetHeld(t)   /\ Used(t) = held
         \/ Report(t)
         \/ FetchSucceeds(t) /\ Used(t) = held'
<1>1. /\ thread \in [Thread -> ThreadState]
      /\ thread[t].pc # "sent"
      /\ thread'[t].pc = "sent"
  BY DEF KeysInv, KeysTypeOK, Signs, At
<1>2. ~(UNCHANGED thread)
  BY <1>1
<1>3. ASSUME NEW u \in Thread, NEW r, thread' = [thread EXCEPT ![u] = r]
      PROVE  u = t /\ r.pc = "sent"
  BY <1>1, <1>3
<1>4. ASSUME NEW u \in Thread, NEW h, Sign(u, h)
      PROVE  u = t /\ Used(t) = h
  BY <1>1, <1>4 DEF Sign, Used, ThreadState
<1>5. ASSUME NEW u \in Thread PROVE ~Fail(u)
  <2>1. Failed(u).pc = "failed"
    BY FailedTyped DEF KeysInv
  <2>2. QED
    BY <1>3, <2>1 DEF Fail
<1>6. ASSUME NEW u \in Thread, NEW mandatory PROVE ~StartFetch(u, mandatory)
  BY <1>1 DEF StartFetch, ThreadState
<1>7. ASSUME NEW u \in Thread PROVE ~Wait(u)
  BY <1>1 DEF Wait, At, ThreadState
<1>8. ASSUME NEW u \in Thread PROVE ~Answered(u) /\ ~Refused(u)
  <2>1. ~Refused(u)
    BY <1>1, <1>5 DEF Refused, ThreadState
  <2>2. ~Answered(u)
    <3> DEFINE r == IF thread[u].pages = 1
                    THEN [Resting EXCEPT !.pc = "done", !.pages = 0]
                    ELSE [Resting EXCEPT !.pages = thread[u].pages - 1]
    <3>1. r.pc # "sent"
      BY DEF Resting
    <3>2. Answered(u) => thread' = [thread EXCEPT ![u] = r]
      BY DEF Answered
    <3> HIDE DEF r
    <3>3. QED
      BY <1>3, <3>1, <3>2
  <2>3. QED
    BY <2>1, <2>2
<1>9. ASSUME NEW u \in Thread PROVE ~Unanswered(u) /\ ~Expire(u)
  BY <1>3, <1>5, AgainTyped DEF Unanswered, Expire
<1>10. ASSUME NEW u \in Thread PROVE ~FetchFails(u)
  BY <1>1, <1>5 DEF FetchFails, ThreadState
<1>11. PICK u \in Thread : GetHeld(u) \/ FetchSucceeds(u) \/ Report(u)
  BY <1>2, <1>5, <1>6, <1>7, <1>8, <1>9, <1>10
  DEF KeysNext, Get, FetchEnds, ListPage, GetCancelled, StartAdvisory, GetFailure,
      StartMandatory, Tick, GiveUp, keyVars
<1>12. CASE GetHeld(u)
  BY <1>4, <1>12 DEF GetHeld
<1>13. CASE Report(u)
  BY <1>4, <1>13 DEF Report
<1>14. CASE FetchSucceeds(u)
  BY <1>4, <1>14 DEF FetchSucceeds
<1>15. QED
  BY <1>11, <1>12, <1>13, <1>14

\* No thread is given keys past their mandatory deadline, unless its own renewal
\* of them has just failed.
THEOREM SignsInTime == KeysSpec => SignsBeforeDeadline
<1> DEFINE A == \A t \in Thread :
                  Signs(t) /\ ~At(t, "report") /\ Expires(Used(t)) =>
                    now < Used(t).renew_by
<1>1. KeysInv /\ HeldOrdered /\ [KeysNext]_keyVars => A
  <2> SUFFICES ASSUME KeysInv, HeldOrdered, [KeysNext]_keyVars, NEW t \in Thread,
                      Signs(t), ~At(t, "report"), Expires(Used(t))
               PROVE  now < Used(t).renew_by
    OBVIOUS
  <2>1. CASE GetHeld(t) /\ Used(t) = held
    <3>1. /\ now \in Int
          /\ held.refresh_at \in Int
          /\ held.renew_by \in Int
      BY DEF KeysInv, KeysTypeOK, HeldKeys, Never
    <3>2. QED
      BY <2>1, <3>1 DEF GetHeld, MaySign, Fresh, Renewable, HeldOrdered
  <2>2. CASE FetchSucceeds(t) /\ Used(t) = held'
    <3>1. PICK answer \in {a \in Answers : Usable(a)} : held' = answer
      BY <2>2 DEF FetchSucceeds
    <3>2. QED
      BY <2>2, <3>1, AnswersFresh DEF KeysInv
  <2>3. QED
    BY <2>1, <2>2, WhoSigns DEF Report
<1>2. KeysInit => HeldOrdered
  BY DEF KeysInit, HeldOrdered, Expires, Nothing
<1>3. A => [A]_keyVars
  OBVIOUS
<1>4. QED
  BY <1>1, <1>2, HeldStaysOrdered, KeysHold, PTL DEF KeysSpec, SignsBeforeDeadline

\* Whatever their lifetime, keys are not due again the moment they arrive.
THEOREM FetchedFresh == KeysSpec => FreshWhenFetched
<1> DEFINE A == finished' # finished /\ failed' = NoError => Fresh(held)'
<1>1. KeysInv /\ [KeysNext]_keyVars => A
  <2> SUFFICES ASSUME KeysInv, [KeysNext]_keyVars, finished' # finished, failed' = NoError
               PROVE  Fresh(held)'
    OBVIOUS
  <2>1. PICK t \in Thread : FetchSucceeds(t) \/ FetchFails(t)
    BY DEF KeysNext, Get, FetchEnds, ListPage, GetCancelled, GetHeld, StartAdvisory,
           GetFailure, StartMandatory, StartFetch, Wait, Answered, Unanswered, Refused,
           Expire, Report, Tick, GiveUp, keyVars, keys
  <2>2. ~FetchFails(t)
    BY DEF KeysInv, KeysTypeOK, FetchFails, NoError
  <2>3. PICK answer \in {a \in Answers : Usable(a)} : held' = answer
    BY <2>1, <2>2 DEF FetchSucceeds
  <2>4. now' = now
    BY <2>1, <2>2 DEF FetchSucceeds
  <2>5. Fresh(answer)
    BY <2>3, AnswersFresh DEF KeysInv
  <2>6. QED
    BY <2>3, <2>4, <2>5 DEF Fresh, IsHeld, Expires
<1>2. A => [A]_keyVars
  OBVIOUS
<1>3. QED
  BY <1>1, <1>2, KeysHold, PTL DEF KeysSpec, FreshWhenFetched

\* Held keys are forgotten only by a thread to which S3 has refused those keys.
THEOREM DroppedWhenRefused == KeysSpec => OnlyRefusedDropped
<1> DEFINE A == IsHeld(held) /\ ~IsHeld(held') =>
                  \E t \in Thread : At(t, "refused") /\ thread[t].used.cred = held.cred
<1>1. KeysInv /\ [KeysNext]_keyVars => A
  <2> SUFFICES ASSUME KeysInv, [KeysNext]_keyVars, IsHeld(held), ~IsHeld(held') PROVE A
    OBVIOUS
  <2>1. ASSUME NEW t \in Thread PROVE ~FetchSucceeds(t)
    BY AnswersFresh DEF KeysInv, FetchSucceeds
  <2>2. ASSUME NEW t \in Thread PROVE ~Report(t)
    BY DEF Report, Postponed, IsHeld, KeysInv, KeysTypeOK, HeldKeys
  <2>3. PICK t \in Thread : Expire(t)
    BY <2>1, <2>2
    DEF KeysNext, Get, FetchEnds, ListPage, GetCancelled, GetHeld, StartAdvisory,
        GetFailure, StartMandatory, StartFetch, Wait, FetchFails, Answered, Unanswered,
        Refused, Tick, GiveUp, keyVars, keys
  <2>4. At(t, "refused") /\ thread[t].used.cred = held.cred
    BY <2>3 DEF Expire, Expired
  <2>5. QED
    BY <2>4
<1>2. A => [A]_keyVars
  OBVIOUS
<1>3. QED
  BY <1>1, <1>2, KeysHold, PTL DEF KeysSpec, OnlyRefusedDropped

\* A step of another thread, or of none, leaves thread t where it is.
LEMMA WhoLeavesGet ==
  ASSUME KeysInv, [KeysNext]_keyVars, NEW t \in Thread, At(t, "get"), thread'[t].pc # "get"
  PROVE  Get(t)
<1>1. thread \in [Thread -> ThreadState]
  BY DEF KeysInv, KeysTypeOK
<1>2. ASSUME NEW u \in Thread, NEW r, thread' = [thread EXCEPT ![u] = r]
      PROVE  u = t
  BY <1>1, <1>2 DEF At
<1>3. ASSUME NEW u \in Thread, Fail(u) PROVE u = t
  BY <1>2, <1>3 DEF Fail
<1>4. ASSUME NEW u \in Thread, NEW h, Sign(u, h) PROVE u = t
  BY <1>1, <1>4 DEF Sign, At
<1>5. ASSUME NEW u \in Thread, NEW m, StartFetch(u, m) PROVE u = t
  BY <1>1, <1>5 DEF StartFetch, At
<1>6. ASSUME NEW u \in Thread, Wait(u) PROVE u = t
  BY <1>1, <1>6 DEF Wait, At
<1>7. ASSUME NEW u \in Thread, Get(u) PROVE u = t
  BY <1>3, <1>4, <1>5, <1>6, <1>7
  DEF Get, GetCancelled, GetHeld, StartAdvisory, GetFailure, StartMandatory
<1>8. ASSUME NEW u \in Thread, FetchEnds(u) \/ ListPage(u) PROVE FALSE
  <2>1. thread[u].pc # "get"
    BY <1>8 DEF FetchEnds, FetchSucceeds, FetchFails, ListPage, Answered, Unanswered,
                Refused, Expire, Report, At
  <2>2. u # t
    BY <2>1 DEF At
  <2>3. ~FetchEnds(u)
    BY <1>1, <1>3, <1>4, <2>2 DEF FetchEnds, FetchSucceeds, FetchFails, At
  <2>4. ~Answered(u) /\ ~Unanswered(u)
    BY <1>2, <1>3, <2>2 DEF Answered, Unanswered
  <2>5. ~Refused(u) /\ ~Expire(u) /\ ~Report(u)
    BY <1>1, <1>2, <1>3, <1>4, <2>2 DEF Refused, Expire, Report, At
  <2>6. QED
    BY <1>8, <2>3, <2>4, <2>5 DEF ListPage
<1>9. PICK u \in Thread : Get(u)
  BY <1>8 DEF KeysNext, Tick, GiveUp, keyVars, At
<1>10. QED
  BY <1>7, <1>9

\* Threads that waited for a fetch share its failure: none of them asks again,
\* and none fails for a fetch that was over before it waited.
THEOREM FailuresShared == KeysSpec => FailureShared
<1> DEFINE A == \A t \in Thread :
       At(t, "get") /\ ~givenUp =>
         /\ Waited(t) /\ AsksAgain(t) => failed <= thread[t].waited_for
         /\ thread'[t].pc = "failed" => Waited(t) /\ failed > thread[t].waited_for
<1>1. KeysInv /\ [KeysNext]_keyVars => A
  <2> SUFFICES ASSUME KeysInv, [KeysNext]_keyVars, NEW t \in Thread, At(t, "get"), ~givenUp
               PROVE  /\ Waited(t) /\ AsksAgain(t) => failed <= thread[t].waited_for
                      /\ thread'[t].pc = "failed" =>
                           Waited(t) /\ failed > thread[t].waited_for
    OBVIOUS
  <2>1. /\ thread \in [Thread -> ThreadState]
        /\ thread[t].waited_for \in Nat \cup {NotYet}
        /\ thread[t].waited_for <= finished
        /\ finished \in Nat
        /\ failed \in Nat
        /\ failed # NoError => failed = finished
    BY DEF KeysInv, KeysTypeOK, ThreadState, WaitsAreOld, FailureIsLast
  <2>2. ASSUME Waited(t), AsksAgain(t) PROVE failed <= thread[t].waited_for
    <3>1. Get(t)
      BY <2>2, WhoLeavesGet DEF AsksAgain
    <3>2. ~FailedFor(t)
      BY <2>1, <2>2, <3>1, FailedTyped
      DEF Get, GetCancelled, GetHeld, StartAdvisory, StartFetch, GetFailure,
          StartMandatory, Wait, AsksAgain, Sign, Fail, ThreadState, KeysInv
    <3>3. failed = NoError \/ finished = thread[t].waited_for
      BY <2>2, <3>2 DEF FailedFor, Waited
    <3>4. thread[t].waited_for >= 0
      BY <2>1, <2>2 DEF Waited
    <3>5. QED
      BY <2>1, <3>3, <3>4 DEF NoError
  <2>3. ASSUME thread'[t].pc = "failed" PROVE Waited(t) /\ failed > thread[t].waited_for
    <3>1. Get(t)
      BY <2>3, WhoLeavesGet
    <3>2. FailedFor(t)
      BY <2>1, <2>3, <3>1
      DEF Get, GetCancelled, GetHeld, StartAdvisory, StartFetch, GetFailure,
          StartMandatory, Wait, Sign, ThreadState, At
    <3>3. QED
      BY <2>1, <3>2 DEF FailedFor, Waited, NotYet
  <2>4. QED
    BY <2>2, <2>3
<1>2. A => [A]_keyVars
  OBVIOUS
<1>3. QED
  BY <1>1, <1>2, KeysHold, PTL DEF KeysSpec, FailureShared

\* All of it together.
THEOREM KeysSafeHolds == KeysSpec => KeysSafe
<1>1. KeysTypeOK /\ OneFetch => (KeysTypeOK /\ OneFetch)
  OBVIOUS
<1>2. QED
  BY <1>1, KeysTypeCorrect, OneFetchHolds, SignsInTime, FetchedFresh, FailuresShared, DroppedWhenRefused, PTL
  DEF KeysSafe
=============================================================================
