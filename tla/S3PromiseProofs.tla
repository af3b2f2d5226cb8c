--------------------------- MODULE S3PromiseProofs ---------------------------
(***************************************************************************)
(* The parallel listing keeps its promise: module S3Fetch implements       *)
(* S3OrderedListing, for any bucket, plan, set of workers, page size and   *)
(* cap.  The sink is given every key that stays, once, in key order,       *)
(* although several workers list ranges that are split, paused and resumed *)
(* under them while the caller takes the pages of one after another.       *)
(***************************************************************************)
EXTENDS S3Proofs

(***************************************************************************)
(* The invariant.                                                          *)
(***************************************************************************)
\* What bounds a range from below whatever it has listed: for a planned one
\* where its first request starts, for a half nothing but `from`.
Base(id) == IF id \in DOMAIN Planned THEN Planned[id].start_after ELSE NoKey

\* The keys a range lists, as it is now.
Own(id) ==
  LET range == ranges[id].range
  IN  {k \in Key : /\ range.prefix.first <= k /\ k <= range.prefix.last
                   /\ Base(id) < k
                   /\ range.from <= k /\ k < range.until}

\* The keys the sink has.
Handed == UNION {delivered[i] : i \in DOMAIN delivered}

\* A range's folders are in order and begin where it does; its queue holds
\* pages of its own keys, in order, up to the one handed over last.
Tidy(id) ==
  LET live  == ranges[id]
      range == live.range
  IN  /\ \A i, j \in DOMAIN range.folders :
           i < j => range.folders[i] < range.folders[j]
      /\ range.folders # <<>> => range.from = range.folders[1] /\ Base(id) < range.from
      /\ Base(id) <= range.start_after
      /\ live.emitted < range.until
      /\ \A i \in DOMAIN live.pages :
           /\ live.pages[i] # {}
           /\ live.pages[i] \subseteq Own(id)
           /\ \A k \in live.pages[i] : k <= live.emitted
      /\ \A i, j \in DOMAIN live.pages :
           i < j => \A k \in live.pages[i], l \in live.pages[j] : k < l

AllTidy == \A id \in DOMAIN ranges : Tidy(id)

\* The order of the ranges is the order of their keys.
Ordered ==
  \A p, q \in DOMAIN order :
    p < q => \A k \in Own(order[p]), l \in Own(order[q]) : k < l

\* Between a half and the planned range it was split off there are only
\* halves, and they list keys of that planned range.
Descends ==
  \A p \in DOMAIN order :
    \E q \in 1..p :
      /\ ranges[order[q]].planned
      /\ \A r \in q + 1..p : ~ranges[order[r]].planned
      /\ Own(order[p]) \subseteq InRange(Planned[order[q]])

\* A range nobody will list again: done, or its worker has just ended it.
Over(id) ==
  \/ ranges[id].done
  \/ \E w \in Workers : worker[w].pc = "leaving" /\ worker[w].left = "done" /\ worker[w].id = id

\* A range that is not over resumes after all it has handed over, and its
\* worker asks from there.
Resumes ==
  /\ \A id \in DOMAIN ranges :
       Over(id) \/ ranges[id].emitted <= ranges[id].range.start_after
  /\ \A w \in Workers : worker[w].pc = "listing" =>
       worker[w].after = ranges[worker[w].id].range.start_after

\* While the caller takes, no key that stays was passed: what the stream has
\* come to is queued or with the sink.
Reached ==
  InTake => \A id \in DOMAIN ranges : \A k \in Stable \cap Own(id) :
    k <= ranges[id].range.start_after \/ k <= ranges[id].emitted =>
      k \in Held(id) \cup Handed

\* Unless something failed, a range that is over has handed all of its own.
Completed ==
  InTake /\ ~failure => \A id \in DOMAIN ranges :
    Over(id) => Stable \cap Own(id) \subseteq Held(id) \cup Handed

\* While it takes ranges the caller is at a step that says so.
AtItsStep ==
  caller.pc \in {"page", "next", "half"} =>
    caller.step \in DOMAIN Steps /\ Steps[caller.step] = NextRange

\* Where the caller is splits the keys: every one that stays is with the sink
\* or still to come, and all that is to come follows what the sink has, but
\* for keys the range being taken has passed without them being there.
Frontier ==
  InTake =>
    /\ \A k \in Stable :
         \/ k \in Handed
         \/ \E t \in DOMAIN Steps : caller.step <= t /\ k \in Steps[t]
         \/ \E p \in DOMAIN order : caller.position <= p /\ k \in Own(order[p])
    /\ \A d \in Handed :
         /\ \A t \in DOMAIN Steps : caller.step <= t => \A k \in Steps[t] : d < k
         /\ \A p \in DOMAIN order : caller.position <= p => \A k \in Own(order[p]) :
              \/ d < k
              \/ /\ caller.pc = "page" /\ p = caller.position
                 /\ k <= ranges[order[p]].emitted /\ k \notin Held(order[p])

\* `result` is set last; the workers stop early only for a failure, and the
\* caller ends without one only when everything that stays was handed.
Ending ==
  /\ result = "running" <=> caller.pc # "returned"
  /\ InTake /\ stop => failure
  /\ caller.pc = "stopping" => caller.failed
  /\ caller.pc = "joining" /\ ~caller.failed => Stable \subseteq Handed

Shape  == AllTidy /\ Ordered /\ Descends
Flow   == Resumes /\ Reached /\ Completed
Course == AtItsStep /\ Frontier /\ Ending

\* The shape of the ranges, what the workers have made of them, and the
\* course the caller takes through them.
PromiseInv == Shape /\ Flow /\ Course

(***************************************************************************)
(* What the steps have in common.                                          *)
(***************************************************************************)
\* Keys are positive, and NoKey is before all of them.
LEMMA KeyFacts ==
  /\ \A k \in Key : k \in Nat \ {0}
  /\ NoKey = 0
  /\ Stable \subseteq Key
  BY ConstantsAssumption DEF Position, NoKey

\* What the plan is made of.
LEMMA PlanFacts ==
  /\ DOMAIN Planned = 1..Len(Planned) /\ Len(Planned) \in Nat \ {0}
  /\ DOMAIN Steps = 1..Len(Steps) /\ Len(Steps) \in Nat
  /\ \A i \in DOMAIN Planned : Planned[i] \in ListRange /\ WellFormed(Planned[i])
  /\ \A s \in DOMAIN Steps : Steps[s] \subseteq Key
<1>1. Planned \in Seq(ListRange) /\ Planned # <<>>
      /\ \A i \in DOMAIN Planned : WellFormed(Planned[i])
  BY PlanAssumption
<1>2. Steps \in Seq(SUBSET Key)
  BY PlanAssumption
<1>3. DOMAIN Planned = 1..Len(Planned) /\ Len(Planned) \in Nat \ {0}
      /\ \A i \in DOMAIN Planned : Planned[i] \in ListRange
  BY <1>1, LenProperties, EmptySeq, ElementOfSeq
<1>4. DOMAIN Steps = 1..Len(Steps) /\ Len(Steps) \in Nat
      /\ \A s \in DOMAIN Steps : Steps[s] \subseteq Key
  BY <1>2, LenProperties, ElementOfSeq
<1>5. QED
  BY <1>1, <1>3, <1>4

\* What a range is made of.
LEMMA LiveFacts ==
  ASSUME TypeOK, NEW id \in DOMAIN ranges
  PROVE  /\ ranges[id] \in Live
         /\ ranges[id].range.prefix.first \in Nat
         /\ ranges[id].range.prefix.last \in Nat
         /\ ranges[id].range.start_after \in Nat
         /\ ranges[id].range.from \in Nat
         /\ ranges[id].range.until \in Nat
         /\ ranges[id].range.folders \in Seq(Position)
         /\ ranges[id].emitted \in Nat
         /\ ranges[id].pages \in Seq(SUBSET Key)
         /\ DOMAIN ranges[id].pages = 1..Len(ranges[id].pages)
         /\ Len(ranges[id].pages) \in Nat
         /\ \A i \in DOMAIN ranges[id].pages : ranges[id].pages[i] \subseteq Key
         /\ Base(id) \in Nat
         /\ Own(id) \subseteq Key
         /\ Held(id) \subseteq Key
<1>1. ranges[id] \in Live
  BY TypeFacts
<1>2. ranges[id].range \in ListRange /\ ranges[id].emitted \in Nat
      /\ ranges[id].pages \in Seq(SUBSET Key)
  BY <1>1 DEF Live
<1>3. DOMAIN ranges[id].pages = 1..Len(ranges[id].pages)
      /\ Len(ranges[id].pages) \in Nat
      /\ \A i \in DOMAIN ranges[id].pages : ranges[id].pages[i] \subseteq Key
  BY <1>2, LenProperties, ElementOfSeq
<1>4. NoEnd \in Nat /\ Position \subseteq Nat
  BY ConstantsAssumption DEF NoEnd, Position
<1>5. Base(id) \in Nat
  BY PlanFacts, KeyFacts DEF Base, ListRange
<1>6. Own(id) \subseteq Key /\ Held(id) \subseteq Key
  BY <1>3 DEF Own, Held
<1>7. /\ ranges[id].range.prefix.first \in Nat
      /\ ranges[id].range.prefix.last \in Nat
      /\ ranges[id].range.start_after \in Nat
      /\ ranges[id].range.from \in Nat
      /\ ranges[id].range.until \in Nat
      /\ ranges[id].range.folders \in Seq(Position)
  <2> DEFINE range == ranges[id].range
  <2>1. range \in ListRange
    BY <1>2
  <2> HIDE DEF range
  <2>2. /\ range.prefix.first \in Position /\ range.prefix.last \in Position
        /\ range.start_after \in Nat /\ range.from \in Nat
        /\ range.until \in 1..NoEnd /\ range.folders \in Seq(Position)
    BY <2>1 DEF ListRange
  <2>3. range.until \in Nat
    BY <1>4, <2>2
  <2>4. QED
    BY <1>4, <2>2, <2>3 DEF range
<1>8. QED
  BY <1>1, <1>2, <1>3, <1>5, <1>6, <1>7

\* Steps that leave every range what it lists.
SameBounds ==
  /\ DOMAIN ranges' = DOMAIN ranges
  /\ UNCHANGED order
  /\ \A id \in DOMAIN ranges :
       /\ ranges'[id].planned = ranges[id].planned
       /\ ranges'[id].range.prefix = ranges[id].range.prefix
       /\ ranges'[id].range.from = ranges[id].range.from
       /\ ranges'[id].range.until = ranges[id].range.until
       /\ ranges'[id].range.folders = ranges[id].range.folders

\* They leave the ranges' order and descent.
LEMMA BoundsKept ==
  ASSUME TypeOK, SameBounds
  PROVE  /\ \A id \in DOMAIN ranges : Own(id)' = Own(id) /\ Base(id)' = Base(id)
         /\ Ordered => Ordered'
         /\ Descends => Descends'
<1>1. \A id \in DOMAIN ranges : Own(id)' = Own(id) /\ Base(id)' = Base(id)
  BY DEF SameBounds, Own, Base
<1>2. DOMAIN order' = DOMAIN order /\ \A p \in DOMAIN order :
        /\ order'[p] = order[p] /\ order[p] \in DOMAIN ranges
        /\ Own(order[p])' = Own(order[p])
        /\ ranges'[order'[p]].planned = ranges[order[p]].planned
  BY <1>1, TypeFacts DEF SameBounds
<1>3. Ordered => Ordered'
  BY <1>2 DEF Ordered
<1>4. Descends => Descends'
  <2> SUFFICES ASSUME Descends, NEW p \in DOMAIN order
               PROVE  \E q \in 1..p :
                        /\ ranges'[order'[q]].planned
                        /\ \A r \in q + 1..p : ~ranges'[order'[r]].planned
                        /\ Own(order[p])' \subseteq InRange(Planned[order'[q]])
    BY <1>2 DEF Descends, SameBounds
  <2>1. PICK q \in 1..p :
          /\ ranges[order[q]].planned
          /\ \A r \in q + 1..p : ~ranges[order[r]].planned
          /\ Own(order[p]) \subseteq InRange(Planned[order[q]])
    BY DEF Descends
  <2>2. p \in Nat /\ q \in Nat /\ \A r \in 1..p : r \in DOMAIN order
    BY TypeFacts
  <2>3. \A r \in q + 1..p : r \in 1..p
    BY <2>2
  <2>4. ranges'[order'[q]].planned
    BY <1>2, <2>1, <2>2
  <2>5. \A r \in q + 1..p : ~ranges'[order'[r]].planned
    BY <1>2, <2>1, <2>2, <2>3
  <2>6. Own(order[p])' \subseteq InRange(Planned[order'[q]])
    <3>1. order'[q] = order[q] /\ Own(order[p])' = Own(order[p])
      BY <1>2, <2>2
    <3>2. QED
      BY <2>1, <3>1
  <2>7. QED
    BY <2>4, <2>5, <2>6
<1>5. QED
  BY <1>1, <1>3, <1>4

\* Steps that leave what the ranges list and hold.
Quiet ==
  /\ DOMAIN ranges' = DOMAIN ranges
  /\ UNCHANGED order
  /\ \A id \in DOMAIN ranges :
       /\ ranges'[id].planned = ranges[id].planned
       /\ ranges'[id].range = ranges[id].range
       /\ ranges'[id].emitted = ranges[id].emitted
       /\ ranges'[id].pages = ranges[id].pages

\* They leave the whole shape.
LEMMA QuietKeeps ==
  ASSUME TypeOK, Quiet, Shape
  PROVE  /\ Shape'
         /\ \A id \in DOMAIN ranges : Own(id)' = Own(id) /\ Held(id)' = Held(id)
         /\ DOMAIN order' = DOMAIN order
         /\ \A p \in DOMAIN order : order'[p] = order[p] /\ order[p] \in DOMAIN ranges
<1>1. SameBounds
  BY DEF Quiet, SameBounds
<1>2. \A id \in DOMAIN ranges : Own(id)' = Own(id) /\ Base(id)' = Base(id)
  BY <1>1, BoundsKept
<1>3. \A id \in DOMAIN ranges : Held(id)' = Held(id)
  BY DEF Quiet, Held
<1>4. \A id \in DOMAIN ranges : Tidy(id)' = Tidy(id)
  BY <1>2 DEF Quiet, Tidy
<1>5. Shape'
  BY <1>1, <1>4, BoundsKept DEF Shape, AllTidy, Quiet
<1>6. QED
  BY <1>2, <1>3, <1>5, TypeFacts DEF Quiet

\* The ranges as planned, with nothing listed yet.
LEMMA InitPromise == Init => PromiseInv
<1> SUFFICES ASSUME Init PROVE PromiseInv
  OBVIOUS
<1>1. TypeOK
  BY InitControl DEF ControlInv
<1>2. /\ DOMAIN ranges = DOMAIN Planned /\ DOMAIN order = DOMAIN Planned
      /\ \A i \in DOMAIN Planned : order[i] = i
      /\ \A i \in DOMAIN Planned : ranges[i] = NewLive(Planned[i], TRUE, FALSE)
  BY DEF Init
<1>3. \A i \in DOMAIN Planned :
        /\ ranges[i].range = Planned[i] /\ ranges[i].emitted = 0
        /\ ranges[i].pages = <<>> /\ ranges[i].planned /\ ~ranges[i].done
  BY <1>2 DEF NewLive, NoKey
<1>4. \A i \in DOMAIN Planned :
        Own(i) = InRange(Planned[i]) /\ Base(i) = Planned[i].start_after
  BY <1>2, <1>3 DEF Own, Base, InRange
<1>5. AllTidy
  <2> SUFFICES ASSUME NEW i \in DOMAIN Planned PROVE Tidy(i)
    BY <1>2 DEF AllTidy
  <2>1. WellFormed(Planned[i]) /\ Planned[i] \in ListRange
    BY PlanFacts
  <2>2. Planned[i].start_after \in Nat /\ Planned[i].until \in 1..NoEnd
    BY <2>1 DEF ListRange
  <2>3. DOMAIN ranges[i].pages = {}
    BY <1>3
  <2>4. ranges[i].emitted < Planned[i].until /\ Planned[i].start_after <= Planned[i].start_after
    BY <1>3, <2>2, ConstantsAssumption DEF NoEnd
  <2>5. QED
    BY <1>3, <1>4, <2>1, <2>3, <2>4 DEF Tidy, WellFormed
<1>6. Ordered
  <2> SUFFICES ASSUME NEW p \in DOMAIN Planned, NEW q \in DOMAIN Planned, p < q,
                      NEW k \in InRange(Planned[p]), NEW l \in InRange(Planned[q])
               PROVE  k < l
    BY <1>2, <1>4 DEF Ordered
  <2>1. Planned[p].until <= Start(Planned[q])
    BY PlanAssumption
  <2>2. k < Planned[p].until /\ k \in Nat /\ l \in Nat
    BY KeyFacts DEF InRange
  <2>3. Start(Planned[q]) <= l
    BY DEF InRange, Start
  <2>4. Planned[p].until \in Nat /\ Start(Planned[q]) \in Nat
    <3>1. Planned[p].until \in 1..NoEnd
      BY PlanFacts DEF ListRange
    <3>2. Planned[q].from \in Nat /\ Planned[q].prefix.first \in Position
      BY PlanFacts DEF ListRange
    <3>3. QED
      BY <3>1, <3>2, ConstantsAssumption DEF NoEnd, Position, Start
  <2>5. QED
    BY <2>1, <2>2, <2>3, <2>4
<1>7. Descends
  <2> SUFFICES ASSUME NEW p \in DOMAIN Planned
               PROVE  \E q \in 1..p :
                        /\ ranges[order[q]].planned
                        /\ \A r \in q + 1..p : ~ranges[order[r]].planned
                        /\ Own(order[p]) \subseteq InRange(Planned[order[q]])
    BY <1>2 DEF Descends
  <2>1. p \in 1..p /\ p + 1..p = {}
    BY PlanFacts
  <2>2. ranges[order[p]].planned /\ Own(order[p]) \subseteq InRange(Planned[order[p]])
    BY <1>2, <1>3, <1>4
  <2>3. QED
    BY <2>1, <2>2
<1>8. \A w \in Workers : worker[w].pc = "idle"
  BY DEF Init
<1>9. \A i \in DOMAIN ranges : ~Over(i)
  BY <1>2, <1>3, <1>8 DEF Over
<1>10. Resumes
  <2>1. \A i \in DOMAIN Planned : ranges[i].emitted <= ranges[i].range.start_after
    BY <1>3, PlanFacts DEF ListRange
  <2>2. QED
    BY <1>2, <1>8, <2>1 DEF Resumes
<1>11. Reached
  <2> SUFFICES ASSUME NEW i \in DOMAIN Planned, NEW k \in Own(i)
               PROVE  ~(k <= ranges[i].range.start_after \/ k <= ranges[i].emitted)
    BY <1>2 DEF Reached
  <2>1. Planned[i].start_after < k /\ k \in Nat \ {0} /\ Planned[i].start_after \in Nat
    BY <1>4, KeyFacts, PlanFacts DEF InRange, ListRange
  <2>2. QED
    BY <1>3, <2>1
<1>12. Completed
  BY <1>9 DEF Completed
<1>13. caller.pc = "step" /\ caller.step = 1 /\ caller.position = 1 /\ delivered = <<>>
  BY DEF Init
<1>14. AtItsStep
  BY <1>13 DEF AtItsStep
<1>15. Handed = {}
  BY <1>13 DEF Handed
<1>16. Frontier
  <2> SUFFICES ASSUME NEW k \in Stable
               PROVE  \/ \E t \in DOMAIN Steps : 1 <= t /\ k \in Steps[t]
                      \/ \E p \in DOMAIN order : 1 <= p /\ k \in Own(order[p])
    BY <1>13, <1>15 DEF Frontier
  <2>1. CASE \E t \in DOMAIN Steps : k \in Steps[t]
    BY <2>1, PlanFacts
  <2>2. CASE \E i \in DOMAIN Planned : k \in InRange(Planned[i])
    <3>1. PICK i \in DOMAIN Planned : k \in InRange(Planned[i])
      BY <2>2
    <3>2. i \in DOMAIN order /\ 1 <= i /\ k \in Own(order[i])
      BY <1>2, <1>4, <3>1, PlanFacts
    <3>3. QED
      BY <3>2
  <2>3. QED
    BY <2>1, <2>2, CoverAssumption DEF ListsAllInOrder
<1>17. Ending
  <2>1. result = "running" /\ stop = FALSE
    BY DEF Init
  <2>2. QED
    BY <1>13, <2>1 DEF Ending
<1>18. QED
  BY <1>5, <1>6, <1>7, <1>10, <1>11, <1>12, <1>14, <1>16, <1>17
     DEF PromiseInv, Shape, Flow, Course

(***************************************************************************)
(* A worker's step that queues nothing.                                    *)
(***************************************************************************)
LEMMA WorkerQuiet ==
  ASSUME TypeOK, PromiseInv, Quiet, UNCHANGED <<caller, delivered, result>>,
         Resumes', InTake /\ stop' => failure',
         InTake /\ ~failure' =>
           ~failure /\ \A id \in DOMAIN ranges : Over(id)' => Over(id)
  PROVE  PromiseInv'
<1> USE DEF PromiseInv
<1>1. /\ Shape'
      /\ \A id \in DOMAIN ranges : Own(id)' = Own(id) /\ Held(id)' = Held(id)
      /\ DOMAIN order' = DOMAIN order
      /\ \A p \in DOMAIN order : order'[p] = order[p] /\ order[p] \in DOMAIN ranges
  BY QuietKeeps
<1>2. Handed' = Handed /\ (InTake' <=> InTake)
  BY DEF Handed, InTake
<1>3. Reached'
  BY <1>1, <1>2 DEF Flow, Reached, Quiet
<1>4. Completed'
  BY <1>1, <1>2 DEF Flow, Completed, Quiet
<1>5. AtItsStep'
  BY DEF Course, AtItsStep
<1>6. Frontier'
  <2>1. \A p \in DOMAIN order : /\ Own(order[p])' = Own(order[p])
                                /\ Held(order[p])' = Held(order[p])
                                /\ ranges'[order'[p]].emitted = ranges[order[p]].emitted
    BY <1>1 DEF Quiet
  <2>2. QED
    BY <1>1, <1>2, <2>1 DEF Course, Frontier
<1>7. Ending'
  BY <1>2 DEF Course, Ending
<1>8. QED
  BY <1>1, <1>3, <1>4, <1>5, <1>6, <1>7 DEF Flow, Course

\* Leaving the ranges alone is leaving what they list and hold.
LEMMA SameRangesQuiet ==
  ASSUME UNCHANGED <<ranges, order>>
  PROVE  Quiet
  BY DEF Quiet

\* A worker that returns was inside of no range.
LEMMA ExitPromise ==
  ASSUME ControlInv, PromiseInv, NEW w \in Workers, Exit(w)
  PROVE  PromiseInv'
<1>1. UNCHANGED <<ranges, order, failure, stop, caller, delivered, result>>
  BY DEF Exit, shared
<1>2. Quiet
  BY <1>1, SameRangesQuiet
<1>3. /\ worker[w].pc = "idle" /\ worker'[w].pc = "returned"
      /\ \A v \in Workers : v # w => worker'[v] = worker[v]
  BY DEF Exit, ControlInv, TypeOK
<1>4. \A id : Over(id)' <=> Over(id)
  BY <1>1, <1>3 DEF Over
<1>5. Resumes'
  <2>1. Resumes
    BY DEF PromiseInv, Flow
  <2>2. \A v \in Workers : worker'[v].pc = "listing" => worker'[v] = worker[v]
    BY <1>3
  <2>3. QED
    BY <1>1, <1>4, <2>1, <2>2 DEF Resumes
<1>6. InTake /\ stop' => failure'
  BY <1>1 DEF PromiseInv, Course, Ending
<1>7. QED
  BY <1>1, <1>2, <1>4, <1>5, <1>6, WorkerQuiet DEF ControlInv

\* A worker that claims a range asks from where it resumes.
LEMMA ClaimIdlePromise ==
  ASSUME ControlInv, PromiseInv, NEW w \in Workers, NEW p \in Ahead, ClaimIdle(w, p)
  PROVE  PromiseInv'
<1> USE DEF ControlInv
<1> DEFINE id == order[p]
           live == [ranges[id] EXCEPT !.busy = TRUE]
<1>1. p \in DOMAIN order /\ id \in DOMAIN ranges /\ ranges[id] \in Live
  BY TypeFacts DEF Ahead
<1>2. ~ranges[id].done /\ ~ranges[id].busy
  BY DEF ClaimIdle, Earliest, Idle, Open
<1>3. live \in Live /\ live.planned = ranges[id].planned
      /\ live.done = ranges[id].done /\ live.range = ranges[id].range
      /\ live.emitted = ranges[id].emitted /\ live.pages = ranges[id].pages
  BY <1>1 DEF Live
<1>4. ranges' = [ranges EXCEPT ![id] = live]
  BY <1>1 DEF ClaimIdle
<1>5. UNCHANGED <<order, failure, stop, caller, delivered, result>>
  BY DEF ClaimIdle
<1>6. /\ worker[w].pc = "idle" /\ worker'[w].pc = "listing" /\ worker'[w].id = id
      /\ worker'[w].after = ranges[id].range.start_after
      /\ \A v \in Workers : v # w => worker'[v] = worker[v]
  BY DEF ClaimIdle, MayClaim, Lists, TypeOK
<1> HIDE DEF live, id
<1>7. /\ DOMAIN ranges' = DOMAIN ranges
      /\ \A i \in DOMAIN ranges : ranges'[i] = IF i = id THEN live ELSE ranges[i]
  BY <1>1, <1>3, <1>4, OneRangeChanges
<1>8. Quiet /\ \A i \in DOMAIN ranges : ranges'[i].done = ranges[i].done
  BY <1>3, <1>5, <1>7 DEF Quiet
<1>9. \A i \in DOMAIN ranges : Over(i)' <=> Over(i)
  BY <1>6, <1>8 DEF Over
<1>10. Resumes'
  <2>1. Resumes
    BY DEF PromiseInv, Flow
  <2>2. \A i \in DOMAIN ranges :
           /\ ranges'[i].emitted = ranges[i].emitted
           /\ ranges'[i].range.start_after = ranges[i].range.start_after
    BY <1>8 DEF Quiet
  <2>3. ASSUME NEW v \in Workers, worker'[v].pc = "listing"
        PROVE  worker'[v].after = ranges'[worker'[v].id].range.start_after
    <3>1. CASE v = w
      BY <1>1, <1>6, <2>2, <3>1
    <3>2. CASE v # w
      <4>1. worker[v].pc = "listing" /\ worker'[v] = worker[v]
        BY <1>6, <2>3, <3>2
      <4>2. worker[v].id \in DOMAIN ranges
        BY <4>1 DEF InsideIsOpen, Inside
      <4>3. QED
        BY <2>1, <2>2, <4>1, <4>2 DEF Resumes
    <3>3. QED
      BY <3>1, <3>2
  <2>4. QED
    BY <1>7, <1>9, <2>1, <2>2, <2>3 DEF Resumes
<1>11. InTake /\ stop' => failure'
  BY <1>5 DEF PromiseInv, Course, Ending
<1>12. QED
  BY <1>5, <1>8, <1>9, <1>10, <1>11, WorkerQuiet

\* A stream that ends early ends only a listing that has stopped or fails.
LEMMA StreamEndsPromise ==
  ASSUME ControlInv, PromiseInv, NEW w \in Workers, PageAfterStop(w) \/ RequestFails(w)
  PROVE  PromiseInv'
<1> USE DEF ControlInv
<1>1. UNCHANGED <<ranges, order, failure, stop, caller, delivered, result>>
  BY DEF PageAfterStop, RequestFails, shared
<1>2. Quiet
  BY <1>1, SameRangesQuiet
<1>3. /\ worker[w].pc = "listing" /\ worker'[w].pc = "leaving" /\ worker'[w].id = worker[w].id
      /\ \A v \in Workers : v # w => worker'[v] = worker[v]
      /\ ~stop => worker'[w].left = "error"
  BY DEF PageAfterStop, RequestFails, Leaves, TypeOK
<1>4. \A id : Over(id) => Over(id)'
  BY <1>1, <1>3 DEF Over
<1>5. ~stop => \A id : Over(id)' => Over(id)
  BY <1>1, <1>3 DEF Over
<1>6. Resumes'
  <2>1. Resumes
    BY DEF PromiseInv, Flow
  <2>2. \A v \in Workers : worker'[v].pc = "listing" => worker'[v] = worker[v]
    BY <1>3
  <2>3. QED
    BY <1>1, <1>4, <2>1, <2>2 DEF Resumes
<1>7. InTake /\ stop' => failure'
  BY <1>1 DEF PromiseInv, Course, Ending
<1>8. QED
  BY <1>1, <1>2, <1>5, <1>6, <1>7, WorkerQuiet

\* Leaving a range makes it done only if its stream was over.
LEMMA LeavePromise ==
  ASSUME ControlInv, PromiseInv, NEW w \in Workers, Leave(w)
  PROVE  PromiseInv'
<1> USE DEF ControlInv
<1> DEFINE id == worker[w].id
           live == [ranges[id] EXCEPT !.busy = FALSE,
                                      !.done = @ \/ worker[w].left = "done"]
<1>1. worker[w].pc = "leaving" /\ Inside(w)
  BY DEF Leave, Inside
<1>2. id \in DOMAIN ranges /\ ~ranges[id].done /\ ranges[id] \in Live
  BY <1>1, TypeFacts DEF InsideIsOpen
<1>3. live.planned = ranges[id].planned
      /\ live.range = ranges[id].range
      /\ live.emitted = ranges[id].emitted /\ live.pages = ranges[id].pages
  BY <1>2 DEF Live
<1>4. live \in Live
  <2>1. (ranges[id].done \/ worker[w].left = "done") \in BOOLEAN
    OBVIOUS
  <2>2. QED
    BY <1>2, <2>1 DEF Live
<1>5. live.done <=> worker[w].left = "done"
  <2>1. live.done = (ranges[id].done \/ worker[w].left = "done")
    BY <1>2 DEF Live
  <2> HIDE DEF live
  <2>2. QED
    BY <1>2, <2>1
<1>6. ranges' = [ranges EXCEPT ![id] = live]
  BY <1>2 DEF Leave
<1>7. UNCHANGED <<order, caller, delivered, result>>
      /\ (failure' <=> failure \/ worker[w].left = "error")
      /\ (stop' <=> stop \/ worker[w].left = "error")
  BY DEF Leave
<1>8. /\ worker'[w].pc = "idle"
      /\ \A v \in Workers : v # w => worker'[v] = worker[v]
  BY DEF Leave, TypeOK
<1> HIDE DEF live, id
<1>9. /\ DOMAIN ranges' = DOMAIN ranges
      /\ \A i \in DOMAIN ranges : ranges'[i] = IF i = id THEN live ELSE ranges[i]
  BY <1>2, <1>3, <1>4, <1>6, OneRangeChanges
<1>10. Quiet
  BY <1>3, <1>7, <1>9 DEF Quiet
<1>11. \A i \in DOMAIN ranges : Over(i)' <=> Over(i)
  <2>1. \A i \in DOMAIN ranges : i # id => ranges'[i] = ranges[i]
    BY <1>9
  <2>2. ranges'[id].done <=> worker[w].left = "done"
    BY <1>2, <1>5, <1>9
  <2>3. \A v \in Workers : Inside(v) /\ v # w => worker[v].id # id
    BY <1>1 DEF OneWorkerPerRange, id
  <2>4. \A v \in Workers : v # w /\ worker[v].pc = "leaving" => worker[v].id # id
    BY <2>3 DEF Inside
  <2>5. ASSUME NEW i \in DOMAIN ranges, i # id PROVE Over(i)' <=> Over(i)
    BY <1>8, <2>1, <2>5 DEF Over, id
  <2>6. ASSUME NEW i \in DOMAIN ranges, i = id PROVE Over(i)' <=> Over(i)
    <3>1. Over(i) <=> worker[w].left = "done"
      BY <1>1, <1>2, <2>4, <2>6 DEF Over, id
    <3>2. Over(i)' <=> worker[w].left = "done"
      BY <1>8, <2>2, <2>4, <2>6 DEF Over
    <3>3. QED
      BY <3>1, <3>2
  <2>7. QED
    BY <2>5, <2>6
<1>12. Resumes'
  <2>1. Resumes
    BY DEF PromiseInv, Flow
  <2>2. \A i \in DOMAIN ranges :
           /\ ranges'[i].emitted = ranges[i].emitted
           /\ ranges'[i].range.start_after = ranges[i].range.start_after
    BY <1>10 DEF Quiet
  <2>3. ASSUME NEW v \in Workers, worker'[v].pc = "listing"
        PROVE  worker'[v].after = ranges'[worker'[v].id].range.start_after
    <3>1. worker[v].pc = "listing" /\ worker'[v] = worker[v]
      BY <1>8, <2>3
    <3>2. worker[v].id \in DOMAIN ranges
      BY <3>1 DEF InsideIsOpen, Inside
    <3>3. QED
      BY <2>1, <2>2, <3>1, <3>2 DEF Resumes
  <2>4. QED
    BY <1>9, <1>11, <2>1, <2>2, <2>3 DEF Resumes
<1>13. InTake /\ stop' => failure'
  BY <1>7 DEF PromiseInv, Course, Ending
<1>14. InTake /\ ~failure' => ~failure /\ \A i \in DOMAIN ranges : Over(i)' => Over(i)
  BY <1>7, <1>11
<1>15. QED
  BY <1>7, <1>10, <1>12, <1>13, <1>14, WorkerQuiet

(***************************************************************************)
(* A step of the caller that takes no page.                                *)
(***************************************************************************)
LEMMA CallerQuiet ==
  ASSUME TypeOK, PromiseInv, UNCHANGED <<ranges, order, worker, delivered>>,
         InTake' => InTake /\ failure' = failure,
         AtItsStep', Frontier', Ending'
  PROVE  PromiseInv'
<1> USE DEF PromiseInv
<1>1. Quiet
  BY SameRangesQuiet
<1>2. /\ Shape'
      /\ \A id \in DOMAIN ranges : Own(id)' = Own(id) /\ Held(id)' = Held(id)
  BY <1>1, QuietKeeps
<1>3. Handed' = Handed
  BY DEF Handed
<1>4. \A id : Over(id)' <=> Over(id)
  BY DEF Over
<1>5. Flow'
  <2>1. Resumes'
    BY <1>4 DEF Flow, Resumes
  <2>2. Reached'
    BY <1>2, <1>3 DEF Flow, Reached
  <2>3. Completed'
    BY <1>2, <1>3, <1>4 DEF Flow, Completed
  <2>4. QED
    BY <2>1, <2>2, <2>3 DEF Flow
<1>6. QED
  BY <1>2, <1>5 DEF Course

\* The frontier depends on the caller only by where it is.
LEMMA SameFrontier ==
  ASSUME TypeOK, Frontier, InTake, UNCHANGED <<ranges, order, delivered>>,
         caller'.position = caller.position,
         \A t \in DOMAIN Steps : caller'.step <= t => caller.step <= t,
         \A t \in DOMAIN Steps : caller.step <= t /\ ~(caller'.step <= t) => Steps[t] = {},
         caller.pc = "page" => caller'.pc = "page"
  PROVE  Frontier'
<1>1. Handed' = Handed /\ DOMAIN order' = DOMAIN order
  BY DEF Handed
<1>2. \A p \in DOMAIN order :
        /\ Own(order[p])' = Own(order[p]) /\ Held(order[p])' = Held(order[p])
        /\ ranges'[order'[p]].emitted = ranges[order[p]].emitted
  BY DEF Own, Held, Base
<1>3. QED
  BY <1>1, <1>2 DEF Frontier

\* Beginning to take a range hands nothing.
LEMMA StartTakingPromise == ControlInv /\ PromiseInv /\ StartTaking => PromiseInv'
<1> SUFFICES ASSUME ControlInv, PromiseInv, StartTaking PROVE PromiseInv'
  OBVIOUS
<1> USE DEF ControlInv
<1>1. /\ caller' = [caller EXCEPT !.pc = "page"]
      /\ UNCHANGED <<ranges, order, failure, stop, worker, delivered, result>>
      /\ (caller.pc = "step" /\ AtRange) \/ caller.pc = "half"
  BY DEF StartTaking, AtRange
<1>2. /\ caller'.pc = "page" /\ caller'.step = caller.step
      /\ caller'.position = caller.position /\ caller'.failed = caller.failed
  BY <1>1 DEF TypeOK
<1>3. InTake /\ InTake'
  BY <1>1, <1>2 DEF InTake
<1>4. AtItsStep'
  BY <1>1, <1>2, TypeFacts, PlanFacts DEF PromiseInv, Course, AtItsStep, AtRange
<1>5. Frontier'
  BY <1>1, <1>2, <1>3, SameFrontier DEF PromiseInv, Course
<1>6. Ending'
  BY <1>1, <1>2, <1>3 DEF PromiseInv, Course, Ending, InTake
<1>7. QED
  BY <1>1, <1>3, <1>4, <1>5, <1>6, CallerQuiet

\* A range that is done and drained has handed everything of its own that
\* stays, so the caller may pass it.
LEMMA DrainedPromise == ControlInv /\ PromiseInv /\ Drained => PromiseInv'
<1> SUFFICES ASSUME ControlInv, PromiseInv, Drained PROVE PromiseInv'
  OBVIOUS
<1> USE DEF ControlInv
<1>1. /\ caller.pc = "page" /\ ~failure /\ Taken.pages = <<>> /\ Taken.done
      /\ caller' = [caller EXCEPT !.pc = "next", !.position = @ + 1]
      /\ UNCHANGED <<ranges, order, failure, stop, worker, delivered, result>>
  BY DEF Drained, shared
<1>2. /\ caller'.pc = "next" /\ caller'.step = caller.step
      /\ caller'.position = caller.position + 1 /\ caller'.failed = caller.failed
  BY <1>1 DEF TypeOK
<1>3. InTake /\ InTake'
  BY <1>1, <1>2 DEF InTake
<1>4. AtItsStep'
  BY <1>1, <1>2 DEF PromiseInv, Course, AtItsStep
<1>5. Frontier'
  <2>1. Handed' = Handed /\ DOMAIN order' = DOMAIN order
    BY <1>1 DEF Handed
  <2>2. \A p \in DOMAIN order : Own(order[p])' = Own(order[p])
    BY <1>1 DEF Own, Base
  <2>3. /\ caller.position \in Nat /\ caller.step \in Nat
        /\ \A p \in DOMAIN order : p \in Nat
    BY TypeFacts
  <2>4. caller.position \in DOMAIN order => Stable \cap Own(order[caller.position]) \subseteq Handed
    <3> SUFFICES ASSUME caller.position \in DOMAIN order
                 PROVE  Stable \cap Own(order[caller.position]) \subseteq Handed
      OBVIOUS
    <3> DEFINE id == order[caller.position]
    <3>1. id \in DOMAIN ranges
      BY TypeFacts
    <3>2. Over(id) /\ Held(id) = {}
      BY <1>1 DEF Over, Held, Taken
    <3>3. Stable \cap Own(id) \subseteq Held(id) \cup Handed
      BY <1>1, <1>3, <3>1, <3>2 DEF PromiseInv, Flow, Completed
    <3>4. QED
      BY <3>2, <3>3
  <2>5. \A p \in DOMAIN order : caller.position + 1 <= p => caller.position <= p /\ p # caller.position
    BY <2>3
  <2>6. \A p \in DOMAIN order : caller.position <= p => p = caller.position \/ caller.position + 1 <= p
    BY <2>3
  <2>7. Frontier
    BY DEF PromiseInv, Course
  <2>8. \A k \in Stable :
          \/ k \in Handed
          \/ \E t \in DOMAIN Steps : caller.step <= t /\ k \in Steps[t]
          \/ \E p \in DOMAIN order : caller.position + 1 <= p /\ k \in Own(order[p])
    BY <1>3, <2>4, <2>6, <2>7 DEF Frontier
  <2>9. \A d \in Handed :
          /\ \A t \in DOMAIN Steps : caller.step <= t => \A k \in Steps[t] : d < k
          /\ \A p \in DOMAIN order : caller.position + 1 <= p =>
               \A k \in Own(order[p]) : d < k
    BY <1>3, <2>5, <2>7 DEF Frontier
  <2>10. QED
    BY <1>2, <2>1, <2>2, <2>8, <2>9 DEF Frontier
<1>6. Ending'
  BY <1>1, <1>2, <1>3 DEF PromiseInv, Course, Ending, InTake
<1>7. QED
  BY <1>1, <1>3, <1>4, <1>5, <1>6, CallerQuiet

\* Passing on to a half stays at the step; to the plan's next step leaves
\* nothing of this one.
LEMMA AdvancePromise == ControlInv /\ PromiseInv /\ Advance => PromiseInv'
<1> SUFFICES ASSUME ControlInv, PromiseInv, Advance PROVE PromiseInv'
  OBVIOUS
<1> USE DEF ControlInv
<1>1. /\ caller.pc = "next"
      /\ UNCHANGED <<ranges, order, failure, stop, worker, delivered, result>>
  BY DEF Advance, shared
<1>2. /\ caller'.position = caller.position /\ caller'.failed = caller.failed
      /\ \/ caller'.pc = "half" /\ caller'.step = caller.step
         \/ caller'.pc = "step" /\ caller'.step = caller.step + 1
  BY DEF Advance, TypeOK
<1>3. InTake /\ InTake'
  BY <1>1, <1>2 DEF InTake
<1>4. AtItsStep /\ Frontier
  BY DEF PromiseInv, Course
<1>5. AtItsStep'
  BY <1>1, <1>2, <1>4 DEF AtItsStep
<1>6. Steps[caller.step] = {} /\ caller.step \in Nat
      /\ \A t \in DOMAIN Steps : t \in Nat
  BY <1>1, <1>4, PlanFacts DEF AtItsStep, NextRange
<1>7. \A t \in DOMAIN Steps : caller'.step <= t => caller.step <= t
  BY <1>2, <1>6
<1>8. \A t \in DOMAIN Steps : caller.step <= t /\ ~(caller'.step <= t) => Steps[t] = {}
  <2> SUFFICES ASSUME NEW t \in DOMAIN Steps, caller.step <= t, ~(caller'.step <= t)
               PROVE  t = caller.step
    BY <1>6
  <2>1. QED
    BY <1>2, <1>6
<1>9. Frontier'
  BY <1>1, <1>2, <1>3, <1>4, <1>7, <1>8, SameFrontier
<1>10. Ending'
  BY <1>1, <1>2, <1>3 DEF PromiseInv, Course, Ending, InTake
<1>11. QED
  BY <1>1, <1>3, <1>5, <1>9, <1>10, CallerQuiet

\* Before the plan's step, there is nothing of a range still to be taken.
LEMMA BeforeWhatFollows ==
  ASSUME ControlInv, Shape, caller.pc = "step",
         NEW at \in [DOMAIN Planned -> DOMAIN Steps], InStep(at),
         NEW p \in DOMAIN order, caller.position <= p
  PROVE  \E i \in DOMAIN Planned :
           caller.step <= at[i] /\ Own(order[p]) \subseteq InRange(Planned[i])
<1> USE DEF ControlInv
<1>1. PICK q \in 1..p :
        /\ ranges[order[q]].planned
        /\ \A r \in q + 1..p : ~ranges[order[r]].planned
        /\ Own(order[p]) \subseteq InRange(Planned[order[q]])
  BY DEF Shape, Descends
<1>2. /\ p \in 1..Len(order) /\ q \in Nat /\ p \in Nat /\ q \in DOMAIN order
      /\ caller.position \in Nat \ {0} /\ caller.step \in Nat \ {0}
      /\ caller.position \in 1..p
  BY TypeFacts
<1>3. order[q] \in DOMAIN Planned
  BY <1>1, <1>2, TypeFacts DEF PlannedInOrder
<1>4. caller.position <= q
  <2>1. ranges[order[caller.position]].planned
    BY <1>2, TypeFacts DEF CallerInSync, TakenInOrder
  <2>2. ~(caller.position \in q + 1..p)
    BY <1>1, <2>1
  <2>3. QED
    BY <1>2, <2>2
<1>5. ~Behind(q)
  BY <1>2, <1>4 DEF Behind
<1>6. ~Begun(at[order[q]])
  BY <1>1, <1>2, <1>5 DEF CallerInSync, StepsInSync, InTake
<1>7. caller.step <= at[order[q]]
  BY <1>2, <1>3, <1>6, StepFacts DEF Begun
<1>8. QED
  BY <1>1, <1>3, <1>7

\* At the end of the plan nothing is left to come, so everything that stays
\* is with the sink.
LEMMA StopPromise == ControlInv /\ PromiseInv /\ Stop => PromiseInv'
<1> SUFFICES ASSUME ControlInv, PromiseInv, Stop PROVE PromiseInv'
  OBVIOUS
<1> USE DEF ControlInv
<1>1. /\ caller.pc = "stopping" \/ (caller.pc = "step" /\ caller.step > Len(Steps))
      /\ caller' = [caller EXCEPT !.pc = "joining"]
      /\ UNCHANGED <<ranges, order, worker, delivered, result>>
  BY DEF Stop
<1>2. caller'.pc = "joining" /\ caller'.failed = caller.failed
  BY <1>1 DEF TypeOK
<1>3. ~InTake'
  BY <1>2 DEF InTake
<1>4. AtItsStep' /\ Frontier'
  BY <1>2, <1>3 DEF AtItsStep, Frontier
<1>5. Handed' = Handed
  BY <1>1 DEF Handed
<1>6. ASSUME caller.pc = "step", caller.step > Len(Steps) PROVE Stable \subseteq Handed
  <2>1. PICK at \in [DOMAIN Planned -> DOMAIN Steps] : InStep(at)
    BY PlanAssumption
  <2>2. ~\E t \in DOMAIN Steps : caller.step <= t
    BY <1>6, PlanFacts, TypeFacts
  <2>3. ~\E p \in DOMAIN order : caller.position <= p
    BY <1>6, <2>1, <2>2, BeforeWhatFollows DEF PromiseInv
  <2>4. QED
    BY <1>6, <2>2, <2>3 DEF PromiseInv, Course, Frontier, InTake
<1>7. Ending'
  BY <1>1, <1>2, <1>3, <1>5, <1>6 DEF PromiseInv, Course, Ending
<1>8. QED
  BY <1>1, <1>3, <1>4, <1>7, CallerQuiet

\* Ending with an error promises nothing about the keys.
LEMMA GiveUpPromise ==
  ASSUME ControlInv, PromiseInv, TakeFailure \/ Join
  PROVE  PromiseInv'
<1> USE DEF ControlInv
<1>1. UNCHANGED <<ranges, order, worker, delivered, stop>>
  BY DEF TakeFailure, Join, shared
<1>2. \/ /\ caller.pc = "page" /\ caller'.pc = "stopping" /\ caller'.failed = TRUE
         /\ result' = result
      \/ /\ caller.pc = "joining" /\ caller'.pc = "returned" /\ result' \in {"failed", "ok"}
  BY DEF TakeFailure, Join, Fails, TypeOK
<1>3. ~InTake'
  BY <1>2 DEF InTake
<1>4. AtItsStep' /\ Frontier'
  BY <1>2, <1>3 DEF AtItsStep, Frontier
<1>5. Ending'
  BY <1>2, <1>3 DEF PromiseInv, Course, Ending
<1>6. QED
  BY <1>1, <1>3, <1>4, <1>5, CallerQuiet

\* Cancelling, and doing nothing once returned, touch nothing of it.
LEMMA IdlePromise ==
  ASSUME ControlInv, PromiseInv, Cancel \/ UNCHANGED vars
  PROVE  PromiseInv'
<1>1. UNCHANGED <<ranges, order, worker, delivered, failure, stop, caller, result>>
  BY DEF Cancel, vars, shared
<1>2. InTake' <=> InTake
  BY <1>1 DEF InTake
<1>3. AtItsStep'
  BY <1>1 DEF PromiseInv, Course, AtItsStep
<1>4. Frontier'
  BY <1>1, <1>2, SameFrontier DEF PromiseInv, Course, Frontier, ControlInv
<1>5. Handed' = Handed
  BY <1>1 DEF Handed
<1>6. Ending'
  BY <1>1, <1>2, <1>5 DEF PromiseInv, Course, Ending
<1>7. QED
  BY <1>1, <1>2, <1>3, <1>4, <1>6, CallerQuiet DEF ControlInv

(***************************************************************************)
(* The steps that hand something to the sink.                              *)
(***************************************************************************)
LEMMA HandedGrows ==
  ASSUME TypeOK, NEW page \in SUBSET Key, delivered' = Append(delivered, page)
  PROVE  Handed' = Handed \cup page
<1>1. delivered \in Seq(SUBSET Key)
  BY DEF TypeOK
<1>2. /\ DOMAIN delivered = 1..Len(delivered) /\ Len(delivered) \in Nat
      /\ DOMAIN delivered' = 1..Len(delivered) + 1
      /\ \A i \in 1..Len(delivered) : delivered'[i] = delivered[i]
      /\ delivered'[Len(delivered) + 1] = page
  BY <1>1, AppendProperties, LenProperties
<1>3. ASSUME NEW k \in Handed' PROVE k \in Handed \cup page
  <2>1. PICK i \in 1..Len(delivered) + 1 : k \in delivered'[i]
    BY <1>2, <1>3 DEF Handed
  <2>2. i \in 1..Len(delivered) \/ i = Len(delivered) + 1
    BY <1>2, <2>1
  <2>3. QED
    BY <1>2, <2>1, <2>2 DEF Handed
<1>4. ASSUME NEW k \in Handed PROVE k \in Handed'
  <2>1. PICK i \in 1..Len(delivered) : k \in delivered[i]
    BY <1>2, <1>4 DEF Handed
  <2>2. i \in 1..Len(delivered) + 1 /\ k \in delivered'[i]
    BY <1>2, <2>1
  <2>3. QED
    BY <1>2, <2>2 DEF Handed
<1>5. page \subseteq Handed'
  <2>1. Len(delivered) + 1 \in 1..Len(delivered) + 1
    BY <1>2
  <2>2. QED
    BY <1>2, <2>1 DEF Handed
<1>6. QED
  BY <1>3, <1>4, <1>5

\* A step of own objects comes after everything handed over, and before
\* everything still to come.
LEMMA ObjectsInOrder ==
  ASSUME ControlInv, PromiseInv, AtObjects
  PROVE  LET page == Steps[caller.step]
         IN  /\ caller.step \in DOMAIN Steps
             /\ page \subseteq Key /\ page # {}
             /\ \A k \in page, d \in Handed : d < k
             /\ \A p \in DOMAIN order : caller.position <= p =>
                  \A k \in page, l \in Own(order[p]) : k < l
             /\ \A t \in DOMAIN Steps : caller.step < t =>
                  \A k \in page, l \in Steps[t] : k < l
             /\ \A k \in Stable, last \in page : k < last => k \in Handed \cup page
<1> USE DEF ControlInv
<1> DEFINE page == Steps[caller.step]
<1>1. caller.pc = "step" /\ caller.step <= Len(Steps) /\ page # {}
  BY DEF AtObjects, NextRange
<1>2. caller.step \in DOMAIN Steps /\ caller.step \in Nat
      /\ \A t \in DOMAIN Steps : t \in Nat
  BY <1>1, PlanFacts, TypeFacts
<1>3. page \subseteq Key
  BY <1>2, PlanFacts
<1>4. InTake /\ Frontier
  BY <1>1 DEF InTake, PromiseInv, Course
<1>5. \A k \in page, d \in Handed : d < k
  <2>1. caller.step <= caller.step
    BY <1>2
  <2>2. QED
    BY <1>2, <1>4, <2>1 DEF Frontier
<1>6. ASSUME NEW p \in DOMAIN order, caller.position <= p,
             NEW k \in page, NEW l \in Own(order[p])
      PROVE  k < l
  <2>1. PICK at \in [DOMAIN Planned -> DOMAIN Steps] : InStep(at)
    BY PlanAssumption
  <2>2. PICK i \in DOMAIN Planned :
          caller.step <= at[i] /\ Own(order[p]) \subseteq InRange(Planned[i])
    BY <1>1, <1>6, <2>1, BeforeWhatFollows DEF PromiseInv
  <2>3. at[i] # caller.step /\ at[i] \in Nat
    BY <1>1, <2>1, StepFacts DEF NextRange
  <2>4. caller.step < at[i]
    BY <1>2, <2>2, <2>3
  <2>5. QED
    BY <1>2, <2>1, <2>2, <2>4, CoverAssumption DEF ListsAllInOrder
<1>7. \A t \in DOMAIN Steps : caller.step < t =>
        \A k \in page, l \in Steps[t] : k < l
  BY <1>2, CoverAssumption DEF ListsAllInOrder
<1>8. ASSUME NEW k \in Stable, NEW last \in page, k < last
      PROVE  k \in Handed \cup page
  <2>1. k \in Nat /\ last \in Nat
    BY <1>3, KeyFacts
  <2>2. ASSUME NEW t \in DOMAIN Steps, caller.step <= t, k \in Steps[t]
        PROVE  k \in page
    <3>1. ~(caller.step < t)
      BY <1>7, <1>8, <2>1, <2>2
    <3>2. t = caller.step
      BY <1>2, <2>2, <3>1
    <3>3. QED
      BY <2>2, <3>2
  <2>3. ~\E p \in DOMAIN order : caller.position <= p /\ k \in Own(order[p])
    BY <1>6, <1>8, <2>1
  <2>4. QED
    BY <1>4, <2>2, <2>3 DEF Frontier
<1>9. QED
  BY <1>1, <1>2, <1>3, <1>5, <1>6, <1>7, <1>8

\* The sink has a run of objects: the next step follows it.
LEMMA SinkObjectsPromise == ControlInv /\ PromiseInv /\ SinkObjects => PromiseInv'
<1> SUFFICES ASSUME ControlInv, PromiseInv, SinkObjects PROVE PromiseInv'
  OBVIOUS
<1> USE DEF ControlInv
<1> DEFINE page == Steps[caller.step]
<1>1. /\ AtObjects /\ caller.pc = "step"
      /\ caller' = [caller EXCEPT !.step = @ + 1]
      /\ delivered' = Append(delivered, page)
      /\ UNCHANGED <<ranges, order, worker, failure, stop, result>>
  BY DEF SinkObjects, AtObjects, shared
<1>2. /\ caller'.pc = "step" /\ caller'.step = caller.step + 1
      /\ caller'.position = caller.position
  BY <1>1 DEF TypeOK
<1>3. InTake /\ InTake'
  BY <1>1, <1>2 DEF InTake
<1>4. /\ caller.step \in DOMAIN Steps
      /\ page \subseteq Key
      /\ \A k \in page, d \in Handed : d < k
      /\ \A p \in DOMAIN order : caller.position <= p =>
           \A k \in page, l \in Own(order[p]) : k < l
      /\ \A t \in DOMAIN Steps : caller.step < t =>
           \A k \in page, l \in Steps[t] : k < l
  BY <1>1, ObjectsInOrder
<1>5. Handed' = Handed \cup page
  BY <1>1, <1>4, HandedGrows
<1> HIDE DEF page
<1>6. Quiet
  BY <1>1, SameRangesQuiet
<1>7. /\ Shape'
      /\ \A id \in DOMAIN ranges : Own(id)' = Own(id) /\ Held(id)' = Held(id)
      /\ DOMAIN order' = DOMAIN order
      /\ \A p \in DOMAIN order : order'[p] = order[p] /\ order[p] \in DOMAIN ranges
  BY <1>6, QuietKeeps DEF PromiseInv
<1>8. \A id : Over(id)' <=> Over(id)
  BY <1>1 DEF Over
<1>9. Resumes'
  BY <1>1, <1>8 DEF PromiseInv, Flow, Resumes
<1>10. Reached'
  BY <1>1, <1>3, <1>5, <1>7 DEF PromiseInv, Flow, Reached
<1>11. Completed'
  BY <1>1, <1>3, <1>5, <1>7, <1>8 DEF PromiseInv, Flow, Completed
<1>12. AtItsStep'
  BY <1>2 DEF AtItsStep
<1>13. Frontier'
  <2>1. Frontier
    BY DEF PromiseInv, Course
  <2>2. caller.step \in Nat /\ \A t \in DOMAIN Steps : t \in Nat
    BY PlanFacts, TypeFacts
  <2>3. \A t \in DOMAIN Steps : caller.step + 1 <= t => caller.step <= t /\ caller.step < t
    BY <2>2
  <2>4. \A t \in DOMAIN Steps : caller.step <= t => t = caller.step \/ caller.step + 1 <= t
    BY <2>2
  <2>5. \A p \in DOMAIN order : Own(order[p])' = Own(order[p])
    BY <1>7
  <2>6. \A k \in Stable :
          \/ k \in Handed \cup page
          \/ \E t \in DOMAIN Steps : caller.step + 1 <= t /\ k \in Steps[t]
          \/ \E p \in DOMAIN order : caller.position <= p /\ k \in Own(order[p])
    BY <1>3, <2>1, <2>4 DEF Frontier, page
  <2>7. \A d \in Handed \cup page :
          /\ \A t \in DOMAIN Steps : caller.step + 1 <= t => \A k \in Steps[t] : d < k
          /\ \A p \in DOMAIN order : caller.position <= p => \A k \in Own(order[p]) : d < k
    BY <1>1, <1>3, <1>4, <2>1, <2>3 DEF Frontier
  <2>8. QED
    BY <1>2, <1>5, <1>7, <2>5, <2>6, <2>7 DEF Frontier
<1>14. Ending'
  BY <1>1, <1>2, <1>3 DEF PromiseInv, Course, Ending
<1>15. QED
  BY <1>7, <1>9, <1>10, <1>11, <1>12, <1>13, <1>14 DEF PromiseInv, Flow, Course

(***************************************************************************)
(* A page of the range being taken.                                        *)
(***************************************************************************)
LEMMA PoppedKeeps ==
  ASSUME ControlInv, Shape, CanTakePage, ranges' = Popped, UNCHANGED order,
         buffered' = buffered - Cardinality(Head(Taken.pages)),
         NEW id \in DOMAIN ranges, id = order[caller.position]
  PROVE  LET page == Head(Taken.pages)
         IN  /\ caller.position \in DOMAIN order
             /\ page \subseteq Own(id) /\ page # {}
             /\ \A k \in page : k <= ranges[id].emitted
             /\ Held(id) = page \cup Held(id)'
             /\ \A k \in page, l \in Held(id)' : k < l
             /\ Shape'
             /\ DOMAIN ranges' = DOMAIN ranges
             /\ \A i \in DOMAIN ranges :
                  /\ Own(i)' = Own(i)
                  /\ i # id => Held(i)' = Held(i)
                  /\ ranges'[i].range = ranges[i].range
                  /\ ranges'[i].emitted = ranges[i].emitted
                  /\ ranges'[i].done = ranges[i].done
<1> USE DEF ControlInv
<1> DEFINE pages == ranges[id].pages
           page == Head(Taken.pages)
           live == [ranges[id] EXCEPT !.pages = Tail(@),
                      !.queued = @ - Cardinality(Head(Taken.pages))]
<1>1. caller.position \in DOMAIN order /\ ranges[id] \in Live
      /\ Taken = ranges[id]
  BY TypeFacts DEF CanTakePage, CallerInSync, TakenInOrder, Taken
<1>2. pages \in Seq(SUBSET Key) /\ pages # <<>>
  BY <1>1 DEF CanTakePage, Live
<1>3. /\ DOMAIN pages = 1..Len(pages) /\ Len(pages) \in Nat \ {0} /\ page = pages[1]
      /\ Tail(pages) \in Seq(SUBSET Key)
      /\ DOMAIN Tail(pages) = 1..Len(pages) - 1
      /\ \A i \in 1..Len(pages) - 1 : Tail(pages)[i] = pages[i + 1]
  BY <1>1, <1>2, HeadTailProperties, LenProperties, EmptySeq
<1>4. Cardinality(page) \in Nat
  BY <1>2, <1>3, PageFacts
<1>5. ranges' = [ranges EXCEPT ![id] = live]
  BY <1>1 DEF Popped
<1>6. /\ live.range = ranges[id].range /\ live.emitted = ranges[id].emitted
      /\ live.done = ranges[id].done /\ live.planned = ranges[id].planned
      /\ live.pages = Tail(pages)
  BY <1>1 DEF Live
<1>7. live \in Live
  <2>1. live.queued \in Int
    BY <1>1, <1>4 DEF Live
  <2>2. QED
    BY <1>1, <1>3, <2>1 DEF Live
<1> HIDE DEF live, page
<1>8. /\ DOMAIN ranges' = DOMAIN ranges
      /\ \A i \in DOMAIN ranges : ranges'[i] = IF i = id THEN live ELSE ranges[i]
  BY <1>2, <1>5, <1>6, <1>7, OneRangeChanges
<1>9. /\ \A i \in DOMAIN ranges :
           /\ ranges'[i].range = ranges[i].range
           /\ ranges'[i].emitted = ranges[i].emitted
           /\ ranges'[i].done = ranges[i].done
           /\ ranges'[i].planned = ranges[i].planned
           /\ i # id => ranges'[i].pages = ranges[i].pages
      /\ ranges'[id].pages = Tail(pages)
  BY <1>6, <1>8
<1>10. SameBounds
  BY <1>8, <1>9 DEF SameBounds
<1>11. /\ \A i \in DOMAIN ranges : Own(i)' = Own(i) /\ Base(i)' = Base(i)
       /\ Ordered' /\ Descends'
  BY <1>10, BoundsKept DEF Shape
<1>12. \A i \in DOMAIN ranges : i # id => Held(i)' = Held(i)
  BY <1>9 DEF Held
<1>13. /\ \A i \in DOMAIN pages :
            /\ pages[i] # {} /\ pages[i] \subseteq Own(id)
            /\ \A k \in pages[i] : k <= ranges[id].emitted
       /\ \A i, j \in DOMAIN pages :
            i < j => \A k \in pages[i], l \in pages[j] : k < l
  BY DEF Shape, AllTidy, Tidy
<1>14. 1 \in DOMAIN pages /\ \A i \in 1..Len(pages) - 1 : i + 1 \in DOMAIN pages /\ 1 < i + 1
  BY <1>3
<1>15. Held(id)' = UNION {pages[i + 1] : i \in 1..Len(pages) - 1}
  BY <1>3, <1>9 DEF Held
<1>16. \A l \in Held(id)' : \E m \in DOMAIN pages : 1 < m /\ l \in pages[m]
  <2> SUFFICES ASSUME NEW l \in Held(id)'
               PROVE  \E m \in DOMAIN pages : 1 < m /\ l \in pages[m]
    OBVIOUS
  <2>1. PICK i \in 1..Len(pages) - 1 : l \in pages[i + 1]
    BY <1>15
  <2>2. i + 1 \in DOMAIN pages /\ 1 < i + 1
    BY <1>14, <2>1
  <2>3. QED
    BY <2>1, <2>2
<1>17. Held(id) = page \cup Held(id)'
  <2>1. \A i \in DOMAIN pages : i = 1 \/ (i - 1 \in 1..Len(pages) - 1 /\ (i - 1) + 1 = i)
    BY <1>3
  <2>2. ASSUME NEW k \in Held(id) PROVE k \in page \cup Held(id)'
    <3>1. PICK i \in DOMAIN pages : k \in pages[i]
      BY <2>2 DEF Held
    <3>2. CASE i = 1
      BY <1>3, <3>1, <3>2
    <3>3. CASE i - 1 \in 1..Len(pages) - 1 /\ (i - 1) + 1 = i
      <4> DEFINE j == i - 1
      <4>1. j \in 1..Len(pages) - 1 /\ pages[j + 1] = pages[i]
        BY <3>3
      <4> HIDE DEF j
      <4>2. QED
        BY <1>15, <3>1, <4>1
    <3>4. QED
      BY <2>1, <3>2, <3>3
  <2>3. page \subseteq Held(id)
    BY <1>3, <1>14 DEF Held
  <2>4. Held(id)' \subseteq Held(id)
    BY <1>16 DEF Held
  <2>5. QED
    BY <2>2, <2>3, <2>4
<1>18. \A k \in page, l \in Held(id)' : k < l
  BY <1>3, <1>13, <1>14, <1>16
<1>19. ASSUME NEW i \in DOMAIN ranges PROVE Tidy(i)'
  <2>1. Tidy(i)
    BY DEF Shape, AllTidy
  <2>2. CASE i # id
    BY <1>9, <1>11, <2>1, <2>2 DEF Tidy
  <2>3. CASE i = id
    <3>1. /\ DOMAIN ranges'[i].pages = 1..Len(pages) - 1
          /\ \A j \in 1..Len(pages) - 1 : ranges'[i].pages[j] = pages[j + 1]
      BY <1>3, <1>9, <2>3
    <3>2. \A j \in DOMAIN ranges'[i].pages :
            /\ ranges'[i].pages[j] # {}
            /\ ranges'[i].pages[j] \subseteq Own(i)
            /\ \A k \in ranges'[i].pages[j] : k <= ranges[i].emitted
      BY <1>13, <1>14, <2>3, <3>1
    <3>3. \A j, m \in DOMAIN ranges'[i].pages :
            j < m => \A k \in ranges'[i].pages[j], l \in ranges'[i].pages[m] : k < l
      <4> SUFFICES ASSUME NEW j \in DOMAIN ranges'[i].pages,
                          NEW m \in DOMAIN ranges'[i].pages, j < m
                   PROVE  \A k \in ranges'[i].pages[j], l \in ranges'[i].pages[m] : k < l
        OBVIOUS
      <4>1. /\ j \in 1..Len(pages) - 1 /\ m \in 1..Len(pages) - 1
            /\ ranges'[i].pages[j] = pages[j + 1] /\ ranges'[i].pages[m] = pages[m + 1]
        BY <3>1
      <4> DEFINE j1 == j + 1
                 m1 == m + 1
      <4>2. j1 \in DOMAIN pages /\ m1 \in DOMAIN pages /\ j1 < m1
        BY <1>3, <4>1
      <4> HIDE DEF j1, m1
      <4>3. \A k \in pages[j1], l \in pages[m1] : k < l
        BY <1>13, <4>2
      <4>4. QED
        BY <4>1, <4>3 DEF j1, m1
    <3>4. QED
      BY <1>9, <1>11, <2>1, <3>2, <3>3 DEF Tidy
  <2>4. QED
    BY <2>2, <2>3
<1>20. Shape'
  BY <1>8, <1>11, <1>19 DEF Shape, AllTidy
<1>21. page \subseteq Own(id) /\ page # {} /\ \A k \in page : k <= ranges[id].emitted
  BY <1>3, <1>13, <1>14
<1>22. QED
  BY <1>1, <1>8, <1>9, <1>11, <1>12, <1>17, <1>18, <1>20, <1>21 DEF page

\* What the range being taken lists comes before the plan's remaining steps.
LEMMA BeforeTheSteps ==
  ASSUME ControlInv, Shape, caller.pc = "page", caller.position \in DOMAIN order,
         NEW k \in Own(order[caller.position]),
         NEW t \in DOMAIN Steps, caller.step <= t, NEW l \in Steps[t]
  PROVE  k < l
<1> USE DEF ControlInv
<1> DEFINE p == caller.position
<1>1. PICK at \in [DOMAIN Planned -> DOMAIN Steps] : InStep(at)
  BY PlanAssumption
<1>2. PICK q \in 1..p :
        /\ ranges[order[q]].planned
        /\ Own(order[p]) \subseteq InRange(Planned[order[q]])
  BY DEF Shape, Descends
<1>3. /\ p \in Nat /\ q \in Nat /\ q \in DOMAIN order /\ caller.step \in Nat /\ t \in Nat
  BY <1>2, TypeFacts, PlanFacts
<1>4. order[q] \in DOMAIN Planned
  BY <1>2, <1>3, TypeFacts DEF PlannedInOrder
<1>5. Behind(q)
  BY <1>2, <1>3 DEF Behind
<1>6. Begun(at[order[q]])
  BY <1>1, <1>2, <1>3, <1>5 DEF CallerInSync, StepsInSync, InTake
<1>7. at[order[q]] \in Nat /\ Steps[at[order[q]]] = {}
  BY <1>1, <1>4, StepFacts DEF NextRange
<1>8. at[order[q]] # t
  BY <1>7
<1>9. at[order[q]] < t
  BY <1>3, <1>6, <1>7, <1>8 DEF Begun
<1>10. k \in InRange(Planned[order[q]])
  BY <1>2
<1>11. QED
  BY <1>1, <1>4, <1>9, <1>10, CoverAssumption DEF ListsAllInOrder

\* So a page of it comes after everything handed over, before everything still
\* to come, and leaves out no key that stays.
LEMMA PageInOrder ==
  ASSUME ControlInv, PromiseInv, TakePage
  PROVE  LET page == Head(Taken.pages)
         IN  /\ page \subseteq Key /\ page # {}
             /\ \A k \in page, d \in Handed : d < k
             /\ \A t \in DOMAIN Steps : caller.step <= t =>
                  \A k \in page, l \in Steps[t] : k < l
             /\ \A p \in DOMAIN order : caller.position < p =>
                  \A k \in page, l \in Own(order[p]) : k < l
             /\ \A k \in Stable, last \in page : k < last => k \in Handed \cup page
<1> USE DEF ControlInv
<1> DEFINE page == Head(Taken.pages)
<1>1. /\ CanTakePage /\ caller.pc = "page" /\ ranges' = Popped
      /\ UNCHANGED order
      /\ buffered' = buffered - Cardinality(Head(Taken.pages))
  BY DEF TakePage, CanTakePage
<1>2. caller.position \in DOMAIN order
  BY <1>1, TypeFacts DEF CallerInSync, TakenInOrder
<1>3. PICK id \in DOMAIN ranges : id = order[caller.position]
  BY <1>2, TypeFacts
<1>4. /\ page \subseteq Own(id) /\ page # {}
      /\ \A k \in page : k <= ranges[id].emitted
      /\ Held(id) = page \cup Held(id)'
      /\ \A k \in page, l \in Held(id)' : k < l
  BY <1>1, <1>3, PoppedKeeps DEF PromiseInv
<1> HIDE DEF page
<1>5. Frontier /\ Shape /\ Reached /\ InTake
  BY <1>1 DEF PromiseInv, Flow, Course, InTake
<1>6. page \subseteq Key /\ \A p \in DOMAIN order : Own(order[p]) \subseteq Key
  BY <1>4, TypeFacts, LiveFacts
<1>7. /\ caller.position \in Nat /\ \A p \in DOMAIN order : p \in Nat
  BY TypeFacts
<1>8. \A k \in page, d \in Handed : d < k
  <2> SUFFICES ASSUME NEW k \in page, NEW d \in Handed PROVE d < k
    OBVIOUS
  <2>1. k \in Own(order[caller.position]) /\ k \in Held(order[caller.position])
    BY <1>3, <1>4
  <2>2. caller.position <= caller.position
    BY <1>7
  <2>3. QED
    BY <1>2, <1>5, <2>1, <2>2 DEF Frontier
<1>9. \A t \in DOMAIN Steps : caller.step <= t =>
        \A k \in page, l \in Steps[t] : k < l
  BY <1>1, <1>2, <1>3, <1>4, <1>5, BeforeTheSteps
<1>10. \A p \in DOMAIN order : caller.position < p =>
         \A k \in page, l \in Own(order[p]) : k < l
  BY <1>2, <1>3, <1>4, <1>5 DEF Shape, Ordered
<1>11. ASSUME NEW k \in Stable, NEW last \in page, k < last
       PROVE  k \in Handed \cup page
  <2>1. k \in Nat /\ last \in Nat /\ ranges[id].emitted \in Nat
    BY <1>6, KeyFacts, LiveFacts
  <2>2. ~\E t \in DOMAIN Steps : caller.step <= t /\ k \in Steps[t]
    BY <1>9, <1>11, <2>1
  <2>3. ASSUME NEW p \in DOMAIN order, caller.position <= p, k \in Own(order[p])
        PROVE  k \in Own(id)
    <3>1. ~(caller.position < p)
      BY <1>10, <1>11, <2>1, <2>3
    <3>2. p = caller.position
      BY <1>7, <2>3, <3>1
    <3>3. QED
      BY <1>3, <2>3, <3>2
  <2>4. ASSUME k \in Own(id) PROVE k \in Handed \cup page
    <3>1. k <= ranges[id].emitted
      <4>1. last <= ranges[id].emitted
        BY <1>4
      <4>2. QED
        BY <1>11, <2>1, <4>1
    <3>2. k \in Held(id) \cup Handed
      BY <1>5, <2>4, <3>1 DEF Reached
    <3>3. k \notin Held(id)'
      BY <1>4, <1>11, <2>1
    <3>4. QED
      BY <1>4, <3>2, <3>3
  <2>5. QED
    BY <1>5, <2>2, <2>3, <2>4 DEF Frontier
<1>12. QED
  BY <1>4, <1>6, <1>8, <1>9, <1>10, <1>11 DEF page

\* The sink has a page: it leaves its range's queue, and what is left follows
\* it.
LEMMA TakePagePromise == ControlInv /\ PromiseInv /\ TakePage => PromiseInv'
<1> SUFFICES ASSUME ControlInv, PromiseInv, TakePage PROVE PromiseInv'
  OBVIOUS
<1> USE DEF ControlInv
<1> DEFINE page == Head(Taken.pages)
<1>1. /\ CanTakePage /\ caller.pc = "page" /\ ranges' = Popped
      /\ UNCHANGED <<order, caller, worker, failure, stop, result>>
      /\ buffered' = buffered - Cardinality(Head(Taken.pages))
      /\ delivered' = Append(delivered, page)
  BY DEF TakePage, CanTakePage
<1>2. caller.position \in DOMAIN order
  BY <1>1, TypeFacts DEF CallerInSync, TakenInOrder
<1>3. PICK id \in DOMAIN ranges : id = order[caller.position]
  BY <1>2, TypeFacts
<1>4. /\ page \subseteq Own(id)
      /\ \A k \in page : k <= ranges[id].emitted
      /\ Held(id) = page \cup Held(id)'
      /\ \A k \in page, l \in Held(id)' : k < l
      /\ Shape'
      /\ DOMAIN ranges' = DOMAIN ranges
      /\ \A i \in DOMAIN ranges :
           /\ Own(i)' = Own(i)
           /\ i # id => Held(i)' = Held(i)
           /\ ranges'[i].range = ranges[i].range
           /\ ranges'[i].emitted = ranges[i].emitted
           /\ ranges'[i].done = ranges[i].done
  BY <1>1, <1>3, PoppedKeeps DEF PromiseInv
<1>5. /\ page \subseteq Key
      /\ \A t \in DOMAIN Steps : caller.step <= t =>
           \A k \in page, l \in Steps[t] : k < l
      /\ \A p \in DOMAIN order : caller.position < p =>
           \A k \in page, l \in Own(order[p]) : k < l
  BY PageInOrder
<1>6. Handed' = Handed \cup page
  BY <1>1, <1>5, HandedGrows
<1> HIDE DEF page
<1>7. InTake /\ (InTake' <=> InTake)
  BY <1>1 DEF InTake
<1>8. \A i \in DOMAIN ranges :
        /\ Over(i)' <=> Over(i)
        /\ Held(i) \subseteq Held(i)' \cup page
  BY <1>1, <1>4 DEF Over
<1>9. Resumes'
  <2>1. Resumes
    BY DEF PromiseInv, Flow
  <2>2. \A v \in Workers : worker[v].pc = "listing" => worker[v].id \in DOMAIN ranges
    BY DEF InsideIsOpen, Inside
  <2>3. QED
    BY <1>1, <1>4, <1>8, <2>1, <2>2 DEF Resumes
<1>10. Reached'
  BY <1>4, <1>6, <1>7, <1>8 DEF PromiseInv, Flow, Reached
<1>11. Completed'
  BY <1>1, <1>4, <1>6, <1>7, <1>8 DEF PromiseInv, Flow, Completed
<1>12. AtItsStep'
  BY <1>1 DEF PromiseInv, Course, AtItsStep
<1>13. Frontier'
  <2>1. Frontier
    BY DEF PromiseInv, Course
  <2>2. DOMAIN order' = DOMAIN order
        /\ \A p \in DOMAIN order :
             /\ p \in Nat /\ order[p] \in DOMAIN ranges
             /\ Own(order[p])' = Own(order[p])
             /\ ranges'[order'[p]].emitted = ranges[order[p]].emitted
    BY <1>1, <1>4, TypeFacts
  <2>3. caller.position \in Nat
    BY TypeFacts
  <2>4. Held(order[caller.position])' = Held(id)'
    <3>1. order'[caller'.position] = id
      BY <1>1, <1>3
    <3>2. QED
      BY <3>1 DEF Held
  <2>5. \A k \in Stable :
          \/ k \in Handed'
          \/ \E t \in DOMAIN Steps : caller.step <= t /\ k \in Steps[t]
          \/ \E p \in DOMAIN order : caller.position <= p /\ k \in Own(order[p])
    BY <1>6, <1>7, <2>1 DEF Frontier
  <2>6. \A d \in Handed' : \A t \in DOMAIN Steps : caller.step <= t =>
          \A k \in Steps[t] : d < k
    BY <1>5, <1>6, <1>7, <2>1 DEF Frontier
  <2>7. ASSUME NEW d \in Handed', NEW p \in DOMAIN order, caller.position <= p,
               NEW k \in Own(order[p])
        PROVE  \/ d < k
               \/ /\ p = caller.position
                  /\ k <= ranges[order[p]].emitted /\ k \notin Held(id)'
    <3>1. CASE p # caller.position
      <4>1. caller.position < p
        BY <2>2, <2>3, <2>7, <3>1
      <4>2. QED
        BY <1>5, <1>6, <1>7, <2>1, <2>7, <3>1, <4>1 DEF Frontier
    <3>2. CASE p = caller.position /\ d \in Handed
      <4>1. d < k \/ (k <= ranges[order[p]].emitted /\ k \notin Held(order[p]))
        BY <1>7, <2>1, <2>7, <3>2 DEF Frontier
      <4>2. Held(order[p]) = Held(id)
        BY <1>3, <3>2
      <4>3. QED
        BY <1>4, <3>2, <4>1, <4>2
    <3>3. CASE p = caller.position /\ d \in page
      <4>1. k \in Nat /\ d \in Nat /\ ranges[id].emitted \in Nat /\ d <= ranges[id].emitted
        BY <1>3, <1>4, <1>5, <3>3, KeyFacts, LiveFacts
      <4>2. CASE k \in Held(id)'
        BY <1>4, <3>3, <4>2
      <4>3. CASE k \notin Held(id)'
        BY <1>3, <3>3, <4>1, <4>3
      <4>4. QED
        BY <4>2, <4>3
    <3>4. QED
      BY <1>6, <3>1, <3>2, <3>3
  <2>8. \A d \in Handed' : \A p \in DOMAIN order : caller.position <= p =>
          \A k \in Own(order[p]) :
            \/ d < k
            \/ /\ p = caller.position
               /\ k <= ranges'[order'[p]].emitted /\ k \notin Held(order[p])'
    <3> SUFFICES ASSUME NEW d \in Handed', NEW p \in DOMAIN order, caller.position <= p,
                        NEW k \in Own(order[p]), ~(d < k)
                 PROVE  /\ p = caller.position
                        /\ k <= ranges'[order'[p]].emitted /\ k \notin Held(order[p])'
      OBVIOUS
    <3>1. p = caller.position /\ k <= ranges[order[p]].emitted /\ k \notin Held(id)'
      BY <2>7
    <3>2. order'[p] = id
      BY <1>1, <1>3, <3>1
    <3>3. Held(order[p])' = Held(id)'
      BY <3>2 DEF Held
    <3>4. QED
      BY <2>2, <3>1, <3>3
  <2>9. QED
    BY <1>1, <2>2, <2>5, <2>6, <2>8 DEF Frontier
<1>14. Ending'
  BY <1>1, <1>7 DEF PromiseInv, Course, Ending
<1>15. QED
  BY <1>4, <1>9, <1>10, <1>11, <1>12, <1>13, <1>14 DEF PromiseInv, Flow, Course

\* A page the sink refuses is lost, and so is the listing.
LEMMA SinkFailsPromise == ControlInv /\ PromiseInv /\ SinkFails => PromiseInv'
<1> SUFFICES ASSUME ControlInv, PromiseInv, SinkFails PROVE PromiseInv'
  OBVIOUS
<1> USE DEF ControlInv
<1>1. /\ UNCHANGED <<order, worker, failure, stop, delivered, result>>
      /\ caller' = [caller EXCEPT !.pc = "stopping", !.failed = TRUE]
  BY DEF SinkFails, Fails
<1>2. caller'.pc = "stopping" /\ caller'.failed = TRUE
  BY <1>1 DEF TypeOK
<1>3. caller.pc \in {"step", "page"}
  BY DEF SinkFails, AtObjects, CanTakePage
<1>4. ~InTake'
  BY <1>2 DEF InTake
<1>5. /\ Shape'
      /\ DOMAIN ranges' = DOMAIN ranges
      /\ \A i \in DOMAIN ranges :
           /\ ranges'[i].range = ranges[i].range
           /\ ranges'[i].emitted = ranges[i].emitted
           /\ ranges'[i].done = ranges[i].done
  <2>1. CASE UNCHANGED ranges
    BY <1>1, <2>1, SameRangesQuiet, QuietKeeps DEF PromiseInv
  <2>2. CASE CanTakePage /\ ranges' = Popped
             /\ buffered' = buffered - Cardinality(Head(Taken.pages))
    <3>1. PICK id \in DOMAIN ranges : id = order[caller.position]
      BY <2>2, TypeFacts DEF CanTakePage, CallerInSync, TakenInOrder
    <3>2. QED
      BY <1>1, <2>2, <3>1, PoppedKeeps DEF PromiseInv
  <2>3. QED
    BY <2>1, <2>2 DEF SinkFails
<1>6. \A i \in DOMAIN ranges : Over(i)' <=> Over(i)
  BY <1>1, <1>5 DEF Over
<1>7. Resumes'
  <2>1. Resumes
    BY DEF PromiseInv, Flow
  <2>2. \A v \in Workers : worker[v].pc = "listing" => worker[v].id \in DOMAIN ranges
    BY DEF InsideIsOpen, Inside
  <2>3. QED
    BY <1>1, <1>5, <1>6, <2>1, <2>2 DEF Resumes
<1>8. Reached' /\ Completed' /\ Frontier'
  BY <1>4 DEF Reached, Completed, Frontier
<1>9. AtItsStep'
  BY <1>2 DEF AtItsStep
<1>10. Ending'
  BY <1>1, <1>2, <1>3, <1>4 DEF PromiseInv, Course, Ending
<1>11. QED
  BY <1>5, <1>7, <1>8, <1>9, <1>10 DEF PromiseInv, Flow, Course

(***************************************************************************)
(* A page arrives.                                                         *)
(***************************************************************************)
\* What a page of `keys` does to its range and worker.
Arrives(w, id, page, truncated) ==
  LET live == ranges[id]
      kept == Kept(live.range, page)
      reachedEnd == \E k \in page : k >= live.range.until
  IN  /\ worker[w].pc = "listing" /\ ~live.done
      /\ \A k \in page :
           /\ worker[w].after < k
           /\ live.range.prefix.first <= k /\ k <= live.range.prefix.last
      /\ \A k \in Stable :
           /\ worker[w].after < k
           /\ live.range.prefix.first <= k
           /\ k <= live.range.prefix.last
           => k \in page \/ (truncated /\ \A s \in page : s < k)
      /\ DOMAIN ranges' = DOMAIN ranges
      /\ \A i \in DOMAIN ranges : i # id => ranges'[i] = ranges[i]
      /\ ranges'[id].planned = live.planned /\ ranges'[id].done = live.done
      /\ ranges'[id].range.prefix = live.range.prefix
      /\ ranges'[id].range.from = live.range.from
      /\ ranges'[id].range.until = live.range.until
      /\ ranges'[id].range.folders = live.range.folders
      /\ ranges'[id].range.start_after =
           IF reachedEnd \/ page = {} THEN live.range.start_after ELSE Max(page)
      /\ ranges'[id].emitted = (IF kept = {} THEN live.emitted ELSE Max(kept))
      /\ ranges'[id].pages = (IF kept = {} THEN live.pages ELSE Append(live.pages, kept))
      /\ \A v \in Workers : v # w => worker'[v] = worker[v]
      /\ worker'[w].id = id
      /\ \/ /\ worker'[w].pc = "listing" /\ ~reachedEnd
            /\ worker'[w].after = IF page = {} THEN worker[w].after ELSE Max(page)
         \/ /\ worker'[w].pc = "leaving" /\ worker'[w].left = "done"
            /\ reachedEnd \/ ~truncated
         \/ /\ worker'[w].pc = "leaving" /\ worker'[w].left # "done"
            /\ ~reachedEnd
      /\ UNCHANGED <<order, failure, stop, caller, delivered, result>>

\* HandOver is that, for some response of the server.
LEMMA HandOverDoes ==
  ASSUME ControlInv, NEW w \in Workers, HandOver(w),
         NEW id \in DOMAIN ranges, id = worker[w].id
  PROVE  \E page \in SUBSET Key, truncated \in BOOLEAN : Arrives(w, id, page, truncated)
<1> USE DEF ControlInv
<1> DEFINE live == ranges[id]
<1>1. worker[w].pc = "listing" /\ Inside(w)
  BY DEF HandOver, Inside
<1>2. ~live.done /\ live \in Live
  BY <1>1, TypeFacts DEF InsideIsOpen
<1>3. PICK r \in Responses(live.range.prefix, worker[w].after) :
           LET kept == Kept(live.range, r.keys)
               reachedEnd == \E k \in r.keys : k >= live.range.until
               resume == IF reachedEnd \/ r.keys = {}
                         THEN live.range.start_after ELSE Max(r.keys)
               next == [live EXCEPT
                          !.range.start_after = resume,
                          !.emitted = IF kept = {} THEN @ ELSE Max(kept),
                          !.handed = @ + Cardinality(kept),
                          !.queued = @ + Cardinality(kept),
                          !.pages = IF kept = {} THEN @ ELSE Append(@, kept)]
           IN  /\ ranges' = [ranges EXCEPT ![id] = next]
               /\ Continue(w, r, reachedEnd, HasRoom(ranges', buffered', id))
  BY DEF HandOver
<1> DEFINE page == r.keys
           kept == Kept(live.range, page)
           reachedEnd == \E k \in page : k >= live.range.until
           resume == IF reachedEnd \/ page = {}
                     THEN live.range.start_after ELSE Max(page)
           next == [live EXCEPT
                      !.range.start_after = resume,
                      !.emitted = IF kept = {} THEN @ ELSE Max(kept),
                      !.handed = @ + Cardinality(kept),
                      !.queued = @ + Cardinality(kept),
                      !.pages = IF kept = {} THEN @ ELSE Append(@, kept)]
<1>4. page \in SUBSET Key /\ kept \in SUBSET Key /\ r.truncated \in BOOLEAN
  BY DEF Responses, Kept
<1>5. /\ \A k \in page : worker[w].after < k
      /\ \A k \in page : live.range.prefix.first <= k /\ k <= live.range.prefix.last
      /\ \A k \in Stable :
           /\ worker[w].after < k
           /\ live.range.prefix.first <= k
           /\ k <= live.range.prefix.last
           => k \in page \/ (r.truncated /\ \A s \in page : s < k)
  BY KeyFacts DEF Responses
<1>6. ranges' = [ranges EXCEPT ![id] = next]
      /\ Continue(w, r, reachedEnd, HasRoom(ranges', buffered', id))
  BY <1>3
<1>7. /\ next.planned = live.planned /\ next.done = live.done
      /\ next.emitted = (IF kept = {} THEN live.emitted ELSE Max(kept))
      /\ next.pages = (IF kept = {} THEN live.pages ELSE Append(live.pages, kept))
      /\ next.range.prefix = live.range.prefix
      /\ next.range.from = live.range.from
      /\ next.range.until = live.range.until
      /\ next.range.folders = live.range.folders
      /\ next.range.start_after = resume
  BY <1>2 DEF Live, ListRange
<1>8. /\ DOMAIN ranges' = DOMAIN ranges
      /\ \A i \in DOMAIN ranges : i # id => ranges'[i] = ranges[i]
      /\ ranges'[id] = next
  <2> HIDE DEF next
  <2>1. QED
    BY <1>6
<1>9. UNCHANGED <<order, failure, stop, caller, delivered, result>>
  BY DEF HandOver
<1>10. /\ \A v \in Workers : v # w => worker'[v] = worker[v]
       /\ worker'[w].id = id
       /\ \/ /\ worker'[w].pc = "listing" /\ ~reachedEnd
             /\ worker'[w].after = IF page = {} THEN worker[w].after ELSE Max(page)
          \/ /\ worker'[w].pc = "leaving" /\ worker'[w].left = "done"
             /\ reachedEnd \/ ~r.truncated
          \/ /\ worker'[w].pc = "leaving" /\ worker'[w].left # "done"
             /\ ~reachedEnd
  <2> DEFINE ended == reachedEnd
             room  == HasRoom(ranges', buffered', id)
             after == IF page = {} THEN worker[w].after ELSE Max(page)
             empty == IF page = {} THEN worker[w].empty + 1 ELSE 0
             again == worker' = [worker EXCEPT ![w].after = after, ![w].empty = empty]
  <2>1. \/ ended /\ Leaves(w, "done")
        \/ ~ended /\ ~room /\ Leaves(w, "paused")
        \/ ~ended /\ ~r.truncated /\ Leaves(w, "done")
        \/ ~ended /\ Leaves(w, "error")
        \/ ~ended /\ again
    <3>1. Continue(w, r, ended, room)
      BY <1>6
    <3> HIDE DEF ended, room
    <3>2. QED
      BY <3>1 DEF Continue
  <2>2. ASSUME NEW left \in {"done", "paused", "error"}, Leaves(w, left)
        PROVE  /\ \A v \in Workers : v # w => worker'[v] = worker[v]
               /\ worker'[w].id = id
               /\ worker'[w].pc = "leaving" /\ worker'[w].left = left
    BY <2>2 DEF Leaves, TypeOK
  <2> HIDE DEF ended, after, empty
  <2>3. ASSUME again
        PROVE  /\ \A v \in Workers : v # w => worker'[v] = worker[v]
               /\ worker'[w].id = id
               /\ worker'[w].pc = "listing" /\ worker'[w].after = after
    BY <1>1, <2>3 DEF TypeOK
  <2>4. QED
    BY <2>1, <2>2, <2>3 DEF ended, after
<1>11. /\ ranges'[id].planned = live.planned /\ ranges'[id].done = live.done
       /\ ranges'[id].range.prefix = live.range.prefix
       /\ ranges'[id].range.from = live.range.from
       /\ ranges'[id].range.until = live.range.until
       /\ ranges'[id].range.folders = live.range.folders
       /\ ranges'[id].range.start_after = resume
       /\ ranges'[id].emitted = (IF kept = {} THEN live.emitted ELSE Max(kept))
       /\ ranges'[id].pages = (IF kept = {} THEN live.pages ELSE Append(live.pages, kept))
  <2> HIDE DEF next, resume, kept
  <2>1. QED
    BY <1>7, <1>8
<1> HIDE DEF next
<1>12. Arrives(w, id, page, r.truncated)
  BY <1>1, <1>2, <1>5, <1>8, <1>9, <1>10, <1>11 DEF Arrives
<1>13. QED
  BY <1>4, <1>12

\* The page is the next one of its range: after all it had handed over, and
\* with every key that stays up to its last.
LEMMA HandOverPromise ==
  ASSUME ControlInv, PromiseInv, NEW w \in Workers, HandOver(w)
  PROVE  PromiseInv'
<1> USE DEF ControlInv
<1>1. PICK id \in DOMAIN ranges : id = worker[w].id
  BY DEF HandOver, InsideIsOpen, Inside
<1> DEFINE live == ranges[id]
<1>2. PICK page \in SUBSET Key, truncated \in BOOLEAN : Arrives(w, id, page, truncated)
  BY <1>1, HandOverDoes
<1> DEFINE kept == Kept(live.range, page)
           reachedEnd == \E k \in page : k >= live.range.until
           after == live.range.start_after
           pages == live.pages
<1>3. /\ worker[w].pc = "listing" /\ ~live.done /\ worker[w].after = after
      /\ \A v \in Workers : v # w /\ Inside(v) => worker[v].id # id
  <2>1. worker[w].pc = "listing" /\ Inside(w)
    BY <1>2 DEF Arrives, Inside
  <2>2. worker[w].after = after
    BY <1>1, <2>1 DEF PromiseInv, Flow, Resumes
  <2>3. \A v \in Workers : v # w /\ Inside(v) => worker[v].id # id
    BY <1>1, <2>1 DEF OneWorkerPerRange
  <2>4. QED
    BY <1>2, <2>1, <2>2, <2>3 DEF Arrives
<1>4. ~Over(id)
  BY <1>1, <1>3 DEF Over, Inside
<1>5. /\ after \in Nat /\ live.emitted \in Nat /\ live.range.until \in Nat
      /\ live.range.from \in Nat /\ Base(id) \in Nat
      /\ pages \in Seq(SUBSET Key)
      /\ DOMAIN pages = 1..Len(pages) /\ Len(pages) \in Nat
      /\ live.emitted <= after /\ Base(id) <= after
  <2>1. live.emitted <= after
    BY <1>4 DEF PromiseInv, Flow, Resumes
  <2>2. Base(id) <= after
    BY DEF PromiseInv, Shape, AllTidy, Tidy
  <2>3. QED
    BY <2>1, <2>2, LiveFacts
<1>6. /\ \A k \in page : k \in Nat /\ after < k
      /\ kept \subseteq page /\ kept \in SUBSET Key
      /\ \A k \in page : k \in kept <=> live.range.from <= k /\ k < live.range.until
  BY <1>2, <1>3, KeyFacts DEF Arrives, Kept
<1>7. kept \subseteq Own(id)
  BY <1>2, <1>5, <1>6 DEF Arrives, Own
<1>8. \A k \in Stable \cap Own(id) : after < k =>
        k \in kept \/ (truncated /\ \A s \in page : s < k)
  <2> SUFFICES ASSUME NEW k \in Stable \cap Own(id), after < k,
                      ~(truncated /\ \A s \in page : s < k)
               PROVE  k \in kept
    OBVIOUS
  <2>1. live.range.prefix.first <= k /\ k <= live.range.prefix.last
        /\ live.range.from <= k /\ k < live.range.until
    BY DEF Own
  <2>2. k \in page
    BY <1>2, <1>3, <2>1 DEF Arrives
  <2>3. QED
    BY <1>6, <2>1, <2>2
<1>9. /\ kept # {} => Max(kept) \in kept /\ \A k \in kept : k <= Max(kept)
      /\ page # {} => Max(page) \in page /\ \A k \in page : k <= Max(page)
  BY <1>6, PageFacts
<1>10. /\ DOMAIN ranges' = DOMAIN ranges
       /\ \A i \in DOMAIN ranges : i # id => ranges'[i] = ranges[i]
       /\ ranges'[id].done = live.done
       /\ ranges'[id].range.from = live.range.from
       /\ ranges'[id].range.until = live.range.until
       /\ ranges'[id].range.folders = live.range.folders
       /\ ranges'[id].range.start_after =
            (IF reachedEnd \/ page = {} THEN after ELSE Max(page))
       /\ ranges'[id].emitted = (IF kept = {} THEN live.emitted ELSE Max(kept))
       /\ ranges'[id].pages = (IF kept = {} THEN pages ELSE Append(pages, kept))
  BY <1>2 DEF Arrives
<1>11. /\ \A v \in Workers : v # w => worker'[v] = worker[v]
       /\ worker'[w].id = id
       /\ \/ /\ worker'[w].pc = "listing" /\ ~reachedEnd
             /\ worker'[w].after = IF page = {} THEN after ELSE Max(page)
          \/ /\ worker'[w].pc = "leaving" /\ worker'[w].left = "done"
             /\ reachedEnd \/ ~truncated
          \/ /\ worker'[w].pc = "leaving" /\ worker'[w].left # "done"
             /\ ~reachedEnd
  BY <1>2, <1>3 DEF Arrives
<1>12. UNCHANGED <<order, failure, stop, caller, delivered, result>>
  BY <1>2 DEF Arrives
<1>13. SameBounds
  BY <1>2 DEF Arrives, SameBounds
<1>14. \A k \in page : reachedEnd \/ k < live.range.until
  BY <1>5, <1>6
<1> HIDE DEF kept, reachedEnd
<1>15. /\ \A i \in DOMAIN ranges : Own(i)' = Own(i) /\ Base(i)' = Base(i)
       /\ Ordered' /\ Descends'
  BY <1>13, BoundsKept DEF PromiseInv, Shape
<1> DEFINE emitted1 == ranges'[id].emitted
           after1   == ranges'[id].range.start_after
           pages1   == ranges'[id].pages
<1>16. /\ emitted1 \in Nat /\ after1 \in Nat
       /\ live.emitted <= emitted1 /\ after <= after1
       /\ \A k \in kept : k <= emitted1
       /\ emitted1 < live.range.until
       /\ reachedEnd \/ emitted1 <= after1
  <2>1. kept # {} => Max(kept) \in Nat /\ Max(kept) < live.range.until /\ after < Max(kept)
    BY <1>6, <1>9
  <2>2. page # {} => Max(page) \in Nat /\ after < Max(page)
    BY <1>6, <1>9
  <2>3. kept # {} => page # {} /\ Max(kept) <= Max(page)
    BY <1>6, <1>9
  <2>4. live.emitted < live.range.until
    BY DEF PromiseInv, Shape, AllTidy, Tidy
  <2>5. emitted1 \in Nat /\ live.emitted <= emitted1 /\ emitted1 < live.range.until
    BY <1>5, <1>10, <2>1, <2>4
  <2>6. after1 \in Nat /\ after <= after1
    BY <1>5, <1>10, <2>2
  <2>7. \A k \in kept : k <= emitted1
    BY <1>9, <1>10
  <2>8. reachedEnd \/ emitted1 <= after1
    BY <1>5, <1>10, <2>1, <2>2, <2>3
  <2>9. QED
    BY <2>5, <2>6, <2>7, <2>8
<1>17. /\ kept = {} => DOMAIN pages1 = 1..Len(pages)
       /\ kept # {} => DOMAIN pages1 = 1..Len(pages) + 1 /\ pages1[Len(pages) + 1] = kept
       /\ \A i \in 1..Len(pages) : pages1[i] = pages[i]
  <2>1. CASE kept = {}
    BY <1>5, <1>10, <2>1
  <2>2. CASE kept # {}
    <3>1. pages1 = Append(pages, kept)
      BY <1>10, <2>2
    <3>2. /\ Append(pages, kept) \in Seq(SUBSET Key)
          /\ Len(Append(pages, kept)) = Len(pages) + 1
          /\ \A i \in 1..Len(pages) : Append(pages, kept)[i] = pages[i]
          /\ Append(pages, kept)[Len(pages) + 1] = kept
      BY <1>5, <1>6, AppendProperties DEF kept
    <3>3. DOMAIN Append(pages, kept) = 1..Len(pages) + 1
      BY <3>2, LenProperties
    <3>4. QED
      BY <2>2, <3>1, <3>2, <3>3
  <2>3. QED
    BY <2>1, <2>2
<1>18. \A i \in DOMAIN pages1 :
         \/ i \in DOMAIN pages /\ pages1[i] = pages[i]
         \/ i = Len(pages) + 1 /\ kept # {} /\ pages1[i] = kept
  <2>1. DOMAIN pages = 1..Len(pages) /\ Len(pages) \in Nat
    BY <1>5
  <2> HIDE DEF pages, pages1
  <2>2. CASE kept = {}
    BY <1>17, <2>1, <2>2
  <2>3. CASE kept # {}
    <3>1. DOMAIN pages1 = 1..Len(pages) + 1
      BY <1>17, <2>3
    <3>2. \A i \in 1..Len(pages) + 1 : i \in 1..Len(pages) \/ i = Len(pages) + 1
      BY <2>1
    <3>3. QED
      BY <1>17, <2>1, <2>3, <3>1, <3>2
  <2>4. QED
    BY <2>2, <2>3
<1>19. Held(id)' = Held(id) \cup kept
  <2>1. ASSUME NEW k \in Held(id)' PROVE k \in Held(id) \cup kept
    <3>1. PICK i \in DOMAIN pages1 : k \in pages1[i]
      BY <2>1 DEF Held
    <3>2. QED
      BY <1>18, <3>1 DEF Held
  <2>2. ASSUME NEW k \in Held(id) PROVE k \in Held(id)'
    <3>1. PICK i \in DOMAIN pages : k \in pages[i]
      BY <2>2 DEF Held
    <3>2. i \in DOMAIN pages1 /\ pages1[i] = pages[i]
      BY <1>5, <1>17
    <3>3. QED
      BY <3>1, <3>2 DEF Held
  <2>3. kept \subseteq Held(id)'
    <3>1. CASE kept # {}
      <4>1. Len(pages) + 1 \in DOMAIN pages1
        BY <1>5, <1>17, <3>1
      <4>2. QED
        BY <1>17, <3>1, <4>1 DEF Held
    <3>2. QED
      BY <3>1
  <2>4. QED
    BY <2>1, <2>2, <2>3
<1>20. \A i \in DOMAIN ranges : i # id => Held(i)' = Held(i)
  BY <1>10 DEF Held
<1>21. \A k \in kept : k \in Nat /\ live.emitted < k
  BY <1>5, <1>6
<1>22. ASSUME NEW i \in DOMAIN ranges PROVE Tidy(i)'
  <2>1. Tidy(i)
    BY DEF PromiseInv, Shape, AllTidy
  <2>2. CASE i # id
    BY <1>10, <1>15, <2>1, <2>2 DEF Tidy
  <2>3. CASE i = id
    <3>1. /\ \A j \in DOMAIN pages :
               /\ pages[j] # {} /\ pages[j] \subseteq Own(id)
               /\ \A k \in pages[j] : k <= live.emitted
          /\ \A j, m \in DOMAIN pages :
               j < m => \A k \in pages[j], l \in pages[m] : k < l
      BY <2>1, <2>3 DEF Tidy
    <3>2. ASSUME NEW j \in DOMAIN pages1
          PROVE  /\ pages1[j] # {} /\ pages1[j] \subseteq Own(id)
                 /\ \A k \in pages1[j] : k <= emitted1
      <4>1. CASE j \in DOMAIN pages /\ pages1[j] = pages[j]
        <5>1. \A k \in pages[j] : k \in Nat /\ k <= live.emitted
          BY <3>1, <4>1, LiveFacts, KeyFacts
        <5>2. QED
          BY <1>5, <1>16, <3>1, <4>1, <5>1
      <4>2. CASE kept # {} /\ pages1[j] = kept
        BY <1>7, <1>16, <4>2
      <4>3. QED
        BY <1>18, <4>1, <4>2
    <3>3. ASSUME NEW j \in DOMAIN pages1, NEW m \in DOMAIN pages1, j < m
          PROVE  \A k \in pages1[j], l \in pages1[m] : k < l
      <4>1. j \in DOMAIN pages /\ pages1[j] = pages[j]
        <5>1. m \in Nat /\ m <= Len(pages) + 1
          BY <1>5, <1>18
        <5>2. j # Len(pages) + 1
          BY <1>5, <3>3, <5>1
        <5>3. QED
          BY <1>18, <5>2
      <4>2. CASE m \in DOMAIN pages /\ pages1[m] = pages[m]
        BY <3>1, <3>3, <4>1, <4>2
      <4>3. CASE pages1[m] = kept
        <5>1. \A k \in pages[j] : k \in Nat /\ k <= live.emitted
          BY <3>1, <4>1, LiveFacts, KeyFacts
        <5>2. QED
          BY <1>5, <1>21, <4>1, <4>3, <5>1
      <4>4. QED
        BY <1>18, <4>2, <4>3
    <3>4. Base(id) <= after1
      BY <1>5, <1>16
    <3>5. /\ \A j, m \in DOMAIN live.range.folders :
               j < m => live.range.folders[j] < live.range.folders[m]
          /\ live.range.folders # <<>> =>
               live.range.from = live.range.folders[1] /\ Base(id) < live.range.from
      BY <2>1, <2>3 DEF Tidy
    <3>6. /\ ranges'[i].range.folders = live.range.folders
          /\ ranges'[i].range.from = live.range.from
          /\ ranges'[i].range.until = live.range.until
          /\ ranges'[i].range.start_after = after1
          /\ ranges'[i].emitted = emitted1 /\ ranges'[i].pages = pages1
          /\ Base(i)' = Base(id) /\ Own(i)' = Own(id)
      BY <1>10, <1>15, <2>3
    <3> HIDE DEF live, after1, emitted1, pages1
    <3>7. QED
      BY <1>16, <3>2, <3>3, <3>4, <3>5, <3>6 DEF Tidy
  <2>4. QED
    BY <2>2, <2>3
<1>23. Shape'
  BY <1>10, <1>15, <1>22 DEF Shape, AllTidy
<1>24. /\ \A i \in DOMAIN ranges : i # id => (Over(i)' <=> Over(i))
       /\ \A i \in DOMAIN ranges : i = id =>
            (Over(i)' <=> worker'[w].pc = "leaving" /\ worker'[w].left = "done")
  <2>1. ASSUME NEW i \in DOMAIN ranges, i # id PROVE Over(i)' <=> Over(i)
    BY <1>1, <1>3, <1>10, <1>11, <2>1 DEF Over
  <2>2. ASSUME NEW i \in DOMAIN ranges, i = id
        PROVE  Over(i)' <=> worker'[w].pc = "leaving" /\ worker'[w].left = "done"
    <3>1. \A v \in Workers : v # w /\ worker[v].pc = "leaving" => worker[v].id # id
      BY <1>3 DEF Inside
    <3>2. ~ranges'[i].done
      BY <1>3, <1>10, <2>2
    <3>3. QED
      BY <1>11, <2>2, <3>1, <3>2 DEF Over
  <2>3. QED
    BY <2>1, <2>2
<1>25. Resumes'
  <2>1. Resumes
    BY DEF PromiseInv, Flow
  <2>2. ASSUME NEW i \in DOMAIN ranges
        PROVE  Over(i)' \/ ranges'[i].emitted <= ranges'[i].range.start_after
    <3>1. CASE i # id
      BY <1>10, <1>24, <2>1, <3>1 DEF Resumes
    <3>2. CASE i = id
      BY <1>11, <1>16, <1>24, <3>2
    <3>3. QED
      BY <3>1, <3>2
  <2>3. ASSUME NEW v \in Workers, worker'[v].pc = "listing"
        PROVE  worker'[v].after = ranges'[worker'[v].id].range.start_after
    <3>1. CASE v # w
      <4>1. worker'[v] = worker[v] /\ Inside(v)
        BY <1>11, <2>3, <3>1 DEF Inside
      <4>2. worker[v].id \in DOMAIN ranges /\ worker[v].id # id
        BY <1>3, <3>1, <4>1 DEF InsideIsOpen
      <4>3. QED
        BY <1>10, <2>1, <2>3, <4>1, <4>2 DEF Resumes
    <3>2. CASE v = w
      BY <1>10, <1>11, <2>3, <3>2
    <3>3. QED
      BY <3>1, <3>2
  <2>4. QED
    BY <1>10, <2>2, <2>3 DEF Resumes
<1>26. Handed' = Handed /\ (InTake' <=> InTake)
  BY <1>12 DEF Handed, InTake
<1>27. ASSUME InTake, NEW k \in Stable \cap Own(id),
              k <= after \/ k \in kept
       PROVE  k \in Held(id) \cup kept \cup Handed
  BY <1>27 DEF PromiseInv, Flow, Reached
<1>28. Reached'
  <2> SUFFICES ASSUME InTake, NEW i \in DOMAIN ranges, NEW k \in Stable \cap Own(i),
                      k <= ranges'[i].range.start_after \/ k <= ranges'[i].emitted
               PROVE  k \in Held(i)' \cup Handed
    BY <1>10, <1>15, <1>26 DEF Reached
  <2>1. CASE i # id
    BY <1>10, <1>20, <2>1 DEF PromiseInv, Flow, Reached
  <2>2. CASE i = id
    <3>1. k \in Nat
      BY KeyFacts
    <3>2. CASE after < k
      <4>1. ~(\A s \in page : s < k) \/ k \in kept
        <5> SUFFICES ASSUME \A s \in page : s < k, k \notin kept PROVE FALSE
          OBVIOUS
        <5>1. k < live.range.until
          BY <2>2 DEF Own
        <5>2. ~reachedEnd
          BY <1>5, <1>6, <3>1, <5>1 DEF reachedEnd
        <5>3. after1 < k
          BY <1>9, <1>10, <3>1, <3>2, <5>2
        <5>4. emitted1 < k
          BY <1>5, <1>16, <3>1, <5>2, <5>3
        <5>5. QED
          BY <1>16, <2>2, <3>1, <5>3, <5>4
      <4>2. k \in kept
        BY <1>8, <2>2, <3>2, <4>1
      <4>3. QED
        BY <1>19, <2>2, <4>2
    <3>3. CASE k <= after
      BY <1>19, <1>27, <2>2, <3>3
    <3>4. QED
      BY <1>5, <3>1, <3>2, <3>3
  <2>3. QED
    BY <2>1, <2>2
<1>29. Completed'
  <2> SUFFICES ASSUME InTake, ~failure, NEW i \in DOMAIN ranges, Over(i)',
                      NEW k \in Stable \cap Own(i)
               PROVE  k \in Held(i)' \cup Handed
    BY <1>10, <1>12, <1>15, <1>26 DEF Completed
  <2>1. CASE i # id
    BY <1>20, <1>24, <2>1 DEF PromiseInv, Flow, Completed
  <2>2. CASE i = id
    <3>1. k \in Nat /\ k < live.range.until
      BY <2>2, KeyFacts DEF Own
    <3>2. CASE after < k
      <4>1. reachedEnd \/ ~truncated
        BY <1>11, <1>24, <2>2
      <4>2. reachedEnd => ~(\A s \in page : s < k)
        BY <1>5, <1>6, <3>1 DEF reachedEnd
      <4>3. k \in kept
        BY <1>8, <2>2, <3>2, <4>1, <4>2
      <4>4. QED
        BY <1>19, <2>2, <4>3
    <3>3. CASE k <= after
      BY <1>19, <1>27, <2>2, <3>3
    <3>4. QED
      BY <1>5, <3>1, <3>2, <3>3
  <2>3. QED
    BY <2>1, <2>2
<1>30. AtItsStep'
  BY <1>12 DEF PromiseInv, Course, AtItsStep
<1>31. Frontier'
  <2>1. Frontier
    BY DEF PromiseInv, Course
  <2>2. DOMAIN order' = DOMAIN order
        /\ \A p \in DOMAIN order : /\ order[p] \in DOMAIN ranges
                                   /\ Own(order[p])' = Own(order[p])
    BY <1>12, <1>15, TypeFacts
  <2>3. ASSUME NEW i \in DOMAIN ranges, NEW k \in Own(i),
               k <= ranges[i].emitted, k \notin Held(i)
        PROVE  k <= ranges'[i].emitted /\ k \notin Held(i)'
    <3>1. CASE i # id
      BY <1>10, <1>20, <2>3, <3>1
    <3>2. CASE i = id
      <4>1. k \in Nat
        BY <2>3, LiveFacts, KeyFacts
      <4>2. k <= emitted1
        BY <1>5, <1>16, <2>3, <3>2, <4>1
      <4>3. k \notin kept
        BY <1>5, <1>21, <2>3, <3>2, <4>1
      <4>4. QED
        BY <1>19, <2>3, <3>2, <4>2, <4>3
    <3>3. QED
      BY <3>1, <3>2
  <2>4. \A p \in DOMAIN order : \A k \in Own(order[p]) :
          k <= ranges[order[p]].emitted /\ k \notin Held(order[p])
            => k <= ranges'[order'[p]].emitted /\ k \notin Held(order[p])'
    <3> SUFFICES ASSUME NEW p \in DOMAIN order, NEW i \in DOMAIN ranges, i = order[p],
                        NEW k \in Own(i), k <= ranges[i].emitted, k \notin Held(i)
                 PROVE  k <= ranges'[order'[p]].emitted /\ k \notin Held(order[p])'
      BY <2>2
    <3>1. order'[p] = i
      BY <1>12
    <3>2. Held(order[p])' = Held(i)'
      BY <3>1 DEF Held
    <3>3. QED
      BY <2>3, <3>1, <3>2
  <2>5. QED
    BY <1>12, <1>26, <2>1, <2>2, <2>4 DEF Frontier
<1>32. Ending'
  BY <1>12, <1>26 DEF PromiseInv, Course, Ending
<1>33. QED
  BY <1>23, <1>25, <1>28, <1>29, <1>30, <1>31, <1>32 DEF PromiseInv, Flow, Course

(***************************************************************************)
(* A split.                                                                *)
(***************************************************************************)
\* What a split at `folder` does to the range `o` at p, and what it makes
\* `new`.
Splits(w, p, o, new, folder) ==
  LET old == ranges[o]
  IN  /\ new \in Nat /\ new = Len(ranges) + 1
      /\ old.emitted < folder /\ old.range.from < folder /\ Base(o) < folder
      /\ folder < old.range.until
      /\ DOMAIN ranges' = DOMAIN ranges \cup {new}
      /\ \A i \in DOMAIN ranges : i # o => ranges'[i] = ranges[i]
      /\ ranges'[o].planned = old.planned
      /\ ranges'[o].done = old.done
      /\ ranges'[o].pages = old.pages
      /\ ranges'[o].queued = old.queued
      /\ ranges'[o].emitted = old.emitted
      /\ ranges'[o].range.prefix = old.range.prefix
      /\ ranges'[o].range.start_after = old.range.start_after
      /\ ranges'[o].range.from = old.range.from
      /\ ranges'[o].range.until = folder
      /\ ranges'[o].range.folders = old.range.folders
      /\ ~ranges'[new].planned
      /\ ~ranges'[new].done
      /\ ranges'[new].pages = <<>>
      /\ ranges'[new].queued = 0
      /\ ranges'[new].emitted = NoKey
      /\ ranges'[new].range.prefix = old.range.prefix
      /\ ranges'[new].range.start_after \in Nat
      /\ ranges'[new].range.start_after < folder
      /\ ranges'[new].range.from = folder
      /\ ranges'[new].range.until = old.range.until
      /\ ranges'[new].range.folders[1] = folder
      /\ \A i, j \in DOMAIN ranges'[new].range.folders :
           i < j => ranges'[new].range.folders[i] < ranges'[new].range.folders[j]
      /\ worker[w].pc = "idle"
      /\ worker'[w].pc = "listing" /\ worker'[w].id = new
      /\ worker'[w].after = ranges'[new].range.start_after
      /\ \A v \in Workers : v # w => worker'[v] = worker[v]
      /\ order' = InsertAfter(p, new)
      /\ UNCHANGED <<taking, buffered, failure, stop, caller, delivered, result>>

\* SplitBusy is that, at a folder the range has not come to.
LEMMA SplitDoes ==
  ASSUME ControlInv, Shape, NEW w \in Workers, NEW p \in Ahead, SplitBusy(w, p),
         NEW o \in DOMAIN ranges, o = order[p], NEW new \in Nat, new = Len(ranges) + 1
  PROVE  \E folder \in Nat \ {0} : Splits(w, p, o, new, folder)
<1> DEFINE old    == ranges[o]
           fs     == old.range.folders
           at     == SplitAt(old)
           end    == FolderEnd(old)
           folder == fs[at]
           half   == [old.range EXCEPT
                        !.start_after = Seek(folder),
                        !.from = folder,
                        !.folders = SubSeq(@, at, end)]
           kept   == [old EXCEPT !.range.until = folder]
           cut    == [ranges EXCEPT ![o] = kept]
           made   == NewLive(half, FALSE, TRUE)
<1>1. TypeOK /\ ranges \in Seq(Live) /\ Len(ranges) \in Nat
      /\ DOMAIN ranges = 1..Len(ranges) /\ old \in Live
  BY TypeFacts DEF ControlInv, TypeOK
<1>2. HasUnreached(old)
  BY DEF SplitBusy, Earliest, Splittable
<1>3. old.range \in ListRange /\ fs \in Seq(Position)
  BY <1>1 DEF Live, ListRange
<1>4. DOMAIN fs = 1..Len(fs) /\ Len(fs) \in Nat
      /\ \A i \in DOMAIN fs : fs[i] \in Nat \ {0}
  <2>1. DOMAIN fs = 1..Len(fs) /\ Len(fs) \in Nat /\ \A i \in DOMAIN fs : fs[i] \in Position
    BY <1>3, LenProperties, ElementOfSeq
  <2> HIDE DEF fs
  <2>2. QED
    BY <2>1, ConstantsAssumption DEF Position
<1>5. /\ at \in 1..Len(fs) /\ end \in 1..Len(fs) /\ 1 < at /\ at <= end
      /\ fs[end] < old.range.until /\ folder > old.emitted
  <2>1. /\ CurrentFolder(old) \in Nat \ {0}
        /\ end \in DOMAIN fs /\ at \in DOMAIN fs
        /\ CurrentFolder(old) < at /\ at <= end
        /\ fs[end] < old.range.until /\ folder > old.emitted
    BY <1>1, <1>2, SplitPoint
  <2>2. 1 < at
    <3> DEFINE c == CurrentFolder(old)
    <3>1. c \in Nat \ {0} /\ c < at /\ at \in Nat
      BY <1>4, <2>1
    <3> HIDE DEF c, at
    <3>2. QED
      BY <3>1
  <2>3. QED
    BY <1>4, <2>1, <2>2
<1>6. /\ \A i, j \in DOMAIN fs : i < j => fs[i] < fs[j]
      /\ fs # <<>>
      /\ old.range.from = fs[1] /\ Base(o) < old.range.from
  <2>1. Tidy(o)
    BY DEF Shape, AllTidy
  <2>2. fs # <<>>
    BY <1>4, <1>5
  <2>3. QED
    BY <2>1, <2>2 DEF Tidy
<1>7. /\ folder \in Nat \ {0} /\ old.emitted < folder
      /\ old.range.from < folder /\ Base(o) < folder
      /\ folder < old.range.until
  <2> HIDE DEF fs, at, end
  <2>1. 1 \in DOMAIN fs /\ at \in DOMAIN fs /\ end \in DOMAIN fs
    BY <1>4, <1>5
  <2>2. fs[1] < fs[at] /\ (at = end \/ fs[at] < fs[end])
    BY <1>4, <1>5, <1>6, <2>1
  <2>3. fs[1] \in Nat /\ fs[at] \in Nat \ {0} /\ fs[end] \in Nat
    BY <1>4, <2>1
  <2>4. old.emitted \in Nat /\ old.range.until \in Nat /\ Base(o) \in Nat
    BY <1>1, LiveFacts
  <2>5. QED
    BY <1>5, <1>6, <2>2, <2>3, <2>4, SMTT(30)
<1>8. UNCHANGED <<taking, buffered, failure, stop, caller, delivered, result>>
  BY DEF SplitBusy
<1>9. ranges' = Append(cut, made)
      /\ worker' = [worker EXCEPT ![w] = [pc |-> "listing", id |-> new,
                      after |-> half.start_after, empty |-> 0, left |-> "done"]]
      /\ order' = InsertAfter(p, new) /\ worker[w].pc = "idle"
  BY <1>1 DEF SplitBusy, Lists, MayClaim
<1>10. /\ half.prefix = old.range.prefix /\ half.until = old.range.until
       /\ half.from = folder /\ half.start_after = Seek(folder)
       /\ half.folders = SubSeq(fs, at, end)
  <2> HIDE DEF at, end, folder
  <2>1. QED
    BY <1>3 DEF ListRange
<1>11. /\ kept.planned = old.planned /\ kept.done = old.done
       /\ kept.pages = old.pages /\ kept.emitted = old.emitted
       /\ kept.queued = old.queued
       /\ kept.range.prefix = old.range.prefix
       /\ kept.range.start_after = old.range.start_after
       /\ kept.range.from = old.range.from
       /\ kept.range.until = folder
       /\ kept.range.folders = old.range.folders
  <2> HIDE DEF folder
  <2>1. QED
    BY <1>1 DEF Live, ListRange
<1>12. Seek(folder) \in Nat /\ Seek(folder) < folder
  <2> HIDE DEF folder
  <2>1. QED
    BY <1>7 DEF Seek
<1>13. /\ SubSeq(fs, at, end)[1] = folder
       /\ SubSeq(fs, at, end) \in Seq(Position)
       /\ \A i, j \in DOMAIN SubSeq(fs, at, end) :
            i < j => SubSeq(fs, at, end)[i] < SubSeq(fs, at, end)[j]
  <2>1. fs \in Seq(Position) /\ \A i \in at..end : fs[i] \in Position
    BY <1>3, <1>4, <1>5, ElementOfSeq
  <2> HIDE DEF fs, at, end
  <2>2. at \in Int /\ end \in Int /\ at <= end
    BY <1>4, <1>5
  <2>3. /\ Len(SubSeq(fs, at, end)) = end - at + 1
        /\ SubSeq(fs, at, end) \in Seq(Position)
        /\ \A i \in 1..end - at + 1 : SubSeq(fs, at, end)[i] = fs[at + i - 1]
    <3>1. /\ SubSeq(fs, at, end) \in Seq(Position)
          /\ Len(SubSeq(fs, at, end)) = IF at <= end THEN end - at + 1 ELSE 0
          /\ \A i \in 1..end - at + 1 : SubSeq(fs, at, end)[i] = fs[at + i - 1]
      BY <2>1, <2>2, SubSeqProperties
    <3>2. QED
      BY <2>2, <3>1
  <2>4. DOMAIN SubSeq(fs, at, end) = 1..end - at + 1
    BY <2>3, LenProperties
  <2>5. 1 \in 1..end - at + 1 /\ at + 1 - 1 = at
    BY <1>4, <1>5
  <2>6. ASSUME NEW i \in DOMAIN SubSeq(fs, at, end), NEW j \in DOMAIN SubSeq(fs, at, end),
               i < j
        PROVE  SubSeq(fs, at, end)[i] < SubSeq(fs, at, end)[j]
    <3> DEFINE a == at + i - 1
               b == at + j - 1
    <3>1. a \in DOMAIN fs /\ b \in DOMAIN fs /\ a < b
      BY <1>4, <1>5, <2>4, <2>6, SMTT(30)
    <3>2. SubSeq(fs, at, end)[i] = fs[a] /\ SubSeq(fs, at, end)[j] = fs[b]
      BY <2>3, <2>4
    <3> HIDE DEF a, b
    <3>3. QED
      BY <1>6, <3>1, <3>2
  <2>7. QED
    BY <2>3, <2>5, <2>6 DEF folder
<1>14. kept \in Live /\ made \in Live
  <2>1. folder \in Position /\ folder \in 1..NoEnd
    <3>1. folder \in Position
      BY <1>3, <1>5, ElementOfSeq
    <3>2. folder \in 1..NoEnd
      BY <3>1, ConstantsAssumption DEF Position, NoEnd
    <3>3. QED
      BY <3>1, <3>2
  <2>2. Position \subseteq Nat
    BY ConstantsAssumption DEF Position
  <2>3. Seek(folder) \in Nat /\ SubSeq(fs, at, end) \in Seq(Position)
    BY <1>12, <1>13
  <2>4. <<>> \in Seq(SUBSET Key)
    BY EmptySeq
  <2> HIDE DEF folder, at, end
  <2>5. half \in ListRange
    BY <1>3, <2>1, <2>2, <2>3 DEF ListRange
  <2> HIDE DEF half
  <2>6. made \in Live
    BY <2>4, <2>5 DEF NewLive, Live, NoKey
  <2>7. [old.range EXCEPT !.until = folder] \in ListRange
    BY <1>3, <2>1 DEF ListRange
  <2>8. kept \in Live
    BY <1>1, <2>7 DEF Live
  <2>9. QED
    BY <2>6, <2>8
<1>15. half.start_after = Seek(folder) /\ half.start_after \in Nat
  BY <1>10, <1>12
<1>16. /\ DOMAIN ranges' = DOMAIN ranges \cup {new}
       /\ \A i \in DOMAIN ranges : ranges'[i] = IF i = o THEN kept ELSE ranges[i]
       /\ ranges'[new] = made
  <2> HIDE DEF kept, made
  <2>1. cut \in Seq(Live) /\ Len(cut) = Len(ranges)
        /\ \A i \in 1..Len(ranges) : cut[i] = IF i = o THEN kept ELSE ranges[i]
    BY <1>1, <1>14, ExceptSeq
  <2> HIDE DEF cut
  <2>2. Append(cut, made) \in Seq(Live) /\ Len(Append(cut, made)) = Len(cut) + 1
        /\ Append(cut, made)[Len(cut) + 1] = made
        /\ \A i \in 1..Len(cut) : Append(cut, made)[i] = cut[i]
    BY <1>14, <2>1, AppendProperties
  <2>3. ranges' = Append(cut, made)
    BY <1>9
  <2>4. ranges' \in Seq(Live) /\ Len(ranges') = new /\ ranges'[new] = made
        /\ \A i \in 1..Len(ranges) : ranges'[i] = cut[i]
    BY <2>1, <2>2, <2>3
  <2>5. DOMAIN ranges' = 1..new
    BY <2>4, LenProperties
  <2>6. 1..new = 1..Len(ranges) \cup {new}
    BY <1>1
  <2>7. QED
    BY <1>1, <2>1, <2>4, <2>5, <2>6
<1>17. /\ ~made.planned /\ ~made.done /\ made.pages = <<>> /\ made.emitted = NoKey
       /\ made.queued = 0
       /\ made.range = half
  BY DEF NewLive
<1> HIDE DEF made, kept
<1>18. /\ worker'[w].pc = "listing" /\ worker'[w].id = new
       /\ worker'[w].after = half.start_after
       /\ \A v \in Workers : v # w => worker'[v] = worker[v]
  <2> HIDE DEF half
  <2>1. QED
    BY <1>9 DEF ControlInv, TypeOK
<1> HIDE DEF half
<1>19. new \notin DOMAIN ranges /\ o # new
  BY <1>1
<1>20. ranges'[o] = kept /\ (\A i \in DOMAIN ranges : i # o => ranges'[i] = ranges[i])
  BY <1>16
<1>21. /\ half.folders[1] = folder
       /\ \A i, j \in DOMAIN half.folders : i < j => half.folders[i] < half.folders[j]
  BY <1>10, <1>13
<1> HIDE DEF folder, at, end, fs
<1>22. /\ ranges'[o].planned = old.planned
       /\ ranges'[o].done = old.done
       /\ ranges'[o].pages = old.pages
       /\ ranges'[o].queued = old.queued
       /\ ranges'[o].emitted = old.emitted
       /\ ranges'[o].range.prefix = old.range.prefix
       /\ ranges'[o].range.start_after = old.range.start_after
       /\ ranges'[o].range.from = old.range.from
       /\ ranges'[o].range.until = folder
       /\ ranges'[o].range.folders = old.range.folders
  BY <1>11, <1>20
<1>23. /\ ~ranges'[new].planned
       /\ ~ranges'[new].done
       /\ ranges'[new].pages = <<>>
       /\ ranges'[new].queued = 0
       /\ ranges'[new].emitted = NoKey
       /\ ranges'[new].range = half
  BY <1>16, <1>17
<1>24. /\ half.prefix = old.range.prefix
       /\ half.start_after \in Nat /\ half.start_after < folder
       /\ half.from = folder
       /\ half.until = old.range.until
  BY <1>10, <1>12
<1>25. Splits(w, p, o, new, folder)
  <2>1. DOMAIN ranges' = DOMAIN ranges \cup {new}
    BY <1>16
  <2>2. order' = InsertAfter(p, new) /\ worker[w].pc = "idle"
    BY <1>9
  <2>3. /\ ranges'[new].range.prefix = old.range.prefix
        /\ ranges'[new].range.start_after \in Nat
        /\ ranges'[new].range.start_after < folder
        /\ ranges'[new].range.from = folder
        /\ ranges'[new].range.until = old.range.until
        /\ ranges'[new].range.folders[1] = folder
        /\ \A i, j \in DOMAIN ranges'[new].range.folders :
             i < j => ranges'[new].range.folders[i] < ranges'[new].range.folders[j]
        /\ worker'[w].after = ranges'[new].range.start_after
    BY <1>18, <1>21, <1>23, <1>24
  <2>4. /\ old.emitted < folder /\ old.range.from < folder /\ Base(o) < folder
        /\ folder < old.range.until
    BY <1>7
  <2>5. /\ ~ranges'[new].planned /\ ~ranges'[new].done /\ ranges'[new].pages = <<>>
        /\ ranges'[new].queued = 0 /\ ranges'[new].emitted = NoKey
    BY <1>23
  <2>6. /\ worker'[w].pc = "listing" /\ worker'[w].id = new
        /\ \A v \in Workers : v # w => worker'[v] = worker[v]
    BY <1>18
  <2>7. \A i \in DOMAIN ranges : i # o => ranges'[i] = ranges[i]
    BY <1>20
  <2>8. QED
    BY <1>8, <1>22, <2>1, <2>2, <2>3, <2>4, <2>5, <2>6, <2>7, Zenon DEF Splits
<1>26. QED
  BY <1>7, <1>25

\* What a split does to the keys the ranges list and hold: the later half gets
\* those from the folder on, and nobody else notices.
LEMMA SplitOwn ==
  ASSUME ControlInv, Shape, NEW w \in Workers, NEW p \in DOMAIN order,
         NEW o \in DOMAIN ranges, NEW new, NEW folder \in Nat \ {0}, Splits(w, p, o, new, folder)
  PROVE  /\ new \notin DOMAIN ranges /\ new \notin DOMAIN Planned
         /\ \A i \in DOMAIN ranges :
              /\ Base(i)' = Base(i) /\ Held(i)' = Held(i)
              /\ ranges'[i].planned = ranges[i].planned
              /\ ranges'[i].done = ranges[i].done
              /\ ranges'[i].emitted = ranges[i].emitted
              /\ ranges'[i].range.start_after = ranges[i].range.start_after
              /\ i # o => Own(i)' = Own(i)
         /\ Own(o)' = {k \in Own(o) : k < folder}
         /\ Own(new)' = {k \in Own(o) : folder <= k}
         /\ Held(new)' = {} /\ Base(new)' = 0
<1>1. TypeOK /\ DOMAIN ranges = 1..Len(ranges) /\ Len(ranges) \in Nat
  BY TypeFacts DEF ControlInv
<1>2. new \notin DOMAIN ranges /\ new \notin DOMAIN Planned
  <2>1. new \in Nat /\ new = Len(ranges) + 1
    BY DEF Splits
  <2>2. QED
    BY <1>1, <2>1, PlanFacts DEF ControlInv, PlannedInOrder
<1>3. \A i \in DOMAIN ranges :
        /\ Base(i)' = Base(i) /\ Held(i)' = Held(i)
        /\ ranges'[i].planned = ranges[i].planned
        /\ ranges'[i].done = ranges[i].done
        /\ ranges'[i].emitted = ranges[i].emitted
        /\ ranges'[i].range.start_after = ranges[i].range.start_after
        /\ i # o => Own(i)' = Own(i)
  <2> SUFFICES ASSUME NEW i \in DOMAIN ranges
               PROVE  /\ Base(i)' = Base(i) /\ Held(i)' = Held(i)
                      /\ ranges'[i].planned = ranges[i].planned
                      /\ ranges'[i].done = ranges[i].done
                      /\ ranges'[i].emitted = ranges[i].emitted
                      /\ ranges'[i].range.start_after = ranges[i].range.start_after
                      /\ i # o => Own(i)' = Own(i)
    OBVIOUS
  <2>1. Base(i)' = Base(i)
    BY DEF Base
  <2>2. i # o => ranges'[i] = ranges[i]
    BY DEF Splits
  <2>3. ranges'[i].pages = ranges[i].pages
    BY <2>2 DEF Splits
  <2>4. i # o => Own(i)' = Own(i)
    BY <2>2 DEF Own, Base
  <2>5. Held(i)' = Held(i)
    BY <2>3 DEF Held
  <2>6. QED
    BY <2>1, <2>2, <2>4, <2>5 DEF Splits
<1>4. Own(o)' = {k \in Own(o) : k < folder}
  <2>1. /\ ranges'[o].range.prefix = ranges[o].range.prefix
        /\ ranges'[o].range.from = ranges[o].range.from
        /\ ranges'[o].range.until = folder /\ folder < ranges[o].range.until
    BY DEF Splits
  <2>2. ranges[o].range.until \in Nat /\ \A k \in Key : k \in Nat
    BY <1>1, LiveFacts, KeyFacts
  <2>3. \A k \in Key : k < folder => k < ranges[o].range.until
    BY <2>1, <2>2
  <2>4. QED
    BY <2>1, <2>3 DEF Own, Base
<1>5. Base(new) = 0
  BY <1>2 DEF Base, NoKey
<1>6. Own(new)' = {k \in Own(o) : folder <= k}
  <2>1. /\ ranges'[new].range.prefix = ranges[o].range.prefix
        /\ ranges'[new].range.from = folder
        /\ ranges'[new].range.until = ranges[o].range.until
        /\ ranges[o].range.from < folder /\ Base(o) < folder
    BY DEF Splits
  <2>2. /\ ranges[o].range.from \in Nat /\ Base(o) \in Nat
        /\ \A k \in Key : k \in Nat \ {0}
    BY <1>1, LiveFacts, KeyFacts
  <2>3. \A k \in Key : 0 < k /\ (folder <= k => Base(o) < k /\ ranges[o].range.from <= k)
    BY <2>1, <2>2
  <2>4. Base(new)' = 0
    BY <1>5 DEF Base
  <2>5. QED
    BY <2>1, <2>3, <2>4 DEF Own
<1>7. Held(new)' = {}
  BY DEF Splits, Held
<1>8. Base(new)' = 0
  BY <1>5 DEF Base
<1>9. QED
  BY <1>2, <1>3, <1>4, <1>6, <1>7, <1>8

\* Where the range at q stood before the split; at p + 1, where the half's was.
Was(p, q) == IF q <= p THEN q ELSE q - 1
Now(p, q) == IF q <= p THEN q ELSE q + 1

\* Inserting the half moves what follows it by one, and nothing else.
LEMMA SplitPlaces ==
  ASSUME TypeOK, NEW p \in DOMAIN order, NEW new \in Nat, order' = InsertAfter(p, new)
  PROVE  /\ DOMAIN order' = 1..Len(order) + 1 /\ Len(order) \in Nat
         /\ p \in 1..Len(order)
         /\ order'[p] = order[p] /\ order'[p + 1] = new
         /\ \A q \in DOMAIN order' :
              /\ Was(p, q) \in DOMAIN order
              /\ q # p + 1 => order'[q] = order[Was(p, q)]
              /\ q = p + 1 => Was(p, q) = p
              /\ Was(p, q) = q \/ (Was(p, q) + 1 = q /\ p < q)
         /\ \A q, r \in DOMAIN order' :
              q < r => Was(p, q) < Was(p, r) \/ (q = p /\ r = p + 1)
         /\ \A u \in DOMAIN order :
              /\ Now(p, u) \in DOMAIN order' /\ Now(p, u) # p + 1
              /\ Was(p, Now(p, u)) = u /\ u <= Now(p, u)
<1>1. DOMAIN order = 1..Len(order) /\ Len(order) \in Nat /\ p \in 1..Len(order)
  BY TypeFacts
<1>2. /\ order' \in Seq(DOMAIN ranges \cup {new}) /\ Len(order') = Len(order) + 1
      /\ \A q \in 1..p : order'[q] = order[q]
      /\ order'[p + 1] = new
      /\ \A q \in p + 2..Len(order) + 1 : order'[q] = order[q - 1]
  BY InsertFacts
<1>3. DOMAIN order' = 1..Len(order) + 1
  BY <1>2, LenProperties
<1>4. \A q \in 1..Len(order) + 1 :
        /\ Was(p, q) \in 1..Len(order)
        /\ q = p + 1 => Was(p, q) = p
        /\ Was(p, q) = q \/ (Was(p, q) + 1 = q /\ p < q)
  BY <1>1 DEF Was
<1>5. \A q \in 1..Len(order) + 1 : q # p + 1 => order'[q] = order[Was(p, q)]
  <2>1. \A q \in 1..Len(order) + 1 : q # p + 1 => q \in 1..p \/ q \in p + 2..Len(order) + 1
    BY <1>1
  <2>2. \A q \in 1..p : Was(p, q) = q
    BY <1>1 DEF Was
  <2>3. \A q \in p + 2..Len(order) + 1 : Was(p, q) = q - 1
    BY <1>1 DEF Was
  <2>4. QED
    BY <1>2, <2>1, <2>2, <2>3
<1>6. \A q, r \in 1..Len(order) + 1 :
        q < r => Was(p, q) < Was(p, r) \/ (q = p /\ r = p + 1)
  BY <1>1 DEF Was
<1>7. \A u \in 1..Len(order) :
        /\ Now(p, u) \in 1..Len(order) + 1 /\ Now(p, u) # p + 1
        /\ Was(p, Now(p, u)) = u /\ u <= Now(p, u)
  BY <1>1 DEF Was, Now
<1>8. order'[p] = order[p]
  BY <1>1, <1>2
<1>9. QED
  BY <1>1, <1>2, <1>3, <1>4, <1>5, <1>6, <1>7, <1>8

\* After a split each range is still in order and holds only its own.
LEMMA SplitTidy ==
  ASSUME ControlInv, Shape, NEW w \in Workers, NEW p \in DOMAIN order,
         NEW o \in DOMAIN ranges, NEW new \in Nat, new = Len(ranges) + 1,
         NEW folder \in Nat \ {0}, Splits(w, p, o, new, folder)
  PROVE  AllTidy'
<1>1. TypeOK /\ AllTidy /\ new \notin DOMAIN ranges
      /\ DOMAIN ranges' = DOMAIN ranges \cup {new}
  <2>1. DOMAIN ranges' = DOMAIN ranges \cup {new}
    BY DEF Splits
  <2>2. QED
    BY <2>1, SplitOwn DEF ControlInv, Shape
<1>2. ASSUME NEW i \in DOMAIN ranges, i # o
      PROVE  Tidy(i)'
  <2>1. ranges'[i] = ranges[i] /\ Own(i)' = Own(i) /\ Base(i)' = Base(i)
    BY <1>2, SplitOwn DEF Splits
  <2>2. Tidy(i)
    BY <1>1 DEF AllTidy
  <2>3. QED
    BY <2>1, <2>2 DEF Tidy
<1>3. Tidy(o)'
  <2>1. Own(o)' = {k \in Own(o) : k < folder} /\ Base(o)' = Base(o)
    <3>1. Own(o)' = {k \in Own(o) : k < folder}
      BY SplitOwn DEF Splits
    <3>2. Base(o)' = Base(o)
      BY DEF Base
    <3>3. QED
      BY <3>1, <3>2
  <2> DEFINE old == ranges[o]
             cut == ranges'[o]
  <2>2. /\ cut.range.folders = old.range.folders
        /\ cut.range.from = old.range.from
        /\ cut.range.start_after = old.range.start_after
        /\ cut.range.until = folder
        /\ cut.emitted = old.emitted /\ cut.pages = old.pages
        /\ old.emitted < folder
    BY DEF Splits
  <2>3. Own(o)' = {k \in Own(o) : k < folder} /\ Base(o)' = Base(o)
    BY <2>1
  <2>4. Tidy(o)
    BY <1>1 DEF AllTidy
  <2>5. ASSUME NEW i \in DOMAIN old.pages, NEW k \in old.pages[i]
        PROVE  k \in Own(o) /\ k < folder
    <3>1. k \in Own(o) /\ k <= old.emitted
      BY <2>4, <2>5 DEF Tidy
    <3>2. k \in Nat /\ old.emitted \in Nat
      BY <1>1, <3>1, LiveFacts, KeyFacts
    <3>3. QED
      BY <2>2, <3>1, <3>2
  <2>6. \A i \in DOMAIN old.pages : old.pages[i] \subseteq Own(o)'
    BY <2>3, <2>5
  <2>7. QED
    BY <2>2, <2>3, <2>4, <2>6 DEF Tidy
<1>4. Tidy(new)'
  <2> DEFINE half == ranges'[new]
  <2>1. /\ half.pages = <<>> /\ half.emitted = 0
        /\ half.range.start_after \in Nat
        /\ half.range.from = folder
        /\ half.range.until = ranges[o].range.until /\ folder < ranges[o].range.until
        /\ half.range.folders[1] = folder
        /\ \A i, j \in DOMAIN half.range.folders :
             i < j => half.range.folders[i] < half.range.folders[j]
    BY DEF Splits, NoKey
  <2>2. Base(new)' = 0
    BY SplitOwn
  <2>3. 0 < ranges[o].range.until
    BY <1>1, <2>1, LiveFacts
  <2>4. DOMAIN half.pages = {}
    BY <2>1
  <2>5. 0 <= half.range.start_after /\ 0 < folder
    BY <2>1
  <2> HIDE DEF half
  <2>6. /\ \A i, j \in DOMAIN half.range.folders :
             i < j => half.range.folders[i] < half.range.folders[j]
        /\ half.range.folders # <<>> => half.range.from = half.range.folders[1] /\ 0 < half.range.from
        /\ 0 <= half.range.start_after
        /\ half.emitted < half.range.until
    BY <2>1, <2>3, <2>5
  <2>7. QED
    BY <2>2, <2>4, <2>6 DEF Tidy, half
<1>5. QED
  BY <1>1, <1>2, <1>3, <1>4 DEF AllTidy

\* After a split the order of the ranges is still the order of their keys, and
\* each follows, through halves only, the planned range it was split off.
LEMMA SplitOrder ==
  ASSUME ControlInv, Shape, NEW w \in Workers, NEW p \in DOMAIN order,
         NEW o \in DOMAIN ranges, o = order[p],
         NEW new \in Nat, new = Len(ranges) + 1,
         NEW folder \in Nat \ {0}, Splits(w, p, o, new, folder)
  PROVE  /\ \A q \in DOMAIN order' : \A k \in Key :
              k \in Own(order[q])' => k \in Own(order[Was(p, q)])
         /\ Ordered' /\ Descends'
<1>1. TypeOK /\ new \notin DOMAIN ranges /\ OrderIsPermutation
      /\ order' = InsertAfter(p, new)
      /\ \A q \in DOMAIN order : order[q] \in DOMAIN ranges
  <2>1. new \notin DOMAIN ranges
    BY SplitOwn
  <2>2. QED
    BY <2>1, TypeFacts DEF ControlInv, Splits
<1>2. /\ Own(o)' = {k \in Own(o) : k < folder}
      /\ Own(new)' = {k \in Own(o) : folder <= k}
      /\ \A i \in DOMAIN ranges : i # o => Own(i)' = Own(i)
      /\ \A i \in DOMAIN ranges : ranges'[i].planned = ranges[i].planned
      /\ ~ranges'[new].planned
  <2>1. ~ranges'[new].planned
    BY DEF Splits
  <2>2. QED
    BY <2>1, SplitOwn
<1>3. /\ DOMAIN order' = 1..Len(order) + 1 /\ DOMAIN order = 1..Len(order)
      /\ Len(order) \in Nat /\ p \in 1..Len(order)
      /\ order'[p] = order[p] /\ order'[p + 1] = new
      /\ \A q \in DOMAIN order' :
           /\ Was(p, q) \in DOMAIN order
           /\ q # p + 1 => order'[q] = order[Was(p, q)]
           /\ q = p + 1 => Was(p, q) = p
           /\ Was(p, q) = q \/ (Was(p, q) + 1 = q /\ p < q)
      /\ \A q, r \in DOMAIN order' :
           q < r => Was(p, q) < Was(p, r) \/ (q = p /\ r = p + 1)
      /\ \A u \in DOMAIN order :
           /\ Now(p, u) \in DOMAIN order' /\ Now(p, u) # p + 1
           /\ Was(p, Now(p, u)) = u /\ u <= Now(p, u)
  <2>1. DOMAIN order = 1..Len(order)
    BY <1>1, TypeFacts
  <2>2. QED
    BY <1>1, <2>1, SplitPlaces
<1>4. ASSUME NEW q \in DOMAIN order'
      PROVE  /\ Own(order[q])' \subseteq Own(order[Was(p, q)])
             /\ q = p => \A k \in Own(order[q])' : k < folder
             /\ q = p + 1 => \A k \in Own(order[q])' : folder <= k
  <2>1. CASE q = p + 1
    <3>1. order'[q] = new /\ order[Was(p, q)] = o /\ q # p
      BY <1>3, <2>1
    <3>2. Own(order[q])' = {k \in Own(o) : folder <= k}
      BY <1>2, <3>1
    <3>3. QED
      BY <3>1, <3>2
  <2>2. CASE q # p + 1
    <3>1. PICK i \in DOMAIN ranges : i = order[Was(p, q)] /\ order'[q] = i
      BY <1>1, <1>3, <2>2
    <3>2. Own(i)' \subseteq Own(i)
      BY <1>2
    <3>3. q = p => i = o
      BY <1>3, <3>1
    <3>4. Own(order[q])' = Own(i)'
      BY <3>1
    <3>5. QED
      BY <1>2, <2>2, <3>1, <3>2, <3>3, <3>4
  <2>3. QED
    BY <2>1, <2>2
<1>5. Ordered'
  <2> SUFFICES ASSUME NEW q \in DOMAIN order', NEW r \in DOMAIN order', q < r,
                      NEW k \in Own(order[q])', NEW l \in Own(order[r])'
               PROVE  k < l
    BY DEF Ordered
  <2>1. k \in Own(order[Was(p, q)]) /\ l \in Own(order[Was(p, r)])
    BY <1>4
  <2>2. CASE Was(p, q) < Was(p, r)
    BY <1>3, <2>1, <2>2 DEF Shape, Ordered
  <2>3. CASE q = p /\ r = p + 1
    <3>1. k < folder /\ folder <= l
      BY <1>4, <2>3
    <3>2. k \in Nat /\ l \in Nat
      BY <1>1, <1>3, <2>1, LiveFacts, KeyFacts
    <3>3. QED
      BY <3>1, <3>2
  <2>4. QED
    BY <1>3, <2>2, <2>3
<1>6. Descends'
  <2> SUFFICES ASSUME NEW q \in DOMAIN order'
               PROVE  \E u \in 1..q :
                        /\ ranges'[order'[u]].planned
                        /\ \A r \in u + 1..q : ~ranges'[order'[r]].planned
                        /\ Own(order[q])' \subseteq InRange(Planned[order'[u]])
    BY DEF Descends
  <2>1. Was(p, q) \in DOMAIN order
    BY <1>3
  <2>2. PICK u \in 1..Was(p, q) :
          /\ ranges[order[u]].planned
          /\ \A r \in u + 1..Was(p, q) : ~ranges[order[r]].planned
          /\ Own(order[Was(p, q)]) \subseteq InRange(Planned[order[u]])
    BY <2>1 DEF Shape, Descends
  <2>3. u \in DOMAIN order /\ Now(p, u) \in DOMAIN order'
    BY <1>3, <2>1, SMTT(30)
  <2> DEFINE v == Now(p, u)
  <2>4. v \in DOMAIN order' /\ v # p + 1 /\ Was(p, v) = u
    BY <1>3, <2>3
  <2> HIDE DEF v
  <2>5. v \in 1..q
    <3>1. v \in Nat \ {0} /\ q \in Nat /\ u \in Nat /\ u <= Was(p, q) /\ Was(p, q) \in Nat
      BY <1>3, <2>1, <2>4, SMTT(30)
    <3>2. ~(q < v)
      BY <1>3, <2>4, <3>1
    <3>3. QED
      BY <3>1, <3>2
  <2>6. order'[v] = order[u] /\ order[u] \in DOMAIN ranges
    BY <1>1, <1>3, <2>3, <2>4
  <2>7. ranges'[order'[v]].planned
    BY <1>2, <2>2, <2>6
  <2>8. ASSUME NEW r \in v + 1..q
        PROVE  ~ranges'[order'[r]].planned
    <3>1. r \in DOMAIN order' /\ v < r /\ r <= q
      BY <1>3, <2>4, <2>8, SMTT(30)
    <3>2. CASE r = p + 1
      BY <1>2, <1>3, <3>2
    <3>3. CASE r # p + 1
      <4>1. Was(p, v) < Was(p, r)
        BY <1>3, <2>4, <3>1, <3>3
      <4>2. Was(p, r) <= Was(p, q)
        <5>1. r = q \/ r < q
          BY <1>3, <3>1
        <5>2. CASE r < q
          <6>1. Was(p, r) < Was(p, q) \/ (r = p /\ q = p + 1)
            BY <1>3, <3>1, <5>2
          <6>2. r = p /\ q = p + 1 => Was(p, r) = p /\ Was(p, q) = p
            <7>1. Was(p, p) = p
              BY DEF Was
            <7>2. QED
              BY <1>3, <7>1
          <6>3. Was(p, r) \in Nat /\ Was(p, q) \in Nat
            BY <1>3, <3>1
          <6>4. QED
            BY <1>3, <6>1, <6>2, <6>3
        <5>3. CASE r = q
          <6>1. Was(p, q) \in Nat
            BY <1>3
          <6>2. QED
            BY <5>3, <6>1
        <5>4. QED
          BY <5>1, <5>2, <5>3
      <4>3. Was(p, r) \in u + 1..Was(p, q)
        BY <1>3, <2>3, <2>4, <3>1, <4>1, <4>2, SMTT(30)
      <4>4. ~ranges[order[Was(p, r)]].planned
        BY <2>2, <4>3
      <4>5. order'[r] = order[Was(p, r)] /\ order[Was(p, r)] \in DOMAIN ranges
        BY <1>1, <1>3, <3>1, <3>3
      <4>6. QED
        BY <1>2, <4>4, <4>5
    <3>4. QED
      BY <3>2, <3>3
  <2>9. Own(order[q])' \subseteq InRange(Planned[order'[v]])
    BY <1>4, <2>2, <2>6
  <2>10. QED
    BY <2>5, <2>7, <2>8, <2>9
<1>7. QED
  BY <1>4, <1>5, <1>6

\* Who is over a range, and where its stream resumes, is the same after a split;
\* the half has just begun.
LEMMA SplitFlow ==
  ASSUME ControlInv, Shape, Flow, NEW w \in Workers, NEW p \in DOMAIN order,
         NEW o \in DOMAIN ranges, NEW new \in Nat, new = Len(ranges) + 1,
         NEW folder \in Nat \ {0}, Splits(w, p, o, new, folder)
  PROVE  Flow'
<1>1. /\ TypeOK /\ InsideIsOpen
      /\ new \notin DOMAIN ranges
      /\ DOMAIN ranges' = DOMAIN ranges \cup {new}
  <2>1. DOMAIN ranges' = DOMAIN ranges \cup {new}
    BY DEF Splits
  <2>2. QED
    BY <2>1, SplitOwn DEF ControlInv
<1>2. \A i \in DOMAIN ranges :
        /\ Held(i)' = Held(i)
        /\ ranges'[i].done = ranges[i].done
        /\ ranges'[i].emitted = ranges[i].emitted
        /\ ranges'[i].range.start_after = ranges[i].range.start_after
        /\ Own(i)' \subseteq Own(i)
  <2>1. Own(o)' = {k \in Own(o) : k < folder}
    BY SplitOwn DEF Splits
  <2>2. \A i \in DOMAIN ranges : i # o => Own(i)' = Own(i)
    BY SplitOwn
  <2>3. \A i \in DOMAIN ranges : Own(i)' \subseteq Own(i)
    BY <2>1, <2>2
  <2>4. QED
    BY <2>3, SplitOwn
<1>3. /\ UNCHANGED <<failure, stop, caller, delivered, result>>
      /\ worker[w].pc = "idle" /\ worker'[w].pc = "listing" /\ worker'[w].id = new
      /\ worker'[w].after = ranges'[new].range.start_after
      /\ \A v \in Workers : v # w => worker'[v] = worker[v]
      /\ ~ranges'[new].done /\ ranges'[new].emitted = 0
      /\ ranges'[new].range.start_after \in Nat
      /\ ranges'[new].range.start_after < folder
  BY DEF Splits, NoKey
<1>4. Own(new)' = {k \in Own(o) : folder <= k}
  BY SplitOwn DEF Splits
<1>5. \A i \in DOMAIN ranges : Over(i)' <=> Over(i)
  <2> SUFFICES ASSUME NEW i \in DOMAIN ranges PROVE Over(i)' <=> Over(i)
    OBVIOUS
  <2>1. \A v \in Workers : (worker'[v].pc = "leaving" <=> worker[v].pc = "leaving")
                           /\ (worker[v].pc = "leaving" => worker'[v] = worker[v])
    BY <1>3
  <2>2. QED
    BY <1>2, <2>1 DEF Over
<1>6. ~Over(new)'
  <2>1. ASSUME NEW v \in Workers, worker'[v].pc = "leaving" PROVE worker'[v].id # new
    <3>1. v # w /\ worker'[v] = worker[v]
      BY <1>3, <2>1
    <3>2. worker[v].id \in DOMAIN ranges
      BY <1>1, <2>1, <3>1 DEF InsideIsOpen, Inside
    <3>3. QED
      BY <1>1, <3>1, <3>2
  <2>2. QED
    BY <1>3, <2>1 DEF Over
<1>7. InTake' <=> InTake
  BY <1>3 DEF InTake
<1>8. Handed' = Handed
  BY <1>3 DEF Handed
<1>9. Resumes'
  <2>1. \A i \in DOMAIN ranges' : Over(i)' \/ ranges'[i].emitted <= ranges'[i].range.start_after
    BY <1>1, <1>2, <1>3, <1>5 DEF Flow, Resumes
  <2>2. ASSUME NEW v \in Workers, worker'[v].pc = "listing"
        PROVE  worker'[v].after = ranges'[worker'[v].id].range.start_after
    <3>1. CASE v = w
      BY <1>3, <3>1
    <3>2. CASE v # w
      <4>1. worker'[v] = worker[v] /\ worker[v].pc = "listing"
        BY <1>3, <2>2, <3>2
      <4>2. worker[v].id \in DOMAIN ranges
        BY <1>1, <4>1 DEF InsideIsOpen, Inside
      <4>3. worker[v].after = ranges[worker[v].id].range.start_after
        BY <4>1 DEF Flow, Resumes
      <4>4. QED
        BY <1>2, <4>1, <4>2, <4>3
    <3>3. QED
      BY <3>1, <3>2
  <2>3. QED
    BY <2>1, <2>2 DEF Resumes
<1>10. Reached'
  <2> SUFFICES ASSUME InTake, NEW i \in DOMAIN ranges', NEW k \in Stable, k \in Own(i)',
                      k <= ranges'[i].range.start_after \/ k <= ranges'[i].emitted
               PROVE  k \in Held(i)' \/ k \in Handed
    BY <1>7, <1>8 DEF Reached
  <2>1. i # new
    <3> SUFFICES ASSUME i = new PROVE FALSE
      OBVIOUS
    <3>1. k \in Key /\ folder <= k
      BY <1>4, KeyFacts
    <3>2. k \in Nat /\ 0 < k
      BY <3>1, KeyFacts
    <3>3. QED
      BY <1>3, <3>1, <3>2
  <2>2. i \in DOMAIN ranges
    BY <1>1, <2>1
  <2>3. k \in Own(i) /\ (k <= ranges[i].range.start_after \/ k <= ranges[i].emitted)
        /\ Held(i)' = Held(i)
    BY <1>2, <2>2
  <2>4. QED
    BY <2>2, <2>3 DEF Flow, Reached
<1>11. Completed'
  <2> SUFFICES ASSUME InTake, ~failure, NEW i \in DOMAIN ranges', Over(i)',
                      NEW k \in Stable, k \in Own(i)'
               PROVE  k \in Held(i)' \/ k \in Handed
    BY <1>3, <1>7, <1>8 DEF Completed
  <2>1. i \in DOMAIN ranges
    BY <1>1, <1>6
  <2>2. Over(i) /\ k \in Own(i) /\ Held(i)' = Held(i)
    BY <1>2, <1>5, <2>1
  <2>3. QED
    BY <2>1, <2>2 DEF Flow, Completed
<1>12. QED
  BY <1>9, <1>10, <1>11 DEF Flow

\* The caller is before the range that is split, so what it still has to come
\* to is the same keys.
LEMMA SplitCourse ==
  ASSUME ControlInv, PromiseInv, NEW w \in Workers, NEW p \in DOMAIN order,
         taking <= p, NEW o \in DOMAIN ranges, o = order[p], ~ranges[o].done,
         NEW new \in Nat, new = Len(ranges) + 1,
         NEW folder \in Nat \ {0}, Splits(w, p, o, new, folder)
  PROVE  Course'
<1>1. TypeOK /\ Shape /\ OrderIsPermutation /\ Frontier /\ Ending /\ AtItsStep
      /\ order' = InsertAfter(p, new)
      /\ UNCHANGED <<failure, stop, caller, delivered, result>>
      /\ \A q \in DOMAIN order : order[q] \in DOMAIN ranges
      /\ ranges[o].emitted < folder
      /\ p \in Nat /\ taking \in Nat /\ caller.position \in Nat
  BY TypeFacts DEF ControlInv, PromiseInv, Course, Splits
<1>2. (InTake' <=> InTake) /\ Handed' = Handed
  BY <1>1 DEF InTake, Handed
<1>3. AtItsStep'
  BY <1>1 DEF AtItsStep
<1>4. Ending'
  BY <1>1, <1>2 DEF Ending
<1>5. /\ Own(o)' = {k \in Own(o) : k < folder}
      /\ Own(new)' = {k \in Own(o) : folder <= k}
      /\ \A i \in DOMAIN ranges :
           /\ i # o => Own(i)' = Own(i)
           /\ Held(i)' = Held(i)
           /\ ranges'[i].emitted = ranges[i].emitted
  <2>1. ControlInv /\ Shape
    BY <1>1
  <2>2. Splits(w, p, o, new, folder)
    OBVIOUS
  <2>3. /\ \A i \in DOMAIN ranges :
             /\ Base(i)' = Base(i) /\ Held(i)' = Held(i)
             /\ ranges'[i].planned = ranges[i].planned
             /\ ranges'[i].done = ranges[i].done
             /\ ranges'[i].emitted = ranges[i].emitted
             /\ ranges'[i].range.start_after = ranges[i].range.start_after
             /\ i # o => Own(i)' = Own(i)
        /\ Own(o)' = {k \in Own(o) : k < folder}
        /\ Own(new)' = {k \in Own(o) : folder <= k}
    BY <2>1, <2>2, SplitOwn
  <2>4. QED
    BY <2>3
<1>6. /\ order'[p] = order[p] /\ order'[p + 1] = new /\ p + 1 \in DOMAIN order'
      /\ p \in DOMAIN order'
      /\ \A q \in DOMAIN order' :
           /\ q \in Nat
           /\ Was(p, q) \in DOMAIN order
           /\ q # p + 1 => order'[q] = order[Was(p, q)]
           /\ q = p + 1 => Was(p, q) = p
           /\ Was(p, q) = q \/ (Was(p, q) + 1 = q /\ p < q)
      /\ \A u \in DOMAIN order :
           /\ Now(p, u) \in DOMAIN order' /\ Now(p, u) # p + 1
           /\ Was(p, Now(p, u)) = u /\ u <= Now(p, u)
           /\ u \in Nat
  <2>1. DOMAIN order = 1..Len(order)
    BY <1>1, TypeFacts
  <2>2. QED
    BY <1>1, <2>1, SplitPlaces
<1>7. \A q \in DOMAIN order' : \A k \in Key :
        k \in Own(order[q])' => k \in Own(order[Was(p, q)])
  BY <1>1, SplitOrder
<1>8. InTake => caller.position <= p
  BY <1>1 DEF ControlInv, CallerInSync, TakenInOrder, InTake, Gone
<1>9. ASSUME InTake, NEW k \in Stable, NEW q \in DOMAIN order, caller.position <= q,
             k \in Own(order[q])
      PROVE  \E r \in DOMAIN order' : caller.position <= r /\ k \in Own(order[r])'
  <2>1. k \in Nat
    BY KeyFacts
  <2>2. CASE q # p
    <3> DEFINE r == Now(p, q)
    <3>1. r \in DOMAIN order' /\ r # p + 1 /\ Was(p, r) = q /\ q <= r /\ q \in Nat /\ r \in Nat
      BY <1>6
    <3> HIDE DEF r
    <3>2. order'[r] = order[q] /\ order[q] \in DOMAIN ranges
      BY <1>1, <1>6, <3>1
    <3>3. order[q] # o
      BY <1>1, <2>2 DEF OrderIsPermutation
    <3>4. Own(order[r])' = Own(order[q])
      <4>1. PICK i \in DOMAIN ranges : i = order[q]
        BY <3>2
      <4>2. Own(i)' = Own(i)
        BY <1>5, <3>3, <4>1
      <4>3. QED
        BY <3>2, <4>1, <4>2
    <3>5. caller.position <= r
      BY <1>1, <1>9, <3>1
    <3>6. QED
      BY <1>9, <3>1, <3>4, <3>5
  <2>3. CASE q = p /\ k < folder
    <3>1. Own(order[p])' = Own(o)'
      BY <1>6
    <3>2. k \in Own(order[p])'
      BY <1>5, <1>9, <2>3, <3>1
    <3>3. QED
      BY <1>6, <1>9, <2>3, <3>2
  <2>4. CASE q = p /\ ~(k < folder)
    <3>1. PICK r \in DOMAIN order' : r = p + 1
      BY <1>6
    <3>2. Own(order[r])' = Own(new)'
      BY <1>6, <3>1
    <3>3. k \in Own(order[r])'
      BY <1>5, <1>9, <2>1, <2>4, <3>2
    <3>4. caller.position <= r
      BY <1>1, <1>9, <2>4, <3>1
    <3>5. QED
      BY <3>3, <3>4
  <2>5. QED
    BY <2>2, <2>3, <2>4
<1>10. ASSUME InTake, NEW d \in Handed, NEW q \in DOMAIN order', caller.position <= q,
              NEW k \in Own(order[q])'
       PROVE  \/ d < k
              \/ /\ caller.pc = "page" /\ q = caller.position
                 /\ k <= ranges'[order'[q]].emitted /\ k \notin Held(order[q])'
  <2>1. k \in Key
    BY <1>10 DEF Own
  <2> DEFINE u == Was(p, q)
  <2>2. u \in DOMAIN order /\ k \in Own(order[u])
        /\ (u = q \/ (u + 1 = q /\ p < q))
        /\ (q # p + 1 => order'[q] = order[u]) /\ (q = p + 1 => u = p)
    BY <1>6, <1>7, <2>1
  <2> HIDE DEF u
  <2>3. u \in Nat /\ q \in Nat
    BY <1>6, <2>2
  <2>4. caller.position <= u
    BY <1>1, <1>8, <1>10, <2>2, <2>3
  <2>5. \/ d < k
        \/ /\ caller.pc = "page" /\ u = caller.position
           /\ k <= ranges[order[u]].emitted /\ k \notin Held(order[u])
    BY <1>1, <1>10, <2>2, <2>4 DEF Frontier
  <2>6. CASE q = p + 1
    <3>1. folder <= k
      <4>1. Own(order[q])' = Own(new)'
        BY <1>6, <2>6
      <4>2. QED
        BY <1>5, <1>10, <4>1
    <3>2. ~(k <= ranges[order[u]].emitted)
      <4>1. order[u] = o /\ ranges[o].emitted \in Nat /\ k \in Nat
        BY <1>1, <2>1, <2>2, <2>6, LiveFacts, KeyFacts
      <4>2. QED
        BY <1>1, <3>1, <4>1
    <3>3. QED
      BY <2>5, <3>2
  <2>7. CASE q # p + 1
    <3>1. PICK i \in DOMAIN ranges : i = order[u] /\ order'[q] = i
      BY <1>1, <2>2, <2>7
    <3>2. Held(order[q])' = Held(i) /\ ranges'[order'[q]].emitted = ranges[i].emitted
      <4>1. Held(i)' = Held(i)
        BY <1>5
      <4>2. Held(order[q])' = Held(i)'
        BY <3>1
      <4>3. QED
        BY <1>5, <3>1, <4>1, <4>2
    <3>3. u = caller.position => q = caller.position
      BY <1>1, <1>8, <1>10, <2>2, <2>3, <2>7
    <3>4. QED
      BY <2>5, <3>1, <3>2, <3>3
  <2>8. QED
    BY <2>6, <2>7
<1>11. ASSUME InTake, NEW k \in Stable
       PROVE  \/ k \in Handed
              \/ \E t \in DOMAIN Steps : caller.step <= t /\ k \in Steps[t]
              \/ \E r \in DOMAIN order' : caller.position <= r /\ k \in Own(order[r])'
  BY <1>1, <1>9, <1>11 DEF Frontier
<1>12. ASSUME InTake, NEW d \in Handed
       PROVE  \A t \in DOMAIN Steps : caller.step <= t => \A k \in Steps[t] : d < k
  BY <1>1, <1>12 DEF Frontier
<1>13. Frontier'
  <2>1. caller' = caller
    BY <1>1
  <2>2. QED
    BY <1>2, <1>10, <1>11, <1>12, <2>1 DEF Frontier
<1>14. QED
  BY <1>3, <1>4, <1>13 DEF Course

\* A split between two pages, at any folder not yet reached, loses and
\* repeats nothing.
LEMMA SplitPromise ==
  ASSUME ControlInv, PromiseInv, NEW w \in Workers, NEW p \in Ahead, SplitBusy(w, p)
  PROVE  PromiseInv'
<1>1. p \in DOMAIN order /\ taking <= p /\ ~ranges[order[p]].done
  BY SplitFacts, TypeFacts DEF ControlInv, Ahead
<1>2. PICK o \in DOMAIN ranges : o = order[p]
  BY <1>1, TypeFacts DEF ControlInv
<1>3. PICK new \in Nat : new = Len(ranges) + 1
  BY TypeFacts DEF ControlInv
<1>4. Shape /\ Flow
  BY DEF PromiseInv
<1>5. PICK folder \in Nat \ {0} : Splits(w, p, o, new, folder)
  BY <1>2, <1>3, <1>4, SplitDoes
<1>6. Shape'
  <2>1. AllTidy'
    BY <1>1, <1>3, <1>4, <1>5, SplitTidy
  <2>2. Ordered' /\ Descends'
    BY <1>1, <1>2, <1>3, <1>4, <1>5, SplitOrder
  <2>3. QED
    BY <2>1, <2>2 DEF Shape
<1>7. Flow'
  BY <1>1, <1>3, <1>4, <1>5, SplitFlow
<1>8. Course'
  BY <1>1, <1>2, <1>3, <1>5, SplitCourse
<1>9. QED
  BY <1>6, <1>7, <1>8 DEF PromiseInv

(***************************************************************************)
(* The promise.                                                            *)
(***************************************************************************)
\* Every step keeps the invariant.
LEMMA NextPromise == ControlInv /\ PromiseInv /\ [Next]_vars => PromiseInv'
<1> SUFFICES ASSUME ControlInv, PromiseInv, [Next]_vars PROVE PromiseInv'
  OBVIOUS
<1>1. ASSUME NEW w \in Workers, WorkerStep(w) \/ RequestFails(w)
      PROVE  PromiseInv'
  <2>1. CASE Claim(w)
    BY <2>1, ClaimIdlePromise, SplitPromise DEF Claim
  <2>2. CASE Exit(w)
    BY <2>2, ExitPromise
  <2>3. CASE PageAfterStop(w) \/ RequestFails(w)
    BY <2>3, StreamEndsPromise
  <2>4. CASE HandOver(w)
    BY <2>4, HandOverPromise
  <2>5. CASE Leave(w)
    BY <2>5, LeavePromise
  <2>6. QED
    BY <1>1, <2>1, <2>2, <2>3, <2>4, <2>5 DEF WorkerStep
<1>2. CASE CallerStep
  BY <1>2, SinkObjectsPromise, StartTakingPromise, TakePagePromise, DrainedPromise,
     AdvancePromise, StopPromise, GiveUpPromise DEF CallerStep
<1>3. CASE SinkFails
  BY <1>3, SinkFailsPromise
<1>4. CASE Cancel \/ Finished \/ UNCHANGED vars
  BY <1>4, IdlePromise DEF Finished
<1>5. QED
  BY <1>1, <1>2, <1>3, <1>4 DEF Next

\* A page the sink accepts is one the promise allows next.
LEMMA DeliversInOrder ==
  ASSUME ControlInv, PromiseInv, SinkObjects \/ TakePage
  PROVE  \E page \in SUBSET Key : Promise!Deliver(page)
<1>1. InTake /\ result = "running"
  BY DEF SinkObjects, AtObjects, TakePage, CanTakePage, InTake, PromiseInv, Course, Ending
<1>2. UNCHANGED result
  BY DEF SinkObjects, TakePage
<1>3. Promise!Delivered = Handed
  BY DEF Promise!Delivered, Handed
<1>4. CASE SinkObjects
  <2> DEFINE page == Steps[caller.step]
  <2>1. AtObjects /\ delivered' = Append(delivered, page)
    BY <1>4 DEF SinkObjects
  <2>2. /\ page \subseteq Key /\ page # {}
        /\ \A k \in page, d \in Handed : d < k
        /\ \A k \in Stable, last \in page : k < last => k \in Handed \cup page
    BY <2>1, ObjectsInOrder
  <2> HIDE DEF page
  <2>3. Promise!Deliver(page)
    BY <1>1, <1>2, <1>3, <2>1, <2>2 DEF Promise!Deliver
  <2>4. QED
    BY <2>2, <2>3
<1>5. CASE TakePage
  <2> DEFINE page == Head(Taken.pages)
  <2>1. delivered' = Append(delivered, page)
    BY <1>5 DEF TakePage
  <2>2. /\ page \subseteq Key /\ page # {}
        /\ \A k \in page, d \in Handed : d < k
        /\ \A k \in Stable, last \in page : k < last => k \in Handed \cup page
    BY <1>5, PageInOrder
  <2> HIDE DEF page
  <2>3. Promise!Deliver(page)
    BY <1>1, <1>2, <1>3, <2>1, <2>2 DEF Promise!Deliver
  <2>4. QED
    BY <2>2, <2>3
<1>6. QED
  BY <1>4, <1>5

\* `fetch` returns Ok only with every stable key delivered.
LEMMA ReturnsWhatItDid ==
  ASSUME ControlInv, PromiseInv, Join
  PROVE  Promise!Succeed \/ Promise!GiveUp
<1>1. result = "running" /\ UNCHANGED delivered
  BY DEF Join, PromiseInv, Course, Ending
<1>2. Promise!Delivered = Handed
  BY DEF Promise!Delivered, Handed
<1>3. CASE caller.failed
  BY <1>1, <1>3 DEF Join, Promise!GiveUp
<1>4. CASE ~caller.failed
  <2>1. Stable \subseteq Handed
    BY <1>4 DEF Join, PromiseInv, Course, Ending
  <2>2. QED
    BY <1>1, <1>2, <1>4, <2>1 DEF Join, Promise!Succeed
<1>5. QED
  BY <1>3, <1>4

\* Every step is one the promise allows, or none of its business.
LEMMA StepKeepsPromise ==
  ControlInv /\ PromiseInv /\ [Next]_vars => [Promise!Next]_(Promise!vars)
<1> SUFFICES ASSUME ControlInv, PromiseInv, [Next]_vars
             PROVE  Promise!Next \/ UNCHANGED <<delivered, result>>
  BY DEF Promise!vars
<1>1. CASE SinkObjects \/ TakePage
  BY <1>1, DeliversInOrder DEF Promise!Next
<1>2. CASE Join
  BY <1>2, ReturnsWhatItDid DEF Promise!Next
<1>3. ASSUME NEW w \in Workers, WorkerStep(w) \/ RequestFails(w)
      PROVE  UNCHANGED <<delivered, result>>
  BY <1>3 DEF WorkerStep, Claim, ClaimIdle, SplitBusy, Exit, PageAfterStop, HandOver,
     Leave, RequestFails
<1>4. CASE StartTaking \/ Drained \/ Advance \/ TakeFailure \/ Stop \/ SinkFails
  BY <1>4 DEF StartTaking, Drained, Advance, TakeFailure, Stop, SinkFails
<1>5. CASE Cancel \/ Finished \/ UNCHANGED vars
  BY <1>5 DEF Cancel, Finished, vars
<1>6. QED
  BY <1>1, <1>2, <1>3, <1>4, <1>5 DEF Next, CallerStep

\* The inductive invariant, of the ranges, the workers and the caller at
\* once.
THEOREM PromiseInvHolds == Spec => []PromiseInv
  BY InitPromise, NextPromise, ControlHolds, PTL DEF Spec

\* A listing delivers the pages of one stream: in key order across all its
\* ranges and halves, with no key twice and none that stays missing, and it
\* returns Ok only with all of them; whatever its workers, splits, pauses,
\* failures and cancels do (S3OrderedListing, of which it is an
\* implementation).
THEOREM PromiseHolds == Spec => PromiseKept
<1>1. Init => Promise!Init
  BY DEF Init, Promise!Init
<1>2. QED
  BY <1>1, StepKeepsPromise, ControlHolds, PromiseInvHolds, PTL
     DEF Spec, PromiseKept, Promise!Safety

(***************************************************************************)
(* The ranges and their halves meet.                                       *)
(***************************************************************************)
\* What a range lists, and where, as long as nothing is split.
SameSpans ==
  /\ DOMAIN ranges' = DOMAIN ranges
  /\ UNCHANGED order
  /\ \A id \in DOMAIN ranges :
       /\ ranges'[id].range.prefix = ranges[id].range.prefix
       /\ ranges'[id].range.from = ranges[id].range.from
       /\ ranges'[id].range.until = ranges[id].range.until

\* A step that changes a range but not what it lists.
LEMMA OneSpan ==
  ASSUME NEW id, NEW live, live.range = ranges[id].range,
         ranges' = [ranges EXCEPT ![id] = live], UNCHANGED order
  PROVE  SameSpans
<1>1. /\ DOMAIN ranges' = DOMAIN ranges
      /\ \A i \in DOMAIN ranges : ranges'[i] = IF i = id THEN live ELSE ranges[i]
  OBVIOUS
<1>2. \A i \in DOMAIN ranges : ranges'[i].range = ranges[i].range
  BY <1>1
<1>3. QED
  BY <1>1, <1>2 DEF SameSpans

\* Of the workers' steps only a split changes what a range lists.
LEMMA WorkerSpans ==
  ASSUME ControlInv, NEW w \in Workers,
         \/ \E p \in Ahead : ClaimIdle(w, p)
         \/ Exit(w) \/ PageAfterStop(w) \/ HandOver(w) \/ Leave(w) \/ RequestFails(w)
  PROVE  SameSpans
<1> USE DEF ControlInv
<1>1. ASSUME NEW p \in Ahead, ClaimIdle(w, p) PROVE SameSpans
  <2> DEFINE id   == order[p]
             live == [ranges[id] EXCEPT !.busy = TRUE]
  <2>1. id \in DOMAIN ranges /\ ranges[id] \in Live
    BY TypeFacts DEF Ahead
  <2>2. live.range = ranges[id].range
    BY <2>1 DEF Live
  <2>3. ranges' = [ranges EXCEPT ![id] = live] /\ UNCHANGED order
    BY <1>1, <2>1 DEF ClaimIdle
  <2> HIDE DEF live, id
  <2>4. QED
    BY <2>2, <2>3, OneSpan
<1>2. CASE Exit(w) \/ PageAfterStop(w) \/ RequestFails(w)
  BY <1>2 DEF Exit, PageAfterStop, RequestFails, shared, SameSpans
<1>3. CASE HandOver(w)
  <2>1. PICK id \in DOMAIN ranges : id = worker[w].id
    BY <1>3 DEF HandOver, InsideIsOpen, Inside
  <2>2. PICK page \in SUBSET Key, truncated \in BOOLEAN : Arrives(w, id, page, truncated)
    BY <1>3, <2>1, HandOverDoes
  <2>3. /\ DOMAIN ranges' = DOMAIN ranges
        /\ \A i \in DOMAIN ranges : i # id => ranges'[i] = ranges[i]
        /\ ranges'[id].range.prefix = ranges[id].range.prefix
        /\ ranges'[id].range.from = ranges[id].range.from
        /\ ranges'[id].range.until = ranges[id].range.until
        /\ UNCHANGED order
    BY <2>2 DEF Arrives
  <2>4. QED
    BY <2>3 DEF SameSpans
<1>4. CASE Leave(w)
  <2> DEFINE id   == worker[w].id
             live == [ranges[id] EXCEPT !.busy = FALSE,
                                        !.done = @ \/ worker[w].left = "done"]
  <2>1. id \in DOMAIN ranges /\ ranges[id] \in Live
    BY <1>4, TypeFacts DEF Leave, InsideIsOpen, Inside
  <2>2. live.range = ranges[id].range
    BY <2>1 DEF Live
  <2>3. ranges' = [ranges EXCEPT ![id] = live] /\ UNCHANGED order
    BY <1>4, <2>1 DEF Leave
  <2> HIDE DEF live, id
  <2>4. QED
    BY <2>2, <2>3, OneSpan
<1>5. QED
  BY <1>1, <1>2, <1>3, <1>4

\* None of the caller's does.
LEMMA CallerSpans ==
  ASSUME ControlInv, Shape, CallerStep \/ SinkFails \/ Cancel \/ UNCHANGED vars
  PROVE  SameSpans
<1>1. CASE TakePage \/ (SinkFails /\ ranges # ranges')
  <2>1. /\ CanTakePage /\ ranges' = Popped /\ UNCHANGED order
        /\ buffered' = buffered - Cardinality(Head(Taken.pages))
    BY <1>1 DEF TakePage, SinkFails
  <2>2. PICK id \in DOMAIN ranges : id = order[caller.position]
    BY <2>1, TypeFacts DEF CanTakePage, ControlInv, CallerInSync, TakenInOrder
  <2>3. DOMAIN ranges' = DOMAIN ranges
        /\ \A i \in DOMAIN ranges : ranges'[i].range = ranges[i].range
    BY <2>1, <2>2, PoppedKeeps
  <2>4. QED
    BY <2>1, <2>3 DEF SameSpans
<1>2. CASE UNCHANGED <<ranges, order>>
  BY <1>2 DEF SameSpans
<1>3. \/ TakePage \/ (SinkFails /\ ranges # ranges')
      \/ UNCHANGED <<ranges, order>>
  BY DEF CallerStep, SinkObjects, StartTaking, Drained, Advance, TakeFailure, Stop, Join,
     SinkFails, Cancel, vars, shared
<1>4. QED
  BY <1>1, <1>2, <1>3

\* The plan's ranges follow one another.
LEMMA InitHalves == Init => HalvesMeet
<1> SUFFICES ASSUME Init PROVE HalvesMeet
  OBVIOUS
<1>1. /\ DOMAIN Planned = 1..Len(Planned) /\ Len(Planned) \in Nat
      /\ order \in [1..Len(Planned) -> 1..Len(Planned)]
      /\ \A i \in DOMAIN Planned : order[i] = i
      /\ \A i \in DOMAIN Planned : ranges[i] = NewLive(Planned[i], TRUE, FALSE)
  BY PlanFacts DEF Init
<1>2. Len(order) = Len(Planned)
  BY <1>1
<1>3. /\ DOMAIN ranges = DOMAIN Planned /\ DOMAIN order = DOMAIN Planned
      /\ \A i \in DOMAIN Planned : ranges[i] = NewLive(Planned[i], TRUE, FALSE)
  BY DEF Init
<1>4. \A i \in DOMAIN Planned : ranges[i].range = Planned[i] /\ ranges[i].planned
  BY <1>3 DEF NewLive, NoKey
<1>5. ASSUME NEW p \in 1..Len(order) - 1
      PROVE  LET here == ranges[order[p]].range
                 next == ranges[order[p + 1]]
             IN  next.planned /\ here.until <= Start(next.range)
  <2>1. p \in DOMAIN Planned /\ p + 1 \in DOMAIN Planned /\ p < p + 1
    BY <1>1, <1>2
  <2>2. Planned[p].until <= Start(Planned[p + 1])
    BY <2>1, PlanAssumption
  <2> DEFINE q == p + 1
  <2>3. q \in DOMAIN Planned
    BY <2>1
  <2> HIDE DEF q
  <2>4. /\ ranges[order[p]].range = Planned[p]
        /\ ranges[order[q]].range = Planned[q]
        /\ ranges[order[q]].planned
    BY <1>1, <1>4, <2>1, <2>3
  <2>5. QED
    BY <2>2, <2>4 DEF q
<1>6. QED
  BY <1>5 DEF HalvesMeet

\* They still meet where they met.
LEMMA SameSpansMeet ==
  ASSUME ControlInv, ControlInv', HalvesMeet, SameSpans
  PROVE  HalvesMeet'
<1>1. /\ DOMAIN order = 1..Len(order) /\ Len(order) \in Nat
      /\ \A p \in DOMAIN order : order[p] \in DOMAIN ranges
  BY TypeFacts DEF ControlInv
<1>2. \A id \in DOMAIN ranges : ranges'[id].planned <=> ranges[id].planned
  BY DEF ControlInv, PlannedInOrder, SameSpans
<1>3. \A id \in DOMAIN ranges : Start(ranges'[id].range) = Start(ranges[id].range)
  BY DEF SameSpans, Start
<1>4. order' = order /\ \A id \in DOMAIN ranges : ranges'[id].range.until = ranges[id].range.until
  BY DEF SameSpans
<1> SUFFICES ASSUME NEW p \in 1..Len(order) - 1
             PROVE  LET here == ranges'[order[p]].range
                        next == ranges'[order[p + 1]]
                    IN  IF next.planned
                        THEN here.until <= Start(next.range)
                        ELSE here.until = Start(next.range)
  BY <1>4 DEF HalvesMeet
<1>5. PICK i \in DOMAIN ranges, j \in DOMAIN ranges : i = order[p] /\ j = order[p + 1]
  BY <1>1
<1>6. IF ranges[j].planned
      THEN ranges[i].range.until <= Start(ranges[j].range)
      ELSE ranges[i].range.until = Start(ranges[j].range)
  BY <1>5 DEF HalvesMeet
<1>7. QED
  BY <1>2, <1>3, <1>4, <1>5, <1>6

\* The half begins where the range before it now ends, and ends where that
\* one did.
LEMMA SplitMeets ==
  ASSUME ControlInv, ControlInv', Shape, HalvesMeet,
         NEW w \in Workers, NEW p \in Ahead, SplitBusy(w, p)
  PROVE  HalvesMeet'
<1>1. p \in DOMAIN order
  BY TypeFacts DEF ControlInv, Ahead
<1>2. PICK o \in DOMAIN ranges : o = order[p]
  BY <1>1, TypeFacts DEF ControlInv
<1>3. PICK new \in Nat : new = Len(ranges) + 1
  BY TypeFacts DEF ControlInv
<1>4. PICK folder \in Nat \ {0} : Splits(w, p, o, new, folder)
  BY <1>2, <1>3, SplitDoes
<1>5. /\ order' = InsertAfter(p, new) /\ new \notin DOMAIN ranges /\ OrderIsPermutation
      /\ DOMAIN ranges' = DOMAIN ranges \cup {new}
      /\ \A q \in DOMAIN order : order[q] \in DOMAIN ranges
      /\ DOMAIN order = 1..Len(order)
      /\ ~ranges'[new].planned
      /\ \A i \in DOMAIN ranges : ranges'[i].planned <=> ranges[i].planned
  <2>1. new \notin DOMAIN ranges /\ (\A i \in DOMAIN ranges : ranges'[i].planned = ranges[i].planned)
    BY <1>1, <1>3, <1>4, SplitOwn
  <2>2. QED
    BY <1>4, <2>1, TypeFacts DEF ControlInv, Splits
<1>6. /\ \A i \in DOMAIN ranges : Start(ranges'[i].range) = Start(ranges[i].range)
      /\ Start(ranges'[new].range) = folder
      /\ \A i \in DOMAIN ranges : i # o => ranges'[i].range.until = ranges[i].range.until
      /\ ranges'[o].range.until = folder
      /\ ranges'[new].range.until = ranges[o].range.until
  BY <1>4 DEF Splits, Start, NoKey
<1>7. /\ DOMAIN order' = 1..Len(order) + 1 /\ Len(order) \in Nat
      /\ p \in 1..Len(order) /\ order'[p] = o /\ order'[p + 1] = new
      /\ \A q \in DOMAIN order' :
           /\ q # p + 1 => order'[q] = order[Was(p, q)]
           /\ Was(p, q) \in DOMAIN order
  BY <1>1, <1>2, <1>5, SplitPlaces DEF ControlInv
<1>8. Len(order') = Len(order) + 1
  BY <1>7, TypeFacts, LenProperties DEF ControlInv, TypeOK
<1>9. SUFFICES ASSUME NEW q \in 1..Len(order),
                      NEW i \in DOMAIN ranges', NEW j \in DOMAIN ranges',
                      i = order'[q], j = order'[q + 1]
               PROVE  IF ranges'[j].planned
                      THEN ranges'[i].range.until <= Start(ranges'[j].range)
                      ELSE ranges'[i].range.until = Start(ranges'[j].range)
  <2>1. \A q \in 1..Len(order) : order'[q] \in DOMAIN ranges' /\ order'[q + 1] \in DOMAIN ranges'
    <3>1. \A q \in DOMAIN order' : order'[q] \in DOMAIN ranges'
      BY <1>5, <1>7
    <3>2. \A q \in 1..Len(order) : q \in DOMAIN order' /\ q + 1 \in DOMAIN order'
      BY <1>7
    <3>3. QED
      BY <3>1, <3>2
  <2>2. Len(order') - 1 = Len(order)
    BY <1>7, <1>8
  <2>3. QED
    BY <1>9, <2>1, <2>2 DEF HalvesMeet
<1>10. q \in Nat /\ p \in Nat /\ q \in DOMAIN order' /\ q + 1 \in DOMAIN order'
  BY <1>7
<1>11. CASE q = p
  BY <1>5, <1>6, <1>7, <1>9, <1>11
<1>12. CASE q = p + 1
  <2>1. i = new /\ Was(p, q + 1) = p + 1 /\ p + 1 \in 1..Len(order) /\ p \in 1..Len(order) - 1
    BY <1>7, <1>9, <1>10, <1>12 DEF Was
  <2>2. j = order[p + 1] /\ j \in DOMAIN ranges
    BY <1>5, <1>7, <1>10, <1>12, <1>9, <2>1
  <2>3. IF ranges[j].planned
        THEN ranges[o].range.until <= Start(ranges[j].range)
        ELSE ranges[o].range.until = Start(ranges[j].range)
    BY <1>2, <2>1, <2>2 DEF HalvesMeet
  <2>4. QED
    BY <1>5, <1>6, <2>1, <2>2, <2>3
<1>13. CASE q # p /\ q # p + 1
  <2>1. Was(p, q + 1) = Was(p, q) + 1 /\ Was(p, q) # p /\ Was(p, q) \in 1..Len(order) - 1
        /\ q + 1 # p + 1 /\ Was(p, q) + 1 \in 1..Len(order)
    BY <1>7, <1>10, <1>13 DEF Was
  <2> DEFINE u == Was(p, q)
  <2>2. i = order[u] /\ j = order[u + 1] /\ u \in DOMAIN order /\ u + 1 \in DOMAIN order
    BY <1>5, <1>7, <1>9, <1>10, <1>13, <2>1
  <2>3. u # p /\ u \in 1..Len(order) - 1
    BY <2>1
  <2> HIDE DEF u
  <2>4. i \in DOMAIN ranges /\ j \in DOMAIN ranges /\ i # o
    BY <1>1, <1>2, <1>5, <2>2, <2>3 DEF OrderIsPermutation
  <2>5. IF ranges[j].planned
        THEN ranges[i].range.until <= Start(ranges[j].range)
        ELSE ranges[i].range.until = Start(ranges[j].range)
    BY <2>2, <2>3 DEF HalvesMeet
  <2>6. QED
    BY <1>5, <1>6, <2>4, <2>5
<1>14. QED
  BY <1>11, <1>12, <1>13

\* Every step keeps the halves together.
LEMMA NextMeets ==
  ControlInv /\ ControlInv' /\ Shape /\ HalvesMeet /\ [Next]_vars => HalvesMeet'
<1> SUFFICES ASSUME ControlInv, ControlInv', Shape, HalvesMeet, [Next]_vars PROVE HalvesMeet'
  OBVIOUS
<1>1. ASSUME NEW w \in Workers, WorkerStep(w) \/ RequestFails(w)
      PROVE  HalvesMeet'
  <2>1. ASSUME NEW p \in Ahead, SplitBusy(w, p) PROVE HalvesMeet'
    BY <2>1, SplitMeets
  <2>2. CASE \/ \E p \in Ahead : ClaimIdle(w, p)
             \/ Exit(w) \/ PageAfterStop(w) \/ HandOver(w) \/ Leave(w) \/ RequestFails(w)
    BY <2>2, WorkerSpans, SameSpansMeet
  <2>3. QED
    BY <1>1, <2>1, <2>2 DEF WorkerStep, Claim
<1>2. CASE CallerStep \/ SinkFails \/ Cancel \/ Finished \/ UNCHANGED vars
  BY <1>2, CallerSpans, SameSpansMeet DEF Finished
<1>3. QED
  BY <1>1, <1>2 DEF Next

\* A queue in order is one of its range's own keys.
LEMMA TidyIsOwn == ControlInv /\ Shape => QueuedIsOwn
<1> SUFFICES ASSUME ControlInv, Shape, NEW id \in DOMAIN ranges
             PROVE  /\ ranges[id].emitted < ranges[id].range.until
                    /\ \A i \in DOMAIN ranges[id].pages : \A k \in ranges[id].pages[i] :
                         Start(ranges[id].range) <= k /\ k <= ranges[id].emitted
  BY DEF QueuedIsOwn
<1>1. Tidy(id)
  BY DEF Shape, AllTidy
<1>2. \A k \in Own(id) : Start(ranges[id].range) <= k
  BY DEF Own, Start
<1>3. QED
  BY <1>1, <1>2 DEF Tidy

\* A split leaves neither a gap nor an overlap, and no range ever queues what
\* it gave away: two of RangesSound's conjuncts.
THEOREM HalvesHold == Spec => [](HalvesMeet /\ QueuedIsOwn)
<1>1. PromiseInv => Shape
  BY DEF PromiseInv
<1>2. QED
  BY <1>1, InitHalves, NextMeets, TidyIsOwn, ControlHolds, PromiseInvHolds, PTL DEF Spec

(***************************************************************************)
(* What the ranges queue.                                                  *)
(***************************************************************************)
\* Sets of keys are finite, and are counted as such.
LEMMA KeysCounted ==
  /\ \A A \in SUBSET Key : IsFiniteSet(A) /\ Cardinality(A) \in Nat
  /\ \A A, B \in SUBSET Key : A \subseteq B => Cardinality(A) <= Cardinality(B)
  /\ \A A, B \in SUBSET Key : Cardinality(A \cup B) <= Cardinality(A) + Cardinality(B)
  /\ \A A, B \in SUBSET Key :
       A \cap B = {} => Cardinality(A \cup B) = Cardinality(A) + Cardinality(B)
<1>1. IsFiniteSet(Key)
  <2>1. IsFiniteSet(1..MaxKey) /\ Key \in SUBSET (1..MaxKey)
    BY ConstantsAssumption, FS_Interval DEF Position
  <2>2. QED
    BY <2>1, FS_Subset
<1>2. \A A \in SUBSET Key : IsFiniteSet(A)
  BY <1>1, FS_Subset
<1>3. \A A \in SUBSET Key : Cardinality(A) \in Nat
  BY <1>2, FS_CardinalityType
<1>4. \A A, B \in SUBSET Key : A \subseteq B => Cardinality(A) <= Cardinality(B)
  BY <1>2, FS_Subset
<1>5. ASSUME NEW A \in SUBSET Key, NEW B \in SUBSET Key
      PROVE  /\ Cardinality(A \cup B) <= Cardinality(A) + Cardinality(B)
             /\ A \cap B = {} => Cardinality(A \cup B) = Cardinality(A) + Cardinality(B)
  <2>1. A \cap B \in SUBSET Key
    OBVIOUS
  <2>2. /\ Cardinality(A \cap B) \in Nat /\ Cardinality(A) \in Nat /\ Cardinality(B) \in Nat
        /\ Cardinality(A \cup B) = Cardinality(A) + Cardinality(B) - Cardinality(A \cap B)
    BY <1>2, <1>3, <2>1, FS_Union
  <2>3. A \cap B = {} => Cardinality(A \cap B) = 0
    BY FS_EmptySet
  <2>4. QED
    BY <2>2, <2>3
<1>6. /\ \A A, B \in SUBSET Key : Cardinality(A \cup B) <= Cardinality(A) + Cardinality(B)
      /\ \A A, B \in SUBSET Key :
           A \cap B = {} => Cardinality(A \cup B) = Cardinality(A) + Cardinality(B)
  BY <1>5
<1>8. QED
  BY <1>2, <1>3, <1>4, <1>6

\* No key waits in two queues.
LEMMA HeldApart ==
  ASSUME ControlInv, Shape, NEW i \in DOMAIN ranges, NEW j \in DOMAIN ranges, i # j
  PROVE  Own(i) \cap Own(j) = {} /\ Held(i) \subseteq Own(i) /\ Held(j) \subseteq Own(j)
<1>1. PICK p \in DOMAIN order : order[p] = i
  BY DEF ControlInv, OrderIsPermutation
<1>2. PICK q \in DOMAIN order : order[q] = j
  BY DEF ControlInv, OrderIsPermutation
<1>3. p \in Nat /\ q \in Nat /\ p # q
  BY <1>1, <1>2, TypeFacts DEF ControlInv
<1>4. \A k \in Own(i), l \in Own(j) : k < l \/ l < k
  BY <1>1, <1>2, <1>3 DEF Shape, Ordered
<1>5. \A k \in Own(i) : k \in Nat
  BY KeyFacts DEF Own
<1>6. Own(i) \cap Own(j) = {}
  BY <1>4, <1>5
<1>7. Tidy(i) /\ Tidy(j)
  BY DEF Shape, AllTidy
<1>8. Held(i) \subseteq Own(i) /\ Held(j) \subseteq Own(j)
  BY <1>7 DEF Tidy, Held
<1>9. QED
  BY <1>6, <1>8

\* All that is queued.
AllHeld == UNION {Held(id) : id \in DOMAIN ranges}

LEMMA HeldCounted ==
  ASSUME TypeOK
  PROVE  /\ AllHeld \in SUBSET Key /\ Cardinality(AllHeld) \in Nat
         /\ \A id \in DOMAIN ranges :
              Held(id) \in SUBSET Key /\ Cardinality(Held(id)) \in Nat
<1>1. \A id \in DOMAIN ranges : Held(id) \in SUBSET Key
  BY LiveFacts
<1>2. AllHeld \in SUBSET Key
  BY <1>1 DEF AllHeld
<1>3. QED
  BY <1>1, <1>2, KeysCounted

\* Two sets with nothing in common make a third.
Parts(whole, rest, more) == whole = rest \cup more /\ rest \cap more = {}

\* What a step does to one queue it does to the total: `more` comes or goes.
LEMMA OneQueue ==
  ASSUME ControlInv, Shape, NEW id \in DOMAIN ranges,
         DOMAIN ranges' = DOMAIN ranges,
         \A i \in DOMAIN ranges : i # id => Held(i)' = Held(i),
         NEW more, more \subseteq Own(id)
  PROVE  /\ Parts(Held(id)', Held(id), more) => Parts(AllHeld', AllHeld, more)
         /\ Parts(Held(id), Held(id)', more) => Parts(AllHeld, AllHeld', more)
<1>1. \A i \in DOMAIN ranges : i # id => Held(i) \cap more = {}
  BY HeldApart
<1>2. AllHeld' = UNION {Held(i)' : i \in DOMAIN ranges}
  BY DEF AllHeld
<1>3. ASSUME NEW k
      PROVE  /\ k \in AllHeld <=> \E i \in DOMAIN ranges : k \in Held(i)
             /\ k \in AllHeld' <=> \E i \in DOMAIN ranges : k \in Held(i)'
  BY <1>2 DEF AllHeld
<1>4. ASSUME Held(id)' = Held(id) \cup more, Held(id) \cap more = {}
      PROVE  AllHeld' = AllHeld \cup more /\ AllHeld \cap more = {}
  <2>1. \A k : k \in AllHeld' <=> k \in AllHeld \/ k \in more
    BY <1>3, <1>4
  <2>2. \A k : ~(k \in AllHeld /\ k \in more)
    BY <1>1, <1>3, <1>4
  <2>3. QED
    BY <2>1, <2>2
<1>5. ASSUME Held(id) = Held(id)' \cup more, Held(id)' \cap more = {}
      PROVE  AllHeld = AllHeld' \cup more /\ AllHeld' \cap more = {}
  <2>1. \A k : k \in AllHeld <=> k \in AllHeld' \/ k \in more
    BY <1>3, <1>5
  <2>2. \A k : ~(k \in AllHeld' /\ k \in more)
    BY <1>1, <1>3, <1>5
  <2>3. QED
    BY <2>1, <2>2
<1>6. QED
  BY <1>4, <1>5 DEF Parts

(***************************************************************************)
(* The counters.                                                           *)
(***************************************************************************)
\* A page arrives: what is kept of it is new to its queue and to all others.
Feeds(w, id, kept) ==
  /\ Cardinality(kept) <= PageSize
  /\ DOMAIN ranges' = DOMAIN ranges
  /\ \A i \in DOMAIN ranges :
       /\ i # id => ranges'[i] = ranges[i]
       /\ ranges'[i].planned = ranges[i].planned
       /\ ranges'[i].done = ranges[i].done
  /\ Parts(Held(id)', Held(id), kept)
  /\ kept \subseteq Own(id)'
  /\ ranges'[id].queued = ranges[id].queued + Cardinality(kept)
  /\ buffered' = buffered + Cardinality(kept)
  /\ \A v \in Workers : v # w => worker'[v] = worker[v]
  /\ worker'[w].id = id
  /\ \/ worker'[w].pc = "leaving"
     \/ worker'[w].pc = "listing" /\ HasRoom(ranges', buffered', id)

LEMMA HandOverFeeds ==
  ASSUME ControlInv, ControlInv', PromiseInv',
         NEW w \in Workers, HandOver(w),
         NEW id \in DOMAIN ranges, id = worker[w].id
  PROVE  \E kept \in SUBSET Key : Feeds(w, id, kept)
<1> USE DEF ControlInv
<1> DEFINE live == ranges[id]
<1>1. worker[w].pc = "listing" /\ live \in Live /\ TypeOK
  BY TypeFacts DEF HandOver
<1>2. PICK r \in Responses(live.range.prefix, worker[w].after) :
           LET kept == Kept(live.range, r.keys)
               reachedEnd == \E k \in r.keys : k >= live.range.until
               resume == IF reachedEnd \/ r.keys = {}
                         THEN live.range.start_after ELSE Max(r.keys)
               next == [live EXCEPT
                          !.range.start_after = resume,
                          !.emitted = IF kept = {} THEN @ ELSE Max(kept),
                          !.handed = @ + Cardinality(kept),
                          !.queued = @ + Cardinality(kept),
                          !.pages = IF kept = {} THEN @ ELSE Append(@, kept)]
           IN  /\ ranges' = [ranges EXCEPT ![id] = next]
               /\ buffered' = buffered + Cardinality(kept)
               /\ Continue(w, r, reachedEnd, HasRoom(ranges', buffered', id))
  BY DEF HandOver
<1> DEFINE kept == Kept(live.range, r.keys)
           reachedEnd == \E k \in r.keys : k >= live.range.until
           resume == IF reachedEnd \/ r.keys = {}
                     THEN live.range.start_after ELSE Max(r.keys)
           next == [live EXCEPT
                      !.range.start_after = resume,
                      !.emitted = IF kept = {} THEN @ ELSE Max(kept),
                      !.handed = @ + Cardinality(kept),
                      !.queued = @ + Cardinality(kept),
                      !.pages = IF kept = {} THEN @ ELSE Append(@, kept)]
<1>3. /\ r.keys \in SUBSET Key /\ Cardinality(r.keys) <= PageSize
      /\ kept \in SUBSET Key /\ kept \subseteq r.keys
  BY DEF Responses, Kept
<1>4. Cardinality(kept) <= PageSize /\ Cardinality(kept) \in Nat
  <2> HIDE DEF kept
  <2>1. Cardinality(kept) \in Nat /\ Cardinality(kept) <= Cardinality(r.keys)
        /\ Cardinality(r.keys) \in Nat
    BY <1>3, KeysCounted
  <2>2. QED
    BY <1>3, <2>1, ConstantsAssumption
<1>5. /\ ranges' = [ranges EXCEPT ![id] = next]
      /\ buffered' = buffered + Cardinality(kept)
      /\ Continue(w, r, reachedEnd, HasRoom(ranges', buffered', id))
  BY <1>2
<1>6. /\ next.planned = live.planned /\ next.done = live.done
      /\ next.pages = (IF kept = {} THEN live.pages ELSE Append(live.pages, kept))
      /\ next.queued = live.queued + Cardinality(kept)
  BY <1>1 DEF Live, ListRange
<1>7. /\ DOMAIN ranges' = DOMAIN ranges
      /\ \A i \in DOMAIN ranges : i # id => ranges'[i] = ranges[i]
      /\ ranges'[id] = next
  <2> HIDE DEF next
  <2>1. QED
    BY <1>5
<1> HIDE DEF next, kept
<1>8. /\ ranges'[id].pages = IF kept = {} THEN live.pages ELSE Append(live.pages, kept)
      /\ ranges'[id].queued = live.queued + Cardinality(kept)
      /\ \A i \in DOMAIN ranges : /\ ranges'[i].planned = ranges[i].planned
                                  /\ ranges'[i].done = ranges[i].done
  BY <1>6, <1>7
<1>9. live.pages \in Seq(SUBSET Key)
  BY <1>1 DEF Live
<1>10. /\ Held(id)' = Held(id) \cup kept
       /\ Held(id) \cap kept = {}
       /\ kept \subseteq Own(id)'
  <2>1. Tidy(id)'
    BY <1>7 DEF PromiseInv, Shape, AllTidy
  <2>2. CASE kept = {}
    BY <1>8, <2>2 DEF Held
  <2>3. CASE kept # {}
    <3> DEFINE n == Len(live.pages) + 1
    <3>1. /\ ranges'[id].pages = Append(live.pages, kept)
          /\ DOMAIN live.pages = 1..Len(live.pages) /\ Len(live.pages) \in Nat
      BY <1>8, <1>9, <2>3, LenProperties
    <3>2. /\ DOMAIN ranges'[id].pages = 1..n /\ ranges'[id].pages[n] = kept
          /\ \A i \in DOMAIN live.pages : i \in 1..n /\ i < n /\ ranges'[id].pages[i] = live.pages[i]
      <4> DEFINE old  == live.pages
                 more == Append(old, kept)
                 T    == SUBSET Key
      <4>1. old \in Seq(T) /\ kept \in T
        BY <1>3, <1>9
      <4> HIDE DEF old, T
      <4>2. /\ more \in Seq(T) /\ Len(more) = Len(old) + 1 /\ more[Len(old) + 1] = kept
            /\ \A i \in 1..Len(old) : more[i] = old[i]
            /\ DOMAIN old = 1..Len(old) /\ Len(old) \in Nat
        BY <4>1, AppendProperties, LenProperties
      <4>3. DOMAIN more = 1..Len(old) + 1
        BY <4>2, LenProperties
      <4>4. \A i \in 1..Len(old) : i \in 1..Len(old) + 1 /\ i < Len(old) + 1
        BY <4>2
      <4> HIDE DEF more
      <4>5. ranges'[id].pages = more
        BY <3>1 DEF more, old
      <4>6. QED
        BY <4>2, <4>3, <4>4, <4>5 DEF old
    <3>3. \A i \in 1..n : i = n \/ i \in DOMAIN live.pages
      BY <3>1
    <3> HIDE DEF n
    <3>4. Held(id)' = UNION {ranges'[id].pages[i] : i \in DOMAIN ranges'[id].pages}
      BY DEF Held
    <3>5. Held(id)' = Held(id) \cup kept
      <4>1. \A k : k \in Held(id)' <=> \E i \in 1..n : k \in ranges'[id].pages[i]
        BY <3>2, <3>4
      <4>2. \A k : k \in Held(id) <=> \E i \in DOMAIN live.pages : k \in live.pages[i]
        BY DEF Held
      <4>3. n \in 1..n
        BY <3>1 DEF n
      <4>4. \A k : k \in Held(id)' <=> k \in Held(id) \/ k \in kept
        BY <3>2, <3>3, <4>1, <4>2, <4>3
      <4>5. QED
        BY <4>4
    <3>6. Held(id) \cap kept = {}
      <4>1. n \in 1..n
        BY <3>1 DEF n
      <4>2. \A i \in DOMAIN live.pages : \A k \in live.pages[i], l \in kept : k < l
        BY <2>1, <3>2, <4>1 DEF Tidy
      <4>3. \A l \in kept : l \in Nat
        BY <1>3, KeyFacts
      <4>4. \A i \in DOMAIN live.pages : \A k \in live.pages[i] : k \notin kept
        BY <4>2, <4>3
      <4>5. QED
        BY <4>4 DEF Held
    <3>7. kept \subseteq Own(id)'
      <4>1. n \in 1..n
        BY <3>1 DEF n
      <4>2. QED
        BY <2>1, <3>2, <4>1 DEF Tidy
    <3>8. QED
      BY <3>5, <3>6, <3>7
  <2>4. QED
    BY <2>2, <2>3
<1>11. /\ \A v \in Workers : v # w => worker'[v] = worker[v]
       /\ worker'[w].id = id
       /\ \/ worker'[w].pc = "leaving"
          \/ worker'[w].pc = "listing" /\ HasRoom(ranges', buffered', id)
  <2> DEFINE ended == reachedEnd
             room  == HasRoom(ranges', buffered', id)
             after == IF r.keys = {} THEN worker[w].after ELSE Max(r.keys)
             empty == IF r.keys = {} THEN worker[w].empty + 1 ELSE 0
             again == worker' = [worker EXCEPT ![w].after = after, ![w].empty = empty]
  <2>1. \/ Leaves(w, "done") \/ Leaves(w, "paused") \/ Leaves(w, "error")
        \/ room /\ again
    <3>1. Continue(w, r, ended, room)
      BY <1>5
    <3> HIDE DEF ended, room
    <3>2. QED
      BY <3>1 DEF Continue
  <2>2. ASSUME NEW left \in {"done", "paused", "error"}, Leaves(w, left)
        PROVE  /\ \A v \in Workers : v # w => worker'[v] = worker[v]
               /\ worker'[w].id = id /\ worker'[w].pc = "leaving"
    BY <2>2 DEF Leaves, TypeOK
  <2> HIDE DEF after, empty
  <2>3. ASSUME again
        PROVE  /\ \A v \in Workers : v # w => worker'[v] = worker[v]
               /\ worker'[w].id = id /\ worker'[w].pc = "listing"
    BY <1>1, <2>3 DEF TypeOK
  <2>4. QED
    BY <2>1, <2>2, <2>3
<1>12. Feeds(w, id, kept)
  BY <1>4, <1>5, <1>7, <1>8, <1>10, <1>11 DEF Feeds, Parts
<1>13. QED
  BY <1>3, <1>12

\* What an arriving page does to the counters is what it does to the queues.
LEMMA HandOverMatches ==
  ASSUME ControlInv, ControlInv', PromiseInv', Shape, CountsMatch,
         NEW w \in Workers, HandOver(w)
  PROVE  CountsMatch'
<1>1. PICK id \in DOMAIN ranges : id = worker[w].id
  BY DEF HandOver, ControlInv, InsideIsOpen, Inside
<1>2. PICK kept \in SUBSET Key : Feeds(w, id, kept)
  BY <1>1, HandOverFeeds
<1>3. SameSpans
  BY WorkerSpans
<1>4. Own(id)' = Own(id)
  BY <1>3 DEF SameSpans, Own, Base
<1>5. \A i \in DOMAIN ranges : i # id => Held(i)' = Held(i)
  BY <1>2 DEF Feeds, Held
<1>6. Parts(AllHeld', AllHeld, kept) /\ Parts(Held(id)', Held(id), kept)
  <2>1. DOMAIN ranges' = DOMAIN ranges /\ kept \subseteq Own(id)
        /\ Parts(Held(id)', Held(id), kept)
    BY <1>2, <1>4 DEF Feeds
  <2>2. QED
    BY <1>5, <2>1, OneQueue
<1>7. /\ AllHeld \in SUBSET Key /\ Held(id) \in SUBSET Key
  BY HeldCounted DEF ControlInv
<1>8. /\ Cardinality(AllHeld \cup kept) = Cardinality(AllHeld) + Cardinality(kept)
      /\ Cardinality(Held(id) \cup kept) = Cardinality(Held(id)) + Cardinality(kept)
  BY <1>6, <1>7, KeysCounted DEF Parts
<1>9. buffered = Cardinality(AllHeld) /\ \A i \in DOMAIN ranges : ranges[i].queued = Cardinality(Held(i))
  BY DEF CountsMatch, AllHeld
<1>10. buffered' = Cardinality(AllHeld)'
  BY <1>2, <1>6, <1>8, <1>9 DEF Feeds, Parts
<1>11. \A i \in DOMAIN ranges : ranges'[i].queued = Cardinality(Held(i)')
  BY <1>2, <1>5, <1>6, <1>8, <1>9 DEF Feeds, Parts
<1>12. QED
  BY <1>2, <1>10, <1>11 DEF CountsMatch, AllHeld, Feeds

\* A page taken leaves its queue, and the counters with it.
LEMMA PoppedMatches ==
  ASSUME ControlInv, Shape, CountsMatch, CanTakePage, ranges' = Popped, UNCHANGED order,
         buffered' = buffered - Cardinality(Head(Taken.pages))
  PROVE  /\ CountsMatch'
         /\ \A i \in DOMAIN ranges : Held(i)' \subseteq Held(i)
<1>1. PICK id \in DOMAIN ranges : id = order[caller.position]
  BY TypeFacts DEF CanTakePage, ControlInv, CallerInSync, TakenInOrder
<1>2. PICK page \in SUBSET Own(id) :
        /\ page = Head(Taken.pages)
        /\ Held(id) = page \cup Held(id)'
        /\ \A k \in page, l \in Held(id)' : k < l
        /\ DOMAIN ranges' = DOMAIN ranges
        /\ \A i \in DOMAIN ranges : i # id => Held(i)' = Held(i)
  BY <1>1, PoppedKeeps
<1>3. /\ AllHeld \in SUBSET Key
      /\ \A i \in DOMAIN ranges : Held(i) \in SUBSET Key
  BY HeldCounted DEF ControlInv
<1>4. page \in SUBSET Key
  BY <1>2, <1>3
<1>5. Held(id)' \cap page = {}
  BY <1>2, <1>4, KeyFacts
<1>6. AllHeld = AllHeld' \cup page /\ AllHeld' \cap page = {}
  <2>1. Parts(Held(id), Held(id)', page)
    BY <1>2, <1>5 DEF Parts
  <2>2. Parts(AllHeld, AllHeld', page)
    BY <1>2, <2>1, OneQueue
  <2>3. QED
    BY <2>2 DEF Parts
<1>7. Held(id)' \in SUBSET Key /\ AllHeld' \in SUBSET Key
  BY <1>2, <1>3, <1>6
<1>8. /\ Cardinality(AllHeld' \cup page) = Cardinality(AllHeld') + Cardinality(page)
      /\ Cardinality(Held(id)' \cup page) = Cardinality(Held(id)') + Cardinality(page)
      /\ Cardinality(AllHeld') \in Nat /\ Cardinality(page) \in Nat
      /\ Cardinality(Held(id)') \in Nat
  BY <1>4, <1>5, <1>6, <1>7, KeysCounted
<1>9. buffered = Cardinality(AllHeld) /\ \A i \in DOMAIN ranges : ranges[i].queued = Cardinality(Held(i))
  BY DEF CountsMatch, AllHeld
<1>10. /\ Taken = ranges[id] /\ ranges[id] \in Live
  BY <1>1, TypeFacts DEF Taken, ControlInv
<1> DEFINE live == [ranges[id] EXCEPT !.pages = Tail(@),
                      !.queued = @ - Cardinality(Head(Taken.pages))]
<1>11. ranges' = [ranges EXCEPT ![id] = live] /\ live.queued = ranges[id].queued - Cardinality(page)
  BY <1>1, <1>2, <1>10 DEF Popped, Live
<1> HIDE DEF live
<1>12. /\ ranges'[id].queued = ranges[id].queued - Cardinality(page)
       /\ \A i \in DOMAIN ranges : i # id => ranges'[i].queued = ranges[i].queued
  BY <1>11
<1>13. buffered' = Cardinality(AllHeld')
  BY <1>2, <1>6, <1>8, <1>9
<1>14. ranges'[id].queued = Cardinality(Held(id)')
  <2>1. Cardinality(Held(id)) = Cardinality(Held(id)') + Cardinality(page)
    <3>1. Held(id) = Held(id)' \cup page
      BY <1>2
    <3>2. QED
      BY <1>8, <3>1
  <2>2. QED
    BY <1>8, <1>9, <1>12, <2>1
<1>15. \A i \in DOMAIN ranges : ranges'[i].queued = Cardinality(Held(i)')
  BY <1>2, <1>9, <1>12, <1>14
<1>16. CountsMatch'
  BY <1>2, <1>13, <1>15 DEF CountsMatch, AllHeld
<1>17. QED
  BY <1>2, <1>16

\* Steps that leave the queues and the counters alone.
LEMMA SameQueues ==
  ASSUME DOMAIN ranges' = DOMAIN ranges, UNCHANGED buffered,
         \A i \in DOMAIN ranges : /\ ranges'[i].pages = ranges[i].pages
                                 /\ ranges'[i].queued = ranges[i].queued
  PROVE  /\ CountsMatch => CountsMatch'
         /\ \A i \in DOMAIN ranges : Held(i)' = Held(i)
<1>1. \A i \in DOMAIN ranges : Held(i)' = Held(i)
  BY DEF Held
<1>2. AllHeld' = AllHeld
  BY <1>1 DEF AllHeld
<1>3. CountsMatch => CountsMatch'
  BY <1>1, <1>2 DEF CountsMatch, AllHeld
<1>4. QED
  BY <1>1, <1>3

(***************************************************************************)
(* Room.                                                                   *)
(***************************************************************************)
\* A running sum from `lo`: its entry at a position adds the one before.
SumStep(len, lo, q, sum) == len[q] + IF q = lo THEN 0 ELSE sum[q - 1]
IsSum(len, lo, n, sum) == sum = [q \in lo..n |-> SumStep(len, lo, q, sum)]

\* There is one over any positions.
LEMMA SumExists ==
  ASSUME NEW lo \in Nat, NEW len, NEW n \in Nat, lo <= n
  PROVE  \E sum : IsSum(len, lo, n, sum)
<1> DEFINE Missing == {m \in Nat : lo <= m /\ ~\E sum : IsSum(len, lo, m, sum)}
<1> SUFFICES Missing = {}
  OBVIOUS
<1> SUFFICES ASSUME Missing # {} PROVE FALSE
  OBVIOUS
<1>1. PICK m \in Missing : \A k \in Missing : <<k, m>> \notin OpToRel(<, Nat)
  BY WFMin, NatLessThanWellFounded
<1>2. m \in Nat /\ lo <= m /\ \A k \in Missing : ~(k < m)
  BY <1>1 DEF OpToRel
<1>3. CASE m = lo
  <2> DEFINE sum == [q \in lo..lo |-> len[q] + 0]
  <2>1. lo..lo = {lo}
    OBVIOUS
  <2>2. sum = [q \in lo..lo |-> SumStep(len, lo, q, sum)]
    BY <2>1 DEF SumStep
  <2>3. IsSum(len, lo, m, sum)
    BY <1>3, <2>2 DEF IsSum
  <2>4. QED
    BY <1>1, <2>3
<1>4. CASE m # lo
  <2>1. m - 1 \in Nat /\ lo <= m - 1 /\ m - 1 < m
    BY <1>2, <1>4
  <2>2. PICK k \in Nat : k = m - 1 /\ lo <= k /\ k < m /\ m = k + 1
    BY <1>2, <2>1
  <2>3. PICK before : IsSum(len, lo, k, before)
    BY <1>2, <2>2
  <2> DEFINE sum == [q \in lo..m |-> IF q = m THEN len[m] + before[k] ELSE before[q]]
  <2>4. ASSUME NEW q \in lo..m
        PROVE  sum[q] = SumStep(len, lo, q, sum)
    <3>1. CASE q = m
      <4>1. k \in lo..m /\ k # m /\ q - 1 = k
        BY <1>2, <2>2, <3>1
      <4>2. sum[k] = before[k]
        BY <4>1
      <4>3. QED
        BY <1>4, <3>1, <4>1, <4>2 DEF SumStep
    <3>2. CASE q # m
      <4>1. q \in lo..k /\ sum[q] = before[q]
        BY <1>2, <2>2, <3>2
      <4>2. before[q] = SumStep(len, lo, q, before)
        BY <2>3, <4>1 DEF IsSum
      <4>3. CASE q = lo
        BY <4>1, <4>2, <4>3 DEF SumStep
      <4>4. CASE q # lo
        <5>1. q - 1 \in lo..m /\ q - 1 # m
          BY <1>2, <2>2, <4>1, <4>4
        <5>2. sum[q - 1] = before[q - 1]
          BY <5>1
        <5>3. QED
          BY <4>1, <4>2, <4>4, <5>2 DEF SumStep
      <4>5. QED
        BY <4>3, <4>4
    <3>3. QED
      BY <3>1, <3>2
  <2>5. sum = [q \in lo..m |-> SumStep(len, lo, q, sum)]
    <3>1. sum = [q \in lo..m |-> sum[q]]
      OBVIOUS
    <3> HIDE DEF sum
    <3>2. QED
      BY <2>4, <3>1
  <2>6. IsSum(len, lo, m, sum)
    BY <2>5 DEF IsSum
  <2>7. QED
    BY <1>1, <2>6
<1>5. QED
  BY <1>3, <1>4

\* It is at least each of its terms, and grows.
LEMMA SumGrows ==
  ASSUME NEW lo \in Nat, NEW len, NEW n \in Nat, NEW sum, IsSum(len, lo, n, sum),
         \A q \in lo..n : len[q] \in Nat
  PROVE  /\ \A q \in lo..n : sum[q] \in Nat /\ len[q] <= sum[q]
         /\ \A p, q \in lo..n : p <= q => sum[p] <= sum[q]
<1> DEFINE Good(q) == /\ sum[q] \in Nat /\ len[q] <= sum[q]
                      /\ \A p \in lo..q : sum[p] <= sum[q]
           Bad == {q \in lo..n : ~Good(q)}
<1> SUFFICES Bad = {}
  <2>1. \A p, q \in lo..n : p <= q => p \in lo..q
    OBVIOUS
  <2>2. \A q \in lo..n : Good(q)
    OBVIOUS
  <2>3. QED
    BY <2>1, <2>2
<1> SUFFICES ASSUME Bad # {} PROVE FALSE
  OBVIOUS
<1>1. Bad \subseteq Nat
  OBVIOUS
<1>2. PICK q \in Bad : \A k \in Bad : <<k, q>> \notin OpToRel(<, Nat)
  BY <1>1, WFMin, NatLessThanWellFounded
<1>3. q \in Nat /\ q \in lo..n /\ \A k \in Bad : ~(k < q)
  BY <1>1, <1>2 DEF OpToRel
<1>4. \A k \in lo..n : k < q => Good(k)
  BY <1>3
<1>5. sum[q] = len[q] + IF q = lo THEN 0 ELSE sum[q - 1]
  BY <1>3 DEF IsSum, SumStep
<1>6. len[q] \in Nat
  BY <1>3
<1>7. CASE q = lo
  <2>1. sum[q] = len[q]
    BY <1>5, <1>6, <1>7
  <2>2. \A p \in lo..q : p = q
    BY <1>3, <1>7
  <2>3. Good(q)
    BY <1>6, <2>1, <2>2
  <2>4. QED
    BY <1>2, <2>3
<1>8. CASE q # lo
  <2>1. PICK k \in lo..n : k = q - 1 /\ k < q
    BY <1>3, <1>8
  <2>2. sum[k] \in Nat /\ \A p \in lo..k : sum[p] <= sum[k]
    BY <1>4, <2>1
  <2>3. sum[q] = len[q] + sum[k]
    BY <1>5, <1>8, <2>1
  <2>4. sum[q] \in Nat /\ len[q] <= sum[q] /\ sum[k] <= sum[q]
    BY <1>6, <2>2, <2>3
  <2>5. ASSUME NEW p \in lo..q PROVE sum[p] <= sum[q]
    <3>1. p = q \/ p \in lo..k
      BY <1>3, <2>1
    <3>2. CASE p = q
      BY <2>4, <3>2
    <3>3. CASE p \in lo..k
      <4>1. p \in lo..n /\ p < q
        BY <1>3, <2>1, <3>3
      <4>2. sum[p] \in Nat
        BY <1>4, <4>1
      <4>3. sum[p] <= sum[k]
        BY <2>2, <3>3
      <4>4. QED
        BY <2>2, <2>4, <4>2, <4>3
    <3>4. QED
      BY <3>1, <3>2, <3>3
  <2>6. Good(q)
    BY <2>4, <2>5
  <2>7. QED
    BY <1>2, <2>6
<1>9. QED
  BY <1>7, <1>8

\* QueuedUpTo is such a sum.
LEMMA QueuedSums ==
  ASSUME TypeOK, NEW rs, taking <= Len(order),
         \A id \in DOMAIN ranges : rs[id].queued \in Nat
  PROVE  /\ \A q \in Ahead : /\ QueuedUpTo(rs, q) \in Nat
                             /\ rs[order[q]].queued <= QueuedUpTo(rs, q)
         /\ \A p, q \in Ahead : p <= q => QueuedUpTo(rs, p) <= QueuedUpTo(rs, q)
<1> DEFINE len == [q \in Ahead |-> rs[order[q]].queued]
           step(sum) == [q \in Ahead |-> rs[order[q]].queued + IF q = taking THEN 0 ELSE sum[q - 1]]
           upTo == CHOOSE sum : sum = step(sum)
<1>1. taking \in Nat /\ Len(order) \in Nat /\ \A q \in Ahead : order[q] \in DOMAIN ranges
  BY TypeFacts DEF Ahead
<1>2. \A sum : IsSum(len, taking, Len(order), sum) <=> sum = step(sum)
  BY DEF IsSum, SumStep, Ahead
<1>3. \E sum : sum = step(sum)
  BY <1>1, <1>2, SumExists
<1>4. upTo = step(upTo)
  BY <1>3
<1>5. \A q \in Ahead : QueuedUpTo(rs, q) = upTo[q]
  BY DEF QueuedUpTo, Ahead
<1> HIDE DEF upTo
<1>6. IsSum(len, taking, Len(order), upTo)
  BY <1>2, <1>4
<1>7. \A q \in taking..Len(order) : len[q] = rs[order[q]].queued /\ len[q] \in Nat
  BY <1>1 DEF Ahead
<1> HIDE DEF len, step
<1>8. /\ \A q \in taking..Len(order) : upTo[q] \in Nat /\ len[q] <= upTo[q]
      /\ \A p, q \in taking..Len(order) : p <= q => upTo[p] <= upTo[q]
  BY <1>1, <1>6, <1>7, SumGrows
<1>9. QED
  BY <1>5, <1>7, <1>8 DEF Ahead

\* Where a range has room its own queue is under the cap and, unless it is the
\* one being taken, the total under twice that; and every range before it has
\* room too.
LEMMA RoomMeans ==
  ASSUME TypeOK, NEW rs, NEW buf, taking <= Len(order),
         \A id \in DOMAIN ranges : rs[id].queued \in Nat,
         NEW r \in Ahead, Room(rs, buf, r)
  PROVE  /\ rs[order[r]].queued < MaxBuffered
         /\ r # taking => buf < 2 * MaxBuffered
         /\ \A p \in Ahead : p <= r => Room(rs, buf, p)
<1>1. /\ \A q \in Ahead : /\ QueuedUpTo(rs, q) \in Nat
                          /\ rs[order[q]].queued <= QueuedUpTo(rs, q)
                          /\ rs[order[q]].queued \in Nat
      /\ \A p, q \in Ahead : p <= q => QueuedUpTo(rs, p) <= QueuedUpTo(rs, q)
  <2>1. \A q \in Ahead : order[q] \in DOMAIN ranges
    BY TypeFacts DEF Ahead
  <2>2. QED
    BY <2>1, QueuedSums
<1>2. MaxBuffered \in Nat /\ Ahead \subseteq Nat /\ \A q \in Ahead : taking <= q
  BY ConstantsAssumption, TypeFacts DEF Ahead
<1>3. CASE r = taking
  <2>1. \A p \in Ahead : p <= r => p = taking
    BY <1>2, <1>3
  <2>2. QED
    BY <1>3, <2>1 DEF Room
<1>4. CASE r # taking
  <2>1. QueuedUpTo(rs, r) < MaxBuffered /\ buf < 2 * MaxBuffered
    BY <1>4 DEF Room
  <2>2. ASSUME NEW p \in Ahead, p <= r PROVE Room(rs, buf, p)
    <3>1. QueuedUpTo(rs, p) < MaxBuffered /\ rs[order[p]].queued < MaxBuffered
      BY <1>1, <1>2, <2>1, <2>2
    <3>2. QED
      BY <2>1, <3>1 DEF Room
  <2>3. rs[order[r]].queued < MaxBuffered
    BY <1>1, <1>2, <2>1
  <2>4. QED
    BY <1>4, <2>1, <2>2, <2>3
<1>5. QED
  BY <1>3, <1>4

(***************************************************************************)
(* The memory the listing may come to.                                     *)
(***************************************************************************)
\* Of the ranges S, by id: the objects they queue and the workers listing them.
Queue(S)   == UNION {Held(id) : id \in S}
Listing(S) == {w \in Workers : worker[w].pc = "listing" /\ worker[w].id \in S}

\* n pages of objects.
InPages(n) == n * PageSize

\* What they hold once every request that is under way is answered.
Load(S) == Cardinality(Queue(S)) + InPages(Cardinality(Listing(S)))

\* A page for every worker and for every half among them.
Allowance(S) == InPages(Cardinality(Workers) + Cardinality(Halves(S)))

\* A range stops at the cap, whatever page it is given past it.
OwnShare == \A id \in DOMAIN ranges : Load({id}) <= MaxBuffered - 1 + PageSize

\* Some worker is not beyond a range that is not done: the earliest range
\* nobody is listing is the one that is claimed.
SomeoneLeft ==
  \A p \in Ahead : ~ranges[order[p]].done =>
    \E w \in Workers : ~(Inside(w) /\ worker[w].id \in After(p))

\* So what lies beyond it is a page short of what all workers may bring.
AfterBounded ==
  \A p \in Ahead : ~ranges[order[p]].done =>
    Load(After(p)) + PageSize <= 2 * MaxBuffered - 1 + Allowance(After(p))

\* What lies at a position and beyond.
FromBounded ==
  \A p \in Ahead : Load(After(p - 1)) <= 3 * MaxBuffered - 2 + Allowance(After(p))

MemoryInv == OwnShare /\ SomeoneLeft /\ AfterBounded /\ FromBounded

\* Pages are counted in objects.
LEMMA InPagesCounts ==
  /\ PageSize \in Nat /\ InPages(0) = 0 /\ InPages(1) = PageSize
  /\ \A n \in Nat : InPages(n) \in Nat
  /\ \A m, n \in Nat : n = m + 1 => InPages(n) = InPages(m) + PageSize
  /\ \A m, n \in Nat : m <= n => InPages(m) <= InPages(n)
<1>1. PageSize \in Nat
  BY ConstantsAssumption
<1>2. \A n \in Nat : InPages(n) \in Nat
  BY <1>1 DEF InPages
<1>3. \A m, n \in Nat : n = m + 1 => InPages(n) = InPages(m) + PageSize
  BY <1>1 DEF InPages
<1>4. \A m, n \in Nat : m <= n => InPages(m) <= InPages(n)
  BY <1>1 DEF InPages
<1>5. InPages(0) = 0 /\ InPages(1) = PageSize
  BY <1>1 DEF InPages
<1>6. QED
  BY <1>1, <1>2, <1>3, <1>4, <1>5

\* Workers are finitely many, and one that is not among some makes them fewer.
LEMMA WorkersCounted ==
  /\ Cardinality(Workers) \in Nat
  /\ \A W \in SUBSET Workers :
       /\ Cardinality(W) \in Nat /\ Cardinality(W) <= Cardinality(Workers)
       /\ \A w \in Workers : w \notin W =>
            /\ Cardinality(W \cup {w}) = Cardinality(W) + 1
            /\ Cardinality(W) + 1 <= Cardinality(Workers)
  /\ \A V, W \in SUBSET Workers : V \subseteq W => Cardinality(V) <= Cardinality(W)
  /\ \A V, W \in SUBSET Workers :
       Cardinality(V \cup W) <= Cardinality(V) + Cardinality(W)
<1>1. IsFiniteSet(Workers)
  BY ConstantsAssumption
<1>2. \A W \in SUBSET Workers : IsFiniteSet(W) /\ Cardinality(W) <= Cardinality(Workers)
  BY <1>1, FS_Subset
<1>3. Cardinality(Workers) \in Nat /\ \A W \in SUBSET Workers : Cardinality(W) \in Nat
  BY <1>1, <1>2, FS_CardinalityType
<1>4. ASSUME NEW W \in SUBSET Workers, NEW w \in Workers, w \notin W
      PROVE  /\ Cardinality(W \cup {w}) = Cardinality(W) + 1
             /\ Cardinality(W) + 1 <= Cardinality(Workers)
  <2>1. Cardinality(W \cup {w}) = Cardinality(W) + 1
    BY <1>2, <1>4, FS_AddElement
  <2>2. W \cup {w} \in SUBSET Workers
    OBVIOUS
  <2>3. QED
    BY <1>2, <2>1, <2>2
<1>5. \A V, W \in SUBSET Workers : V \subseteq W => Cardinality(V) <= Cardinality(W)
  BY <1>2, FS_Subset
<1>6. ASSUME NEW V \in SUBSET Workers, NEW W \in SUBSET Workers
      PROVE  Cardinality(V \cup W) <= Cardinality(V) + Cardinality(W)
  <2>1. V \cap W \in SUBSET Workers
    OBVIOUS
  <2>2. /\ Cardinality(V \cap W) \in Nat /\ Cardinality(V) \in Nat /\ Cardinality(W) \in Nat
        /\ Cardinality(V \cup W) = Cardinality(V) + Cardinality(W) - Cardinality(V \cap W)
    BY <1>2, <1>3, <2>1, FS_Union
  <2>3. QED
    BY <2>2
<1>7. QED
  BY <1>2, <1>3, <1>4, <1>5, <1>6

\* Ranges are finitely many.
LEMMA HalvesCounted ==
  ASSUME NEW n \in Nat, NEW S \in SUBSET (1..n)
  PROVE  /\ IsFiniteSet(S) /\ Cardinality(S) \in Nat
         /\ \A x : x \notin S => Cardinality(S \cup {x}) = Cardinality(S) + 1
<1>1. IsFiniteSet(1..n)
  BY FS_Interval
<1>2. IsFiniteSet(S)
  BY <1>1, FS_Subset
<1>3. QED
  BY <1>2, FS_CardinalityType, FS_AddElement

\* What is counted are natural numbers.
LEMMA LoadTyped ==
  TypeOK => \A S \in SUBSET DOMAIN ranges :
    /\ Queue(S) \in SUBSET Key /\ Cardinality(Queue(S)) \in Nat
    /\ Listing(S) \in SUBSET Workers /\ Cardinality(Listing(S)) \in Nat
    /\ Halves(S) \in SUBSET DOMAIN ranges /\ Cardinality(Halves(S)) \in Nat
    /\ Load(S) \in Nat /\ Allowance(S) \in Nat
    /\ InPages(Cardinality(Workers)) <= Allowance(S)
<1> SUFFICES ASSUME TypeOK, NEW S \in SUBSET DOMAIN ranges
             PROVE  /\ Queue(S) \in SUBSET Key /\ Cardinality(Queue(S)) \in Nat
                    /\ Listing(S) \in SUBSET Workers /\ Cardinality(Listing(S)) \in Nat
                    /\ Halves(S) \in SUBSET DOMAIN ranges /\ Cardinality(Halves(S)) \in Nat
                    /\ Load(S) \in Nat /\ Allowance(S) \in Nat
                    /\ InPages(Cardinality(Workers)) <= Allowance(S)
  OBVIOUS
<1>1. Queue(S) \in SUBSET Key
  BY HeldCounted DEF Queue
<1>2. Listing(S) \in SUBSET Workers
  BY DEF Listing
<1>3. Halves(S) \in SUBSET DOMAIN ranges
  BY DEF Halves
<1>4. /\ Cardinality(Queue(S)) \in Nat /\ Cardinality(Listing(S)) \in Nat
      /\ Cardinality(Workers) \in Nat
  BY <1>1, <1>2, KeysCounted, WorkersCounted
<1>5. Cardinality(Halves(S)) \in Nat
  <2>1. DOMAIN ranges = 1..Len(ranges) /\ Len(ranges) \in Nat
    BY TypeFacts
  <2>2. QED
    BY <1>3, <2>1, HalvesCounted
<1>6. Load(S) \in Nat
  <2>1. InPages(Cardinality(Listing(S))) \in Nat
    BY <1>4, InPagesCounts
  <2>2. QED
    BY <1>4, <2>1 DEF Load
<1>7. Allowance(S) \in Nat /\ InPages(Cardinality(Workers)) <= Allowance(S)
  <2>1. PICK n \in Nat : n = Cardinality(Workers) + Cardinality(Halves(S))
    BY <1>4, <1>5
  <2>2. Cardinality(Workers) <= n
    BY <1>4, <1>5, <2>1
  <2>3. QED
    BY <1>4, <2>1, <2>2, InPagesCounts DEF Allowance
<1>8. QED
  BY <1>1, <1>2, <1>3, <1>4, <1>5, <1>6, <1>7

\* A range more is no more than its own load more.
LoadsJoin ==
  \A S \in SUBSET DOMAIN ranges : \A id \in DOMAIN ranges :
    Load(S \cup {id}) <= Load(S) + Load({id})

LEMMA LoadJoins == TypeOK => LoadsJoin
<1> SUFFICES ASSUME TypeOK, NEW S \in SUBSET DOMAIN ranges, NEW id \in DOMAIN ranges
             PROVE  Load(S \cup {id}) <= Load(S) + Load({id})
  BY DEF LoadsJoin
<1> DEFINE R == {id}
           T == S \cup R
<1>1. R \in SUBSET DOMAIN ranges /\ T \in SUBSET DOMAIN ranges
  OBVIOUS
<1>2. Queue(T) = Queue(S) \cup Queue(R)
  BY DEF Queue
<1>3. Listing(T) = Listing(S) \cup Listing(R)
  BY DEF Listing
<1> HIDE DEF R, T
<1>4. /\ Queue(S) \in SUBSET Key /\ Queue(R) \in SUBSET Key
      /\ Listing(S) \in SUBSET Workers /\ Listing(R) \in SUBSET Workers
      /\ Cardinality(Queue(S)) \in Nat /\ Cardinality(Queue(R)) \in Nat
      /\ Cardinality(Queue(T)) \in Nat /\ Cardinality(Listing(T)) \in Nat
      /\ Cardinality(Listing(S)) \in Nat /\ Cardinality(Listing(R)) \in Nat
  BY <1>1, LoadTyped
<1>5. Cardinality(Queue(T)) <= Cardinality(Queue(S)) + Cardinality(Queue(R))
  BY <1>2, <1>4, KeysCounted
<1>6. Cardinality(Listing(T)) <= Cardinality(Listing(S)) + Cardinality(Listing(R))
  BY <1>3, <1>4, WorkersCounted
<1>7. InPages(Cardinality(Listing(T)))
        <= InPages(Cardinality(Listing(S))) + InPages(Cardinality(Listing(R)))
  <2>1. ASSUME NEW a \in Nat, NEW b \in Nat, NEW c \in Nat, c <= a + b
        PROVE  InPages(c) <= InPages(a) + InPages(b)
    <3>1. PICK d \in Nat : d = a + b /\ c <= d
      BY <2>1
    <3>2. InPages(d) = InPages(a) + InPages(b)
      BY <3>1, ConstantsAssumption DEF InPages
    <3>3. QED
      BY <3>1, <3>2, InPagesCounts
  <2>2. QED
    BY <1>4, <1>6, <2>1
<1>8. InPages(Cardinality(Listing(T))) \in Nat /\ InPages(Cardinality(Listing(S))) \in Nat
      /\ InPages(Cardinality(Listing(R))) \in Nat
  BY <1>4, InPagesCounts
<1>9. QED
  BY <1>4, <1>5, <1>7, <1>8 DEF Load, R, T

\* Where the total is under its cap, any ranges are a page for each worker
\* over it at most, and a page less than that where a worker is elsewhere.
Capped ==
  \A S \in SUBSET DOMAIN ranges :
    /\ Load(S) <= 2 * MaxBuffered - 1 + InPages(Cardinality(Workers))
    /\ \A w \in Workers : w \notin Listing(S) =>
         Load(S) + PageSize <= 2 * MaxBuffered - 1 + InPages(Cardinality(Workers))

LEMMA UnderTheCap == TypeOK /\ CountsMatch /\ buffered < 2 * MaxBuffered => Capped
<1> SUFFICES ASSUME TypeOK, CountsMatch, buffered < 2 * MaxBuffered,
                    NEW S \in SUBSET DOMAIN ranges
             PROVE  /\ Load(S) <= 2 * MaxBuffered - 1 + InPages(Cardinality(Workers))
                    /\ \A w \in Workers : w \notin Listing(S) =>
                         Load(S) + PageSize <= 2 * MaxBuffered - 1 + InPages(Cardinality(Workers))
  BY DEF Capped
<1>1. /\ Queue(S) \in SUBSET Key /\ Cardinality(Queue(S)) \in Nat
      /\ Listing(S) \in SUBSET Workers /\ Cardinality(Listing(S)) \in Nat
  BY LoadTyped
<1>2. Cardinality(Queue(S)) <= buffered /\ buffered \in Nat
  <2>1. Queue(S) \subseteq AllHeld
    BY DEF Queue, AllHeld
  <2>2. buffered = Cardinality(AllHeld) /\ AllHeld \in SUBSET Key /\ buffered \in Nat
    BY HeldCounted DEF CountsMatch, AllHeld
  <2>3. QED
    BY <1>1, <2>1, <2>2, KeysCounted
<1>3. MaxBuffered \in Nat /\ Cardinality(Queue(S)) <= 2 * MaxBuffered - 1
  BY <1>1, <1>2, ConstantsAssumption
<1>4. /\ InPages(Cardinality(Listing(S))) <= InPages(Cardinality(Workers))
      /\ InPages(Cardinality(Listing(S))) \in Nat /\ InPages(Cardinality(Workers)) \in Nat
      /\ PageSize \in Nat
  BY <1>1, WorkersCounted, InPagesCounts
<1>5. Load(S) <= 2 * MaxBuffered - 1 + InPages(Cardinality(Workers))
  BY <1>1, <1>3, <1>4 DEF Load
<1>6. ASSUME NEW w \in Workers, w \notin Listing(S)
      PROVE  Load(S) + PageSize <= 2 * MaxBuffered - 1 + InPages(Cardinality(Workers))
  <2>1. PICK n \in Nat : n = Cardinality(Listing(S)) + 1
    BY <1>1
  <2>2. n <= Cardinality(Workers) /\ Cardinality(Workers) \in Nat
    BY <1>1, <1>6, <2>1, WorkersCounted
  <2>3. InPages(n) = InPages(Cardinality(Listing(S))) + PageSize
        /\ InPages(n) <= InPages(Cardinality(Workers)) /\ InPages(n) \in Nat
    BY <1>1, <2>1, <2>2, InPagesCounts
  <2>4. QED
    BY <1>1, <1>3, <1>4, <2>3 DEF Load
<1>7. QED
  BY <1>5, <1>6

(***************************************************************************)
(* What a step does to the loads.                                          *)
(***************************************************************************)
\* What lies beyond a position, in the terms of the positions.
LEMMA AfterFacts ==
  ASSUME TypeOK, OrderIsPermutation
  PROVE  /\ \A p \in Nat : After(p) \in SUBSET DOMAIN ranges
         /\ \A p \in Nat, q \in DOMAIN order : order[q] \in After(p) <=> p < q
         /\ \A p, q \in Nat :
              p \in DOMAIN order /\ p = q + 1 => After(q) = After(p) \cup {order[p]}
<1>1. /\ DOMAIN order = 1..Len(order) /\ Len(order) \in Nat
      /\ \A q \in DOMAIN order : order[q] \in DOMAIN ranges
  BY TypeFacts
<1>2. ASSUME NEW p \in Nat PROVE After(p) \in SUBSET DOMAIN ranges
  BY <1>1 DEF After
<1>3. ASSUME NEW p \in Nat, NEW q \in DOMAIN order
      PROVE  order[q] \in After(p) <=> p < q
  <2>1. \A r \in p + 1..Len(order) : r \in DOMAIN order /\ p < r
    BY <1>1
  <2>2. p < q => q \in p + 1..Len(order)
    BY <1>1
  <2>3. QED
    BY <2>1, <2>2 DEF After, OrderIsPermutation
<1>4. ASSUME NEW p \in Nat, NEW q \in Nat, p \in DOMAIN order, p = q + 1
      PROVE  After(q) = After(p) \cup {order[p]}
  <2>1. q + 1..Len(order) = (p + 1..Len(order)) \cup {p}
    BY <1>1, <1>4
  <2>2. QED
    BY <2>1 DEF After
<1>5. QED
  BY <1>2, <1>3, <1>4

\* Queues that lose pages and requests that end leave no more.
LEMMA LoadShrinks ==
  ASSUME TypeOK, TypeOK', DOMAIN ranges' = DOMAIN ranges,
         \A id \in DOMAIN ranges : Held(id)' \subseteq Held(id),
         \A w \in Workers : worker'[w].pc = "listing" =>
           worker[w].pc = "listing" /\ worker'[w].id = worker[w].id
  PROVE  \A S \in SUBSET DOMAIN ranges : Load(S)' <= Load(S)
<1> SUFFICES ASSUME NEW S \in SUBSET DOMAIN ranges PROVE Load(S)' <= Load(S)
  OBVIOUS
<1>1. /\ Queue(S) \in SUBSET Key /\ Cardinality(Queue(S)) \in Nat
      /\ Listing(S) \in SUBSET Workers /\ Cardinality(Listing(S)) \in Nat
  BY LoadTyped
<1>2. Queue(S)' \subseteq Queue(S)
  BY DEF Queue
<1>3. Listing(S)' \subseteq Listing(S)
  BY DEF Listing
<1>4. /\ Cardinality(Queue(S)') <= Cardinality(Queue(S)) /\ Cardinality(Queue(S)') \in Nat
  BY <1>1, <1>2, KeysCounted
<1>5. /\ Cardinality(Listing(S)') <= Cardinality(Listing(S)) /\ Cardinality(Listing(S)') \in Nat
  BY <1>1, <1>3, WorkersCounted
<1>6. /\ InPages(Cardinality(Listing(S)')) <= InPages(Cardinality(Listing(S)))
      /\ InPages(Cardinality(Listing(S)')) \in Nat /\ InPages(Cardinality(Listing(S))) \in Nat
  BY <1>1, <1>5, InPagesCounts
<1>7. Load(S)' = Cardinality(Queue(S)') + InPages(Cardinality(Listing(S)'))
  BY DEF Load, InPages
<1>8. QED
  BY <1>1, <1>4, <1>6, <1>7 DEF Load

\* Loads and allowances are numbers, before a step and after it.
LoadsTyped == \A S \in SUBSET DOMAIN ranges : Load(S) \in Nat /\ Allowance(S) \in Nat

LEMMA LoadsAreTyped == TypeOK => LoadsTyped
  BY LoadTyped DEF LoadsTyped

\* Steps that add to no load: the invariant stays.
Settles ==
  /\ DOMAIN ranges' = DOMAIN ranges
  /\ UNCHANGED order
  /\ taking' \in Nat /\ taking <= taking'
  /\ \A id \in DOMAIN ranges : /\ ranges'[id].planned = ranges[id].planned
                               /\ ranges[id].done => ranges'[id].done
  /\ \A w \in Workers : Inside(w)' => Inside(w) /\ worker'[w].id = worker[w].id
  /\ \A S \in SUBSET DOMAIN ranges : Load(S)' <= Load(S)

\* Such a step keeps all of the invariant.
LEMMA SettlesKeeps ==
  ASSUME TypeOK, TypeOK', OrderIsPermutation, MemoryInv, Settles
  PROVE  MemoryInv'
<1>1. /\ taking \in Nat \ {0} /\ Len(order) \in Nat /\ Ahead \subseteq Nat \ {0}
      /\ DOMAIN order = 1..Len(order)
      /\ \A p \in Ahead : p \in DOMAIN order /\ order[p] \in DOMAIN ranges
  BY TypeFacts DEF Ahead
<1>2. \A p \in Ahead' : p \in Ahead
  BY <1>1 DEF Ahead, Settles
<1>3. \A p : After(p)' = After(p)
  BY DEF After, Settles
<1>4. \A S \in SUBSET DOMAIN ranges : /\ Load(S)' <= Load(S)
                                      /\ Load(S)' \in Nat /\ Load(S) \in Nat
                                      /\ Allowance(S) \in Nat
  <2>1. (TypeOK => LoadsTyped)'
    BY LoadsAreTyped, PTL
  <2>2. QED
    BY <2>1, LoadsAreTyped DEF Settles, LoadsTyped
<1>5. ASSUME NEW S \in SUBSET DOMAIN ranges PROVE Allowance(S)' = Allowance(S)
  <2>1. Halves(S)' = Halves(S)
    BY DEF Halves, Settles
  <2>2. QED
    BY <2>1 DEF Allowance, InPages
<1>6. OwnShare'
  <2>1. ASSUME NEW id \in DOMAIN ranges PROVE Load({id})' <= MaxBuffered - 1 + PageSize
    <3>1. PICK S \in SUBSET DOMAIN ranges : S = {id}
      OBVIOUS
    <3>2. Load(S)' <= MaxBuffered - 1 + PageSize
      <4>1. Load(S) <= MaxBuffered - 1 + PageSize
        BY <3>1 DEF MemoryInv, OwnShare
      <4>2. QED
        BY <1>4, <4>1, ConstantsAssumption
    <3>3. QED
      BY <3>1, <3>2
  <2>2. QED
    BY <2>1 DEF OwnShare, Settles
<1>7. SomeoneLeft'
  <2>1. ASSUME NEW p \in Ahead', ~ranges'[order'[p]].done
        PROVE  \E w \in Workers : ~(Inside(w)' /\ worker'[w].id \in After(p)')
    <3>1. p \in Ahead /\ ~ranges[order[p]].done
      BY <1>1, <1>2, <2>1 DEF Settles
    <3>2. PICK w \in Workers : ~(Inside(w) /\ worker[w].id \in After(p))
      BY <3>1 DEF MemoryInv, SomeoneLeft
    <3>3. QED
      BY <1>3, <3>2 DEF Settles
  <2>2. QED
    BY <2>1 DEF SomeoneLeft
<1>8. AfterBounded'
  <2>1. ASSUME NEW p \in Ahead', ~ranges'[order'[p]].done
        PROVE  Load(After(p))' + PageSize <= 2 * MaxBuffered - 1 + Allowance(After(p))'
    <3>1. p \in Ahead /\ ~ranges[order[p]].done
      BY <1>1, <1>2, <2>1 DEF Settles
    <3>2. PICK S \in SUBSET DOMAIN ranges : S = After(p)
      BY <1>1, <3>1, AfterFacts
    <3>3. Load(S) + PageSize <= 2 * MaxBuffered - 1 + Allowance(S)
      BY <3>1, <3>2 DEF MemoryInv, AfterBounded
    <3>4. Load(S)' + PageSize <= 2 * MaxBuffered - 1 + Allowance(S)'
      BY <1>4, <1>5, <3>3, ConstantsAssumption
    <3>5. After(p)' = S
      BY <1>3, <3>2
    <3>6. Load(After(p))' = Load(S)' /\ Allowance(After(p))' = Allowance(S)'
      BY <3>5
    <3>7. QED
      BY <3>4, <3>6
  <2>2. QED
    BY <2>1 DEF AfterBounded
<1>9. FromBounded'
  <2>1. ASSUME NEW p \in Ahead'
        PROVE  Load(After(p - 1))' <= 3 * MaxBuffered - 2 + Allowance(After(p))'
    <3>1. p \in Ahead
      BY <1>2
    <3>2. PICK q \in Nat : q = p - 1
      BY <1>1, <3>1
    <3>3. PICK S \in SUBSET DOMAIN ranges, T \in SUBSET DOMAIN ranges : S = After(q) /\ T = After(p)
      BY <1>1, <3>1, <3>2, AfterFacts
    <3>4. Load(S) <= 3 * MaxBuffered - 2 + Allowance(T)
      BY <3>1, <3>2, <3>3 DEF MemoryInv, FromBounded
    <3>5. Load(S)' <= 3 * MaxBuffered - 2 + Allowance(T)'
      BY <1>4, <1>5, <3>4, ConstantsAssumption
    <3>6. After(q)' = S /\ After(p)' = T
      BY <1>3, <3>3
    <3>7. Load(After(q))' = Load(S)' /\ Allowance(After(p))' = Allowance(T)'
      BY <3>6
    <3>8. QED
      BY <3>2, <3>5, <3>7
  <2>2. QED
    BY <2>1 DEF FromBounded
<1>10. QED
  BY <1>6, <1>7, <1>8, <1>9 DEF MemoryInv

\* Steps that may add to the load of one range with room, at r.
Grows(r) ==
  /\ DOMAIN ranges' = DOMAIN ranges
  /\ UNCHANGED <<order, taking>>
  /\ r \in Ahead /\ ~ranges[order[r]].done
  /\ \A id \in DOMAIN ranges : /\ ranges'[id].planned = ranges[id].planned
                               /\ ranges'[id].done = ranges[id].done
  /\ \A S \in SUBSET DOMAIN ranges : order[r] \notin S => Load(S)' <= Load(S)
  /\ Room(ranges', buffered', r)

\* Counters that are exact are no less than zero.
LEMMA QueuesAreCounted ==
  TypeOK /\ CountsMatch => \A id \in DOMAIN ranges : ranges[id].queued \in Nat
  BY HeldCounted DEF CountsMatch

\* A range whose queue is under the cap may get one page, of one worker.
OnePageEach ==
  \A id \in DOMAIN ranges : ranges[id].queued < MaxBuffered =>
    Load({id}) <= MaxBuffered - 1 + PageSize

LEMMA OwnPage == TypeOK /\ OneWorkerPerRange /\ CountsMatch => OnePageEach
<1> SUFFICES ASSUME TypeOK, OneWorkerPerRange, CountsMatch, NEW id \in DOMAIN ranges,
                    ranges[id].queued < MaxBuffered
             PROVE  Load({id}) <= MaxBuffered - 1 + PageSize
  BY DEF OnePageEach
<1>1. Queue({id}) = Held(id)
  BY DEF Queue
<1>2. Cardinality(Queue({id})) \in Nat /\ Cardinality(Queue({id})) <= MaxBuffered - 1
  BY <1>1, HeldCounted, ConstantsAssumption DEF CountsMatch
<1>3. InPages(Cardinality(Listing({id}))) \in Nat
      /\ InPages(Cardinality(Listing({id}))) <= PageSize
  <2>1. \A v, w \in Listing({id}) : v = w
    BY DEF Listing, OneWorkerPerRange, Inside
  <2>2. CASE Listing({id}) = {}
    <3>1. Cardinality(Listing({id})) = 0
      BY <2>2, FS_EmptySet
    <3>2. QED
      BY <3>1, InPagesCounts
  <2>3. CASE Listing({id}) # {}
    <3>1. PICK w : Listing({id}) = {w}
      BY <2>1, <2>3
    <3>2. Cardinality(Listing({id})) = 1
      BY <3>1, FS_Singleton
    <3>3. QED
      BY <3>2, InPagesCounts
  <2>4. QED
    BY <2>2, <2>3
<1>4. QED
  BY <1>2, <1>3, ConstantsAssumption DEF Load

\* The range keeps to its own cap, and if it is not the one being taken the total
\* is under its own and somebody is not among what lies beyond.
LEMMA GrowsKeeps ==
  ASSUME TypeOK, TypeOK', OrderIsPermutation, OneWorkerPerRange', CountsMatch', MemoryInv,
         taking <= Len(order), SomeoneLeft', NEW r \in Ahead, Grows(r)
  PROVE  MemoryInv'
<1>1. /\ taking \in Nat \ {0} /\ Len(order) \in Nat /\ Ahead \subseteq Nat \ {0}
      /\ DOMAIN order = 1..Len(order) /\ \A p \in Ahead : taking <= p
      /\ \A p \in Ahead : p \in DOMAIN order /\ order[p] \in DOMAIN ranges
  BY TypeFacts DEF Ahead
<1>2. Ahead' = Ahead /\ \A p : After(p)' = After(p)
  BY DEF Ahead, After, Grows
<1>3. \A S \in SUBSET DOMAIN ranges : /\ Load(S)' \in Nat /\ Load(S) \in Nat
                                      /\ Allowance(S) \in Nat
                                      /\ order[r] \notin S => Load(S)' <= Load(S)
  <2>1. (TypeOK => LoadsTyped)'
    BY LoadsAreTyped, PTL
  <2>2. QED
    BY <2>1, LoadsAreTyped DEF Grows, LoadsTyped
<1>4. ASSUME NEW S \in SUBSET DOMAIN ranges PROVE Allowance(S)' = Allowance(S)
  <2>1. Halves(S)' = Halves(S)
    BY DEF Halves, Grows
  <2>2. QED
    BY <2>1 DEF Allowance, InPages
<1>5. MaxBuffered \in Nat \ {0} /\ PageSize \in Nat
  BY ConstantsAssumption
<1>6. /\ ranges'[order[r]].queued < MaxBuffered
      /\ r # taking => buffered' < 2 * MaxBuffered
  <2>1. \A id \in DOMAIN ranges : ranges'[id].queued \in Nat
    <3>1. (TypeOK /\ CountsMatch => \A id \in DOMAIN ranges : ranges[id].queued \in Nat)'
      BY QueuesAreCounted, PTL
    <3>2. QED
      BY <3>1 DEF Grows
  <2>2. Room(ranges', buffered', r)
    BY DEF Grows
  <2>3. QED
    BY <2>1, <2>2, RoomMeans
<1>7. OwnShare'
  <2>1. ASSUME NEW id \in DOMAIN ranges PROVE Load({id})' <= MaxBuffered - 1 + PageSize
    <3>1. CASE id = order[r]
      <4>1. (TypeOK /\ OneWorkerPerRange /\ CountsMatch => OnePageEach)'
        BY OwnPage, PTL
      <4>2. id \in DOMAIN ranges' /\ ranges'[id].queued < MaxBuffered
        BY <1>6, <3>1 DEF Grows
      <4>3. QED
        BY <4>1, <4>2 DEF OnePageEach
    <3>2. CASE id # order[r]
      <4>1. PICK S \in SUBSET DOMAIN ranges : S = {id}
        OBVIOUS
      <4>2. Load(S) <= MaxBuffered - 1 + PageSize
        BY <4>1 DEF MemoryInv, OwnShare
      <4>3. Load(S)' <= MaxBuffered - 1 + PageSize
        BY <1>3, <1>5, <3>2, <4>1, <4>2
      <4>4. QED
        BY <4>1, <4>3
    <3>3. QED
      BY <3>1, <3>2
  <2>2. QED
    BY <2>1 DEF OwnShare, Grows
<1>8. ASSUME r # taking, NEW S \in SUBSET DOMAIN ranges, NEW T \in SUBSET DOMAIN ranges
      PROVE  /\ Load(S)' <= 2 * MaxBuffered - 1 + Allowance(T)
             /\ \A w \in Workers : w \notin Listing(S)' =>
                  Load(S)' + PageSize <= 2 * MaxBuffered - 1 + Allowance(T)
  <2>1. (TypeOK /\ CountsMatch /\ buffered < 2 * MaxBuffered => Capped)'
    BY UnderTheCap, PTL
  <2>2. buffered' < 2 * MaxBuffered /\ S \in SUBSET DOMAIN ranges'
    BY <1>6, <1>8 DEF Grows
  <2>3. /\ Load(S)' <= 2 * MaxBuffered - 1 + InPages(Cardinality(Workers))
        /\ \A w \in Workers : w \notin Listing(S)' =>
             Load(S)' + PageSize <= 2 * MaxBuffered - 1 + InPages(Cardinality(Workers))
    BY <2>1, <2>2 DEF InPages, Capped
  <2>4. InPages(Cardinality(Workers)) <= Allowance(T) /\ InPages(Cardinality(Workers)) \in Nat
    BY LoadTyped, WorkersCounted, InPagesCounts
  <2>5. Load(S)' \in Nat /\ Allowance(T) \in Nat
    BY <1>3
  <2>6. QED
    BY <1>5, <2>3, <2>4, <2>5
<1>9. ASSUME NEW p \in Ahead, ~ranges[order[p]].done
      PROVE  Load(After(p))' + PageSize <= 2 * MaxBuffered - 1 + Allowance(After(p))'
  <2>1. PICK S \in SUBSET DOMAIN ranges : S = After(p)
    BY <1>1, AfterFacts
  <2>2. Load(S)' + PageSize <= 2 * MaxBuffered - 1 + Allowance(S)
    <3>1. CASE p < r
      <4>1. r # taking
        BY <1>1, <3>1
      <4>2. PICK w \in Workers : ~(Inside(w)' /\ worker'[w].id \in After(p)')
        <5>1. p \in Ahead' /\ ~ranges'[order'[p]].done
          BY <1>1, <1>2, <1>9 DEF Grows
        <5>2. QED
          BY <5>1 DEF SomeoneLeft
      <4>3. w \notin Listing(S)'
        BY <1>2, <2>1, <4>2 DEF Listing, Inside
      <4>4. QED
        BY <1>8, <4>1, <4>3
    <3>2. CASE ~(p < r)
      <4>1. order[r] \notin S
        BY <1>1, <2>1, <3>2, AfterFacts
      <4>2. Load(S) + PageSize <= 2 * MaxBuffered - 1 + Allowance(S)
        BY <1>9, <2>1 DEF MemoryInv, AfterBounded
      <4>3. QED
        BY <1>3, <1>5, <4>1, <4>2
    <3>3. QED
      BY <3>1, <3>2
  <2>3. After(p)' = S
    BY <1>2, <2>1
  <2>4. Load(After(p))' = Load(S)' /\ Allowance(After(p))' = Allowance(S)'
    BY <2>3
  <2>5. QED
    BY <1>4, <2>2, <2>4
<1>10. AfterBounded'
  BY <1>1, <1>2, <1>9 DEF AfterBounded, Grows
<1>11. ASSUME NEW p \in Ahead
       PROVE  Load(After(p - 1))' <= 3 * MaxBuffered - 2 + Allowance(After(p))'
  <2>1. PICK q \in Nat : q = p - 1 /\ p = q + 1
    <3>1. p - 1 \in Nat /\ p = (p - 1) + 1
      BY <1>1
    <3>2. QED
      BY <3>1
  <2>2. PICK S \in SUBSET DOMAIN ranges, T \in SUBSET DOMAIN ranges : S = After(q) /\ T = After(p)
    BY <1>1, <2>1, AfterFacts
  <2>3. Load(S)' <= 3 * MaxBuffered - 2 + Allowance(T)
    <3>1. CASE r # taking
      <4>1. Load(S)' <= 2 * MaxBuffered - 1 + Allowance(T)
        BY <1>8, <3>1
      <4>2. QED
        BY <1>3, <1>5, <4>1
    <3>2. CASE r = taking /\ p # r
      <4>1. order[r] \notin S
        <5>1. ~(q < r)
          BY <1>1, <2>1, <3>2
        <5>2. QED
          BY <1>1, <2>2, <5>1, AfterFacts
      <4>2. Load(S) <= 3 * MaxBuffered - 2 + Allowance(T)
        BY <2>1, <2>2 DEF MemoryInv, FromBounded
      <4>3. QED
        BY <1>3, <1>5, <4>1, <4>2
    <3>3. CASE p = r
      <4>1. ~ranges[order[p]].done
        BY <3>3 DEF Grows
      <4>2. Load(T)' + PageSize <= 2 * MaxBuffered - 1 + Allowance(T)
        <5>1. After(p)' = T
          BY <1>2, <2>2
        <5>2. Load(After(p))' = Load(T)' /\ Allowance(After(p))' = Allowance(T)'
          BY <5>1
        <5>3. QED
          BY <1>4, <1>9, <4>1, <5>2
      <4>3. PICK o \in DOMAIN ranges : o = order[p]
        BY <1>1
      <4>4. S = T \cup {o}
        BY <1>1, <2>1, <2>2, <4>3, AfterFacts
      <4>5. Load({o})' <= MaxBuffered - 1 + PageSize
        BY <1>7 DEF OwnShare, Grows
      <4>6. Load(S)' <= Load(T)' + Load({o})'
        <5>1. (TypeOK => LoadsJoin)'
          BY LoadJoins, PTL
        <5>2. T \in SUBSET DOMAIN ranges' /\ o \in DOMAIN ranges'
          BY DEF Grows
        <5>3. Load(T \cup {o})' <= Load(T)' + Load({o})'
          BY <5>1, <5>2 DEF LoadsJoin
        <5>4. QED
          BY <4>4, <5>3
      <4>7. Load(S)' \in Nat /\ Load(T)' \in Nat /\ Allowance(T) \in Nat
        BY <1>3
      <4>8. Load({o})' \in Nat
        <5>1. PICK R \in SUBSET DOMAIN ranges : R = {o}
          OBVIOUS
        <5>2. Load(R)' \in Nat
          BY <1>3
        <5>3. QED
          BY <5>1, <5>2
      <4>9. QED
        BY <1>5, <4>2, <4>5, <4>6, <4>7, <4>8
    <3>4. QED
      BY <3>1, <3>2, <3>3
  <2>4. After(q)' = S /\ After(p)' = T
    BY <1>2, <2>2
  <2>5. Load(After(q))' = Load(S)' /\ Allowance(After(p))' = Allowance(T)'
    BY <2>4
  <2>6. QED
    BY <1>4, <2>1, <2>3, <2>5
<1>12. FromBounded'
  BY <1>2, <1>11 DEF FromBounded
<1>13. QED
  BY <1>7, <1>10, <1>12 DEF MemoryInv

(***************************************************************************)
(* The steps.                                                              *)
(***************************************************************************)
\* Wherever a range with room is taken up, some worker is not beyond any range
\* before it: those have room too, and are busy.
LEMMA BusyBefore ==
  ASSUME ControlInv, CountsMatch, NEW r \in Ahead, Open(r),
         NEW p \in Ahead, p <= r, ~ranges[order[p]].done, ~Idle(p)
  PROVE  \E v \in Workers : Inside(v) /\ worker[v].id = order[p]
<1>1. TypeOK /\ taking <= Len(order) /\ p \in DOMAIN order
  BY TypeFacts DEF ControlInv, CallerInSync, TakenInOrder, Ahead
<1>2. \A id \in DOMAIN ranges : ranges[id].queued \in Nat
  BY <1>1, QueuesAreCounted
<1>3. Room(ranges, buffered, p)
  BY <1>1, <1>2, RoomMeans DEF Open
<1>4. ranges[order[p]].busy
  BY <1>3 DEF Idle, Open
<1>5. order[p] \in DOMAIN ranges
  BY <1>1, TypeFacts
<1>6. QED
  BY <1>4, <1>5 DEF ControlInv, OneWorkerPerRange

\* Loads that a worker who was not listing leaves alone where it does not go.
LEMMA LoadElsewhere ==
  ASSUME NEW S, NEW w \in Workers, worker[w].pc = "idle", worker'[w].id \notin S,
         \A v \in Workers : v # w => worker'[v] = worker[v],
         \A id \in S : Held(id)' = Held(id)
  PROVE  Queue(S)' = Queue(S) /\ Listing(S)' = Listing(S) /\ Load(S)' = Load(S)
<1>1. Queue(S)' = Queue(S)
  BY DEF Queue
<1>2. Listing(S)' = Listing(S)
  BY DEF Listing
<1>3. QED
  BY <1>1, <1>2 DEF Load, InPages

\* A claim is such a step.
LEMMA ClaimIdleMemory ==
  ASSUME ControlInv, ControlInv', CountsMatch, MemoryInv,
         NEW w \in Workers, NEW r \in Ahead, ClaimIdle(w, r)
  PROVE  CountsMatch' /\ MemoryInv'
<1> USE DEF ControlInv
<1> DEFINE id == order[r]
           live == [ranges[id] EXCEPT !.busy = TRUE]
<1>1. /\ TypeOK /\ TypeOK' /\ OrderIsPermutation /\ OneWorkerPerRange'
      /\ taking <= Len(order)
      /\ r \in DOMAIN order /\ id \in DOMAIN ranges /\ ranges[id] \in Live
      /\ taking \in Nat \ {0} /\ Ahead \subseteq Nat \ {0}
      /\ \A p \in Ahead : p \in DOMAIN order /\ order[p] \in DOMAIN ranges
  BY TypeFacts DEF CallerInSync, TakenInOrder, Ahead
<1>2. ranges' = [ranges EXCEPT ![id] = live]
  BY <1>1 DEF ClaimIdle
<1>3. /\ live.planned = ranges[id].planned /\ live.done = ranges[id].done
      /\ live.pages = ranges[id].pages /\ live.queued = ranges[id].queued
  BY <1>1 DEF Live
<1>4. Open(r) /\ Earliest(r, {q \in Ahead : Idle(q)})
  BY DEF ClaimIdle, Earliest, Idle
<1>5. /\ worker[w].pc = "idle" /\ worker'[w].id = id /\ worker'[w].pc = "listing"
      /\ \A v \in Workers : v # w => worker'[v] = worker[v]
  BY <1>1 DEF ClaimIdle, MayClaim, Lists, TypeOK
<1> HIDE DEF id, live
<1>6. DOMAIN ranges' = DOMAIN ranges
  BY <1>2
<1>7. \A i \in DOMAIN ranges : /\ ranges'[i].planned = ranges[i].planned
                               /\ ranges'[i].done = ranges[i].done
                               /\ ranges'[i].pages = ranges[i].pages
                               /\ ranges'[i].queued = ranges[i].queued
  BY <1>1, <1>2, <1>3
<1>8. UNCHANGED <<order, taking, buffered>>
  BY DEF ClaimIdle
<1>9. CountsMatch' /\ \A i \in DOMAIN ranges : Held(i)' = Held(i)
  BY <1>6, <1>7, <1>8, SameQueues
<1>10. \A S \in SUBSET DOMAIN ranges : id \notin S => Load(S)' <= Load(S)
  <2>1. ASSUME NEW S \in SUBSET DOMAIN ranges, id \notin S PROVE Load(S)' <= Load(S)
    <3>1. Load(S)' = Load(S)
      BY <1>5, <1>9, <2>1, LoadElsewhere
    <3>2. QED
      BY <1>1, <3>1, LoadsAreTyped DEF LoadsTyped
  <2>2. QED
    BY <2>1
<1>11. Room(ranges', buffered', r)
  <2>1. Room(ranges, buffered, r)
    BY <1>4 DEF Open
  <2>2. \A q \in Ahead : QueuedUpTo(ranges', q) = QueuedUpTo(ranges, q)
    <3>1. \A q \in taking..Len(order) : ranges'[order[q]].queued = ranges[order[q]].queued
      BY <1>1, <1>7 DEF Ahead
    <3>2. \A sum : [q \in taking..Len(order) |->
                      ranges'[order[q]].queued + IF q = taking THEN 0 ELSE sum[q - 1]]
                 = [q \in taking..Len(order) |->
                      ranges[order[q]].queued + IF q = taking THEN 0 ELSE sum[q - 1]]
      BY <3>1
    <3>3. QED
      BY <3>2 DEF QueuedUpTo
  <2>3. QED
    BY <1>1, <1>7, <1>8, <2>1, <2>2 DEF Room
<1>12. Grows(r)
  BY <1>4, <1>6, <1>7, <1>8, <1>10, <1>11 DEF Grows, Open, id
<1>13. SomeoneLeft'
  <2>1. Ahead' = Ahead /\ \A p : After(p)' = After(p)
    BY <1>8 DEF Ahead, After
  <2>2. ASSUME NEW p \in Ahead, ~ranges[order[p]].done
        PROVE  \E v \in Workers : ~(Inside(v)' /\ worker'[v].id \in After(p))
    <3>1. CASE r <= p
      <4>1. id \notin After(p)
        BY <1>1, <3>1, AfterFacts DEF id
      <4>2. QED
        BY <1>5, <4>1
    <3>2. CASE ~(r <= p)
      <4>1. p <= r /\ ~Idle(p)
        BY <1>1, <1>4, <3>2 DEF Earliest
      <4>2. PICK v \in Workers : Inside(v) /\ worker[v].id = order[p]
        BY <1>4, <2>2, <4>1, BusyBefore
      <4>3. v # w
        BY <1>5, <4>2 DEF Inside
      <4>4. order[p] \notin After(p)
        BY <1>1, AfterFacts
      <4>5. QED
        BY <1>5, <4>2, <4>3, <4>4
    <3>3. QED
      BY <3>1, <3>2
  <2>3. QED
    BY <1>1, <1>7, <1>8, <2>1, <2>2 DEF SomeoneLeft
<1>14. MemoryInv'
  BY <1>1, <1>9, <1>12, <1>13, GrowsKeeps
<1>15. QED
  BY <1>9, <1>14

\* A page that ends the worker's request is no more than the page it was
\* allowed for.
LEMMA LastPage ==
  ASSUME TypeOK, TypeOK', NEW w \in Workers, NEW id \in DOMAIN ranges, NEW kept \in SUBSET Key,
         Feeds(w, id, kept), worker[w].pc = "listing", worker[w].id = id,
         worker'[w].pc = "leaving", NEW S \in SUBSET DOMAIN ranges
  PROVE  Load(S)' <= Load(S)
<1>1. \A i \in DOMAIN ranges : i # id => Held(i)' = Held(i)
  BY DEF Feeds, Held
<1>2. /\ Queue(S) \in SUBSET Key /\ Cardinality(Queue(S)) \in Nat
      /\ Listing(S) \in SUBSET Workers /\ Cardinality(Listing(S)) \in Nat
      /\ Load(S) \in Nat
  BY LoadTyped
<1>3. CASE id \notin S
  <2>1. Queue(S)' = Queue(S)
    BY <1>1, <1>3 DEF Queue
  <2>2. Listing(S)' = Listing(S)
    BY <1>3 DEF Listing, Feeds
  <2>3. Load(S)' = Load(S)
    BY <2>1, <2>2 DEF Load, InPages
  <2>4. QED
    BY <1>2, <2>3
<1>4. CASE id \in S
  <2>1. Queue(S)' \subseteq Queue(S) \cup kept
    <3>1. Held(id)' \subseteq Held(id) \cup kept
      BY DEF Feeds, Parts
    <3>2. QED
      BY <1>1, <3>1 DEF Queue
  <2>2. /\ Queue(S)' \in SUBSET Key /\ Cardinality(Queue(S)') \in Nat
        /\ Cardinality(kept) \in Nat /\ Cardinality(kept) <= PageSize
        /\ Cardinality(Queue(S)') <= Cardinality(Queue(S)) + Cardinality(kept)
    <3>1. Queue(S)' \in SUBSET Key /\ Queue(S) \cup kept \in SUBSET Key
      BY <1>2, <2>1
    <3>2. Cardinality(Queue(S)') <= Cardinality(Queue(S) \cup kept)
          /\ Cardinality(Queue(S) \cup kept) <= Cardinality(Queue(S)) + Cardinality(kept)
          /\ Cardinality(Queue(S) \cup kept) \in Nat
          /\ Cardinality(Queue(S)') \in Nat /\ Cardinality(kept) \in Nat
      BY <1>2, <2>1, <3>1, KeysCounted
    <3>3. Cardinality(kept) <= PageSize
      BY DEF Feeds
    <3>4. QED
      BY <1>2, <3>1, <3>2, <3>3
  <2>3. Listing(S) = Listing(S)' \cup {w} /\ w \notin Listing(S)' /\ Listing(S)' \in SUBSET Workers
    <3>1. \A v \in Workers : v \in Listing(S) <=> v \in Listing(S)' \/ v = w
      BY <1>4 DEF Listing, Feeds
    <3>2. w \notin Listing(S)' /\ Listing(S)' \in SUBSET Workers
      BY DEF Listing
    <3>3. QED
      BY <1>2, <3>1, <3>2
  <2>4. Cardinality(Listing(S)') \in Nat /\ Cardinality(Listing(S)) = Cardinality(Listing(S)') + 1
    BY <2>3, WorkersCounted
  <2>5. /\ InPages(Cardinality(Listing(S))) = InPages(Cardinality(Listing(S)')) + PageSize
        /\ InPages(Cardinality(Listing(S)')) \in Nat /\ PageSize \in Nat
    BY <1>2, <2>4, InPagesCounts
  <2>6. Load(S)' = Cardinality(Queue(S)') + InPages(Cardinality(Listing(S)'))
    BY DEF Load, InPages
  <2>7. QED
    BY <1>2, <2>2, <2>5, <2>6 DEF Load
<1>5. QED
  BY <1>3, <1>4

\* A page either ends its request or was asked for again where there is room.
LEMMA HandOverMemory ==
  ASSUME ControlInv, ControlInv', PromiseInv', Shape, CountsMatch, MemoryInv,
         NEW w \in Workers, HandOver(w)
  PROVE  CountsMatch' /\ MemoryInv'
<1> USE DEF ControlInv
<1>1. CountsMatch'
  BY HandOverMatches
<1>2. PICK id \in DOMAIN ranges : id = worker[w].id
  BY DEF HandOver, InsideIsOpen, Inside
<1>3. PICK kept \in SUBSET Key : Feeds(w, id, kept)
  BY <1>2, HandOverFeeds
<1>4. /\ TypeOK /\ TypeOK' /\ OrderIsPermutation /\ OneWorkerPerRange'
      /\ taking <= Len(order) /\ taking \in Nat \ {0} /\ Len(order) \in Nat
      /\ DOMAIN order = 1..Len(order)
  BY TypeFacts DEF CallerInSync, TakenInOrder
<1>5. worker[w].pc = "listing" /\ ~ranges[id].done
  BY <1>2 DEF HandOver, InsideIsOpen, Inside
<1>6. PICK r \in DOMAIN order : order[r] = id
  BY DEF OrderIsPermutation
<1>7. r \in Ahead
  <2>1. ~(r \in 1..taking - 1)
    BY <1>5, <1>6 DEF CallerInSync, TakenInOrder, Gone
  <2>2. QED
    BY <1>4, <2>1 DEF Ahead
<1>8. UNCHANGED <<order, taking>>
  BY DEF HandOver
<1>9. /\ DOMAIN ranges' = DOMAIN ranges
      /\ \A i \in DOMAIN ranges : /\ ranges'[i].planned = ranges[i].planned
                                  /\ ranges'[i].done = ranges[i].done
  BY <1>3 DEF Feeds
<1>10. \A v \in Workers : (Inside(v)' <=> Inside(v)) /\ worker'[v].id = worker[v].id
  <2>1. \A v \in Workers : v # w => worker'[v] = worker[v]
    BY <1>3 DEF Feeds
  <2>2. Inside(w) /\ Inside(w)' /\ worker'[w].id = worker[w].id
    BY <1>2, <1>3, <1>5 DEF Feeds, Inside
  <2>3. QED
    BY <2>1, <2>2 DEF Inside
<1>11. CASE worker'[w].pc = "leaving"
  <2>1. \A S \in SUBSET DOMAIN ranges : Load(S)' <= Load(S)
    BY <1>2, <1>3, <1>4, <1>5, <1>11, LastPage
  <2>2. Settles
    BY <1>4, <1>8, <1>9, <1>10, <2>1 DEF Settles
  <2>3. QED
    BY <1>1, <1>4, <2>2, SettlesKeeps
<1>12. CASE worker'[w].pc = "listing" /\ HasRoom(ranges', buffered', id)
  <2>1. Room(ranges', buffered', r)
    <3>1. PICK p \in taking..Len(order) : order[p] = id /\ Room(ranges', buffered', p)
      BY <1>12 DEF HasRoom
    <3>2. p \in DOMAIN order
      BY <1>4, <3>1
    <3>3. p = r
      BY <1>6, <3>1, <3>2 DEF OrderIsPermutation
    <3>4. QED
      BY <3>1, <3>3
  <2>2. \A S \in SUBSET DOMAIN ranges : id \notin S => Load(S)' <= Load(S)
    <3>1. ASSUME NEW S \in SUBSET DOMAIN ranges, id \notin S PROVE Load(S)' <= Load(S)
      <4>1. Queue(S)' = Queue(S)
        BY <1>3, <3>1 DEF Queue, Held, Feeds
      <4>2. Listing(S)' = Listing(S)
        BY <1>2, <1>3, <3>1 DEF Listing, Feeds
      <4>3. Load(S)' = Load(S)
        BY <4>1, <4>2 DEF Load, InPages
      <4>4. QED
        BY <1>4, <4>3, LoadsAreTyped DEF LoadsTyped
    <3>2. QED
      BY <3>1
  <2>3. Grows(r)
    BY <1>5, <1>6, <1>7, <1>8, <1>9, <2>1, <2>2 DEF Grows
  <2>4. SomeoneLeft'
    <3>1. Ahead' = Ahead /\ \A p : After(p)' = After(p)
      BY <1>8 DEF Ahead, After
    <3>2. \A p \in Ahead : order[p] \in DOMAIN ranges
      <4>1. \A p \in DOMAIN order : order[p] \in DOMAIN ranges
        BY <1>4, TypeFacts
      <4>2. Ahead \subseteq DOMAIN order
        BY <1>4 DEF Ahead
      <4>3. QED
        BY <4>1, <4>2
    <3>3. QED
      BY <1>8, <1>9, <1>10, <3>1, <3>2 DEF SomeoneLeft, MemoryInv
  <2>5. QED
    BY <1>1, <1>4, <1>7, <2>3, <2>4, GrowsKeeps
<1>13. QED
  BY <1>3, <1>11, <1>12 DEF Feeds

\* Every other step of a worker but a split.
LEMMA WorkerMemory ==
  ASSUME ControlInv, ControlInv', CountsMatch, MemoryInv,
         NEW w \in Workers, Exit(w) \/ PageAfterStop(w) \/ RequestFails(w) \/ Leave(w)
  PROVE  CountsMatch' /\ MemoryInv'
<1> USE DEF ControlInv
<1>1. /\ TypeOK /\ TypeOK' /\ OrderIsPermutation /\ taking \in Nat
  BY TypeFacts
<1>2. UNCHANGED <<order, taking, buffered>>
  BY DEF Exit, PageAfterStop, RequestFails, Leave, shared
<1>3. /\ DOMAIN ranges' = DOMAIN ranges
      /\ \A i \in DOMAIN ranges : /\ ranges'[i].planned = ranges[i].planned
                                  /\ ranges[i].done => ranges'[i].done
                                  /\ ranges'[i].pages = ranges[i].pages
                                  /\ ranges'[i].queued = ranges[i].queued
  <2>1. CASE Leave(w)
    <3> DEFINE id   == worker[w].id
               live == [ranges[id] EXCEPT !.busy = FALSE,
                                          !.done = @ \/ worker[w].left = "done"]
    <3>1. id \in DOMAIN ranges /\ ranges[id] \in Live /\ ~ranges[id].done
      BY <2>1, TypeFacts DEF Leave, InsideIsOpen, Inside
    <3>2. /\ live.planned = ranges[id].planned /\ live.pages = ranges[id].pages
          /\ live.queued = ranges[id].queued
      BY <3>1 DEF Live
    <3>3. ranges' = [ranges EXCEPT ![id] = live]
      BY <2>1, <3>1 DEF Leave
    <3> HIDE DEF live, id
    <3>4. QED
      BY <3>1, <3>2, <3>3
  <2>2. CASE UNCHANGED ranges
    BY <2>2
  <2>3. QED
    BY <2>1, <2>2 DEF Exit, PageAfterStop, RequestFails, shared
<1>4. \A v \in Workers : /\ Inside(v)' => Inside(v) /\ worker'[v].id = worker[v].id
                         /\ worker'[v].pc = "listing" =>
                              worker[v].pc = "listing" /\ worker'[v].id = worker[v].id
  <2>1. \A v \in Workers : v # w => worker'[v] = worker[v]
    BY <1>1 DEF Exit, PageAfterStop, RequestFails, Leave, Leaves, TypeOK
  <2>2. /\ Inside(w)' => Inside(w) /\ worker'[w].id = worker[w].id
        /\ worker'[w].pc # "listing"
    <3>1. CASE Exit(w)
      BY <1>1, <3>1 DEF Exit, Inside, TypeOK
    <3>2. CASE PageAfterStop(w) \/ RequestFails(w)
      BY <1>1, <3>2 DEF PageAfterStop, RequestFails, Leaves, Inside, TypeOK
    <3>3. CASE Leave(w)
      BY <1>1, <3>3 DEF Leave, Inside, TypeOK
    <3>4. QED
      BY <3>1, <3>2, <3>3
  <2>3. QED
    BY <2>1, <2>2 DEF Inside
<1>5. CountsMatch' /\ \A i \in DOMAIN ranges : Held(i)' = Held(i)
  BY <1>2, <1>3, SameQueues
<1>6. \A S \in SUBSET DOMAIN ranges : Load(S)' <= Load(S)
  BY <1>1, <1>3, <1>4, <1>5, LoadShrinks
<1>7. Settles
  BY <1>1, <1>2, <1>3, <1>4, <1>6 DEF Settles
<1>8. QED
  BY <1>1, <1>5, <1>7, SettlesKeeps

\* The caller's steps.
LEMMA CallerMemory ==
  ASSUME ControlInv, ControlInv', Shape, CountsMatch, MemoryInv,
         CallerStep \/ SinkFails \/ Cancel \/ UNCHANGED vars
  PROVE  CountsMatch' /\ MemoryInv'
<1> USE DEF ControlInv
<1>1. /\ TypeOK /\ TypeOK' /\ OrderIsPermutation /\ taking \in Nat /\ taking' \in Nat
      /\ UNCHANGED <<order, worker>>
  BY TypeFacts DEF TypeOK, CallerStep, SinkObjects, StartTaking, TakePage, Drained, Advance,
     TakeFailure, Stop, Join, SinkFails, Cancel, vars, shared
<1>2. taking <= taking'
  <2>1. CASE StartTaking
    BY <1>1, <2>1, TypeFacts DEF StartTaking, AtRange, CallerInSync, TakenInOrder
  <2>2. CASE UNCHANGED taking
    BY <1>1, <2>2
  <2>3. QED
    BY <2>1, <2>2 DEF CallerStep, SinkObjects, TakePage, Drained, Advance,
       TakeFailure, Stop, Join, SinkFails, Cancel, vars, shared
<1>3. /\ DOMAIN ranges' = DOMAIN ranges /\ CountsMatch'
      /\ \A i \in DOMAIN ranges : /\ ranges'[i].planned = ranges[i].planned
                                  /\ ranges'[i].done = ranges[i].done
                                  /\ Held(i)' \subseteq Held(i)
  <2>1. CASE TakePage \/ (SinkFails /\ ~AtObjects)
    <3>1. /\ CanTakePage /\ ranges' = Popped
          /\ buffered' = buffered - Cardinality(Head(Taken.pages))
      BY <2>1 DEF TakePage, SinkFails
    <3>2. CountsMatch' /\ \A i \in DOMAIN ranges : Held(i)' \subseteq Held(i)
      BY <1>1, <3>1, PoppedMatches
    <3>3. RangesKept /\ \A i \in DOMAIN ranges : ranges'[i].done = ranges[i].done
      BY <3>1, PoppedFacts
    <3>4. DOMAIN ranges' = DOMAIN ranges
      BY <1>1, <3>3, OrderKept
    <3>5. QED
      BY <3>2, <3>3, <3>4 DEF RangesKept
  <2>2. CASE UNCHANGED <<ranges, buffered>>
    BY <2>2, SameQueues
  <2>3. \/ TakePage \/ (SinkFails /\ ~AtObjects)
        \/ UNCHANGED <<ranges, buffered>>
    BY DEF CallerStep, SinkObjects, StartTaking, Drained, Advance,
       TakeFailure, Stop, Join, SinkFails, Cancel, vars, shared, AtObjects, CanTakePage
  <2>4. QED
    BY <2>1, <2>2, <2>3
<1>4. \A S \in SUBSET DOMAIN ranges : Load(S)' <= Load(S)
  BY <1>1, <1>3, LoadShrinks
<1>5. Settles
  BY <1>1, <1>2, <1>3, <1>4 DEF Settles, Inside
<1>6. QED
  BY <1>1, <1>3, <1>5, SettlesKeeps

\* A split of the range at r, as far as the loads go: a new range that holds
\* nothing and is listed by w follows it.
SplitOff(w, r, new) ==
  /\ new \notin DOMAIN ranges /\ DOMAIN ranges' = DOMAIN ranges \cup {new}
  /\ UNCHANGED <<taking, buffered>>
  /\ \A i \in DOMAIN ranges : /\ ranges'[i].planned = ranges[i].planned
                              /\ ranges'[i].done = ranges[i].done
                              /\ ranges'[i].queued = ranges[i].queued
                              /\ Held(i)' = Held(i)
  /\ ~ranges'[new].planned /\ ~ranges'[new].done
  /\ ranges'[new].queued = 0 /\ Held(new)' = {}
  /\ worker[w].pc = "idle"
  /\ worker'[w].pc = "listing" /\ worker'[w].id = new
  /\ \A v \in Workers : v # w => worker'[v] = worker[v]
  /\ order' = InsertAfter(r, new)

\* SplitBusy is that.
LEMMA SplitsOff ==
  ASSUME ControlInv, Shape, NEW w \in Workers, NEW r \in Ahead, SplitBusy(w, r)
  PROVE  \E new \in Nat : SplitOff(w, r, new)
<1>1. r \in DOMAIN order
  BY TypeFacts DEF ControlInv, Ahead
<1>2. PICK o \in DOMAIN ranges : o = order[r]
  BY <1>1, TypeFacts DEF ControlInv
<1>3. PICK new \in Nat : new = Len(ranges) + 1
  BY TypeFacts DEF ControlInv
<1>4. PICK folder \in Nat \ {0} : Splits(w, r, o, new, folder)
  BY <1>2, <1>3, SplitDoes
<1>5. /\ new \notin DOMAIN ranges /\ Held(new)' = {}
      /\ \A i \in DOMAIN ranges : /\ Held(i)' = Held(i)
                                  /\ ranges'[i].planned = ranges[i].planned
                                  /\ ranges'[i].done = ranges[i].done
  BY <1>1, <1>4, SplitOwn
<1>6. \A i \in DOMAIN ranges : ranges'[i].queued = ranges[i].queued
  BY <1>4 DEF Splits
<1>7. SplitOff(w, r, new)
  BY <1>4, <1>5, <1>6 DEF Splits, SplitOff
<1>8. QED
  BY <1>7

\* What it does to a load: nothing, but where the half is, a page.
LEMMA SplitLoads ==
  ASSUME TypeOK, InsideIsOpen, NEW w \in Workers, NEW r, NEW new \in Nat, SplitOff(w, r, new),
         NEW S \in SUBSET DOMAIN ranges
  PROVE  /\ Load(S) \in Nat /\ Allowance(S) \in Nat
         /\ Load(S)' = Load(S) /\ Allowance(S)' = Allowance(S)
         /\ Load(S \cup {new})' = Load(S) + PageSize
         /\ Allowance(S \cup {new})' = Allowance(S) + PageSize
<1>1. /\ Queue(S) \in SUBSET Key /\ Cardinality(Queue(S)) \in Nat
      /\ Listing(S) \in SUBSET Workers /\ Cardinality(Listing(S)) \in Nat
      /\ Load(S) \in Nat /\ Allowance(S) \in Nat
      /\ Halves(S) \in SUBSET DOMAIN ranges /\ Cardinality(Halves(S)) \in Nat
      /\ Cardinality(Workers) \in Nat
  BY LoadTyped, WorkersCounted
<1>2. new \notin S
  BY DEF SplitOff
<1>3. Load(S)' = Load(S)
  BY <1>2, LoadElsewhere DEF SplitOff
<1>4. Halves(S)' = Halves(S) /\ Halves(S \cup {new})' = Halves(S) \cup {new}
  BY DEF Halves, SplitOff
<1>5. Allowance(S)' = Allowance(S)
  BY <1>4 DEF Allowance, InPages
<1>6. Queue(S \cup {new})' = Queue(S)
  BY DEF Queue, SplitOff
<1>7. Listing(S \cup {new})' = Listing(S) \cup {w} /\ w \notin Listing(S)
  <2>1. \A v \in Workers : v \in Listing(S \cup {new})' <=> v \in Listing(S) \/ v = w
    <3>1. w \in Listing(S \cup {new})'
      BY DEF Listing, SplitOff
    <3>2. ASSUME NEW v \in Workers, v # w
          PROVE  v \in Listing(S \cup {new})' <=> v \in Listing(S)
      <4>1. worker'[v] = worker[v]
        BY <3>2 DEF SplitOff
      <4>2. worker[v].pc = "listing" => (worker[v].id \in S \cup {new} <=> worker[v].id \in S)
        BY DEF InsideIsOpen, Inside, SplitOff
      <4>3. QED
        BY <4>1, <4>2 DEF Listing
    <3>3. QED
      BY <3>1, <3>2
  <2>2. Listing(S \cup {new})' \subseteq Workers /\ w \notin Listing(S)
    BY DEF Listing, SplitOff
  <2>3. QED
    BY <1>1, <2>1, <2>2
<1>8. Cardinality(Listing(S) \cup {w}) = Cardinality(Listing(S)) + 1
  BY <1>1, <1>7, WorkersCounted
<1>9. Load(S \cup {new})' = Load(S) + PageSize
  <2>1. PICK n \in Nat : n = Cardinality(Listing(S)) + 1
    BY <1>1
  <2>2. /\ InPages(n) = InPages(Cardinality(Listing(S))) + PageSize
        /\ InPages(Cardinality(Listing(S))) \in Nat /\ PageSize \in Nat
    BY <1>1, <2>1, InPagesCounts
  <2>3. Load(S \cup {new})' = Cardinality(Queue(S)) + InPages(n)
    BY <1>6, <1>7, <1>8, <2>1 DEF Load, InPages
  <2>4. QED
    BY <1>1, <2>2, <2>3 DEF Load
<1>10. Allowance(S \cup {new})' = Allowance(S) + PageSize
  <2>1. Cardinality(Halves(S) \cup {new}) = Cardinality(Halves(S)) + 1
    <3>1. new \notin Halves(S)
      BY <1>2 DEF Halves
    <3>2. DOMAIN ranges = 1..Len(ranges) /\ Len(ranges) \in Nat
      BY TypeFacts
    <3>3. QED
      BY <1>1, <3>1, <3>2, HalvesCounted
  <2>2. PICK m \in Nat : m = Cardinality(Workers) + Cardinality(Halves(S))
    BY <1>1
  <2>3. PICK n \in Nat : n = m + 1
    BY <2>2
  <2>4. InPages(n) = InPages(m) + PageSize
    BY <2>2, <2>3, InPagesCounts
  <2>5. Cardinality(Workers) + Cardinality(Halves(S) \cup {new}) = n
    BY <1>1, <2>1, <2>2, <2>3
  <2>6. Allowance(S \cup {new})' = InPages(n)
    BY <1>4, <2>5 DEF Allowance, InPages
  <2>7. Allowance(S) = InPages(m)
    BY <2>2 DEF Allowance
  <2>8. QED
    BY <2>4, <2>6, <2>7
<1>11. QED
  BY <1>1, <1>3, <1>5, <1>9, <1>10

\* What lies beyond each position after it.
LEMMA SplitAfter ==
  ASSUME TypeOK, TypeOK', OrderIsPermutation, OrderIsPermutation',
         NEW w \in Workers, NEW r \in Ahead, NEW new \in Nat, SplitOff(w, r, new),
         taking <= Len(order)
  PROVE  /\ \A p \in Nat : p <= r => After(p)' = After(p) \cup {new}
         /\ \A p, q \in Nat : r <= q /\ p = q + 1 => After(p)' = After(q)
<1>1. /\ taking \in Nat \ {0} /\ Len(order) \in Nat /\ DOMAIN order = 1..Len(order)
      /\ r \in DOMAIN order /\ r \in Nat
  BY TypeFacts DEF Ahead
<1>2. /\ DOMAIN order' = 1..Len(order) + 1
      /\ \A q \in 1..Len(order) + 1 :
           order'[q] = IF q <= r THEN order[q] ELSE IF q = r + 1 THEN new ELSE order[q - 1]
  BY <1>1 DEF SplitOff, InsertAfter
<1>3. Len(order') = Len(order) + 1
  BY <1>1, <1>2, TypeFacts, LenProperties DEF TypeOK
<1>4. ASSUME NEW p \in Nat, p <= r
      PROVE  After(p)' = After(p) \cup {new}
  <2>1. \A x : x \in After(p)' <=> \E q \in p + 1..Len(order) + 1 : x = order'[q]
    BY <1>3 DEF After
  <2>2. \A x : x \in After(p) <=> \E q \in p + 1..Len(order) : x = order[q]
    BY DEF After
  <2>3. ASSUME NEW q \in p + 1..Len(order) + 1
        PROVE  \/ order'[q] = new
               \/ \E u \in p + 1..Len(order) : order'[q] = order[u]
    <3>1. CASE q <= r
      <4>1. q \in p + 1..Len(order) /\ order'[q] = order[q]
        BY <1>1, <1>2, <1>4, <3>1
      <4>2. QED
        BY <4>1
    <3>2. CASE q = r + 1
      BY <1>1, <1>2, <1>4, <3>2
    <3>3. CASE q > r + 1
      <4>1. PICK u \in p + 1..Len(order) : u = q - 1
        BY <1>1, <1>4, <3>3
      <4>2. order'[q] = order[u]
        BY <1>1, <1>2, <1>4, <3>3, <4>1
      <4>3. QED
        BY <4>2
    <3>4. QED
      BY <1>1, <1>4, <3>1, <3>2, <3>3
  <2>4. ASSUME NEW u \in p + 1..Len(order)
        PROVE  \E q \in p + 1..Len(order) + 1 : order'[q] = order[u]
    <3>1. CASE u <= r
      <4>1. u \in p + 1..Len(order) + 1 /\ order'[u] = order[u]
        BY <1>1, <1>2, <1>4, <3>1
      <4>2. QED
        BY <4>1
    <3>2. CASE u > r
      <4>1. PICK q \in p + 1..Len(order) + 1 : q = u + 1
        BY <1>1, <1>4, <3>2
      <4>2. ~(q <= r) /\ q # r + 1 /\ q - 1 = u /\ q \in 1..Len(order) + 1
        BY <1>1, <1>4, <3>2, <4>1
      <4>3. order'[q] = order[u]
        BY <1>2, <4>2
      <4>4. QED
        BY <4>3
    <3>3. QED
      BY <1>1, <1>4, <3>1, <3>2
  <2>5. \E q \in p + 1..Len(order) + 1 : order'[q] = new
    <3>1. PICK q \in p + 1..Len(order) + 1 : q = r + 1
      BY <1>1, <1>4
    <3>2. order'[q] = new
      BY <1>1, <1>2, <1>4, <3>1
    <3>3. QED
      BY <3>2
  <2>6. ASSUME NEW x PROVE x \in After(p)' <=> x \in After(p) \/ x = new
    <3>1. x \in After(p)' => x \in After(p) \/ x = new
      BY <2>1, <2>2, <2>3
    <3>2. x \in After(p) => x \in After(p)'
      BY <2>1, <2>2, <2>4
    <3>3. x = new => x \in After(p)'
      BY <2>1, <2>5
    <3>4. QED
      BY <3>1, <3>2, <3>3
  <2>7. QED
    BY <2>6
<1>5. ASSUME NEW p \in Nat, NEW q \in Nat, r <= q, p = q + 1
      PROVE  After(p)' = After(q)
  <2>1. \A x : x \in After(p)' <=> \E u \in p + 1..Len(order) + 1 : x = order'[u]
    BY <1>3 DEF After
  <2>2. \A x : x \in After(q) <=> \E u \in q + 1..Len(order) : x = order[u]
    BY DEF After
  <2>3. ASSUME NEW u \in p + 1..Len(order) + 1
        PROVE  \E v \in q + 1..Len(order) : order'[u] = order[v]
    <3>1. PICK v \in q + 1..Len(order) : v = u - 1
      BY <1>1, <1>5
    <3>2. ~(u <= r) /\ u # r + 1 /\ u \in 1..Len(order) + 1
      BY <1>1, <1>5
    <3>3. order'[u] = order[v]
      BY <1>2, <3>1, <3>2
    <3>4. QED
      BY <3>3
  <2>4. ASSUME NEW v \in q + 1..Len(order)
        PROVE  \E u \in p + 1..Len(order) + 1 : order'[u] = order[v]
    <3>1. PICK u \in p + 1..Len(order) + 1 : u = v + 1
      BY <1>1, <1>5
    <3>2. ~(u <= r) /\ u # r + 1 /\ u \in 1..Len(order) + 1 /\ u - 1 = v
      BY <1>1, <1>5, <3>1
    <3>3. order'[u] = order[v]
      BY <1>2, <3>2
    <3>4. QED
      BY <3>3
  <2>5. ASSUME NEW x PROVE x \in After(p)' <=> x \in After(q)
    <3>1. x \in After(p)' => x \in After(q)
      BY <2>1, <2>2, <2>3
    <3>2. x \in After(q) => x \in After(p)'
      BY <2>1, <2>2, <2>4
    <3>3. QED
      BY <3>1, <3>2
  <2>6. QED
    BY <2>5
<1>6. QED
  BY <1>4, <1>5

\* The half counts nothing and holds nothing.
LEMMA SplitMatches ==
  ASSUME TypeOK, CountsMatch, NEW w, NEW r, NEW new, SplitOff(w, r, new)
  PROVE  CountsMatch'
<1>1. AllHeld' = AllHeld
  BY DEF AllHeld, SplitOff
<1>2. Cardinality({}) = 0
  BY FS_EmptySet
<1>3. \A i \in DOMAIN ranges' : ranges'[i].queued = Cardinality(Held(i)')
  BY <1>2 DEF CountsMatch, SplitOff
<1>4. buffered' = Cardinality(AllHeld')
  BY <1>1 DEF CountsMatch, AllHeld, SplitOff
<1>5. QED
  BY <1>3, <1>4 DEF CountsMatch, AllHeld

\* A split makes room in the bounds for what it makes.
LEMMA SplitMemory ==
  ASSUME ControlInv, ControlInv', Shape, CountsMatch, MemoryInv,
         NEW w \in Workers, NEW r \in Ahead, SplitBusy(w, r)
  PROVE  CountsMatch' /\ MemoryInv'
<1> USE DEF ControlInv
<1>1. PICK new \in Nat : SplitOff(w, r, new)
  BY SplitsOff
<1>2. CountsMatch'
  BY <1>1, SplitMatches
<1>3. /\ TypeOK /\ TypeOK' /\ OrderIsPermutation /\ OrderIsPermutation' /\ InsideIsOpen
      /\ taking <= Len(order) /\ taking \in Nat \ {0} /\ Len(order) \in Nat
      /\ DOMAIN order = 1..Len(order) /\ Ahead \subseteq Nat \ {0}
      /\ \A p \in Ahead : taking <= p
      /\ \A p \in Ahead : p \in DOMAIN order /\ order[p] \in DOMAIN ranges
  BY TypeFacts DEF CallerInSync, TakenInOrder, Ahead
<1>4. /\ DOMAIN order' = 1..Len(order) + 1
      /\ \A q \in 1..Len(order) + 1 :
           order'[q] = IF q <= r THEN order[q] ELSE IF q = r + 1 THEN new ELSE order[q - 1]
  BY <1>1, <1>3 DEF SplitOff, InsertAfter
<1>5. Ahead' = taking..Len(order) + 1
  <2>1. Len(order') = Len(order) + 1
    BY <1>3, <1>4, TypeFacts, LenProperties DEF TypeOK
  <2>2. QED
    BY <1>1, <2>1 DEF Ahead, SplitOff
<1>6. /\ Open(r) /\ \A q \in Ahead : ~Idle(q)
  BY DEF SplitBusy, Earliest, Splittable
<1>7. /\ \A p \in Nat : p <= r => After(p)' = After(p) \cup {new}
      /\ \A p, q \in Nat : r <= q /\ p = q + 1 => After(p)' = After(q)
      /\ \A p \in Nat : After(p) \in SUBSET DOMAIN ranges
  BY <1>1, <1>3, SplitAfter, AfterFacts
<1>8. \A S \in SUBSET DOMAIN ranges :
         /\ Load(S) \in Nat /\ Allowance(S) \in Nat
         /\ Load(S)' = Load(S) /\ Allowance(S)' = Allowance(S)
         /\ Load(S \cup {new})' = Load(S) + PageSize
         /\ Allowance(S \cup {new})' = Allowance(S) + PageSize
  BY <1>1, <1>3, SplitLoads
<1>9. MaxBuffered \in Nat \ {0} /\ PageSize \in Nat
  BY ConstantsAssumption
\* Every position after it is an old one, or the half's.
<1>10. ASSUME NEW q \in Ahead'
       PROVE  /\ q \in Nat
              /\ \/ q \in Ahead /\ q <= r /\ order'[q] = order[q]
                 \/ q = r + 1 /\ order'[q] = new
                 \/ \E p \in Ahead : q = p + 1 /\ r < p /\ order'[q] = order[p]
  <2>1. q \in Nat /\ taking <= q /\ q <= Len(order) + 1 /\ r \in Nat /\ taking <= r /\ r <= Len(order)
    <3>1. q \in taking..Len(order) + 1
      BY <1>5
    <3>2. r \in taking..Len(order)
      BY DEF Ahead
    <3>3. QED
      BY <1>3, <3>1, <3>2
  <2>2. CASE q <= r
    BY <1>3, <1>4, <2>1, <2>2 DEF Ahead
  <2>3. CASE q = r + 1
    BY <1>3, <1>4, <2>1, <2>3
  <2>4. CASE q > r + 1
    <3>1. q - 1 \in Ahead /\ q = (q - 1) + 1 /\ r < q - 1
      BY <1>3, <2>1, <2>4 DEF Ahead
    <3>2. order'[q] = order[q - 1]
      BY <1>3, <1>4, <2>1, <2>4
    <3>3. QED
      BY <2>1, <3>1, <3>2
  <2>5. QED
    BY <2>1, <2>2, <2>3, <2>4
<1>11. \A i \in DOMAIN ranges : ranges'[i].done = ranges[i].done
  BY <1>1 DEF SplitOff
<1>12. OwnShare'
  <2>1. ASSUME NEW id \in DOMAIN ranges PROVE Load({id})' <= MaxBuffered - 1 + PageSize
    <3>1. PICK S \in SUBSET DOMAIN ranges : S = {id}
      OBVIOUS
    <3>2. Load(S)' <= MaxBuffered - 1 + PageSize
      BY <1>8, <3>1 DEF MemoryInv, OwnShare
    <3>3. QED
      BY <3>1, <3>2
  <2>2. Load({new})' <= MaxBuffered - 1 + PageSize
    <3>1. PICK S \in SUBSET DOMAIN ranges : S = {}
      OBVIOUS
    <3>2. Load(S) = 0
      <4>1. Queue(S) = {} /\ Listing(S) = {}
        BY <3>1 DEF Queue, Listing
      <4>2. Cardinality({}) = 0
        BY FS_EmptySet
      <4>3. QED
        BY <4>1, <4>2, InPagesCounts DEF Load
    <3>3. S \cup {new} = {new}
      BY <3>1
    <3>4. Load(S \cup {new})' = PageSize
      BY <1>8, <1>9, <3>2
    <3>5. QED
      BY <1>9, <3>3, <3>4
  <2>3. DOMAIN ranges' = DOMAIN ranges \cup {new}
    BY <1>1 DEF SplitOff
  <2>4. QED
    BY <2>1, <2>2, <2>3 DEF OwnShare
<1>13. SomeoneLeft'
  <2>1. ASSUME NEW q \in Ahead', ~ranges'[order'[q]].done
        PROVE  \E v \in Workers : ~(Inside(v)' /\ worker'[v].id \in After(q)')
    <3>1. CASE q \in Ahead /\ q <= r /\ order'[q] = order[q]
      <4>1. ~ranges[order[q]].done /\ ~Idle(q)
        BY <1>3, <1>6, <1>11, <2>1, <3>1
      <4>2. PICK v \in Workers : Inside(v) /\ worker[v].id = order[q]
        BY <1>6, <3>1, <4>1, BusyBefore
      <4>3. worker'[v] = worker[v]
        BY <1>1, <4>2 DEF Inside, SplitOff
      <4>4. After(q)' = After(q) \cup {new}
        BY <1>3, <1>7, <3>1
      <4>5. order[q] \notin After(q)
        <5>1. q \in Nat /\ q \in DOMAIN order /\ ~(q < q)
          BY <1>3, <3>1
        <5>2. QED
          BY <1>3, <5>1, AfterFacts
      <4>6. order[q] # new
        BY <1>1, <1>3, <3>1 DEF SplitOff
      <4>7. QED
        BY <4>2, <4>3, <4>4, <4>5, <4>6
    <3>2. CASE ~(q <= r)
      <4>1. PICK p \in Nat : q = p + 1 /\ r <= p
        BY <1>3, <1>10, <3>2
      <4>2. After(q)' \subseteq DOMAIN ranges
        BY <1>3, <1>7, <1>10, <4>1
      <4>3. worker'[w].id \notin After(q)'
        BY <1>1, <4>2 DEF SplitOff
      <4>4. QED
        BY <4>3
    <3>3. QED
      <4>1. ~(r + 1 <= r) /\ \A p \in Ahead : r < p => ~(p + 1 <= r)
        BY <1>3
      <4>2. QED
        BY <1>10, <3>1, <3>2, <4>1
  <2>2. QED
    BY <2>1 DEF SomeoneLeft
\* What lay beyond the split range lies beyond its half.
<1>14. ASSUME NEW q \in Ahead', ~ranges'[order'[q]].done
       PROVE  Load(After(q))' + PageSize <= 2 * MaxBuffered - 1 + Allowance(After(q))'
  <2>1. CASE q \in Ahead /\ q <= r /\ order'[q] = order[q]
    <3>1. PICK S \in SUBSET DOMAIN ranges : S = After(q)
      BY <1>7, <1>10
    <3>2. Load(S) + PageSize <= 2 * MaxBuffered - 1 + Allowance(S)
      BY <1>3, <1>11, <1>14, <2>1, <3>1 DEF MemoryInv, AfterBounded
    <3>3. After(q)' = S \cup {new}
      BY <1>7, <1>10, <2>1, <3>1
    <3>4. Load(After(q))' = Load(S) + PageSize /\ Allowance(After(q))' = Allowance(S) + PageSize
      BY <1>8, <3>3
    <3>5. Load(S) \in Nat /\ Allowance(S) \in Nat
      BY <1>8
    <3>6. QED
      BY <1>9, <3>2, <3>4, <3>5
  <2>2. ASSUME NEW p \in Ahead, q = p + 1, r <= p, ~ranges[order[p]].done
        PROVE  Load(After(q))' + PageSize <= 2 * MaxBuffered - 1 + Allowance(After(q))'
    <3>1. PICK S \in SUBSET DOMAIN ranges : S = After(p)
      BY <1>3, <1>7
    <3>2. Load(S) + PageSize <= 2 * MaxBuffered - 1 + Allowance(S)
      BY <2>2, <3>1 DEF MemoryInv, AfterBounded
    <3>3. After(q)' = S
      BY <1>3, <1>7, <1>10, <2>2, <3>1
    <3>4. Load(After(q))' = Load(S) /\ Allowance(After(q))' = Allowance(S)
      BY <1>8, <3>3
    <3>5. QED
      BY <3>2, <3>4
  <2>3. CASE q = r + 1 /\ order'[q] = new
    <3>1. ~ranges[order[r]].done /\ r <= r
      BY <1>3, <1>6 DEF Open
    <3>2. QED
      BY <2>2, <2>3, <3>1
  <2>4. CASE \E p \in Ahead : q = p + 1 /\ r < p /\ order'[q] = order[p]
    <3>1. PICK p \in Ahead : q = p + 1 /\ r < p /\ order'[q] = order[p]
      BY <2>4
    <3>2. ~ranges[order[p]].done /\ r <= p
      BY <1>3, <1>11, <1>14, <3>1
    <3>3. QED
      BY <2>2, <3>1, <3>2
  <2>5. QED
    BY <1>10, <2>1, <2>3, <2>4
<1>15. ASSUME NEW q \in Ahead'
       PROVE  Load(After(q - 1))' <= 3 * MaxBuffered - 2 + Allowance(After(q))'
  <2>1. CASE q \in Ahead /\ q <= r /\ order'[q] = order[q]
    <3>1. PICK u \in Nat : u = q - 1 /\ u <= r
      <4>1. q \in Nat \ {0} /\ r \in Nat /\ q <= r
        BY <1>3, <2>1
      <4>3. q - 1 \in Nat /\ q - 1 <= r
        BY <4>1
      <4>2. QED
        BY <4>3
    <3>2. PICK S \in SUBSET DOMAIN ranges, T \in SUBSET DOMAIN ranges : S = After(u) /\ T = After(q)
      BY <1>7, <1>10, <3>1
    <3>3. Load(S) <= 3 * MaxBuffered - 2 + Allowance(T)
      BY <2>1, <3>1, <3>2 DEF MemoryInv, FromBounded
    <3>4. After(u)' = S \cup {new} /\ After(q)' = T \cup {new}
      BY <1>7, <1>10, <2>1, <3>1, <3>2
    <3>5. Load(After(u))' = Load(S) + PageSize /\ Allowance(After(q))' = Allowance(T) + PageSize
      BY <1>8, <3>4
    <3>6. Load(S) \in Nat /\ Allowance(T) \in Nat
      BY <1>8
    <3>7. QED
      BY <1>9, <3>1, <3>3, <3>5, <3>6
  <2>2. CASE q = r + 1 /\ order'[q] = new
    <3>1. PICK S \in SUBSET DOMAIN ranges : S = After(r)
      BY <1>3, <1>7
    <3>2. Load(S) + PageSize <= 2 * MaxBuffered - 1 + Allowance(S)
      BY <1>6, <3>1 DEF MemoryInv, AfterBounded, Open
    <3>3. After(r)' = S \cup {new} /\ After(q)' = S
      BY <1>3, <1>7, <1>10, <2>2, <3>1
    <3>4. Load(After(r))' = Load(S) + PageSize /\ Allowance(After(q))' = Allowance(S)
      BY <1>8, <3>3
    <3>5. Load(S) \in Nat /\ Allowance(S) \in Nat /\ q - 1 = r
      <4>1. r \in Nat /\ q = r + 1
        BY <1>3, <2>2
      <4>2. q - 1 = r
        BY <4>1
      <4>3. QED
        BY <1>8, <4>2
    <3>6. QED
      BY <1>9, <3>2, <3>4, <3>5
  <2>3. CASE \E p \in Ahead : q = p + 1 /\ r < p /\ order'[q] = order[p]
    <3>1. PICK p \in Ahead : q = p + 1 /\ r < p
      BY <2>3
    <3>2. PICK u \in Nat : u = p - 1 /\ p = u + 1 /\ r <= u
      <4>1. p - 1 \in Nat /\ p = (p - 1) + 1 /\ r <= p - 1
        BY <1>3, <3>1
      <4>2. QED
        BY <4>1
    <3>3. PICK S \in SUBSET DOMAIN ranges, T \in SUBSET DOMAIN ranges : S = After(u) /\ T = After(p)
      BY <1>3, <1>7, <3>2
    <3>4. Load(S) <= 3 * MaxBuffered - 2 + Allowance(T)
      BY <3>1, <3>2, <3>3 DEF MemoryInv, FromBounded
    <3>5. After(p)' = S /\ After(q)' = T /\ q - 1 = p
      BY <1>3, <1>7, <1>10, <3>1, <3>2, <3>3
    <3>6. Load(After(p))' = Load(S) /\ Allowance(After(q))' = Allowance(T)
      BY <1>8, <3>5
    <3>7. QED
      BY <3>4, <3>5, <3>6
  <2>4. QED
    BY <1>10, <2>1, <2>2, <2>3
<1>16. MemoryInv'
  BY <1>12, <1>13, <1>14, <1>15 DEF MemoryInv, AfterBounded, FromBounded
<1>17. QED
  BY <1>2, <1>16

\* Nothing is queued and nothing asked for.
LEMMA InitMemory == Init => CountsMatch /\ MemoryInv
<1> SUFFICES ASSUME Init PROVE CountsMatch /\ MemoryInv
  OBVIOUS
<1>1. /\ TypeOK /\ OrderIsPermutation /\ ~Workers = {}
  BY InitControl, ConstantsAssumption DEF ControlInv
<1>2. \A id \in DOMAIN ranges : Held(id) = {} /\ ranges[id].queued = 0
  BY DEF Init, Held, NewLive
<1>3. \A w \in Workers : worker[w].pc = "idle"
  BY DEF Init
<1>4. CountsMatch
  <2>1. Cardinality({}) = 0
    BY FS_EmptySet
  <2>2. AllHeld = {} /\ buffered = 0
    <3>1. AllHeld = {}
      BY <1>2 DEF AllHeld
    <3>2. QED
      BY <3>1 DEF Init
  <2>3. QED
    BY <1>2, <2>1, <2>2 DEF CountsMatch, AllHeld
<1>5. \A S \in SUBSET DOMAIN ranges : Load(S) = 0 /\ Allowance(S) \in Nat /\ PageSize <= Allowance(S)
  <2>1. ASSUME NEW S \in SUBSET DOMAIN ranges
        PROVE  Load(S) = 0 /\ Allowance(S) \in Nat /\ PageSize <= Allowance(S)
    <3>1. Queue(S) = {} /\ Listing(S) = {} /\ Cardinality({}) = 0
      BY <1>2, <1>3, FS_EmptySet DEF Queue, Listing
    <3>2. Load(S) = 0
      BY <3>1, InPagesCounts DEF Load
    <3>3. Allowance(S) \in Nat /\ InPages(Cardinality(Workers)) <= Allowance(S)
      BY <1>1, LoadTyped
    <3>4. 1 <= Cardinality(Workers) /\ Cardinality(Workers) \in Nat
      <4>1. PICK w \in Workers : TRUE
        BY <1>1
      <4>2. Cardinality({}) + 1 <= Cardinality(Workers)
        BY <4>1, WorkersCounted
      <4>3. QED
        BY <3>1, <4>2, WorkersCounted
    <3>5. PageSize <= InPages(Cardinality(Workers)) /\ InPages(Cardinality(Workers)) \in Nat
          /\ PageSize \in Nat
      <4>1. InPages(1) <= InPages(Cardinality(Workers))
        BY <3>4, InPagesCounts
      <4>2. QED
        BY <3>4, <4>1, InPagesCounts
    <3>6. QED
      BY <3>2, <3>3, <3>5
  <2>2. QED
    BY <2>1
<1>6. MaxBuffered \in Nat \ {0} /\ PageSize \in Nat
  BY ConstantsAssumption
<1>7. OwnShare
  <2>1. ASSUME NEW id \in DOMAIN ranges PROVE Load({id}) <= MaxBuffered - 1 + PageSize
    <3>1. Load({id}) = 0
      BY <1>5
    <3>2. QED
      BY <1>6, <3>1
  <2>2. QED
    BY <2>1 DEF OwnShare
<1>8. SomeoneLeft
  BY <1>1, <1>3 DEF SomeoneLeft, Inside
<1>9. /\ Ahead \subseteq Nat \ {0}
      /\ \A p \in Nat : After(p) \in SUBSET DOMAIN ranges
  BY <1>1, TypeFacts, AfterFacts DEF Ahead
<1>10. AfterBounded
  <2>1. ASSUME NEW p \in Ahead
        PROVE  Load(After(p)) + PageSize <= 2 * MaxBuffered - 1 + Allowance(After(p))
    <3>1. /\ Load(After(p)) = 0 /\ Allowance(After(p)) \in Nat
          /\ PageSize <= Allowance(After(p))
      BY <1>5, <1>9
    <3>2. QED
      BY <1>6, <3>1
  <2>2. QED
    BY <2>1 DEF AfterBounded
<1>11. FromBounded
  <2>1. ASSUME NEW p \in Ahead
        PROVE  Load(After(p - 1)) <= 3 * MaxBuffered - 2 + Allowance(After(p))
    <3>1. p - 1 \in Nat /\ p \in Nat
      BY <1>9
    <3>2. Load(After(p - 1)) = 0 /\ Allowance(After(p)) \in Nat
      BY <1>5, <1>9, <3>1
    <3>3. QED
      BY <1>6, <3>2
  <2>2. QED
    BY <2>1 DEF FromBounded
<1>12. QED
  BY <1>4, <1>7, <1>8, <1>10, <1>11 DEF MemoryInv

\* Every step keeps the counters and the loads.
LEMMA NextMemory ==
  ControlInv /\ ControlInv' /\ PromiseInv /\ PromiseInv' /\ CountsMatch /\ MemoryInv /\ [Next]_vars
    => CountsMatch' /\ MemoryInv'
<1> SUFFICES ASSUME ControlInv, ControlInv', PromiseInv, PromiseInv', CountsMatch, MemoryInv,
                    [Next]_vars
             PROVE  CountsMatch' /\ MemoryInv'
  OBVIOUS
<1>1. Shape
  BY DEF PromiseInv
<1>2. ASSUME NEW w \in Workers, WorkerStep(w) \/ RequestFails(w)
      PROVE  CountsMatch' /\ MemoryInv'
  <2>1. ASSUME NEW r \in Ahead, ClaimIdle(w, r) PROVE CountsMatch' /\ MemoryInv'
    BY <2>1, ClaimIdleMemory
  <2>2. ASSUME NEW r \in Ahead, SplitBusy(w, r) PROVE CountsMatch' /\ MemoryInv'
    BY <1>1, <2>2, SplitMemory
  <2>3. CASE HandOver(w)
    BY <1>1, <2>3, HandOverMemory
  <2>4. CASE Exit(w) \/ PageAfterStop(w) \/ RequestFails(w) \/ Leave(w)
    BY <2>4, WorkerMemory
  <2>5. QED
    BY <1>2, <2>1, <2>2, <2>3, <2>4 DEF WorkerStep, Claim
<1>3. CASE CallerStep \/ SinkFails \/ Cancel \/ Finished \/ UNCHANGED vars
  BY <1>1, <1>3, CallerMemory DEF Finished
<1>4. QED
  BY <1>2, <1>3 DEF Next

\* All that is queued lies in the range being taken or beyond it.
LEMMA MemoryIsBounded == ControlInv /\ CountsMatch /\ MemoryInv => MemoryBounded
<1> SUFFICES ASSUME ControlInv, CountsMatch, MemoryInv PROVE MemoryBounded
  OBVIOUS
<1> USE DEF ControlInv
<1>1. /\ TypeOK /\ OrderIsPermutation /\ taking \in Nat \ {0} /\ taking <= Len(order)
      /\ Len(order) \in Nat /\ DOMAIN order = 1..Len(order) /\ taking \in Ahead
  BY TypeFacts DEF CallerInSync, TakenInOrder, Ahead
<1>2. PICK q \in Nat : q = taking - 1
  <2>1. taking - 1 \in Nat
    BY <1>1
  <2>2. QED
    BY <2>1
<1>3. PICK S \in SUBSET DOMAIN ranges, T \in SUBSET DOMAIN ranges : S = After(q) /\ T = After(taking)
  BY <1>1, AfterFacts
<1>4. Load(S) <= 3 * MaxBuffered - 2 + Allowance(T)
  BY <1>1, <1>2, <1>3 DEF MemoryInv, FromBounded
<1>5. AllHeld \subseteq Queue(S)
  <2>1. ASSUME NEW id \in DOMAIN ranges, NEW k \in Held(id) PROVE id \in S
    <3>1. PICK p \in DOMAIN order : order[p] = id
      BY DEF OrderIsPermutation
    <3>2. ~(p \in 1..taking - 1)
      <4>1. ranges[id].pages # <<>>
        BY <2>1 DEF Held
      <4>2. QED
        BY <3>1, <4>1 DEF CallerInSync, TakenInOrder, Gone
    <3>3. q < p
      BY <1>1, <1>2, <3>1, <3>2
    <3>4. QED
      BY <1>1, <1>3, <3>1, <3>3, AfterFacts
  <2>2. QED
    BY <2>1 DEF AllHeld, Queue
<1>6. /\ Cardinality(AllHeld) \in Nat /\ Cardinality(AllHeld) <= Cardinality(Queue(S))
      /\ Cardinality(Queue(S)) \in Nat /\ Cardinality(Listing(S)) \in Nat
      /\ Allowance(T) \in Nat /\ Load(S) \in Nat
  BY <1>1, <1>5, LoadTyped, HeldCounted, KeysCounted
<1>7. InPages(Cardinality(Listing(S))) \in Nat
  BY <1>6, InPagesCounts
<1>8. Cardinality(AllHeld) <= 3 * MaxBuffered - 2 + Allowance(T)
  BY <1>4, <1>6, <1>7, ConstantsAssumption DEF Load
<1>9. QED
  BY <1>3, <1>8 DEF MemoryBounded, CountsMatch, AllHeld, Allowance, InPages

\* The counters the pauses are decided by are exact, through every hand-over,
\* split, page taken and error, and with them the loads stay in their bounds.
THEOREM MemoryHolds == Spec => [](CountsMatch /\ MemoryInv)
  BY InitMemory, NextMemory, ControlHolds, PromiseInvHolds, PTL DEF Spec

\* Wherever the ranges and their queues stand, they tile the plan, hold only
\* what is theirs, are counted exactly, and come to no more than the cap the
\* range being taken has, twice that for the others, and a page for each worker
\* and for each half ahead.
THEOREM RangesSoundHolds == Spec => []RangesSound
<1>1. ControlInv /\ CountsMatch /\ MemoryInv /\ HalvesMeet /\ QueuedIsOwn => RangesSound
  BY MemoryIsBounded DEF RangesSound
<1>2. QED
  BY <1>1, ControlHolds, HalvesHold, MemoryHolds, PTL
==============================================================================
