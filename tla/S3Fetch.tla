------------------------------ MODULE S3Fetch ------------------------------
(***************************************************************************)
(* The parallel listing of crates/cli/src/s3/listing.rs, from the work     *)
(* discovery planned to the end of the thread scope: `fetch`, the worker   *)
(* loop `work` with `claim` and `list_range`, and the caller's `take` with *)
(* `next_page`.  An action is one critical section of the mutex `state`,   *)
(* or what a thread does between two of them.  Every wait in the code has  *)
(* a 100 ms timeout, so the condition variables only make it faster: a     *)
(* waiting thread is one whose next action is not enabled yet.             *)
(*                                                                         *)
(* A key is its position in key order, a folder the position its first key *)
(* can have, a prefix the interval of positions under it.  A page is a set *)
(* of keys.  Keys outside Stable are created and deleted during the listing:  *)
(* each response may hold them or not.                                     *)
(***************************************************************************)
EXTENDS Integers, Sequences, FiniteSets, FiniteSetsExt

CONSTANTS
  Workers,        \* Plan::workers threads
  MaxKey,         \* positions are 1..MaxKey
  Key,            \* the keys that may exist at some time
  Stable,         \* those that exist for the whole listing
  Steps,          \* plan_work's steps: a run of objects, or NextRange
  Planned,        \* plan_work's ranges, one for each NextRange in Steps
  PageSize,       \* the most keys the server puts in a page
  PageHint,       \* Client::page_hint, what a page is expected to hold
  MaxBuffered,    \* Plan::max_buffered
  MaxEmptyPages,  \* MAX_EMPTY_PAGES
  MayFail,        \* whether requests and the sink may fail, and empty pages
                  \* may promise more
  MayCancel       \* whether the user may cancel

Position == 1..MaxKey
NoKey  == 0             \* None of an Option<String> that bounds from below
NoEnd  == MaxKey + 1    \* None of `until`

VARIABLES
  ranges,     \* State::ranges: Live records, by id
  order,      \* State::order: ids in the order the caller takes them
  taking,     \* State::taking
  buffered,   \* State::buffered
  failure,    \* State::failure is Some
  stop,       \* State::stop
  cancelled,  \* ScanProgress::is_cancelled
  worker,     \* each worker thread: where it is in `work` and `list_range`
  caller,     \* the calling thread: where it is in `take`
  delivered,  \* the pages handed to the sink
  result      \* what `fetch` returned

shared == <<ranges, order, taking, buffered, failure, stop>>
vars == <<shared, cancelled, worker, caller, delivered, result>>

(***************************************************************************)
(* The plan.                                                               *)
(***************************************************************************)
NextRange == {}

ListRange == [prefix : [first : Position, last : Position], start_after : Nat,
              from : Nat, until : 1..NoEnd, folders : Seq(Position)]

\* Range::start: the first position a range can hand over.
Start(range) == IF range.from # NoKey THEN range.from ELSE range.prefix.first

\* seek: just before the folder's name.  Position f - 1 is a name between
\* "folder" and "folder/", such as "folder-2", which the request returns and
\* `from` keeps out.
Seek(folder) == IF folder > 2 THEN folder - 2 ELSE 0

\* A run lists only its folders, in order, up to where the next step begins;
\* the rest of a folder has no folders of its own.
WellFormed(range) ==
  /\ Start(range) < range.until
  /\ \A i \in DOMAIN range.folders :
       /\ range.from <= range.folders[i]
       /\ range.folders[i] < range.until
  /\ \A i, j \in DOMAIN range.folders :
       i < j => range.folders[i] < range.folders[j]
  /\ range.folders # <<>> =>
       range.from = range.folders[1] /\ range.start_after < range.from

\* The keys a range lists, however it is split.
InRange(range) ==
  {k \in Key : /\ range.prefix.first <= k /\ k <= range.prefix.last
               /\ range.start_after < k
               /\ range.from <= k /\ k < range.until}

\* Which step each planned range is taken at.
InStep(at) ==
  /\ at \in [DOMAIN Planned -> {s \in DOMAIN Steps : Steps[s] = NextRange}]
  /\ \A s \in DOMAIN Steps :
       Steps[s] = NextRange => \E i \in DOMAIN Planned : at[i] = s
  /\ \A i, j \in DOMAIN Planned : i < j => at[i] < at[j]

ASSUME ConstantsAssumption ==
  /\ MaxKey \in Nat \ {0}
  /\ Key \subseteq Position
  /\ Stable \subseteq Key
  /\ IsFiniteSet(Workers)
  /\ Workers # {}
  /\ PageSize \in Nat \ {0}
  /\ PageHint \in Nat
  /\ MaxBuffered \in Nat \ {0}
  /\ MaxEmptyPages \in Nat
  /\ MayFail \in BOOLEAN
  /\ MayCancel \in BOOLEAN

\* What `discover` and `plan_work` leave `fetch`; without a range, or with a
\* single one of one folder, it lists inline.
ASSUME PlanAssumption ==
  /\ Steps \in Seq(SUBSET Key)
  /\ Planned \in Seq(ListRange)
  /\ Planned # <<>>
  /\ \E at \in [DOMAIN Planned -> DOMAIN Steps] : InStep(at)
  /\ \A i \in DOMAIN Planned : WellFormed(Planned[i])
  /\ \A i, j \in DOMAIN Planned :
       i < j => Planned[i].until <= Start(Planned[j])

\* Step for step and range for range, what the plan lists is in key order, and
\* every key that stays is in it (module S3Discovery, PlanListsAll).
ListsAllInOrder ==
  /\ \A s, t \in DOMAIN Steps :
       s < t => \A k \in Steps[s], l \in Steps[t] : k < l
  /\ \A at \in [DOMAIN Planned -> DOMAIN Steps] : InStep(at) =>
       \A i \in DOMAIN Planned, s \in DOMAIN Steps :
         \A k \in Steps[s], l \in InRange(Planned[i]) :
           (s < at[i] => k < l) /\ (at[i] < s => l < k)
  /\ \A k \in Stable :
       \/ \E s \in DOMAIN Steps : k \in Steps[s]
       \/ \E i \in DOMAIN Planned : k \in InRange(Planned[i])

ASSUME CoverAssumption == ListsAllInOrder

NewLive(range, planned, busy) ==
  [range |-> range, emitted |-> NoKey, handed |-> 0, pages |-> <<>>,
   queued |-> 0, planned |-> planned, busy |-> busy, done |-> FALSE]

(***************************************************************************)
(* State::room and State::has_room, over the ranges rs.                    *)
(***************************************************************************)
\* What is queued from the range being taken up to the one at position p.
QueuedUpTo(rs, p) ==
  LET upTo[q \in taking..Len(order)] ==
        rs[order[q]].queued + IF q = taking THEN 0 ELSE upTo[q - 1]
  IN  upTo[p]

\* Mutant: the total cap also holds back the range being taken.
RoomCapsTaken(rs, buf, p) ==
  QueuedUpTo(rs, p) < MaxBuffered /\ buf < 2 * MaxBuffered

Room(rs, buf, p) ==
  IF p = taking
  THEN rs[order[p]].queued < MaxBuffered
  ELSE QueuedUpTo(rs, p) < MaxBuffered /\ buf < 2 * MaxBuffered

HasRoom(rs, buf, id) ==
  \E p \in taking..Len(order) : order[p] = id /\ Room(rs, buf, p)

(***************************************************************************)
(* Where a range may be split.                                             *)
(***************************************************************************)
\* The last folder at or before the key handed over last.
CurrentFolder(live) ==
  Max({1} \cup {i \in DOMAIN live.range.folders :
                  live.range.folders[i] <= live.emitted})

\* The number of folders before the range's end.
FolderEnd(live) ==
  Max({0} \cup {i \in DOMAIN live.range.folders :
                  live.range.folders[i] < live.range.until})

\* rate_of is Some.
HasRate(live) == live.emitted # NoKey /\ live.range.folders # <<>>

Rated == {i \in DOMAIN ranges : HasRate(ranges[i])}
HandedEverywhere  == MapThenSumSet(LAMBDA i : ranges[i].handed, Rated)
ReachedEverywhere == MapThenSumSet(LAMBDA i : CurrentFolder(ranges[i]), Rated)

HasUnreached(live) == FolderEnd(live) > CurrentFolder(live)

\* Mutant: the current folder counts as unreached.
SplitAtCurrent(live) ==
  CurrentFolder(live) + (FolderEnd(live) - CurrentFolder(live)) \div 2

SplitAt(live) ==
  LET unreached == FolderEnd(live) - CurrentFolder(live)
  IN  CurrentFolder(live) + 1 + unreached \div 2

\* How many keys the second half is likely to hold is worth two pages; with
\* nothing handed over anywhere to judge by, it is split blindly.
WorthIt(live) ==
  LET folders == FolderEnd(live) - SplitAt(live) + 1
  IN  CASE HasRate(live) ->
             (live.handed * folders) \div CurrentFolder(live) >= 2 * PageHint
        [] ~HasRate(live) /\ Rated # {} ->
             (HandedEverywhere * folders) \div Max({1, ReachedEverywhere})
               >= 2 * PageHint
        [] OTHER -> TRUE

(***************************************************************************)
(* The server: up to PageSize keys after `after` under `prefix`, and       *)
(* whether there are more.  No stable key is skipped.                      *)
(***************************************************************************)
Responses(prefix, after) ==
  LET candidates == {k \in Key : after < k /\ prefix.first <= k /\ k <= prefix.last}
  IN  {r \in [keys : {S \in SUBSET candidates : Cardinality(S) <= PageSize},
              truncated : BOOLEAN] :
         /\ \A k \in Stable \cap candidates :
              k \in r.keys \/ (r.truncated /\ \A s \in r.keys : s < k)
         /\ r.keys = {} /\ r.truncated => MayFail}

-----------------------------------------------------------------------------
Init ==
  /\ ranges = [i \in DOMAIN Planned |-> NewLive(Planned[i], TRUE, FALSE)]
  /\ order = [i \in DOMAIN Planned |-> i]
  /\ taking = 1
  /\ buffered = 0
  /\ failure = FALSE
  /\ stop = FALSE
  /\ cancelled = FALSE
  /\ worker = [w \in Workers |-> [pc |-> "idle", id |-> 0, after |-> NoKey,
                                  empty |-> 0, left |-> "done"]]
  /\ caller = [pc |-> "step", step |-> 1, position |-> 1, failed |-> FALSE]
  /\ delivered = <<>>
  /\ result = "running"

(***************************************************************************)
(* Workers.                                                                *)
(***************************************************************************)
AllDone == \A id \in DOMAIN ranges : ranges[id].done

\* Positions `claim` may look at.
Open(p) == ~ranges[order[p]].done /\ Room(ranges, buffered, p)

Idle(p) == Open(p) /\ ~ranges[order[p]].busy
Splittable(p) ==
  /\ Open(p)
  /\ ranges[order[p]].busy
  /\ HasUnreached(ranges[order[p]])
  /\ WorthIt(ranges[order[p]])

Ahead == taking..Len(order)

Earliest(p, S) == p \in S /\ \A q \in S : p <= q

Lists(w, id, range) ==
  worker' = [worker EXCEPT ![w] = [pc |-> "listing", id |-> id,
               after |-> range.start_after, empty |-> 0, left |-> "done"]]

MayClaim(w) == worker[w].pc = "idle" /\ ~stop /\ ~AllDone

\* The earliest range nobody is listing.
ClaimIdle(w, p) ==
  /\ MayClaim(w)
  /\ Earliest(p, {q \in Ahead : Idle(q)})
  /\ ranges' = [ranges EXCEPT ![order[p]].busy = TRUE]
  /\ Lists(w, order[p], ranges[order[p]].range)
  /\ UNCHANGED <<order, taking, buffered, failure, stop, cancelled, caller,
                 delivered, result>>

\* Mutant: the half goes before the range it was split off.
InsertBefore(p, id) == SubSeq(order, 1, p - 1) \o <<id>> \o SubSeq(order, p, Len(order))

InsertAfter(p, id) ==
  [q \in 1..Len(order) + 1 |->
     IF q <= p THEN order[q] ELSE IF q = p + 1 THEN id ELSE order[q - 1]]

\* Else the second half of the folders the earliest busy range has not reached.
SplitBusy(w, p) ==
  /\ MayClaim(w)
  /\ ~\E q \in Ahead : Idle(q)
  /\ Earliest(p, {q \in Ahead : Splittable(q)})
  /\ LET old    == ranges[order[p]]
         folder == old.range.folders[SplitAt(old)]
         half   == [old.range EXCEPT
                      !.start_after = Seek(folder),
                      !.from = folder,
                      !.folders = SubSeq(@, SplitAt(old), FolderEnd(old))]
         id     == Len(ranges) + 1
     IN  /\ ranges' = Append([ranges EXCEPT ![order[p]].range.until = folder],
                             NewLive(half, FALSE, TRUE))
         /\ order' = InsertAfter(p, id)
         /\ Lists(w, id, half)
  /\ UNCHANGED <<taking, buffered, failure, stop, cancelled, caller,
                 delivered, result>>

\* Nothing is left to list, the listing stopped, or a waiter sees the cancel.
Exit(w) ==
  /\ worker[w].pc = "idle"
  /\ stop \/ AllDone \/ cancelled
  /\ worker' = [worker EXCEPT ![w].pc = "returned"]
  /\ UNCHANGED <<shared, cancelled, caller, delivered, result>>

Leaves(w, left) ==
  worker' = [worker EXCEPT ![w].pc = "leaving", ![w].left = left,
                           ![w].after = NoKey, ![w].empty = 0]

\* A page arrives after the listing stopped: `list_range` ends as if done.
PageAfterStop(w) ==
  /\ worker[w].pc = "listing"
  /\ stop
  /\ Leaves(w, "done")
  /\ UNCHANGED <<shared, cancelled, caller, delivered, result>>

Kept(range, keys) == {k \in keys : range.from <= k /\ k < range.until}

\* Where the stream goes after a page of `keys`, given whether the range ended
\* in it and whether it has room for another.
Continue(w, r, reachedEnd, room) ==
  LET empty == IF r.keys = {} THEN worker[w].empty + 1 ELSE 0
  IN  CASE reachedEnd -> Leaves(w, "done")
        [] ~reachedEnd /\ ~room -> Leaves(w, "paused")
        [] ~reachedEnd /\ room /\ ~r.truncated -> Leaves(w, "done")
        [] OTHER ->
             IF empty > MaxEmptyPages
             THEN Leaves(w, "error")
             ELSE worker' = [worker EXCEPT
                    ![w].after = IF r.keys = {} THEN @ ELSE Max(r.keys),
                    ![w].empty = empty]

\* A page arrives: what belongs to the range, as it is now, is queued.
HandOver(w) ==
  /\ worker[w].pc = "listing"
  /\ ~stop
  /\ LET id   == worker[w].id
         live == ranges[id]
     IN  \E r \in Responses(live.range.prefix, worker[w].after) :
           LET kept == Kept(live.range, r.keys)
               reachedEnd == \E k \in r.keys : k >= live.range.until
               resume == IF reachedEnd \/ r.keys = {}
                         THEN live.range.start_after ELSE Max(r.keys)
               next == [live EXCEPT
                          !.range.start_after = resume,
                          !.emitted = IF kept = {} THEN @ ELSE Max(kept),
                          !.handed = @ + Cardinality(kept),
                          !.queued = @ + Cardinality(kept),
                          !.pages = IF kept = {} THEN @ ELSE Append(@, kept)]
           IN  /\ ranges' = [ranges EXCEPT ![id] = next]
               /\ buffered' = buffered + Cardinality(kept)
               /\ Continue(w, r, reachedEnd, HasRoom(ranges', buffered', id))
  /\ UNCHANGED <<order, taking, failure, stop, cancelled, caller, delivered,
                 result>>

\* A request fails for good, or notices the cancel.
RequestFails(w) ==
  /\ worker[w].pc = "listing"
  /\ MayFail \/ cancelled
  /\ Leaves(w, "error")
  /\ UNCHANGED <<shared, cancelled, caller, delivered, result>>

\* Back in `work`, under the lock again.
Leave(w) ==
  /\ worker[w].pc = "leaving"
  /\ LET id == worker[w].id
     IN  ranges' = [ranges EXCEPT ![id].busy = FALSE,
                                  ![id].done = @ \/ worker[w].left = "done"]
  /\ failure' = (failure \/ worker[w].left = "error")
  /\ stop' = (stop \/ worker[w].left = "error")
  /\ worker' = [worker EXCEPT ![w].pc = "idle", ![w].id = 0, ![w].left = "done"]
  /\ UNCHANGED <<order, taking, buffered, cancelled, caller, delivered, result>>

(***************************************************************************)
(* The caller.                                                             *)
(***************************************************************************)
AtRange   == caller.pc = "step" /\ caller.step <= Len(Steps)
               /\ Steps[caller.step] = NextRange
AtObjects == caller.pc = "step" /\ caller.step <= Len(Steps)
               /\ Steps[caller.step] # NextRange

SinkObjects ==
  /\ AtObjects
  /\ delivered' = Append(delivered, Steps[caller.step])
  /\ caller' = [caller EXCEPT !.step = @ + 1]
  /\ UNCHANGED <<shared, cancelled, worker, result>>

StartTaking ==
  /\ AtRange \/ caller.pc = "half"
  /\ taking' = caller.position
  /\ caller' = [caller EXCEPT !.pc = "page"]
  /\ UNCHANGED <<ranges, order, buffered, failure, stop, cancelled, worker,
                 delivered, result>>

Taken == ranges[order[caller.position]]

Popped == [ranges EXCEPT ![order[caller.position]].pages = Tail(@),
                         ![order[caller.position]].queued =
                            @ - Cardinality(Head(Taken.pages))]

CanTakePage ==
  /\ caller.pc = "page"
  /\ ~failure
  /\ ~cancelled
  /\ Taken.pages # <<>>

TakePage ==
  /\ CanTakePage
  /\ ranges' = Popped
  /\ buffered' = buffered - Cardinality(Head(Taken.pages))
  /\ delivered' = Append(delivered, Head(Taken.pages))
  /\ UNCHANGED <<order, taking, failure, stop, cancelled, worker, caller,
                 result>>

\* The range is done and drained; what comes next in `order` is a half split
\* off it, or the plan's next step.
Drained ==
  /\ caller.pc = "page"
  /\ ~failure
  /\ ~cancelled
  /\ Taken.pages = <<>>
  /\ Taken.done
  /\ caller' = [caller EXCEPT !.pc = "next", !.position = @ + 1]
  /\ UNCHANGED <<shared, cancelled, worker, delivered, result>>

Advance ==
  /\ caller.pc = "next"
  /\ caller' = IF /\ caller.position <= Len(order)
                  /\ ~ranges[order[caller.position]].planned
               THEN [caller EXCEPT !.pc = "half"]
               ELSE [caller EXCEPT !.pc = "step", !.step = @ + 1]
  /\ UNCHANGED <<shared, cancelled, worker, delivered, result>>

\* Mutant: the error does not end up in what `take` returns.
Swallows == caller' = [caller EXCEPT !.pc = "stopping"]

Fails == caller' = [caller EXCEPT !.pc = "stopping", !.failed = TRUE]

\* next_page returns the workers' failure, or notices the cancel.
TakeFailure ==
  /\ caller.pc = "page"
  /\ failure \/ cancelled
  /\ failure' = FALSE
  /\ Fails
  /\ UNCHANGED <<ranges, order, taking, buffered, stop, cancelled, worker,
                 delivered, result>>

\* The sink refuses a page, which is gone from the queue.
SinkFails ==
  /\ MayFail
  /\ \/ AtObjects /\ UNCHANGED <<ranges, buffered>>
     \/ /\ CanTakePage
        /\ ranges' = Popped
        /\ buffered' = buffered - Cardinality(Head(Taken.pages))
  /\ Fails
  /\ UNCHANGED <<order, taking, failure, stop, cancelled, worker, delivered,
                 result>>

\* `take` returned: no worker claims anything more.
Stop ==
  /\ caller.pc = "stopping" \/ (caller.pc = "step" /\ caller.step > Len(Steps))
  /\ stop' = TRUE
  /\ caller' = [caller EXCEPT !.pc = "joining"]
  /\ UNCHANGED <<ranges, order, taking, buffered, failure, cancelled, worker,
                 delivered, result>>

\* The thread scope ends once every worker returned.
Join ==
  /\ caller.pc = "joining"
  /\ \A w \in Workers : worker[w].pc = "returned"
  /\ result' = IF caller.failed THEN "failed" ELSE "ok"
  /\ caller' = [caller EXCEPT !.pc = "returned"]
  /\ UNCHANGED <<shared, cancelled, worker, delivered>>

Cancel ==
  /\ MayCancel
  /\ ~cancelled
  /\ result = "running"
  /\ cancelled' = TRUE
  /\ UNCHANGED <<shared, worker, caller, delivered, result>>

Finished == caller.pc = "returned" /\ UNCHANGED vars

-----------------------------------------------------------------------------
Claim(w) == \E p \in Ahead : ClaimIdle(w, p) \/ SplitBusy(w, p)

WorkerStep(w) ==
  Claim(w) \/ Exit(w) \/ PageAfterStop(w) \/ HandOver(w) \/ Leave(w)

CallerStep ==
  \/ SinkObjects \/ StartTaking \/ TakePage \/ Drained \/ Advance
  \/ TakeFailure \/ Stop \/ Join

Next ==
  \/ \E w \in Workers : WorkerStep(w) \/ RequestFails(w)
  \/ CallerStep
  \/ SinkFails
  \/ Cancel
  \/ Finished

\* Every thread keeps running and every request ends, with a page or an error.
Fairness == WF_vars(CallerStep) /\ \A w \in Workers : WF_vars(WorkerStep(w))

Spec == Init /\ [][Next]_vars /\ Fairness
-----------------------------------------------------------------------------
(***************************************************************************)
(* Properties.                                                             *)
(***************************************************************************)
Live == [range : ListRange, emitted : Nat, handed : Nat,
         pages : Seq(SUBSET Key), queued : Int,
         planned : BOOLEAN, busy : BOOLEAN, done : BOOLEAN]

\* The type invariant.
TypeOK ==
  /\ ranges \in Seq(Live)
  /\ order \in Seq(DOMAIN ranges)
  /\ Len(order) = Len(ranges)
  /\ taking \in Nat \ {0}
  /\ buffered \in Int
  /\ failure \in BOOLEAN
  /\ stop \in BOOLEAN
  /\ cancelled \in BOOLEAN
  /\ worker \in [Workers -> [pc : {"idle", "listing", "leaving", "returned"},
                             id : Nat, after : Nat, empty : Nat,
                             left : {"done", "paused", "error"}]]
  /\ caller \in [pc : {"step", "page", "next", "half", "stopping", "joining",
                       "returned"},
                 step : Nat \ {0}, position : Nat \ {0}, failed : BOOLEAN]
  /\ delivered \in Seq(SUBSET Key)
  /\ result \in {"running", "ok", "failed"}

\* "A split leaves neither a gap nor an overlap": in the order the caller takes
\* them, a half begins exactly where the range before it now ends, and no range
\* reaches into the next one.
HalvesMeet ==
  \A p \in 1..Len(order) - 1 :
    LET here == ranges[order[p]].range
        next == ranges[order[p + 1]]
    IN  IF next.planned
        THEN here.until <= Start(next.range)
        ELSE here.until = Start(next.range)

\* Whatever a split did to a range's end meanwhile, all it queued lies inside
\* the part that is still its own.
QueuedIsOwn ==
  \A id \in DOMAIN ranges :
    LET live == ranges[id]
    IN  /\ live.emitted < live.range.until
        /\ \A i \in DOMAIN live.pages : \A k \in live.pages[i] :
             Start(live.range) <= k /\ k <= live.emitted

\* The counters the pauses are decided by agree with the queues they count,
\* through every hand-over, page taken and error: every object that is queued is
\* counted once, neither counter ever wraps below zero, and no range is held
\* back by pages that are gone.
Held(id) == UNION {ranges[id].pages[i] : i \in DOMAIN ranges[id].pages}

CountsMatch ==
  /\ \A id \in DOMAIN ranges : ranges[id].queued = Cardinality(Held(id))
  /\ buffered = Cardinality(UNION {Held(id) : id \in DOMAIN ranges})

\* The caller and the workers agree where the caller is although `order` grows
\* under it: every range before `taking` is done and drained, no half ever lands
\* before the caller's position, and the planned ranges before that position are
\* exactly those of the steps it has begun.  So `order[position]` is always a
\* range of the step the caller is at, and never past the end of `order`.
Behind(p) == p < caller.position \/ (caller.pc = "page" /\ p = caller.position)
Begun(s)  == s < caller.step \/ (caller.pc # "step" /\ s = caller.step)
Gone(p)   == ranges[order[p]].done /\ ranges[order[p]].pages = <<>>
InTake    == caller.pc \in {"step", "page", "next", "half"}

TakenInOrder ==
  /\ taking <= Len(order)
  /\ \A p \in 1..taking - 1 : Gone(p)
  /\ caller.pc = "page" => caller.position = taking
  /\ caller.pc \in {"next", "half"} =>
       caller.position = taking + 1 /\ Gone(taking)
  /\ caller.pc = "half" =>
       /\ caller.position <= Len(order)
       /\ ~ranges[order[caller.position]].planned
  /\ caller.pc = "step" =>
       \/ caller.position = taking + 1 /\ Gone(taking)
       \/ caller.position = 1 /\ taking = 1
  /\ caller.pc = "step" /\ caller.position <= Len(order) =>
       ranges[order[caller.position]].planned

StepsInSync ==
  InTake =>
    \A at \in [DOMAIN Planned -> DOMAIN Steps] : InStep(at) =>
      \A p \in DOMAIN order : ranges[order[p]].planned =>
        (Behind(p) <=> Begun(at[order[p]]))

CallerInSync == TakenInOrder /\ StepsInSync

\* Queued objects stay bounded however the timing falls: the ranges ahead of the
\* caller stop at 2 * MaxBuffered, the range being taken has MaxBuffered of its
\* own on top, every worker may have one page in flight past each check, and so
\* may every half the caller has not come to: one that is split off the range
\* being taken is asked for a page before any check of the total.
After(p)  == {order[q] : q \in p + 1..Len(order)}
Halves(S) == {id \in S : ~ranges[id].planned}

MemoryBounded ==
  buffered <= 3 * MaxBuffered - 2
              + (Cardinality(Workers) + Cardinality(Halves(After(taking)))) * PageSize

\* Wherever the ranges and their queues stand between two critical sections:
\* they tile the plan, hold only what is theirs, and are counted and bounded.
RangesSound == HalvesMeet /\ QueuedIsOwn /\ CountsMatch /\ MemoryBounded

\* Two workers are never inside the same range, so one queue is never fed by two
\* streams; and `busy` says exactly which ranges a worker is inside of, so a
\* range that paused or failed to finish can be picked up again.
Inside(w) == worker[w].pc \in {"listing", "leaving"}

OneWorkerPerRange ==
  /\ \A v, w \in Workers :
       Inside(v) /\ Inside(w) /\ worker[v].id = worker[w].id => v = w
  /\ \A id \in DOMAIN ranges :
       ranges[id].busy <=> \E w \in Workers : Inside(w) /\ worker[w].id = id

\* The control of a listing, whatever fails: who is inside of which range, and
\* where the caller is among them.
ListingSound == TypeOK /\ OneWorkerPerRange /\ CallerInSync

\* What the listing promises its caller (module S3OrderedListing): the pages of
\* one stream, in key order, with nothing missing and nothing twice, or an error.
Promise == INSTANCE S3OrderedListing
PromiseKept == Promise!Safety

\* Every listing ends: neither a full queue, a pause, a split, a failure nor a
\* cancel leaves the caller or a worker waiting for good.
ListingEnds == <>(caller.pc = "returned")
=============================================================================
