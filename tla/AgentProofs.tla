----------------------------- MODULE AgentProofs -----------------------------
(***************************************************************************)
(* Proofs about the agent: its runner (module AgentRunner), for any roots, *)
(* tasks, scrapes and threads, its rate limit (module RateLimit), for any  *)
(* bucket, number of clients and size of the table, and its timer (module  *)
(* AgentTimer), for any expressions, sleeps and steps of the clock, with   *)
(* the dates it computes (modules Schedule and Calendar), for every day    *)
(* since 1970.                                                             *)
(***************************************************************************)
EXTENDS AgentRunner, RateLimit, AgentTimer, Calendar, FiniteSetTheorems, WellFoundedInduction, TLAPS

(***************************************************************************)
(* The runner's invariant.                                                 *)
(***************************************************************************)

\* Whoever is busy is busy with a root.
Rooted ==
  /\ \A t \in Tasks : task[t].at # "Idle" => task[t].root \in Roots
  /\ \A t \in Tasks : task[t].at = "Walked" => task[t].path \in Paths
  /\ \A h \in Threads : resolver[h].at # "Idle" => resolver[h].root \in Configured
  /\ \A c \in Scrapes : scrape[c].at # "Idle" => scrape[c].root \in Configured

\* An accepted request that has not started knows when it was overtaken.
KnowsOvertaken ==
  \A t \in Tasks :
    /\ task[t].at = "Spawned"
    /\ task[t].accepted
    /\ task[t].root \in inFlight
    => task[t].overtaken

\* A slot nobody has begun to fill has neither a thread nor a scrape that is
\* starting one, and otherwise there is at most one of either.
OneStarter ==
  /\ \A h \in Threads : resolver[h].at # "Idle" => ~Startable(slot[resolver[h].root])
  /\ \A c \in Scrapes : Starts(c) => ~Startable(slot[scrape[c].root])
  /\ \A c, d \in Scrapes : Starts(c) /\ Starts(d) /\ scrape[c].root = scrape[d].root => c = d
  /\ \A c \in Scrapes, h \in Threads :
       Starts(c) /\ resolver[h].at # "Idle" => scrape[c].root # resolver[h].root

ScanInv    == OneScan /\ KnowsOvertaken
ResolveInv == OneResolver /\ OneStarter /\ RowsKnown
RunnerInv  == TypeOK /\ Rooted /\ ScanInv /\ ResolveInv

LEMMA Initially == Init => RunnerInv
<1> SUFFICES ASSUME Init PROVE RunnerInv
  OBVIOUS
<1>1. TypeOK
  BY RunnerAssumption DEF Init, TypeOK, TaskStates, ResolverStates, ScrapeStates, Idle, Parked, NotAsking, States
<1>2. Rooted /\ KnowsOvertaken
  BY DEF Init, Rooted, KnowsOvertaken, Idle, Parked, NotAsking
<1>3. OneScan
  BY DEF Init, OneScan, Scans, Idle
<1>4. ResolveInv
  BY DEF Init, ResolveInv, OneResolver, OneStarter, RowsKnown, Starts, Parked, NotAsking
<1>5. QED
  BY <1>1, <1>2, <1>3, <1>4 DEF RunnerInv, ScanInv

(***************************************************************************)
(* Types.                                                                  *)
(***************************************************************************)

\* What a resolver that is done leaves in a slot is a state of a slot.
LEMMA SettledTyped ==
  ASSUME NEW state \in States, NEW found \in Paths \cup {Absent}
  PROVE  Settled(state, found) \in States
BY DEF Settled, Outcome, States

\* A step of a task keeps the types, and tasks busy with roots.
LEMMA ScanTyped ==
  ASSUME TypeOK, Rooted, NEW t \in Tasks, Scan(t)
  PROVE  TypeOK' /\ Rooted'
<1>1. ASSUME NEW r \in Roots, NEW accepted \in BOOLEAN, Spawn(t, r, accepted)
      PROVE  TypeOK' /\ Rooted'
  BY <1>1 DEF TypeOK, TaskStates, ResolverStates, ScrapeStates, Rooted, Spawn, Idle, resolving
<1>2. CASE Claim(t)
  <2>1. task[t].root \in Roots
    BY <1>2 DEF Rooted, Claim
  <2>2. ASSUME NEW u \in Tasks
        PROVE  /\ task'[u] \in TaskStates
               /\ task'[u].at # "Idle" => task'[u].root \in Roots
               /\ task'[u].at = "Walked" => task'[u].path \in Paths
    <3>1. CASE u = t
      <4>1. task'[u] = Running(task[t].root, "Claimed")
        BY <1>2, <3>1 DEF Claim, Overtaken
      <4>2. QED
        BY <2>1, <4>1 DEF Running, Idle, TaskStates
    <3>2. CASE u # t /\ task[u].at = "Spawned" /\ task[u].root = task[t].root
      <4>1. task'[u] = [task[u] EXCEPT !.overtaken = TRUE]
        BY <1>2, <3>2 DEF Claim, Overtaken
      <4>2. QED
        <5>1. task[u] \in TaskStates
          BY DEF TypeOK
        <5>2. task'[u] \in TaskStates
          BY <4>1, <5>1 DEF TaskStates
        <5>3. task'[u].at = "Spawned" /\ task'[u].root = task[t].root
          BY <3>2, <4>1, <5>1 DEF TaskStates
        <5>4. QED
          BY <2>1, <5>2, <5>3
    <3>3. CASE u # t /\ ~(task[u].at = "Spawned" /\ task[u].root = task[t].root)
      <4>1. task'[u] = task[u]
        BY <1>2, <3>3 DEF Claim, Overtaken
      <4>2. QED
        BY <4>1 DEF TypeOK, TaskStates, ResolverStates, ScrapeStates, Rooted
    <3>4. QED
      BY <3>1, <3>2, <3>3
  <2>3. task' \in [Tasks -> TaskStates]
    <3>1. task' = [u \in Tasks |-> task'[u]]
      BY <1>2 DEF Claim, Overtaken
    <3>2. QED
      BY <2>2, <3>1
  <2>4. inFlight' \subseteq Roots
    BY <1>2, <2>1 DEF Claim, TypeOK, TaskStates, ResolverStates, ScrapeStates
  <2>5. QED
    BY <1>2, <2>2, <2>3, <2>4 DEF TypeOK, TaskStates, ResolverStates, ScrapeStates, Rooted, Claim, resolving
<1>3. CASE Skip(t)
  BY <1>3 DEF TypeOK, TaskStates, ResolverStates, ScrapeStates, Rooted, Skip, Idle, resolving
<1>4. CASE Walk(t)
  <2>1. task[t].root \in Roots
    BY <1>4 DEF Rooted, Walk
  <2>2. target[task[t].root] \in Paths
    BY <1>4, <2>1 DEF TypeOK, TaskStates, ResolverStates, ScrapeStates, Walk
  <2>3. [task[t] EXCEPT !.at = "Walked", !.path = target[task[t].root]] \in TaskStates
    <3>1. task[t] \in TaskStates
      BY DEF TypeOK
    <3> DEFINE path == target[task[t].root]
    <3>2. path \in Paths
      BY <2>2
    <3> HIDE DEF path
    <3>3. [task[t] EXCEPT !.at = "Walked", !.path = path] \in TaskStates
      BY <3>1, <3>2 DEF TaskStates
    <3>4. QED
      BY <3>3 DEF path
  <2>4. task' = [task EXCEPT ![t] =
                  [task[t] EXCEPT !.at = "Walked", !.path = target[task[t].root]]]
    BY <1>4 DEF Walk, TypeOK, TaskStates, ResolverStates, ScrapeStates
  <2>5. task' \in [Tasks -> TaskStates]
    BY <2>3, <2>4 DEF TypeOK, TaskStates, ResolverStates, ScrapeStates
  <2>6. TypeOK'
    BY <1>4, <2>5 DEF TypeOK, TaskStates, ResolverStates, ScrapeStates, Walk, resolving
  <2>7. Rooted'
    <3>1. task'[t].root \in Roots /\ task'[t].path \in Paths
      BY <2>1, <2>2, <2>4 DEF TypeOK, TaskStates, ResolverStates, ScrapeStates
    <3>2. QED
      BY <1>4, <2>4, <3>1 DEF TypeOK, TaskStates, ResolverStates, ScrapeStates, Rooted, Walk, resolving
  <2>8. QED
    BY <2>6, <2>7
<1>5. CASE Remember(t)
  <2>1. task[t].root \in Roots /\ task[t].path \in Paths
    BY <1>5 DEF Rooted, Remember
  <2>2. QED
    BY <1>5, <2>1 DEF TypeOK, TaskStates, ResolverStates, ScrapeStates, Rooted, Remember, Running, Idle, States
<1>6. CASE Fail(t)
  BY <1>6 DEF TypeOK, TaskStates, ResolverStates, ScrapeStates, Rooted, Fail, Running, Idle, resolving
<1>7. CASE Release(t)
  BY <1>7 DEF TypeOK, TaskStates, ResolverStates, ScrapeStates, Rooted, Release, Idle, resolving
<1>8. QED
  BY <1>1, <1>2, <1>3, <1>4, <1>5, <1>6, <1>7 DEF Scan, Request, Fire

\* A step of a resolver's thread does.
LEMMA ResolverTyped ==
  ASSUME TypeOK, Rooted, NEW h \in Threads, Canonicalize(h) \/ Finish(h)
  PROVE  TypeOK' /\ Rooted'
<1>1. resolver[h].root \in Configured /\ resolver[h].root \in Roots
  BY RunnerAssumption DEF Rooted, Canonicalize, Finish
<1>2. CASE Canonicalize(h)
  <2> DEFINE found == target[resolver[h].root]
             after == [resolver[h] EXCEPT !.at = "Found", !.found = found]
  <2>1. found \in Paths \cup {Absent}
    BY <1>1 DEF TypeOK, TaskStates, ResolverStates, ScrapeStates
  <2>2. resolver' = [resolver EXCEPT ![h] = after]
    BY <1>2 DEF Canonicalize, TypeOK, TaskStates, ResolverStates, ScrapeStates
  <2> HIDE DEF found
  <2>3. after \in ResolverStates /\ after.root = resolver[h].root
    <3>1. resolver[h] \in ResolverStates
      BY DEF TypeOK
    <3>2. QED
      BY <2>1, <3>1 DEF ResolverStates
  <2> HIDE DEF after
  <2>4. QED
    BY <1>1, <1>2, <2>2, <2>3 DEF TypeOK, Rooted, Canonicalize, scanning
<1>3. CASE Finish(h)
  <2>1. Settled(slot[resolver[h].root], resolver[h].found) \in States
    BY <1>1, SettledTyped DEF TypeOK, TaskStates, ResolverStates, ScrapeStates
  <2>2. QED
    BY <1>1, <1>3, <2>1 DEF TypeOK, TaskStates, ResolverStates, ScrapeStates, Rooted, Finish, Parked, scanning
<1>4. QED
  BY <1>2, <1>3

\* A step of a scrape does.
LEMMA ScrapeTyped ==
  ASSUME TypeOK, Rooted, NEW c \in Scrapes, Scraping(c)
  PROVE  TypeOK' /\ Rooted'
<1>1. ASSUME NEW r \in Configured, Join(c, r)
      PROVE  TypeOK' /\ Rooted'
  BY <1>1 DEF TypeOK, TaskStates, ResolverStates, ScrapeStates, Rooted, Join, Asking, NotAsking, scanning
<1>2. ASSUME NEW r \in Configured, SpawnFails(c, r)
      PROVE  TypeOK' /\ Rooted'
  BY <1>2 DEF TypeOK, TaskStates, ResolverStates, ScrapeStates, Rooted, SpawnFails, Asking, NotAsking, scanning, States
<1>3. ASSUME NEW r \in Configured, NEW h \in Threads, StartResolver(c, r, h)
      PROVE  TypeOK' /\ Rooted'
  BY <1>3 DEF TypeOK, TaskStates, ResolverStates, ScrapeStates, Rooted, StartResolver, Asking, NotAsking, scanning, States
<1>4. CASE Forget(c)
  BY <1>4 DEF TypeOK, TaskStates, ResolverStates, ScrapeStates, Rooted, Forget, NotAsking, scanning, States
<1>5. CASE Answer(c)
  BY <1>5 DEF TypeOK, TaskStates, ResolverStates, ScrapeStates, Rooted, Answer, NotAsking, scanning
<1>6. QED
  BY <1>1, <1>2, <1>3, <1>4, <1>5 DEF Scraping

(***************************************************************************)
(* Claims.                                                                 *)
(***************************************************************************)

\* A step of a task that is not scanning before or after leaves the claims alone.
LEMMA OthersScan ==
  ASSUME TypeOK, OneScan, NEW t \in Tasks, ~Scans(t), NEW next \in TaskStates,
         task' = [task EXCEPT ![t] = next], ~Scans(t)', UNCHANGED inFlight
  PROVE  OneScan'
<1>1. \A u \in Tasks : u # t => task'[u] = task[u]
  BY DEF TypeOK
<1>2. \A u \in Tasks : Scans(u)' <=> Scans(u)
  BY <1>1 DEF Scans
<1>3. \A u \in Tasks : Scans(u) => task'[u] = task[u]
  BY <1>1
<1>4. {task'[u].root : u \in {v \in Tasks : Scans(v)'}}
        = {task[u].root : u \in {v \in Tasks : Scans(v)}}
  BY <1>2, <1>3
<1>5. QED
  BY <1>2, <1>3, <1>4 DEF OneScan

\* So does a step of one that scans the same root before and after.
LEMMA StillScans ==
  ASSUME TypeOK, OneScan, NEW t \in Tasks, Scans(t), Scans(t)',
         \A u \in Tasks : u # t => task'[u] = task[u],
         task'[t].root = task[t].root, UNCHANGED inFlight
  PROVE  OneScan'
<1>1. \A u \in Tasks : (Scans(u)' <=> Scans(u)) /\ task'[u].root = task[u].root
  BY DEF Scans
<1>2. {task'[u].root : u \in {v \in Tasks : Scans(v)'}}
        = {task[u].root : u \in {v \in Tasks : Scans(v)}}
  BY <1>1
<1>3. QED
  BY <1>1, <1>2 DEF OneScan

\* A claim is the only one of its root, and what is overtaken is told.
LEMMA ClaimScan ==
  ASSUME TypeOK, Rooted, ScanInv, NEW t \in Tasks, Claim(t)
  PROVE  ScanInv'
<1> DEFINE r == task[t].root
<1>1. task'[t] = Running(r, "Claimed")
  BY DEF Claim, Overtaken
<1>2. task'[t].at = "Claimed" /\ task'[t].root = r
  BY <1>1 DEF Running, Idle
<1>3. \A u \in Tasks : u # t => /\ task'[u].at = task[u].at
                               /\ task'[u].root = task[u].root
                               /\ task'[u].accepted = task[u].accepted
  <2> SUFFICES ASSUME NEW u \in Tasks, u # t
               PROVE  /\ task'[u].at = task[u].at
                      /\ task'[u].root = task[u].root
                      /\ task'[u].accepted = task[u].accepted
    OBVIOUS
  <2>1. task[u] \in TaskStates
    BY DEF TypeOK
  <2>2. task'[u] = IF task[u].at = "Spawned" /\ task[u].root = r
                   THEN [task[u] EXCEPT !.overtaken = TRUE] ELSE task[u]
    BY DEF Claim, Overtaken
  <2>3. QED
    BY <2>1, <2>2 DEF TaskStates
<1>4. \A u \in Tasks : u # t => (Scans(u)' <=> Scans(u))
  BY <1>3 DEF Scans
<1>5. ~Scans(t) /\ Scans(t)'
  BY <1>2 DEF Scans, Claim
<1>6. r \notin inFlight /\ inFlight' = inFlight \cup {r}
  BY DEF Claim, MayClaim
<1>7. \A u \in Tasks : Scans(u) => task[u].root # r
  BY <1>6 DEF ScanInv, OneScan
<1> HIDE DEF r
<1>8. OneScan'
  <2>1. {task'[u].root : u \in {v \in Tasks : Scans(v)'}}
          = {task[u].root : u \in {v \in Tasks : Scans(v)}} \cup {r}
    BY <1>2, <1>3, <1>4, <1>5
  <2>2. QED
    BY <1>2, <1>3, <1>4, <1>5, <1>6, <1>7, <2>1 DEF ScanInv, OneScan
<1>9. KnowsOvertaken'
  <2> SUFFICES ASSUME NEW u \in Tasks, task'[u].at = "Spawned", task'[u].accepted,
                      task'[u].root \in inFlight'
               PROVE  task'[u].overtaken
    BY DEF KnowsOvertaken
  <2>1. u # t
    BY <1>2
  <2>2. task[u].at = "Spawned" /\ task[u].accepted /\ task[u] \in TaskStates
    BY <1>3, <2>1 DEF TypeOK
  <2>3. CASE task[u].root = r
    BY <2>1, <2>2, <2>3 DEF Claim, Overtaken, TaskStates, r
  <2>4. CASE task[u].root # r
    <3>1. task'[u] = task[u]
      BY <2>1, <2>4 DEF Claim, Overtaken, r
    <3>2. task[u].root \in inFlight
      BY <1>6, <2>4, <3>1
    <3>3. QED
      BY <2>2, <3>1, <3>2 DEF ScanInv, KnowsOvertaken
  <2>5. QED
    BY <2>3, <2>4
<1>10. QED
  BY <1>8, <1>9 DEF ScanInv

\* No step of a task has two scans of a root or loses a claim.
LEMMA ScanKeepsClaims ==
  ASSUME TypeOK, Rooted, ScanInv, NEW t \in Tasks, Scan(t)
  PROVE  ScanInv'
<1>1. ASSUME NEW r \in Roots, Request(t, r)
      PROVE  ScanInv'
  <2> DEFINE next == [Idle EXCEPT !.at = "Spawned", !.root = r, !.accepted = TRUE]
  <2>1. /\ next \in TaskStates
        /\ next.at = "Spawned"
        /\ next.root = r
    BY DEF Idle, TaskStates
  <2>2. /\ task' = [task EXCEPT ![t] = next]
        /\ UNCHANGED inFlight
        /\ task[t].at = "Idle"
        /\ r \notin inFlight
    BY <1>1 DEF Request, Spawn, MayRequest
  <2> HIDE DEF next
  <2>3. ~Scans(t) /\ ~Scans(t)'
    BY <2>1, <2>2 DEF Scans, TypeOK
  <2>4. OneScan'
    BY <2>1, <2>2, <2>3, OthersScan DEF ScanInv
  <2>5. KnowsOvertaken'
    BY <2>1, <2>2 DEF ScanInv, KnowsOvertaken, TypeOK
  <2>6. QED
    BY <2>4, <2>5 DEF ScanInv
<1>2. ASSUME NEW r \in Roots, Fire(t, r)
      PROVE  ScanInv'
  <2> DEFINE next == [Idle EXCEPT !.at = "Spawned", !.root = r, !.accepted = FALSE]
  <2>1. /\ next \in TaskStates
        /\ next.at = "Spawned"
        /\ ~next.accepted
    BY DEF Idle, TaskStates
  <2>2. /\ task' = [task EXCEPT ![t] = next]
        /\ UNCHANGED inFlight
        /\ task[t].at = "Idle"
    BY <1>2 DEF Fire, Spawn
  <2> HIDE DEF next
  <2>3. ~Scans(t) /\ ~Scans(t)'
    BY <2>1, <2>2 DEF Scans, TypeOK
  <2>4. OneScan'
    BY <2>1, <2>2, <2>3, OthersScan DEF ScanInv
  <2>5. KnowsOvertaken'
    BY <2>1, <2>2 DEF ScanInv, KnowsOvertaken, TypeOK
  <2>6. QED
    BY <2>4, <2>5 DEF ScanInv
<1>3. CASE Claim(t)
  BY <1>3, ClaimScan
<1>4. CASE Skip(t)
  <2>1. Idle \in TaskStates /\ Idle.at = "Idle"
    BY DEF Idle, TaskStates
  <2>2. task' = [task EXCEPT ![t] = Idle] /\ UNCHANGED inFlight /\ task[t].at = "Spawned"
    BY <1>4 DEF Skip
  <2>3. ~Scans(t) /\ ~Scans(t)'
    BY <2>1, <2>2 DEF Scans, TypeOK
  <2>4. OneScan'
    BY <2>1, <2>2, <2>3, OthersScan DEF ScanInv
  <2>5. KnowsOvertaken'
    BY <2>1, <2>2 DEF ScanInv, KnowsOvertaken, TypeOK
  <2>6. QED
    BY <2>4, <2>5 DEF ScanInv
<1>5. ASSUME Walk(t) \/ Remember(t) \/ Fail(t)
      PROVE  ScanInv'
  <2>1. /\ Scans(t)
        /\ UNCHANGED inFlight
        /\ \A u \in Tasks : u # t => task'[u] = task[u]
    BY <1>5 DEF Walk, Remember, Fail, Scans, TypeOK
  <2>2. task'[t].root = task[t].root /\ task'[t].at \in {"Walked", "Ending"}
    <3>1. task[t] \in TaskStates
      BY DEF TypeOK
    <3>2. CASE Walk(t)
      BY <3>1, <3>2 DEF Walk, TypeOK, TaskStates
    <3>3. CASE Remember(t) \/ Fail(t)
      <4>1. task'[t] = Running(task[t].root, "Ending")
        BY <3>3 DEF Remember, Fail, TypeOK
      <4>2. QED
        BY <4>1 DEF Running, Idle
    <3>4. QED
      BY <1>5, <3>2, <3>3
  <2>3. Scans(t)'
    BY <2>2 DEF Scans
  <2>4. OneScan'
    BY <2>1, <2>2, <2>3, StillScans DEF ScanInv
  <2>5. KnowsOvertaken'
    BY <2>1, <2>2 DEF ScanInv, KnowsOvertaken
  <2>6. QED
    BY <2>4, <2>5 DEF ScanInv
<1>6. CASE Release(t)
  <2>1. /\ Scans(t)
        /\ task'[t].at = "Idle"
        /\ inFlight' = inFlight \ {task[t].root}
        /\ \A u \in Tasks : u # t => task'[u] = task[u]
    BY <1>6 DEF Release, Scans, Idle, TypeOK
  <2>2. \A u \in Tasks : u # t => (Scans(u)' <=> Scans(u))
    BY <2>1 DEF Scans
  <2>3. ~Scans(t)'
    BY <2>1 DEF Scans
  <2>4. \A u \in Tasks : u # t /\ Scans(u) => task[u].root # task[t].root
    BY <2>1 DEF ScanInv, OneScan
  <2>5. {task'[u].root : u \in {v \in Tasks : Scans(v)'}}
          = {task[u].root : u \in {v \in Tasks : Scans(v)}} \ {task[t].root}
    BY <2>1, <2>2, <2>3, <2>4
  <2>6. OneScan'
    BY <2>1, <2>2, <2>3, <2>5 DEF ScanInv, OneScan
  <2>7. KnowsOvertaken'
    BY <2>1 DEF ScanInv, KnowsOvertaken
  <2>8. QED
    BY <2>6, <2>7 DEF ScanInv
<1>7. QED
  BY <1>1, <1>2, <1>3, <1>4, <1>5, <1>6 DEF Scan

(***************************************************************************)
(* Resolvers.                                                              *)
(***************************************************************************)

\* What a scan records is none of the marks of a slot.
LEMMA PathsAreKnown ==
  ASSUME NEW p \in Paths
  PROVE  ~Startable(p) /\ p # Resolving /\ p # Nothing
BY RunnerAssumption DEF Startable

\* A scan that records its path disturbs no resolver.
LEMMA ScanKeepsResolvers ==
  ASSUME TypeOK, Rooted, ResolveInv, NEW t \in Tasks, Scan(t)
  PROVE  ResolveInv'
<1>1. CASE Remember(t)
  <2> DEFINE r == task[t].root
  <2>1. task[t].path \in Paths
    BY <1>1 DEF Rooted, Remember
  <2>2. UNCHANGED <<resolver, scrape>>
    BY <1>1 DEF Remember
  <2>3. \A q \in Configured :
          \/ slot'[q] = slot[q] /\ wrote'[q] = wrote[q]
          \/ slot'[q] = task[t].path /\ wrote'[q] = task[t].path
    BY <1>1 DEF Remember, TypeOK
  <2>4. \A q \in Configured : ~Startable(slot[q]) => ~Startable(slot'[q])
    BY <2>1, <2>3, PathsAreKnown
  <2>5. OneResolver' /\ OneStarter'
    BY <2>2, <2>4 DEF ResolveInv, OneResolver, OneStarter, Rooted, Starts
  <2>6. RowsKnown'
    BY <2>3 DEF ResolveInv, RowsKnown
  <2>7. QED
    BY <2>5, <2>6 DEF ResolveInv
<1>2. CASE UNCHANGED resolving
  BY <1>2 DEF resolving, ResolveInv, OneResolver, OneStarter, RowsKnown, Starts
<1>3. QED
  BY <1>1, <1>2 DEF Scan, Request, Fire, Spawn, Claim, Skip, Walk, Fail, Release

\* A resolver that reads or finishes leaves at most one, and what scans wrote.
LEMMA ResolverKeeps ==
  ASSUME TypeOK, Rooted, ResolveInv, NEW h \in Threads, Canonicalize(h) \/ Finish(h)
  PROVE  ResolveInv'
<1>1. CASE Canonicalize(h)
  <2>1. UNCHANGED <<slot, wrote, scrape>> /\ resolver[h].at # "Idle"
    BY <1>1 DEF Canonicalize
  <2>2. \A g \in Threads : g # h => resolver'[g] = resolver[g]
    BY <1>1 DEF Canonicalize, TypeOK
  <2>3. resolver'[h].root = resolver[h].root
    <3>1. resolver[h] \in ResolverStates
      BY DEF TypeOK
    <3>2. QED
      BY <1>1, <3>1 DEF Canonicalize, TypeOK, ResolverStates
  <2>4. QED
    BY <2>1, <2>2, <2>3 DEF ResolveInv, OneResolver, OneStarter, RowsKnown, Starts
<1>2. CASE Finish(h)
  <2> DEFINE r == resolver[h].root
  <2>1. r \in Configured /\ resolver[h].at # "Idle" /\ UNCHANGED <<wrote, scrape>>
    BY <1>2 DEF Finish, Rooted
  <2>2. \A g \in Threads : g # h => resolver'[g] = resolver[g]
    BY <1>2 DEF Finish, TypeOK
  <2>3. resolver'[h].at = "Idle"
    BY <1>2 DEF Finish, TypeOK, Parked
  <2>4. /\ \A q \in Configured : q # r => slot'[q] = slot[q]
        /\ slot[r] # Resolving => slot'[r] = slot[r]
    BY <1>2, <2>1 DEF Finish, TypeOK, Settled
  <2>5. \A g \in Threads : g # h /\ resolver[g].at # "Idle" => resolver[g].root # r
    BY <2>1 DEF ResolveInv, OneResolver
  <2>6. \A c \in Scrapes : Starts(c) => scrape[c].root # r
    BY <2>1 DEF ResolveInv, OneStarter
  <2> HIDE DEF r
  <2>7. OneResolver'
    BY <2>2, <2>3 DEF ResolveInv, OneResolver
  <2>8. OneStarter'
    BY <2>1, <2>2, <2>3, <2>4, <2>5, <2>6 DEF ResolveInv, OneStarter, Rooted, Starts
  <2>9. RowsKnown'
    <3>1. wrote[r] # Nothing => slot[r] # Resolving
      BY <2>1, PathsAreKnown DEF ResolveInv, RowsKnown, TypeOK
    <3>2. QED
      BY <2>1, <2>4, <3>1 DEF ResolveInv, RowsKnown
  <2>10. QED
    BY <2>7, <2>8, <2>9 DEF ResolveInv
<1>3. QED
  BY <1>1, <1>2

\* A slot is marked only if nobody fills it and no scan did.
LEMMA MarkedOnce ==
  ASSUME TypeOK, Rooted, ResolveInv, NEW r \in Configured, Startable(slot[r])
  PROVE  /\ wrote[r] = Nothing
         /\ \A h \in Threads : resolver[h].at # "Idle" => resolver[h].root # r
         /\ \A c \in Scrapes : Starts(c) => scrape[c].root # r
<1>1. wrote[r] = Nothing
  BY PathsAreKnown DEF ResolveInv, RowsKnown, TypeOK
<1>2. QED
  BY <1>1 DEF ResolveInv, OneStarter

\* A scrape starts at most one resolver, and forgets only a slot nobody fills.
LEMMA ScrapeKeeps ==
  ASSUME TypeOK, Rooted, ResolveInv, NEW c \in Scrapes, Scraping(c)
  PROVE  ResolveInv'
<1>0. ~Startable(Resolving)
  BY DEF Startable, Resolving, NoSlot, Failed
<1>1. ASSUME NEW r \in Configured, Join(c, r)
      PROVE  ResolveInv'
  <2>1. /\ UNCHANGED <<slot, wrote, resolver>>
        /\ \A d \in Scrapes : Starts(d)' => Starts(d) /\ scrape'[d] = scrape[d]
    BY <1>1 DEF Join, TypeOK, Asking, NotAsking, Starts
  <2>2. QED
    BY <2>1 DEF ResolveInv, OneResolver, OneStarter, RowsKnown
<1>2. ASSUME NEW r \in Configured, SpawnFails(c, r)
      PROVE  ResolveInv'
  <2>1. /\ UNCHANGED <<wrote, resolver>>
        /\ slot'[r] = Resolving
        /\ \A q \in Configured : q # r => slot'[q] = slot[q]
        /\ Startable(slot[r])
    BY <1>2 DEF SpawnFails, TypeOK
  <2>2. /\ \A d \in Scrapes : d # c => scrape'[d] = scrape[d]
        /\ scrape'[c].root = r
    BY <1>2 DEF SpawnFails, TypeOK, Asking, NotAsking
  <2>3. OneResolver' /\ OneStarter'
    BY <1>0, <2>1, <2>2, MarkedOnce DEF ResolveInv, OneResolver, OneStarter, Rooted, Starts
  <2>4. RowsKnown'
    BY <2>1, MarkedOnce DEF ResolveInv, RowsKnown
  <2>5. QED
    BY <2>3, <2>4 DEF ResolveInv
<1>3. ASSUME NEW r \in Configured, NEW h \in Threads, StartResolver(c, r, h)
      PROVE  ResolveInv'
  <2>1. /\ UNCHANGED wrote
        /\ slot'[r] = Resolving
        /\ \A q \in Configured : q # r => slot'[q] = slot[q]
        /\ Startable(slot[r])
    BY <1>3 DEF StartResolver, TypeOK
  <2>2. \A d \in Scrapes : Starts(d)' => Starts(d) /\ scrape'[d] = scrape[d]
    BY <1>3 DEF StartResolver, TypeOK, Asking, NotAsking, Starts
  <2>3. /\ \A g \in Threads : g # h => resolver'[g] = resolver[g]
        /\ resolver'[h].root = r
    BY <1>3 DEF StartResolver, TypeOK
  <2>4. OneResolver'
    BY <2>1, <2>3, MarkedOnce DEF ResolveInv, OneResolver
  <2>5. OneStarter'
    BY <1>0, <2>1, <2>2, <2>3, MarkedOnce DEF ResolveInv, OneStarter, Rooted, Starts
  <2>6. RowsKnown'
    BY <2>1, MarkedOnce DEF ResolveInv, RowsKnown
  <2>7. QED
    BY <2>4, <2>5, <2>6 DEF ResolveInv
<1>4. CASE Forget(c)
  <2> DEFINE r == scrape[c].root
  <2>1. r \in Configured /\ Starts(c) /\ UNCHANGED resolver
    BY <1>4 DEF Forget, Rooted, Starts
  <2>2. /\ \A q \in Configured : q # r => slot'[q] = slot[q] /\ wrote'[q] = wrote[q]
        /\ wrote'[r] = Nothing
    BY <1>4, <2>1 DEF Forget, TypeOK
  <2>3. /\ \A d \in Scrapes : d # c => scrape'[d] = scrape[d]
        /\ ~Starts(c)'
    BY <1>4 DEF Forget, TypeOK, NotAsking, Starts
  <2>4. /\ \A h \in Threads : resolver[h].at # "Idle" => resolver[h].root # r
        /\ \A d \in Scrapes : d # c /\ Starts(d) => scrape[d].root # r
    BY <2>1 DEF ResolveInv, OneStarter
  <2> HIDE DEF r
  <2>5. OneResolver' /\ RowsKnown'
    BY <2>1, <2>2 DEF ResolveInv, OneResolver, RowsKnown
  <2>6. OneStarter'
    BY <2>1, <2>2, <2>3, <2>4 DEF ResolveInv, OneStarter, Rooted, Starts
  <2>7. QED
    BY <2>5, <2>6 DEF ResolveInv
<1>5. CASE Answer(c)
  <2>1. /\ UNCHANGED <<slot, wrote, resolver>>
        /\ \A d \in Scrapes : Starts(d)' => Starts(d) /\ scrape'[d] = scrape[d]
    BY <1>5 DEF Answer, TypeOK, NotAsking, Starts
  <2>2. QED
    BY <2>1 DEF ResolveInv, OneResolver, OneStarter, RowsKnown
<1>6. QED
  BY <1>1, <1>2, <1>3, <1>4, <1>5 DEF Scraping

(***************************************************************************)
(* The theorems.                                                           *)
(***************************************************************************)

LEMMA Step ==
  ASSUME RunnerInv, [Next]_vars
  PROVE  RunnerInv'
<1> USE DEF RunnerInv
<1>1. ASSUME NEW r \in Roots, Repoint(r)
      PROVE  RunnerInv'
  <2>1. TypeOK' /\ Rooted'
    BY <1>1 DEF Repoint, TypeOK, Rooted, scanning, resolving
  <2>2. ScanInv' /\ ResolveInv'
    BY <1>1 DEF Repoint, scanning, resolving, ScanInv, OneScan, Scans, KnowsOvertaken,
                ResolveInv, OneResolver, OneStarter, RowsKnown, Starts
  <2>3. QED
    BY <2>1, <2>2
<1>2. ASSUME NEW t \in Tasks, Scan(t)
      PROVE  RunnerInv'
  BY <1>2, ScanTyped, ScanKeepsClaims, ScanKeepsResolvers
<1>3. ASSUME UNCHANGED scanning
      PROVE  ScanInv'
  BY <1>3 DEF scanning, ScanInv, OneScan, Scans, KnowsOvertaken
<1>4. ASSUME NEW h \in Threads, Canonicalize(h) \/ Finish(h)
      PROVE  RunnerInv'
  <2>1. UNCHANGED scanning
    BY <1>4 DEF Canonicalize, Finish
  <2>2. QED
    BY <1>3, <1>4, <2>1, ResolverTyped, ResolverKeeps
<1>5. ASSUME NEW c \in Scrapes, Scraping(c)
      PROVE  RunnerInv'
  <2>1. UNCHANGED scanning
    BY <1>5 DEF Scraping, Join, SpawnFails, StartResolver, Forget, Answer
  <2>2. QED
    BY <1>3, <1>5, <2>1, ScrapeTyped, ScrapeKeeps
<1>6. CASE UNCHANGED vars
  BY <1>6 DEF vars, scanning, resolving, TypeOK, Rooted, ScanInv, OneScan, Scans,
              KnowsOvertaken, ResolveInv, OneResolver, OneStarter, RowsKnown, Starts
<1>7. QED
  BY <1>1, <1>2, <1>4, <1>5, <1>6 DEF Next

\* The invariant holds in every reachable state.
THEOREM RunnerHolds == Spec => []RunnerInv
<1>1. QED
  BY Initially, Step, PTL DEF Spec

\* The runner is type correct; a slot never holds the path of a root that did
\* not resolve.
THEOREM TypeCorrect == Spec => []TypeOK
<1>1. RunnerInv => TypeOK
  BY DEF RunnerInv
<1>2. QED
  BY <1>1, RunnerHolds, PTL

\* try_claim and RootGuard: at most one scan of a root, and in_flight names
\* exactly the roots being scanned.
THEOREM OneScanHolds == Spec => []OneScan
<1>1. RunnerInv => OneScan
  BY DEF RunnerInv, ScanInv
<1>2. QED
  BY <1>1, RunnerHolds, PTL

\* start_resolving: at most one thread resolves a root.
THEOREM OneResolverHolds == Spec => []OneResolver
<1>1. RunnerInv => OneResolver
  BY DEF RunnerInv, ResolveInv
<1>2. QED
  BY <1>1, RunnerHolds, PTL

\* set and finish: what a scan wrote stands until its slot is forgotten.
THEOREM RowsKnownHolds == Spec => []RowsKnown
<1>1. RunnerInv => RowsKnown
  BY DEF RunnerInv, ResolveInv
<1>2. QED
  BY <1>1, RunnerHolds, PTL

\* trigger_scan: an accepted request is only skipped for a scan that got its
\* claim after it was asked.
THEOREM AcceptedScanned == Spec => AcceptedIsScanned
<1>1. ASSUME RunnerInv, [Next]_vars
      PROVE  [\A t \in Tasks : Skip(t) /\ task[t].accepted => task[t].overtaken]_vars
  BY <1>1 DEF RunnerInv, ScanInv, KnowsOvertaken, Skip, MayClaim
<1>2. QED
  BY <1>1, RunnerHolds, PTL DEF Spec, AcceptedIsScanned

\* Who scans, who resolves and what is known of a root, together.
THEOREM RunnerSoundHolds == Spec => []RunnerSound
<1>1. RunnerInv => RunnerSound
  BY DEF RunnerInv, ScanInv, ResolveInv, RunnerSound
<1>2. QED
  BY <1>1, RunnerHolds, PTL

(***************************************************************************)
(* The rate limit.  A client's bucket never holds more than the rate       *)
(* leaves it at the latest reading it was charged at, although a request   *)
(* that was overtaken sets the bucket's clock back: what the bucket gains  *)
(* by that is part of what the rate is said to leave.  And a client that   *)
(* is forgotten had recovered, so that the full bucket it comes back to is *)
(* no more than it is owed by then.                                        *)
(***************************************************************************)
Asked == [client : Clients, now : Nat]

LimitTypeOK ==
  /\ instant \in Nat /\ latest \in Nat
  /\ clients \in [DOMAIN clients -> [tokens : Nat, last : Nat]] /\ DOMAIN clients \subseteq Clients
  /\ request \in [Requests -> Asked \cup {NoRequest}]
  /\ owed \in [Clients -> [level : Int, at : Nat]]
  /\ promised \in [Clients -> Int]

\* What a bucket holds by the latest reading its client was charged at.
Backed(bucket, owes) ==
  bucket.last <= owes.at /\ owes.level >= Filled(bucket.tokens, owes.at - bucket.last)

\* A forgotten client is owed a full bucket by now.
Recovering(owes) == owes.level + (latest - owes.at) >= Burst

EachIsOwed ==
  \A c \in Clients :
    /\ owed[c].at <= latest
    /\ IF c \in DOMAIN clients THEN Backed(clients[c], owed[c]) ELSE Recovering(owed[c])

LimitInv == LimitTypeOK /\ EachIsOwed /\ WithinTheRate

LEMMA Constants == Token \in Nat /\ Burst \in Nat /\ Token > 0 /\ Burst >= Token
  BY RateLimitAssumption DEF RateLimitAssumption

\* Max and Min of two numbers, and what a bucket is filled to.
LEMMA MaxOfTwo == ASSUME NEW a \in Int, NEW b \in Int
                  PROVE  Max({a, b}) = IF a >= b THEN a ELSE b
<1> DEFINE m == IF a >= b THEN a ELSE b
<1>1. m \in {a, b} /\ \A y \in {a, b} : m >= y
  OBVIOUS
<1>2. \A x \in {a, b} : (\A y \in {a, b} : x >= y) => x = m
  OBVIOUS
<1> HIDE DEF m
<1>3. Max({a, b}) = m
  BY <1>1, <1>2 DEF Max
<1> QED BY <1>3 DEF m

LEMMA MinOfTwo == ASSUME NEW a \in Int, NEW b \in Int
                  PROVE  Min({a, b}) = IF a <= b THEN a ELSE b
<1> DEFINE m == IF a <= b THEN a ELSE b
<1>1. m \in {a, b} /\ \A y \in {a, b} : m <= y
  OBVIOUS
<1>2. \A x \in {a, b} : (\A y \in {a, b} : x <= y) => x = m
  OBVIOUS
<1> HIDE DEF m
<1>3. Min({a, b}) = m
  BY <1>1, <1>2 DEF Min
<1> QED BY <1>3 DEF m

LEMMA FilledTo ==
  ASSUME NEW level \in Int, NEW ticks \in Int
  PROVE  /\ Filled(level, ticks) \in Int
         /\ ticks >= 0 => Filled(level, ticks) = IF level + ticks <= Burst THEN level + ticks ELSE Burst
         /\ ticks < 0 => Filled(level, ticks) = IF level <= Burst THEN level ELSE Burst
<1>1. Max({ticks, 0}) = IF ticks >= 0 THEN ticks ELSE 0
  BY MaxOfTwo
<1>2. level + Max({ticks, 0}) \in Int
  BY <1>1
<1>3. Filled(level, ticks) = IF level + Max({ticks, 0}) <= Burst THEN level + Max({ticks, 0}) ELSE Burst
  BY <1>2, MinOfTwo, Constants DEF Filled
<1> QED BY <1>1, <1>3, Constants

\* The request of one client, charged `cost` at a reading: its bucket holds
\* no more than it is owed before, so it does after.  A bucket that is set up
\* is full.
Charging(owes, last, before, now, cost, tokens, after) ==
  /\ owes \in [level : Int, at : Nat] /\ last \in Nat /\ before \in Nat /\ now \in Nat /\ cost \in Nat
  /\ latest \in Nat /\ owes.at <= latest
  /\ last <= owes.at /\ owes.level >= Filled(before, owes.at - last)
  /\ tokens = Filled(before, now - last) - cost /\ tokens >= 0
  /\ after = [level |-> Filled(owes.level, now - owes.at) - cost + Max({latest - now, 0}),
              at |-> Max({owes.at, now})]

LEMMA ChargeKeepsBacked ==
  ASSUME NEW owes, NEW last, NEW before, NEW now, NEW cost, NEW tokens, NEW after,
         Charging(owes, last, before, now, cost, tokens, after)
  PROVE  Backed([tokens |-> tokens, last |-> now], after) /\ after.level >= 0
<1> USE DEF Charging
<1>1. after.at = (IF owes.at >= now THEN owes.at ELSE now) /\ after.at \in Nat /\ after.at >= now
  BY MaxOfTwo
<1>2. after.level = Filled(owes.level, now - owes.at) - cost + (IF latest >= now THEN latest - now ELSE 0)
  BY MaxOfTwo
<1>3. before \in Int /\ tokens \in Int
  <2>1. before \in Int /\ now - last \in Int
    OBVIOUS
  <2>2. Filled(before, now - last) \in Int
    BY <2>1, FilledTo
  <2> QED BY <2>1, <2>2
<1>4. after.level >= Filled(tokens, after.at - now)
  <2> DEFINE level == owes.level
             mark == owes.at
             to == after.at
             known == mark - last
             gone  == now - last
             more  == now - mark
             ahead == to - now
  <2>1. /\ level \in Int /\ mark \in Nat /\ to \in Nat /\ last <= mark /\ mark <= latest
        /\ to = IF mark >= now THEN mark ELSE now
    BY <1>1
  <2>2. known \in Int /\ gone \in Int /\ more \in Int /\ ahead \in Int
    BY <2>1
  <2>3. level >= Filled(before, known) /\ tokens = Filled(before, gone) - cost
    OBVIOUS
  <2> HIDE DEF level, mark, to
  <2>4. known = mark - last /\ gone = now - last /\ more = now - mark /\ ahead = to - now
    OBVIOUS
  <2> HIDE DEF known, gone, more, ahead
  <2>a. ahead >= 0 /\ known >= 0
    BY <2>1, <2>4
  <2>5. Filled(before, known) = IF before + known <= Burst THEN before + known ELSE Burst
    BY <1>3, <2>2, <2>a, FilledTo
  <2>6. /\ gone >= 0 => Filled(before, gone) = IF before + gone <= Burst THEN before + gone ELSE Burst
        /\ gone < 0 => Filled(before, gone) = IF before <= Burst THEN before ELSE Burst
    BY <1>3, <2>2, FilledTo
  <2>7. /\ more >= 0 => Filled(level, more) = IF level + more <= Burst THEN level + more ELSE Burst
        /\ more < 0 => Filled(level, more) = IF level <= Burst THEN level ELSE Burst
    BY <2>1, <2>2, FilledTo
  <2>8. Filled(tokens, ahead) = IF tokens + ahead <= Burst THEN tokens + ahead ELSE Burst
    BY <1>3, <2>2, <2>a, FilledTo
  <2>9. Filled(level, more) - cost + (IF latest >= now THEN latest - now ELSE 0) >= Filled(tokens, ahead)
    BY <1>3, <2>1, <2>2, <2>3, <2>4, <2>5, <2>6, <2>7, <2>8, Constants
  <2> QED BY <1>2, <2>9 DEF level, mark, to, more, ahead
<1>5. Filled(tokens, after.at - now) >= 0 /\ Filled(tokens, after.at - now) \in Int
  <2> DEFINE ahead == after.at - now
  <2>1. ahead \in Int /\ ahead >= 0
    BY <1>1
  <2> HIDE DEF ahead
  <2>2. Filled(tokens, ahead) = IF tokens + ahead <= Burst THEN tokens + ahead ELSE Burst
    BY <1>3, <2>1, FilledTo
  <2>3. Filled(tokens, ahead) >= 0 /\ Filled(tokens, ahead) \in Int
    BY <1>3, <2>1, <2>2, Constants
  <2> QED BY <2>3 DEF ahead
<1>6. after.level \in Int
  <2>1. now - owes.at \in Int /\ owes.level \in Int
    OBVIOUS
  <2>2. Filled(owes.level, now - owes.at) \in Int
    BY <2>1, FilledTo
  <2> QED BY <1>2, <2>2
<1> QED BY <1>1, <1>4, <1>5, <1>6 DEF Backed

LEMMA ChargeSetsUpBacked ==
  ASSUME NEW owes \in [level : Int, at : Nat],
         NEW now \in Nat, NEW cost \in Nat, latest \in Nat, owes.at <= latest, Recovering(owes),
         NEW tokens, tokens = Filled(Burst, now - now) - cost, tokens >= 0,
         NEW after, after = [level |-> Filled(owes.level, now - owes.at) - cost + Max({latest - now, 0}),
                             at |-> Max({owes.at, now})]
  PROVE  Backed([tokens |-> tokens, last |-> now], after) /\ after.level >= 0
<1>1. after.at = (IF owes.at >= now THEN owes.at ELSE now) /\ after.at \in Nat /\ after.at >= now
  BY MaxOfTwo
<1>2. after.level = Filled(owes.level, now - owes.at) - cost + (IF latest >= now THEN latest - now ELSE 0)
  BY MaxOfTwo
<1>3. tokens = Burst - cost /\ tokens \in Int
  <2>1. now - now = 0
    OBVIOUS
  <2> QED BY <2>1, FilledTo, Constants
<1>4. after.level >= Filled(tokens, after.at - now)
  <2> DEFINE level == owes.level
             mark == owes.at
             to == after.at
             more  == now - mark
             ahead == to - now
  <2>1. /\ level \in Int /\ mark \in Nat /\ to \in Nat /\ mark <= latest
        /\ to = IF mark >= now THEN mark ELSE now
    BY <1>1
  <2>2. more \in Int /\ ahead \in Int /\ level + (latest - mark) >= Burst
    BY <2>1 DEF Recovering
  <2> HIDE DEF level, mark, to
  <2>4. more = now - mark /\ ahead = to - now
    OBVIOUS
  <2>a. ahead >= 0
    BY <2>1, <2>4
  <2> HIDE DEF more, ahead
  <2>7. /\ more >= 0 => Filled(level, more) = IF level + more <= Burst THEN level + more ELSE Burst
        /\ more < 0 => Filled(level, more) = IF level <= Burst THEN level ELSE Burst
    BY <2>1, <2>2, FilledTo
  <2>8. Filled(tokens, ahead) = IF tokens + ahead <= Burst THEN tokens + ahead ELSE Burst
    BY <1>3, <2>2, <2>a, FilledTo
  <2>9. Filled(level, more) - cost + (IF latest >= now THEN latest - now ELSE 0) >= Filled(tokens, ahead)
    BY <1>3, <2>1, <2>2, <2>4, <2>7, <2>8, Constants
  <2> QED BY <1>2, <2>9 DEF level, mark, to, more, ahead
<1>5. Filled(tokens, after.at - now) >= 0 /\ Filled(tokens, after.at - now) \in Int
  <2> DEFINE ahead == after.at - now
  <2>1. ahead \in Int /\ ahead >= 0
    BY <1>1
  <2> HIDE DEF ahead
  <2>2. Filled(tokens, ahead) = IF tokens + ahead <= Burst THEN tokens + ahead ELSE Burst
    BY <1>3, <2>1, FilledTo
  <2>3. Filled(tokens, ahead) >= 0 /\ Filled(tokens, ahead) \in Int
    BY <1>3, <2>1, <2>2, Constants
  <2> QED BY <2>3 DEF ahead
<1>6. after.level \in Int
  <2>1. now - owes.at \in Int /\ owes.level \in Int
    OBVIOUS
  <2>2. Filled(owes.level, now - owes.at) \in Int
    BY <2>1, FilledTo
  <2> QED BY <1>2, <2>2
<1> QED BY <1>1, <1>4, <1>5, <1>6 DEF Backed

\* Room is made by forgetting buckets that have recovered only.
LEMMA KeptOnly ==
  ASSUME LimitTypeOK, NEW c \in Clients, NEW now \in Nat
  PROVE  /\ DOMAIN Kept(c, now) \subseteq DOMAIN clients
         /\ \A k \in DOMAIN Kept(c, now) : Kept(c, now)[k] = clients[k]
         /\ \A k \in DOMAIN clients \ DOMAIN Kept(c, now) : Recovered(clients[k], now)
         /\ c \in DOMAIN clients => c \in DOMAIN Kept(c, now)
         /\ Kept(c, now) = [k \in DOMAIN Kept(c, now) |-> Kept(c, now)[k]]
<1>1. CASE Full(clients, c)
  <2> DEFINE rest == {k \in DOMAIN clients : ~Recovered(clients[k], now)}
  <2>1. Kept(c, now) = [k \in rest |-> clients[k]]
    BY <1>1 DEF Kept, Restrict
  <2>2. c \notin DOMAIN clients
    BY <1>1 DEF Full
  <2> QED BY <2>1, <2>2
<1>2. CASE ~Full(clients, c)
  BY <1>2 DEF Kept, LimitTypeOK
<1> QED BY <1>1, <1>2

\* The wait is rounded up to whole seconds.
LEMMA RetryIsEnough ==
  ASSUME NEW short \in Int, short > 0
  PROVE  RetryAfter(short) * Second \in Int /\ RetryAfter(short) * Second >= short
<1> DEFINE over == short + Second - 1
           seconds == over \div Second
<1>1. Second \in Nat /\ Second > 0
  BY RateLimitAssumption DEF RateLimitAssumption
<1>2. over \in Int /\ over - Second = short - 1
  BY <1>1
<1> HIDE DEF over
<1>3. seconds \in Int /\ seconds * Second > over - Second
  BY <1>1, <1>2
<1> HIDE DEF seconds
<1>4. RetryAfter(short) = IF seconds >= 1 THEN seconds ELSE 1
  <2>1. Max({seconds, 1}) = IF seconds >= 1 THEN seconds ELSE 1
    BY <1>3, MaxOfTwo
  <2> QED BY <2>1 DEF RetryAfter, seconds, over
<1>5. seconds * Second \in Int /\ seconds * Second >= short
  BY <1>1, <1>2, <1>3
<1>6. seconds >= 1
  <2> SUFFICES ASSUME seconds <= 0 PROVE FALSE
    BY <1>3
  <2>1. seconds * Second <= 0
    BY <1>1, <1>3
  <2> QED BY <2>1, <1>5
<1> QED BY <1>4, <1>5, <1>6

\* A bucket that has recovered by a reading leaves its client owed a full one.
LEMMA ForgottenIsOwed ==
  ASSUME NEW owes \in [level : Int, at : Nat], NEW bucket \in [tokens : Nat, last : Nat],
         NEW now \in Nat, NEW newest \in Nat, newest >= now, newest >= owes.at,
         Backed(bucket, owes), Recovered(bucket, now)
  PROVE  owes.level + (newest - owes.at) >= Burst
<1> DEFINE level == owes.level
           mark == owes.at
           tokens == bucket.tokens
           last == bucket.last
           known == mark - last
           gone == now - last
<1>1. level \in Int /\ mark \in Nat /\ tokens \in Int /\ tokens >= 0 /\ last \in Nat /\ last <= mark /\ mark <= newest
  BY DEF Backed
<1>2. known \in Int /\ gone \in Int
  BY <1>1
<1>3. level >= Filled(tokens, known) /\ Filled(tokens, gone) >= Burst
  BY DEF Backed, Recovered
<1> HIDE DEF level, mark, tokens, last
<1>4. known = mark - last /\ known >= 0 /\ gone = now - last
  BY <1>1
<1> HIDE DEF known, gone
<1>5. Filled(tokens, known) = IF tokens + known <= Burst THEN tokens + known ELSE Burst
  BY <1>1, <1>2, <1>4, FilledTo
<1>6. /\ gone >= 0 => Filled(tokens, gone) = IF tokens + gone <= Burst THEN tokens + gone ELSE Burst
      /\ gone < 0 => Filled(tokens, gone) = IF tokens <= Burst THEN tokens ELSE Burst
  BY <1>1, <1>2, FilledTo
<1>7. level + (newest - mark) >= Burst
  BY <1>1, <1>2, <1>3, <1>4, <1>5, <1>6, Constants
<1> QED BY <1>7 DEF level, mark

\* No request was made.
LEMMA InitOwes == LimitInit => LimitInv
<1> SUFFICES ASSUME LimitInit PROVE LimitInv
  OBVIOUS
<1> USE DEF LimitInit
<1>1. LimitTypeOK
  BY Constants DEF LimitTypeOK, NoRequest, NotTold
<1>2. EachIsOwed /\ WithinTheRate
  BY Constants DEF EachIsOwed, Recovering, WithinTheRate
<1> QED BY <1>1, <1>2 DEF LimitInv

\* A charge, in its parts.
LEMMA ChargeKeeps == ASSUME LimitInv, NEW q \in Requests, Charge(q) PROVE LimitInv'
<1> DEFINE c == request[q].client
           now == request[q].now
           table == Kept(c, now)
           bucket == Bucket(table, c, now)
           tokens == Filled(bucket.tokens, now - bucket.last)
           newest == Max({latest, now})
<1>1. request[q] \in Asked /\ c \in Clients /\ now \in Nat
  BY DEF Charge, LimitInv, LimitTypeOK, Asked
<1>2. latest' = newest /\ newest = (IF latest >= now THEN latest ELSE now) /\ latest \in Nat /\ newest \in Nat
  <2>1. latest' = newest
    BY DEF Charge
  <2>2. latest \in Nat
    BY DEF LimitInv, LimitTypeOK
  <2> QED BY <1>1, <2>1, <2>2, MaxOfTwo
<1>3. /\ DOMAIN table \subseteq DOMAIN clients
      /\ \A k \in DOMAIN table : table[k] = clients[k] /\ table[k] \in [tokens : Nat, last : Nat]
      /\ \A k \in DOMAIN clients \ DOMAIN table : Recovered(clients[k], now)
      /\ c \in DOMAIN clients => c \in DOMAIN table
      /\ table = [k \in DOMAIN table |-> table[k]]
  <2>1. \A k \in DOMAIN clients : clients[k] \in [tokens : Nat, last : Nat]
    BY DEF LimitInv, LimitTypeOK
  <2> QED BY <1>1, <2>1, KeptOnly DEF LimitInv
<1>4. \* what is kept and what is forgotten is owed what it was
      ASSUME NEW k \in Clients, owed'[k] = owed[k], k \in DOMAIN clients' <=> k \in DOMAIN table,
             k \in DOMAIN table => clients'[k] = clients[k]
      PROVE  /\ owed'[k].at <= latest'
             /\ IF k \in DOMAIN clients' THEN Backed(clients'[k], owed'[k])
                ELSE owed'[k].level + (latest' - owed'[k].at) >= Burst
  <2>1. owed[k] \in [level : Int, at : Nat] /\ owed[k].at <= latest
    BY DEF LimitInv, LimitTypeOK, EachIsOwed
  <2>2. owed'[k].at <= latest'
    BY <1>1, <1>2, <1>4, <2>1
  <2>3. CASE k \in DOMAIN table
    BY <1>3, <1>4, <2>2, <2>3 DEF LimitInv, EachIsOwed
  <2>4. CASE k \in DOMAIN clients /\ k \notin DOMAIN table
    <3>1. Backed(clients[k], owed[k]) /\ clients[k] \in [tokens : Nat, last : Nat] /\ Recovered(clients[k], now)
      BY <1>3, <2>4 DEF LimitInv, LimitTypeOK, EachIsOwed
    <3>2. owed[k].level + (newest - owed[k].at) >= Burst
      BY <1>1, <1>2, <2>1, <3>1, ForgottenIsOwed
    <3> QED BY <1>2, <1>4, <2>2, <2>4, <3>2
  <2>5. CASE k \notin DOMAIN clients
    <3>1. owed[k].level + (latest - owed[k].at) >= Burst
      BY <2>5 DEF LimitInv, EachIsOwed, Recovering
    <3>2. owed[k].level + (newest - owed[k].at) >= Burst
      BY <1>1, <1>2, <2>1, <3>1, Constants
    <3> QED BY <1>2, <1>3, <1>4, <2>2, <2>5, <3>2
  <2> QED BY <2>3, <2>4, <2>5
<1>5. request' \in [Requests -> Asked \cup {NoRequest}] /\ instant' \in Nat
  BY DEF Charge, LimitInv, LimitTypeOK
<1>6. CASE Full(table, c)
  <2>1. clients' = table /\ UNCHANGED <<owed, promised>>
    BY <1>6 DEF Charge
  <2>2. clients' \in [DOMAIN clients' -> [tokens : Nat, last : Nat]] /\ DOMAIN clients' \subseteq Clients
    BY <1>3, <2>1 DEF LimitInv, LimitTypeOK
  <2>3. LimitTypeOK'
    BY <1>2, <1>5, <2>1, <2>2 DEF LimitTypeOK, LimitInv
  <2>4. EachIsOwed'
    BY <1>3, <1>4, <2>1 DEF EachIsOwed, Recovering
  <2>5. WithinTheRate'
    BY <2>1 DEF WithinTheRate, LimitInv
  <2> QED BY <2>3, <2>4, <2>5 DEF LimitInv
<1>7. ASSUME ~Full(table, c), NEW cost \in Nat, tokens - cost >= 0,
             Put(table, c, tokens - cost, now), Leaves(c, now, cost), promised' \in [Clients -> Int]
      PROVE  LimitInv'
  <2> DEFINE after == [level |-> Filled(owed[c].level, now - owed[c].at) - cost + Max({latest - now, 0}),
                       at |-> Max({owed[c].at, now})]
             left == tokens - cost
             set == [tokens |-> left, last |-> now]
  <2>1. owed[c] \in [level : Int, at : Nat] /\ owed[c].at <= latest
    BY <1>1 DEF LimitInv, LimitTypeOK, EachIsOwed
  <2>2. owed' = [owed EXCEPT ![c] = after]
    BY <1>7 DEF Leaves
  <2>3. /\ DOMAIN clients' = DOMAIN table \cup {c} /\ clients'[c] = set
        /\ \A k \in DOMAIN table : k # c => clients'[k] = table[k]
        /\ clients' = [k \in DOMAIN table \cup {c} |-> IF k = c THEN set ELSE table[k]]
    BY <1>7 DEF Put
  <2>4. Backed(set, after) /\ after.level >= 0
    <3>1. CASE c \in DOMAIN table
      <4>1. bucket = clients[c] /\ bucket.tokens \in Nat /\ bucket.last \in Nat
        BY <1>3, <3>1 DEF Bucket
      <4>2. Backed(bucket, owed[c])
        BY <1>1, <1>3, <3>1, <4>1 DEF LimitInv, EachIsOwed
      <4>3. bucket.last <= owed[c].at /\ owed[c].level >= Filled(bucket.tokens, owed[c].at - bucket.last)
        BY <4>2 DEF Backed
      <4>4. left = Filled(bucket.tokens, now - bucket.last) - cost /\ left >= 0
        BY <1>7
      <4> DEFINE asked == owed[c]
                 before == bucket.tokens
                 last == bucket.last
                 read == now
      <4>5. /\ asked \in [level : Int, at : Nat] /\ last \in Nat /\ before \in Nat /\ read \in Nat
            /\ latest \in Nat /\ asked.at <= latest
            /\ last <= asked.at /\ asked.level >= Filled(before, asked.at - last)
            /\ left = Filled(before, read - last) - cost
            /\ after = [level |-> Filled(asked.level, read - asked.at) - cost + Max({latest - read, 0}),
                        at |-> Max({asked.at, read})]
            /\ set = [tokens |-> left, last |-> read]
        BY <1>1, <1>2, <2>1, <4>1, <4>3, <4>4
      <4>6. left >= 0 /\ cost \in Nat
        BY <1>7, <4>4
      <4> HIDE DEF asked, before, last, read, left, after, set
      <4>7. Backed([tokens |-> left, last |-> read], after) /\ after.level >= 0
        <5>1. Charging(asked, last, before, read, cost, left, after)
          BY <4>5, <4>6 DEF Charging
        <5> QED BY <5>1, ChargeKeepsBacked
      <4> QED BY <4>5, <4>7
    <3>2. CASE c \notin DOMAIN table
      <4>1. bucket.tokens = Burst /\ bucket.last = now
        BY <3>2 DEF Bucket
      <4>2. c \in Clients /\ c \notin DOMAIN clients
        BY <1>1, <1>3, <3>2
      <4>3. Recovering(owed[c])
        BY <4>2 DEF LimitInv, EachIsOwed
      <4> QED BY <4>3, <1>1, <1>2, <1>7, <2>1, <4>1, ChargeSetsUpBacked
    <3> QED BY <3>1, <3>2
  <2>5. after \in [level : Int, at : Nat]
    <3>1. owed[c].level \in Int /\ now - owed[c].at \in Int
      BY <1>1, <2>1
    <3>2. Filled(owed[c].level, now - owed[c].at) \in Int
      BY <3>1, FilledTo
    <3>3. Max({latest - now, 0}) \in Int /\ Max({owed[c].at, now}) \in Nat
      <4>1. PICK gap : gap = latest - now
        OBVIOUS
      <4>2. gap \in Int /\ owed[c].at \in Nat /\ now \in Nat
        BY <1>1, <1>2, <2>1, <4>1
      <4>3. Max({gap, 0}) \in Int /\ Max({owed[c].at, now}) \in Nat
        BY <4>2, MaxOfTwo
      <4> QED BY <4>1, <4>3
    <3> QED BY <1>7, <3>2, <3>3
  <2>6. set \in [tokens : Nat, last : Nat]
    <3>1. bucket.tokens \in Int /\ now - bucket.last \in Int
      BY <1>1, <1>3, Constants DEF Bucket
    <3>2. tokens \in Int
      BY <3>1, FilledTo
    <3>3. left \in Nat
      BY <1>7, <3>2
    <3> QED BY <1>1, <3>3
  <2> HIDE DEF after, set
  <2>7. owed' \in [Clients -> [level : Int, at : Nat]] /\ owed'[c] = after
        /\ \A k \in Clients : k # c => owed'[k] = owed[k]
    BY <1>1, <2>2, <2>5 DEF LimitInv, LimitTypeOK
  <2>8. clients' \in [DOMAIN clients' -> [tokens : Nat, last : Nat]] /\ DOMAIN clients' \subseteq Clients
    BY <1>1, <1>3, <2>3, <2>6 DEF LimitInv, LimitTypeOK
  <2>9. LimitTypeOK'
    BY <1>2, <1>5, <1>7, <2>7, <2>8 DEF LimitTypeOK
  <2>10. after.at <= newest
    <3>1. after.at = Max({owed[c].at, now})
      BY DEF after
    <3>2. owed[c].at \in Nat /\ owed[c].at <= latest /\ now \in Nat /\ latest \in Nat
      BY <1>1, <1>2, <2>1
    <3>3. PICK until \in Nat, reads \in Nat : until = owed[c].at /\ reads = now
      BY <3>2
    <3>4. Max({until, reads}) = IF until >= reads THEN until ELSE reads
      BY MaxOfTwo
    <3>5. QED
      BY <1>2, <3>1, <3>2, <3>3, <3>4
  <2>11. EachIsOwed'
    <3> SUFFICES ASSUME NEW k \in Clients
                 PROVE  /\ owed'[k].at <= latest'
                        /\ IF k \in DOMAIN clients' THEN Backed(clients'[k], owed'[k])
                           ELSE owed'[k].level + (latest' - owed'[k].at) >= Burst
      BY DEF EachIsOwed, Recovering, Backed, Filled
    <3>1. CASE k = c
      BY <1>2, <2>3, <2>4, <2>7, <2>10, <3>1
    <3>2. CASE k # c
      <4>1. owed'[k] = owed[k]
        BY <2>7, <3>2
      <4>2. k \in DOMAIN clients' <=> k \in DOMAIN table
        BY <2>3, <3>2
      <4>3. k \in DOMAIN table => clients'[k] = clients[k]
        BY <1>3, <2>3, <3>2
      <4> QED BY <1>4, <4>1, <4>2, <4>3
    <3> QED BY <3>1, <3>2
  <2>12. WithinTheRate'
    BY <2>4, <2>7 DEF WithinTheRate, LimitInv
  <2> QED BY <2>9, <2>11, <2>12 DEF LimitInv
<1>8. CASE ~Full(table, c)
  <2>1. tokens \in Int /\ tokens >= 0
    <3> DEFINE held == bucket.tokens
               gone == now - bucket.last
    <3>1. held \in Int /\ held >= 0 /\ gone \in Int
      BY <1>1, <1>3, Constants DEF Bucket
    <3> HIDE DEF held, gone
    <3>2. /\ gone >= 0 => Filled(held, gone) = IF held + gone <= Burst THEN held + gone ELSE Burst
          /\ gone < 0 => Filled(held, gone) = IF held <= Burst THEN held ELSE Burst
      BY <3>1, FilledTo
    <3>3. Filled(held, gone) \in Int /\ Filled(held, gone) >= 0
      BY <3>1, <3>2, Constants
    <3> QED BY <3>3 DEF held, gone
  <2>2. CASE tokens >= Token
    <3>1. Put(table, c, tokens - Token, now) /\ Leaves(c, now, Token)
      BY <1>8, <2>2 DEF Charge
    <3>2. promised' \in [Clients -> Int]
      BY <1>8, <2>2 DEF Charge, NotTold, LimitInv, LimitTypeOK
    <3>3. tokens - Token >= 0
      BY <2>1, <2>2, Constants
    <3> QED BY <1>7, <1>8, <3>1, <3>2, <3>3, Constants
  <2>3. CASE ~(tokens >= Token)
    <3>1. Put(table, c, tokens, now) /\ Leaves(c, now, 0)
      BY <1>8, <2>3 DEF Charge
    <3>2. promised' = [promised EXCEPT ![c] = now + RetryAfter(Token - tokens) * Second]
      BY <1>8, <2>3 DEF Charge
    <3>3. RetryAfter(Token - tokens) * Second \in Int
      <4>1. Token - tokens \in Int /\ Token - tokens > 0
        BY <2>1, <2>3, Constants
      <4> QED BY <4>1, RetryIsEnough
    <3>4. promised' \in [Clients -> Int]
      BY <1>1, <3>2, <3>3 DEF LimitInv, LimitTypeOK
    <3>5. tokens >= 0 /\ tokens - 0 = tokens
      BY <2>1
    <3> QED BY <1>7, <1>8, <3>1, <3>4, <3>5
  <2> QED BY <2>2, <2>3
<1> QED BY <1>6, <1>8

LEMMA LimitNextKeeps == LimitInv /\ [LimitNext]_limit => LimitInv'
<1> SUFFICES ASSUME LimitInv, [LimitNext]_limit PROVE LimitInv'
  OBVIOUS
<1> USE DEF LimitInv
<1>1. CASE Tick
  BY <1>1 DEF Tick, LimitTypeOK, EachIsOwed, Recovering, WithinTheRate
<1>2. ASSUME NEW q \in Requests, NEW c \in Clients, Ask(q, c) PROVE LimitInv'
  <2>1. request' \in [Requests -> Asked \cup {NoRequest}]
    BY <1>2 DEF Ask, LimitTypeOK, Asked
  <2> QED BY <1>2, <2>1 DEF Ask, LimitTypeOK, EachIsOwed, Recovering, WithinTheRate
<1>3. CASE UNCHANGED limit
  BY <1>3 DEF limit, LimitTypeOK, EachIsOwed, Recovering, WithinTheRate
<1> QED BY <1>1, <1>2, <1>3, ChargeKeeps DEF LimitNext

\* Whatever a client asks, in whatever order its requests reach the lock, and
\* whoever is forgotten for want of room: it gets no more than its burst and the
\* rate allow.
THEOREM RateHolds == LimitSpec => []WithinTheRate
<1>1. LimitInv => WithinTheRate
  BY DEF LimitInv
<1> QED BY InitOwes, LimitNextKeeps, <1>1, PTL DEF LimitSpec

(***************************************************************************)
(* A refused request.                                                      *)
(***************************************************************************)
\* By the moment a client was told to come back its bucket holds a token, if
\* it is still there.
KeepsItsWord ==
  \A c \in DOMAIN clients :
    promised[c] # NotTold =>
      /\ clients[c].last <= promised[c]
      /\ clients[c].tokens + (promised[c] - clients[c].last) >= Token

\* Whose bucket is there and who was told to come back by now is let in.
LEMMA WordIsKept ==
  ASSUME LimitInv, KeepsItsWord, NEW q \in Requests, Charge(q)
  PROVE  LET c   == request[q].client
             now == request[q].now
         IN /\ KeepsItsWord'
            /\ promised[c] # NotTold /\ now >= promised[c] /\ ~Full(Kept(c, now), c) => promised'[c] = NotTold
<1> DEFINE c == request[q].client
           now == request[q].now
           table == Kept(c, now)
           bucket == Bucket(table, c, now)
           held == bucket.tokens
           gone == now - bucket.last
           tokens == Filled(held, gone)
<1>1. request[q] \in Asked /\ c \in Clients /\ now \in Nat
  BY DEF Charge, LimitInv, LimitTypeOK, Asked
<1>2. /\ DOMAIN table \subseteq DOMAIN clients
      /\ \A k \in DOMAIN table : table[k] = clients[k] /\ table[k] \in [tokens : Nat, last : Nat]
  <2>1. \A k \in DOMAIN clients : clients[k] \in [tokens : Nat, last : Nat]
    BY DEF LimitInv, LimitTypeOK
  <2> QED BY <1>1, <2>1, KeptOnly DEF LimitInv
<1>3. held \in Int /\ held >= 0 /\ bucket.last \in Nat /\ gone \in Int
  BY <1>1, <1>2, Constants DEF Bucket
<1>4. /\ tokens \in Int
      /\ gone >= 0 => tokens = IF held + gone <= Burst THEN held + gone ELSE Burst
      /\ gone < 0 => tokens = IF held <= Burst THEN held ELSE Burst
  BY <1>3, FilledTo
<1>5. promised \in [Clients -> Int]
  BY DEF LimitInv, LimitTypeOK
<1>6. \A k \in DOMAIN clients : k \in Clients
  BY DEF LimitInv, LimitTypeOK
<1>7. CASE Full(table, c)
  <2>1. clients' = table /\ promised' = promised
    BY <1>7 DEF Charge
  <2> QED BY <1>2, <1>7, <2>1 DEF KeepsItsWord
<1>8. CASE ~Full(table, c) /\ tokens >= Token
  <2>1. Put(table, c, tokens - Token, now) /\ promised' = [promised EXCEPT ![c] = NotTold]
    BY <1>8 DEF Charge
  <2>2. promised'[c] = NotTold /\ \A k \in Clients : k # c => promised'[k] = promised[k]
    BY <1>1, <1>5, <2>1
  <2>3. \A k \in DOMAIN clients' : k # c => k \in DOMAIN table /\ clients'[k] = table[k]
    BY <2>1 DEF Put
  <2>4. KeepsItsWord'
    BY <1>2, <1>6, <2>2, <2>3 DEF KeepsItsWord
  <2> QED BY <2>2, <2>4
<1>9. CASE ~Full(table, c) /\ ~(tokens >= Token)
  <2> DEFINE short == Token - tokens
             then == now + RetryAfter(short) * Second
  <2>1. Put(table, c, tokens, now) /\ promised' = [promised EXCEPT ![c] = then]
    BY <1>9 DEF Charge
  <2>2. short \in Int /\ short > 0
    BY <1>4, <1>9, Constants
  <2>3. RetryAfter(short) * Second \in Int /\ RetryAfter(short) * Second >= short
    BY <2>2, RetryIsEnough
  <2>4. then \in Int /\ now <= then /\ tokens + (then - now) >= Token
    BY <1>1, <1>4, <2>2, <2>3, Constants
  <2> HIDE DEF then
  <2>5. promised'[c] = then /\ \A k \in Clients : k # c => promised'[k] = promised[k]
    BY <1>1, <1>5, <2>1
  <2>6. /\ \A k \in DOMAIN clients' : k # c => k \in DOMAIN table /\ clients'[k] = table[k]
        /\ clients'[c].last = now /\ clients'[c].tokens = tokens
    BY <2>1 DEF Put
  <2>7. KeepsItsWord'
    BY <1>2, <1>6, <2>4, <2>5, <2>6 DEF KeepsItsWord
  \* It was told to come back later than now, or it would have had a token.
  <2>8. promised[c] # NotTold => ~(now >= promised[c])
    <3> SUFFICES ASSUME promised[c] # NotTold, now >= promised[c] PROVE FALSE
      OBVIOUS
    <3> HIDE DEF bucket, tokens
    <3>1. CASE c \in DOMAIN table
      <4>1. bucket = clients[c] /\ c \in DOMAIN clients
        BY <1>2, <3>1 DEF Bucket, bucket
      <4>2. bucket.last <= promised[c] /\ held + (promised[c] - bucket.last) >= Token
        BY <4>1 DEF KeepsItsWord
      <4> QED BY <1>1, <1>3, <1>4, <1>5, <1>9, <4>2, Constants
    <3>2. CASE c \notin DOMAIN table
      <4>1. held = Burst /\ bucket.last = now
        BY <3>2 DEF Bucket, bucket
      <4> QED BY <1>1, <1>3, <1>4, <1>9, <4>1, Constants
    <3> QED BY <3>1, <3>2
  <2> QED BY <2>7, <2>8
<1> QED BY <1>7, <1>8, <1>9

\* However requests overtake each other: a client that comes back when it was
\* told to has a token by then, if the table has room for it.
THEOREM RetryHelps == LimitSpec => ComingBackHelps
<1>1. LimitInit => KeepsItsWord
  BY DEF LimitInit, KeepsItsWord
<1>2. LimitInv /\ KeepsItsWord /\ [LimitNext]_limit => KeepsItsWord'
  <2> SUFFICES ASSUME LimitInv, KeepsItsWord, [LimitNext]_limit PROVE KeepsItsWord'
    OBVIOUS
  <2>1. CASE Tick
    BY <2>1 DEF Tick, KeepsItsWord
  <2>2. ASSUME NEW q \in Requests, NEW c \in Clients, Ask(q, c) PROVE KeepsItsWord'
    BY <2>2 DEF Ask, KeepsItsWord
  <2>3. ASSUME NEW q \in Requests, Charge(q) PROVE KeepsItsWord'
    BY <2>3, WordIsKept
  <2>4. CASE UNCHANGED limit
    BY <2>4 DEF limit, KeepsItsWord
  <2> QED BY <2>1, <2>2, <2>3, <2>4 DEF LimitNext
<1>3. LimitInv /\ KeepsItsWord /\ [LimitNext]_limit =>
        [\A q \in Requests :
           LET r == request[q]
           IN /\ Charge(q)
              /\ promised[r.client] # NotTold
              /\ r.now >= promised[r.client]
              /\ ~Full(Kept(r.client, r.now), r.client)
              => promised'[r.client] = NotTold]_limit
  BY WordIsKept
<1> QED BY <1>1, <1>2, <1>3, InitOwes, LimitNextKeeps, PTL DEF LimitSpec, ComingBackHelps

(***************************************************************************)
(* Years.                                                                  *)
(***************************************************************************)
\* The days before a year of an era of 400 years, which begin in March, and its year by a day.
DaysBefore(year) == 365 * year + year \div 4 - year \div 100 + year \div 400
YearOfEra(doe) == (doe - doe \div 1460 + doe \div 36524 - doe \div 146096) \div 365

\* What the provers need to know of the divisions in civil_from_days.
LEMMA Division ==
  ASSUME NEW n \in Int
  PROVE  /\ n \div 4 \in Int /\ 4 * (n \div 4) <= n /\ n < 4 * (n \div 4) + 4
         /\ n \div 100 \in Int /\ 100 * (n \div 100) <= n /\ n < 100 * (n \div 100) + 100
         /\ n \div 400 \in Int /\ 400 * (n \div 400) <= n /\ n < 400 * (n \div 400) + 400
         /\ n \div 365 \in Int /\ 365 * (n \div 365) <= n /\ n < 365 * (n \div 365) + 365
         /\ n \div 1460 \in Int /\ 1460 * (n \div 1460) <= n /\ n < 1460 * (n \div 1460) + 1460
         /\ n \div 36524 \in Int /\ 36524 * (n \div 36524) <= n /\ n < 36524 * (n \div 36524) + 36524
         /\ n \div 146096 \in Int /\ 146096 * (n \div 146096) <= n /\ n < 146096 * (n \div 146096) + 146096
OBVIOUS

\* A year found by its day has begun by that day,
LEMMA YearBegan ==
  ASSUME NEW d \in Int, NEW a \in Int, NEW b \in Int, NEW e \in Int, NEW y \in Int, NEW p \in Int, NEW q \in Int,
         0 <= d, d <= 146096,
         1460 * a <= d, d < 1460 * a + 1460,
         36524 * b <= d, d < 36524 * b + 36524,
         146096 * e <= d, d < 146096 * e + 146096,
         365 * y <= d - a + b - e, d - a + b - e < 365 * y + 365,
         4 * p <= y, y < 4 * p + 4,
         100 * q <= y, y < 100 * q + 100
  PROVE  0 <= y /\ y <= 399 /\ 365 * y + p - q <= d
OBVIOUS

\* and is not over.
LEMMA YearNotOver ==
  ASSUME NEW d \in Int, NEW a \in Int, NEW b \in Int, NEW e \in Int, NEW y \in Int, NEW p \in Int, NEW q \in Int, NEW r \in Int,
         0 <= d, d <= 146096, 0 <= y, y <= 399,
         1460 * a <= d, d < 1460 * a + 1460,
         36524 * b <= d, d < 36524 * b + 36524,
         146096 * e <= d, d < 146096 * e + 146096,
         365 * y <= d - a + b - e, d - a + b - e < 365 * y + 365,
         4 * p <= y + 1, y + 1 < 4 * p + 4,
         100 * q <= y + 1, y + 1 < 100 * q + 100,
         400 * r <= y + 1, y + 1 < 400 * r + 400
  PROVE  d < 365 * y + 365 + p - q + r
OBVIOUS

\* YearOfEra finds the year of each day of an era.
LEMMA YearOfDay ==
  ASSUME NEW doe \in Int, 0 <= doe, doe <= 146096
  PROVE  /\ YearOfEra(doe) \in Int /\ 0 <= YearOfEra(doe) /\ YearOfEra(doe) <= 399
         /\ DaysBefore(YearOfEra(doe)) <= doe
         /\ doe < DaysBefore(YearOfEra(doe) + 1)
<1>1. PICK a, b, e : a = doe \div 1460 /\ b = doe \div 36524 /\ e = doe \div 146096
  OBVIOUS
<1>2. /\ a \in Int /\ 1460 * a <= doe /\ doe < 1460 * a + 1460
      /\ b \in Int /\ 36524 * b <= doe /\ doe < 36524 * b + 36524
      /\ e \in Int /\ 146096 * e <= doe /\ doe < 146096 * e + 146096
  <2>1. doe \in Int
    OBVIOUS
  <2> QED BY <1>1, <2>1, Division
<1>3. PICK n : n = doe - a + b - e
  OBVIOUS
<1>4. n \in Int
  BY <1>2, <1>3
<1>5. PICK y : y = YearOfEra(doe)
  OBVIOUS
<1>6. y \in Int /\ 365 * y <= n /\ n < 365 * y + 365
  <2>1. y = n \div 365
    BY <1>1, <1>3, <1>5 DEF YearOfEra
  <2> QED BY <2>1, <1>4, Division
<1>7. PICK p, q : p = y \div 4 /\ q = y \div 100
  OBVIOUS
<1>8. /\ p \in Int /\ 4 * p <= y /\ y < 4 * p + 4
      /\ q \in Int /\ 100 * q <= y /\ y < 100 * q + 100
  BY <1>6, <1>7, Division
<1>9. 0 <= y /\ y <= 399 /\ 365 * y + p - q <= doe
  BY <1>2, <1>3, <1>6, <1>8, YearBegan
<1>10. y \div 400 = 0
  BY <1>6, <1>9
<1>11. DaysBefore(y) <= doe
  BY <1>7, <1>8, <1>9, <1>10, <1>6 DEF DaysBefore
<1>12. PICK s, t, r : s = (y + 1) \div 4 /\ t = (y + 1) \div 100 /\ r = (y + 1) \div 400
  OBVIOUS
<1>13. /\ s \in Int /\ 4 * s <= y + 1 /\ y + 1 < 4 * s + 4
       /\ t \in Int /\ 100 * t <= y + 1 /\ y + 1 < 100 * t + 100
       /\ r \in Int /\ 400 * r <= y + 1 /\ y + 1 < 400 * r + 400
  <2>1. PICK z : z = y + 1
    OBVIOUS
  <2>2. z \in Int
    BY <1>6, <2>1
  <2> QED BY <2>1, <2>2, <1>12, Division
<1>14. doe < 365 * y + 365 + s - t + r
  BY <1>2, <1>3, <1>6, <1>9, <1>13, YearNotOver
<1>15. DaysBefore(y + 1) = 365 * y + 365 + s - t + r
  BY <1>6, <1>12, <1>13 DEF DaysBefore
<1> QED BY <1>5, <1>6, <1>9, <1>11, <1>14, <1>15

\* Years of an era begin one after the other.
LEMMA YearsInOrder ==
  ASSUME NEW a \in Int, NEW b \in Int, a < b
  PROVE  DaysBefore(a + 1) <= DaysBefore(b)
<1>1. PICK z : z = a + 1
  OBVIOUS
<1>2. z \in Int /\ z <= b
  BY <1>1
<1>3. PICK p, q, r, s, t, u : /\ p = z \div 4 /\ q = z \div 100 /\ r = z \div 400
                              /\ s = b \div 4 /\ t = b \div 100 /\ u = b \div 400
  OBVIOUS
<1>4. /\ p \in Int /\ 4 * p <= z /\ z < 4 * p + 4
      /\ q \in Int /\ 100 * q <= z /\ z < 100 * q + 100
      /\ r \in Int /\ 400 * r <= z /\ z < 400 * r + 400
  BY <1>2, <1>3, Division
<1>5. /\ s \in Int /\ 4 * s <= b /\ b < 4 * s + 4
      /\ t \in Int /\ 100 * t <= b /\ b < 100 * t + 100
      /\ u \in Int /\ 400 * u <= b /\ b < 400 * u + 400
  BY <1>3, Division
<1>6. 365 * z + p - q + r <= 365 * b + s - t + u
  BY <1>2, <1>4, <1>5
<1> QED BY <1>1, <1>3, <1>6 DEF DaysBefore

\* The year of an era that a day is in is the only one around it.
LEMMA OneYear ==
  ASSUME NEW day \in Int, NEW a \in Int, NEW b \in Int,
         DaysBefore(a) <= day, day < DaysBefore(a + 1),
         DaysBefore(b) <= day, day < DaysBefore(b + 1)
  PROVE  a = b
<1>1. /\ DaysBefore(a) \in Int /\ DaysBefore(a + 1) \in Int
      /\ DaysBefore(b) \in Int /\ DaysBefore(b + 1) \in Int
  BY DEF DaysBefore
<1>2. CASE a < b
  BY <1>1, <1>2, YearsInOrder
<1>3. CASE b < a
  BY <1>1, <1>3, YearsInOrder
<1> QED BY <1>2, <1>3

\* A year that begins in March ends with the February of the next.
LEMMA LengthOfYear ==
  ASSUME NEW year \in Int
  PROVE  DaysBefore(year + 1) - DaysBefore(year) = IF IsLeap(year + 1) THEN 366 ELSE 365
<1>1. PICK z : z = year + 1
  OBVIOUS
<1>2. z \in Int /\ year = z - 1
  BY <1>1
<1>3. PICK p, q, r, s, t, u : /\ p = z \div 4 /\ q = z \div 100 /\ r = z \div 400
                              /\ s = year \div 4 /\ t = year \div 100 /\ u = year \div 400
  OBVIOUS
<1>4. /\ p \in Int /\ 4 * p <= z /\ z < 4 * p + 4
      /\ q \in Int /\ 100 * q <= z /\ z < 100 * q + 100
      /\ r \in Int /\ 400 * r <= z /\ z < 400 * r + 400
  BY <1>2, <1>3, Division
<1>5. /\ s \in Int /\ 4 * s <= year /\ year < 4 * s + 4
      /\ t \in Int /\ 100 * t <= year /\ year < 100 * t + 100
      /\ u \in Int /\ 400 * u <= year /\ year < 400 * u + 400
  BY <1>3, Division
<1>6. /\ z % 4 = 0 <=> p = s + 1
      /\ z % 100 = 0 <=> q = t + 1
      /\ z % 400 = 0 <=> r = u + 1
  <2>1. z % 4 = z - 4 * p /\ z % 100 = z - 100 * q /\ z % 400 = z - 400 * r
    BY <1>2, <1>3
  <2>2. z % 4 = 0 <=> p = s + 1
    BY <1>2, <1>4, <1>5, <2>1
  <2>3. z % 100 = 0 <=> q = t + 1
    BY <1>2, <1>4, <1>5, <2>1
  <2>4. z % 400 = 0 <=> r = u + 1
    BY <1>2, <1>4, <1>5, <2>1
  <2> QED BY <2>2, <2>3, <2>4
<1>7. /\ p = s + 1 \/ p = s
      /\ q = t + 1 \/ q = t
      /\ r = u + 1 \/ r = u
      /\ r = u + 1 => q = t + 1
      /\ q = t + 1 => p = s + 1
  BY <1>2, <1>4, <1>5
<1>8. DaysBefore(z) - DaysBefore(year) = 365 + (p - s) - (q - t) + (r - u)
  BY <1>2, <1>3, <1>4, <1>5 DEF DaysBefore
<1>9. IsLeap(z) <=> (p = s + 1 /\ (q = t \/ r = u + 1))
  BY <1>4, <1>5, <1>6, <1>7 DEF IsLeap
<1> QED BY <1>1, <1>4, <1>5, <1>7, <1>8, <1>9

(***************************************************************************)
(* Months.                                                                 *)
(***************************************************************************)
\* A year that begins in March: the days before its months, and their names.
DaysBeforeMonth(month) == (153 * month + 2) \div 5
NameOf(month) == IF month < 10 THEN month + 3 ELSE month - 9

\* The days before each month of a year that begins in March.
LEMMA MonthsAre ==
  /\ DaysBeforeMonth(0) = 0   /\ DaysBeforeMonth(1) = 31  /\ DaysBeforeMonth(2) = 61   /\ DaysBeforeMonth(3) = 92
  /\ DaysBeforeMonth(4) = 122 /\ DaysBeforeMonth(5) = 153 /\ DaysBeforeMonth(6) = 184  /\ DaysBeforeMonth(7) = 214
  /\ DaysBeforeMonth(8) = 245 /\ DaysBeforeMonth(9) = 275 /\ DaysBeforeMonth(10) = 306 /\ DaysBeforeMonth(11) = 337
  /\ DaysBeforeMonth(12) = 367
BY DEF DaysBeforeMonth

\* Every day of such a year is in one of its months.
LEMMA MonthOfDay ==
  ASSUME NEW doy \in Int, 0 <= doy, doy <= 365
  PROVE  \E month \in Int : /\ 0 <= month /\ month <= 11
                            /\ DaysBeforeMonth(month) <= doy /\ doy < DaysBeforeMonth(month + 1)
<1>1. PICK m : m = (5 * doy + 2) \div 153
  OBVIOUS
<1>2. m \in Int /\ 153 * m <= 5 * doy + 2 /\ 5 * doy + 2 < 153 * m + 153
  BY <1>1
<1>3. PICK f, g : f = DaysBeforeMonth(m) /\ g = DaysBeforeMonth(m + 1)
  OBVIOUS
<1>4. f \in Int /\ 5 * f <= 153 * m + 2 /\ 153 * m + 2 < 5 * f + 5
  BY <1>2, <1>3 DEF DaysBeforeMonth
<1>5. g \in Int /\ 5 * g <= 153 * m + 155 /\ 153 * m + 155 < 5 * g + 5
  <2>1. 153 * (m + 1) + 2 = 153 * m + 155
    BY <1>2
  <2> QED BY <1>2, <1>3, <2>1 DEF DaysBeforeMonth
<1>6. 0 <= m /\ m <= 11 /\ f <= doy /\ doy < g
  BY <1>2, <1>4, <1>5
<1> QED BY <1>2, <1>3, <1>6

\* civil_from_days finds that month.
LEMMA MonthIs ==
  ASSUME NEW doy \in Int, NEW month \in Int,
         DaysBeforeMonth(month) <= doy, doy < DaysBeforeMonth(month + 1)
  PROVE  (5 * doy + 2) \div 153 = month
<1>1. PICK f, g : f = DaysBeforeMonth(month) /\ g = DaysBeforeMonth(month + 1)
  OBVIOUS
<1>2. f \in Int /\ 5 * f <= 153 * month + 2 /\ 153 * month + 2 < 5 * f + 5
  BY <1>1 DEF DaysBeforeMonth
<1>3. g \in Int /\ 5 * g <= 153 * month + 155 /\ 153 * month + 155 < 5 * g + 5
  <2>1. 153 * (month + 1) + 2 = 153 * month + 155
    OBVIOUS
  <2> QED BY <1>1, <2>1 DEF DaysBeforeMonth
<1>4. 153 * month <= 5 * doy + 2 /\ 5 * doy + 2 < 153 * month + 153
  BY <1>1, <1>2, <1>3
<1> QED BY <1>4

\* Months but February, the last, are as long as those of the calendar.
LEMMA LengthOfMonth ==
  ASSUME NEW month \in Int, 0 <= month, month <= 10, NEW year \in Int
  PROVE  LastOf(year, NameOf(month)) = DaysBeforeMonth(month + 1) - DaysBeforeMonth(month)
<1>1. \/ month = 0 \/ month = 1 \/ month = 2 \/ month = 3 \/ month = 4 \/ month = 5
      \/ month = 6 \/ month = 7 \/ month = 8 \/ month = 9 \/ month = 10
  OBVIOUS
<1> QED BY <1>1, MonthsAre DEF LastOf, NameOf

(***************************************************************************)
(* Dates.                                                                  *)
(***************************************************************************)
\* The date of a day of a year of an era, months beginning in March.
DateAt(year, doy, weekday) ==
  LET month == (5 * doy + 2) \div 153
  IN [year    |-> IF month < 10 THEN year ELSE year + 1,
      month   |-> NameOf(month),
      day     |-> doy - DaysBeforeMonth(month) + 1,
      weekday |-> weekday]

\* The date of a day in its month.
LEMMA DateIs ==
  ASSUME NEW year \in Int, NEW doy \in Int, NEW weekday, NEW month \in Int,
         DaysBeforeMonth(month) <= doy, doy < DaysBeforeMonth(month + 1)
  PROVE  DateAt(year, doy, weekday) =
           [year    |-> IF month < 10 THEN year ELSE year + 1,
            month   |-> NameOf(month),
            day     |-> doy - DaysBeforeMonth(month) + 1,
            weekday |-> weekday]
<1>1. (5 * doy + 2) \div 153 = month
  BY MonthIs
<1> QED BY <1>1 DEF DateAt

\* The day after one that is not the last of its year.
LEMMA SameYear ==
  ASSUME NEW year \in Int, NEW doy \in Int, 0 <= doy, NEW weekday,
         doy + 1 < IF IsLeap(year + 1) THEN 366 ELSE 365
  PROVE  Tomorrow(DateAt(year, doy, weekday)) = DateAt(year, doy + 1, (weekday + 1) % 7)
<1>1. PICK m \in Int : 0 <= m /\ m <= 11 /\ DaysBeforeMonth(m) <= doy /\ doy < DaysBeforeMonth(m + 1)
  BY MonthOfDay
<1>2. PICK f, g : f = DaysBeforeMonth(m) /\ g = DaysBeforeMonth(m + 1)
  OBVIOUS
<1>3. f \in Int /\ g \in Int
  BY <1>1, <1>2 DEF DaysBeforeMonth
<1>4. DateAt(year, doy, weekday) =
        [year |-> IF m < 10 THEN year ELSE year + 1, month |-> NameOf(m), day |-> doy - f + 1, weekday |-> weekday]
  BY <1>1, <1>2, DateIs
<1>5. CASE doy + 1 < g
  <2>1. DateAt(year, doy + 1, (weekday + 1) % 7) =
          [year |-> IF m < 10 THEN year ELSE year + 1, month |-> NameOf(m), day |-> doy + 1 - f + 1, weekday |-> (weekday + 1) % 7]
    <3>1. PICK d, w : d = doy + 1 /\ w = (weekday + 1) % 7
      OBVIOUS
    <3>2. d \in Int /\ DaysBeforeMonth(m) <= d /\ d < DaysBeforeMonth(m + 1)
      BY <1>1, <1>2, <1>3, <1>5, <3>1
    <3>3. DateAt(year, d, w) =
            [year |-> IF m < 10 THEN year ELSE year + 1, month |-> NameOf(m), day |-> d - DaysBeforeMonth(m) + 1, weekday |-> w]
      BY <1>1, <3>2, DateIs
    <3>4. d - DaysBeforeMonth(m) + 1 = doy + 1 - f + 1
      BY <1>2, <1>3, <3>1
    <3> QED BY <3>1, <3>3, <3>4
  <2>2. doy - f + 1 < LastOf(IF m < 10 THEN year ELSE year + 1, NameOf(m))
    <3>1. CASE m = 11
      BY <3>1, <1>1, <1>2, <1>3, MonthsAre DEF NameOf, LastOf
    <3>2. CASE m # 11
      BY <3>2, <1>1, <1>2, <1>3, <1>5, LengthOfMonth
    <3> QED BY <3>1, <3>2
  <2>3. ~(NameOf(m) = 12 /\ doy - f + 1 = 31)
    <3>1. ASSUME NameOf(m) = 12 PROVE m = 9
      BY <3>1, <1>1 DEF NameOf
    <3> QED BY <3>1, <1>2, <1>3, <1>5, MonthsAre
  <2> QED BY <1>3, <1>4, <2>1, <2>2, <2>3 DEF Tomorrow
<1>6. CASE doy + 1 >= g
  <2>1. m # 11
    BY <1>1, <1>2, <1>6, MonthsAre
  <2>2. doy + 1 = g
    BY <1>1, <1>2, <1>3, <1>6
  <2>3. PICK h : h = DaysBeforeMonth(m + 2)
    OBVIOUS
  <2>4. \/ m = 0 \/ m = 1 \/ m = 2 \/ m = 3 \/ m = 4 \/ m = 5
        \/ m = 6 \/ m = 7 \/ m = 8 \/ m = 9 \/ m = 10
    BY <1>1, <2>1
  <2>5. g < h
    BY <1>2, <2>3, <2>4, MonthsAre
  <2>6. DateAt(year, doy + 1, (weekday + 1) % 7) =
          [year |-> IF m + 1 < 10 THEN year ELSE year + 1, month |-> NameOf(m + 1), day |-> 1, weekday |-> (weekday + 1) % 7]
    <3>1. PICK n, d, w : n = m + 1 /\ d = doy + 1 /\ w = (weekday + 1) % 7
      OBVIOUS
    <3>2. n \in Int /\ m + 2 = n + 1 /\ d \in Int
      BY <3>1
    <3>3. h \in Int
      BY <2>3, <2>4, MonthsAre
    <3>4. DaysBeforeMonth(n) <= d /\ d < DaysBeforeMonth(n + 1)
      BY <1>2, <1>3, <2>2, <2>3, <2>5, <3>1, <3>2
    <3>5. DateAt(year, d, w) =
            [year |-> IF n < 10 THEN year ELSE year + 1, month |-> NameOf(n),
             day |-> d - DaysBeforeMonth(n) + 1, weekday |-> w]
      BY <3>2, <3>4, DateIs
    <3>6. d - DaysBeforeMonth(n) + 1 = 1
      BY <1>2, <1>3, <2>2, <3>1
    <3> QED BY <3>1, <3>5, <3>6
  <2>7. doy - f + 1 = LastOf(IF m < 10 THEN year ELSE year + 1, NameOf(m))
    BY <1>1, <1>2, <1>3, <2>1, <2>2, LengthOfMonth
  <2>8. /\ NameOf(m + 1) = (NameOf(m) % 12) + 1
        /\ NameOf(m) = 12 <=> m = 9
        /\ m = 9 => doy - f + 1 = 31
    BY <1>2, <2>2, <2>4, MonthsAre DEF NameOf
  <2>9. ~(doy - f + 1 < LastOf(IF m < 10 THEN year ELSE year + 1, NameOf(m)))
    BY <1>3, <2>7
  <2> QED BY <1>1, <1>4, <2>6, <2>8, <2>9 DEF Tomorrow
<1> QED BY <1>3, <1>5, <1>6

\* The day after the last of a year.
LEMMA NextYear ==
  ASSUME NEW year \in Int, NEW doy \in Int, NEW weekday,
         doy + 1 = IF IsLeap(year + 1) THEN 366 ELSE 365
  PROVE  Tomorrow(DateAt(year, doy, weekday)) = DateAt(year + 1, 0, (weekday + 1) % 7)
<1>1. PICK next, w : next = year + 1 /\ w = (weekday + 1) % 7
  OBVIOUS
<1>2. next \in Int
  BY <1>1
<1>3. DateAt(year, doy, weekday) = [year |-> year + 1, month |-> 2, day |-> doy - 336, weekday |-> weekday]
  <2>1. DaysBeforeMonth(11) <= doy /\ doy < DaysBeforeMonth(11 + 1)
    BY MonthsAre
  <2>2. PICK m \in Int : m = 11
    OBVIOUS
  <2>3. DateAt(year, doy, weekday) =
          [year |-> IF m < 10 THEN year ELSE year + 1, month |-> NameOf(m), day |-> doy - DaysBeforeMonth(m) + 1, weekday |-> weekday]
    BY <2>1, <2>2, DateIs
  <2>4. NameOf(m) = 2 /\ doy - DaysBeforeMonth(m) + 1 = doy - 336 /\ ~(m < 10)
    BY <2>2, MonthsAre DEF NameOf
  <2> QED BY <2>3, <2>4
<1>4. DateAt(next, 0, w) = [year |-> next, month |-> 3, day |-> 1, weekday |-> w]
  <2>1. PICK d \in Int, m \in Int : d = 0 /\ m = 0
    OBVIOUS
  <2>2. DaysBeforeMonth(m) <= d /\ d < DaysBeforeMonth(m + 1)
    BY <2>1, MonthsAre
  <2>3. DateAt(next, d, w) =
          [year |-> IF m < 10 THEN next ELSE next + 1, month |-> NameOf(m), day |-> d - DaysBeforeMonth(m) + 1, weekday |-> w]
    BY <1>2, <2>1, <2>2, DateIs
  <2>4. NameOf(m) = 3 /\ d - DaysBeforeMonth(m) + 1 = 1 /\ m < 10
    BY <2>1, MonthsAre DEF NameOf
  <2> QED BY <2>1, <2>3, <2>4
<1>5. ~(doy - 336 < LastOf(year + 1, 2))
  BY DEF LastOf
<1> QED BY <1>1, <1>3, <1>4, <1>5 DEF Tomorrow

(***************************************************************************)
(* Days.                                                                   *)
(***************************************************************************)
\* The date the code makes of a day, with the year, which it computes too and drops.
DateIn(era, doe, weekday) == DateAt(YearOfEra(doe) + 400 * era, doe - DaysBefore(YearOfEra(doe)), weekday)
CivilDate(day) == DateIn((day + 719468) \div 146097, (day + 719468) % 146097, Weekday(day))

\* A day by its era, its year there and its day there.
InEra(day, era, yoe, doe) ==
  /\ day + 719468 = 146097 * era + doe /\ 0 <= doe /\ doe <= 146096
  /\ DaysBefore(yoe) <= doe /\ doe < DaysBefore(yoe + 1)

\* The date the code makes of a day that is known by its era.
LEMMA ByEra ==
  ASSUME NEW day \in Int, NEW era \in Int, NEW yoe \in Int, NEW doe \in Int, InEra(day, era, yoe, doe)
  PROVE  CivilDate(day) = DateAt(yoe + 400 * era, doe - DaysBefore(yoe), Weekday(day))
<1>0. /\ day + 719468 = 146097 * era + doe /\ 0 <= doe /\ doe <= 146096
      /\ DaysBefore(yoe) <= doe /\ doe < DaysBefore(yoe + 1)
  BY DEF InEra
<1>1. (day + 719468) \div 146097 = era /\ (day + 719468) % 146097 = doe
  <2>1. PICK z : z = day + 719468
    OBVIOUS
  <2>2. z \in Int /\ z = 146097 * era + doe
    BY <1>0, <2>1
  <2>3. z \div 146097 = era /\ z % 146097 = doe
    BY <1>0, <2>2
  <2> QED BY <2>1, <2>3
<1>2. /\ YearOfEra(doe) \in Int
      /\ DaysBefore(YearOfEra(doe)) <= doe /\ doe < DaysBefore(YearOfEra(doe) + 1)
  BY <1>0, YearOfDay
<1>3. PICK y \in Int : y = YearOfEra(doe)
  BY <1>2
<1>4. y = yoe
  BY <1>0, <1>2, <1>3, OneYear
<1>5. CivilDate(day) = DateIn(era, doe, Weekday(day))
  BY <1>1 DEF CivilDate
<1> QED BY Zenon, <1>3, <1>4, <1>5 DEF DateIn

\* The days that the code counts follow each other as those of the calendar do.
LEMMA TomorrowIs ==
  ASSUME NEW day \in Int
  PROVE  Tomorrow(CivilDate(day)) = CivilDate(day + 1)
<1>1. PICK era, doe : era = (day + 719468) \div 146097 /\ doe = (day + 719468) % 146097
  OBVIOUS
<1>2. era \in Int /\ doe \in Int /\ day + 719468 = 146097 * era + doe /\ 0 <= doe /\ doe <= 146096
  <2>1. PICK z : z = day + 719468
    OBVIOUS
  <2>2. z \in Int
    BY <2>1
  <2> QED BY <1>1, <2>1, <2>2
<1>3. PICK yoe : yoe = YearOfEra(doe)
  OBVIOUS
<1>4. /\ yoe \in Int /\ 0 <= yoe /\ yoe <= 399
      /\ DaysBefore(yoe) <= doe /\ doe < DaysBefore(yoe + 1)
  BY <1>2, <1>3, YearOfDay
<1>5. DaysBefore(yoe) \in Int /\ DaysBefore(yoe + 1) \in Int
  BY <1>4 DEF DaysBefore
<1>6. PICK doy, year, w : doy = doe - DaysBefore(yoe) /\ year = yoe + 400 * era /\ w = Weekday(day)
  OBVIOUS
<1>7. /\ doy \in Int /\ 0 <= doy /\ year \in Int
      /\ CivilDate(day) = DateAt(year, doy, w)
      /\ Weekday(day + 1) = (w + 1) % 7
  <2>1. CivilDate(day) = DateAt(year, doy, w)
    <3>1. InEra(day, era, yoe, doe)
      BY <1>2, <1>4 DEF InEra
    <3> QED BY <1>2, <1>4, <1>6, <3>1, ByEra
  <2>2. Weekday(day + 1) = (w + 1) % 7
    BY <1>6 DEF Weekday
  <2> QED BY <1>2, <1>4, <1>5, <1>6, <2>1, <2>2
<1>8. DaysBefore(yoe + 1) - DaysBefore(yoe) = IF IsLeap(year + 1) THEN 366 ELSE 365
  <2>1. PICK next \in Int : next = yoe + 1
    BY <1>4
  <2>2. IsLeap(next + 400 * era) = IsLeap(next)
    <3>1. PICK z \in Int : z = next + 400 * era
      BY <1>2
    <3>2. z % 4 = next % 4 /\ z % 100 = next % 100 /\ z % 400 = next % 400
      BY <1>2, <3>1
    <3> QED BY <3>1, <3>2 DEF IsLeap
  <2>3. next + 400 * era = year + 1
    BY <1>2, <1>4, <1>6, <2>1
  <2> QED BY <1>4, <2>1, <2>2, <2>3, LengthOfYear
<1>9. PICK tomorrow \in Int : tomorrow = day + 1
  OBVIOUS
<1>10. CASE doe + 1 < DaysBefore(yoe + 1)
  <2>1. Tomorrow(DateAt(year, doy, w)) = DateAt(year, doy + 1, (w + 1) % 7)
    BY <1>2, <1>5, <1>6, <1>7, <1>8, <1>10, SameYear
  <2>2. PICK next \in Int : next = doe + 1
    BY <1>2
  <2>3. next <= 146096
    <3>1. DaysBefore(400) = 146097
      BY DEF DaysBefore
    <3>2. yoe + 1 = 400 \/ yoe + 1 < 400
      BY <1>4
    <3>3. PICK e \in Int, l \in Int : e = yoe + 1 /\ l = 400
      BY <1>4
    <3>4. CASE e < l
      <4>1. DaysBefore(e + 1) <= DaysBefore(l)
        BY <3>4, YearsInOrder
      <4>2. DaysBefore(e) <= DaysBefore(e + 1)
        BY LengthOfYear DEF DaysBefore
      <4>3. DaysBefore(e) \in Int /\ DaysBefore(e + 1) \in Int
        BY DEF DaysBefore
      <4> QED BY <1>10, <2>2, <3>1, <3>3, <4>1, <4>2, <4>3
    <3> QED BY <1>10, <2>2, <3>1, <3>2, <3>3, <3>4
  <2>4. CivilDate(tomorrow) = DateAt(yoe + 400 * era, next - DaysBefore(yoe), Weekday(tomorrow))
    <3>1. InEra(tomorrow, era, yoe, next)
      <4>1. tomorrow + 719468 = 146097 * era + next /\ 0 <= next
        BY <1>2, <1>9, <2>2
      <4>2. DaysBefore(yoe) <= next /\ next < DaysBefore(yoe + 1)
        BY <1>2, <1>4, <1>5, <1>10, <2>2
      <4> QED BY <2>3, <4>1, <4>2 DEF InEra
    <3> QED BY <1>2, <1>4, <3>1, ByEra
  <2>5. next - DaysBefore(yoe) = doy + 1
    BY <1>2, <1>5, <1>6, <2>2
  <2> QED BY <1>6, <1>7, <1>9, <2>1, <2>4, <2>5
<1>11. CASE doe + 1 = DaysBefore(yoe + 1)
  <2>1. Tomorrow(DateAt(year, doy, w)) = DateAt(year + 1, 0, (w + 1) % 7)
    <3>1. doy + 1 = IF IsLeap(year + 1) THEN 366 ELSE 365
      BY <1>2, <1>5, <1>6, <1>8, <1>11
    <3> QED BY <1>7, <3>1, NextYear
  <2>2. CASE yoe < 399
    <3>1. PICK next \in Int, later \in Int, first \in Int : next = doe + 1 /\ later = yoe + 1 /\ first = 400
      BY <1>2, <1>4
    <3>2. next <= 146096 /\ DaysBefore(later) <= next /\ next < DaysBefore(later + 1)
      <4>1. DaysBefore(later + 1) <= DaysBefore(first)
        BY <1>4, <2>2, <3>1, YearsInOrder
      <4>2. DaysBefore(first) = 146097
        BY <3>1 DEF DaysBefore
      <4>3. DaysBefore(later) < DaysBefore(later + 1) /\ DaysBefore(later) \in Int /\ DaysBefore(later + 1) \in Int
        BY LengthOfYear DEF DaysBefore
      <4> QED BY <1>2, <1>4, <1>11, <3>1, <4>1, <4>2, <4>3
    <3>3. CivilDate(tomorrow) = DateAt(later + 400 * era, next - DaysBefore(later), Weekday(tomorrow))
      <4>1. tomorrow + 719468 = 146097 * era + next /\ 0 <= next
        BY <1>2, <1>9, <3>1
      <4>2. InEra(tomorrow, era, later, next)
        BY <3>2, <4>1 DEF InEra
      <4> QED BY <1>2, <4>2, ByEra
    <3>4. later + 400 * era = year + 1 /\ next - DaysBefore(later) = 0
      BY <1>2, <1>4, <1>5, <1>6, <1>11, <3>1
    <3> QED BY <1>7, <1>9, <2>1, <3>3, <3>4
  <2>3. CASE yoe = 399
    <3>1. doe = 146096
      BY <1>2, <1>11, <2>3 DEF DaysBefore
    <3>2. PICK later \in Int, none \in Int : later = era + 1 /\ none = 0
      BY <1>2
    <3>3. DaysBefore(none) = 0 /\ DaysBefore(none + 1) = 365
      BY <3>2 DEF DaysBefore
    <3>4. CivilDate(tomorrow) = DateAt(none + 400 * later, none - DaysBefore(none), Weekday(tomorrow))
      <4>1. tomorrow + 719468 = 146097 * later + none
        BY <1>2, <1>9, <3>1, <3>2
      <4>2. InEra(tomorrow, later, none, none)
        BY <3>2, <3>3, <4>1 DEF InEra
      <4> QED BY <3>2, <4>2, ByEra
    <3>5. none + 400 * later = year + 1 /\ none - DaysBefore(none) = 0
      BY <1>2, <1>6, <2>3, <3>2, <3>3
    <3> QED BY <1>7, <1>9, <2>1, <3>4, <3>5
  <2> QED BY <1>4, <2>2, <2>3
<1> QED BY <1>2, <1>4, <1>5, <1>10, <1>11

\* The first day.
LEMMA EpochIs ==
  CivilDate(0) = [year |-> 1970, month |-> 1, day |-> 1, weekday |-> 4]
<1>1. PICK day \in Int, era \in Int, yoe \in Int, doe \in Int : day = 0 /\ era = 4 /\ yoe = 369 /\ doe = 135080
  OBVIOUS
<1>2. DaysBefore(yoe) = 134774 /\ DaysBefore(yoe + 1) = 135139
  BY <1>1 DEF DaysBefore
<1>3. CivilDate(day) = DateAt(yoe + 400 * era, doe - DaysBefore(yoe), Weekday(day))
  <2>1. InEra(day, era, yoe, doe)
    BY <1>1, <1>2 DEF InEra
  <2> QED BY <2>1, ByEra
<1>4. PICK year \in Int, doy \in Int, m \in Int, w \in Int : year = 1969 /\ doy = 306 /\ m = 10 /\ w = 4
  OBVIOUS
<1>5. yoe + 400 * era = year /\ doe - DaysBefore(yoe) = doy /\ Weekday(day) = w
  BY <1>1, <1>2, <1>4 DEF Weekday
<1>6. DateAt(year, doy, w) =
        [year |-> IF m < 10 THEN year ELSE year + 1, month |-> NameOf(m), day |-> doy - DaysBeforeMonth(m) + 1, weekday |-> w]
  <2>1. DaysBeforeMonth(m) <= doy /\ doy < DaysBeforeMonth(m + 1)
    BY <1>4 DEF DaysBeforeMonth
  <2> QED BY <2>1, DateIs
<1> QED BY <1>1, <1>3, <1>4, <1>5, <1>6, MonthsAre DEF NameOf

\* The date the code makes of a day, by the year it finds.
LEMMA ByYear ==
  ASSUME NEW day \in Int, NEW z, NEW doe, NEW y, NEW doy,
         z = day + 719468, doe = z % 146097, y = YearOfEra(doe), doy = doe - DaysBefore(y)
  PROVE  CivilDate(day) = DateAt(y + 400 * (z \div 146097), doy, Weekday(day))
<1>1. ASSUME NEW era, NEW w PROVE DateIn(era, doe, w) = DateAt(y + 400 * era, doy, w)
  BY DEF DateIn
<1>2. CivilDate(day) = DateIn(z \div 146097, doe, Weekday(day))
  BY DEF CivilDate
<1> QED BY <1>1, <1>2

\* It drops nothing but the year.
LEMMA CivilIs ==
  ASSUME NEW day \in Int
  PROVE  /\ CivilFromDays(day).month = CivilDate(day).month
         /\ CivilFromDays(day).day = CivilDate(day).day
         /\ Weekday(day) = CivilDate(day).weekday
<1>1. PICK z, doe, y : z = day + 719468 /\ doe = z % 146097 /\ y = YearOfEra(doe)
  OBVIOUS
<1>2. z \in Int /\ doe \in Int /\ 0 <= doe /\ doe <= 146096
  BY <1>1
<1>3. y \in Int /\ 0 <= y /\ y <= 399
  BY <1>1, <1>2, YearOfDay
<1>4. DaysBefore(y) = 365 * y + y \div 4 - y \div 100
  <2>1. y \div 400 = 0
    BY <1>3
  <2> QED BY <1>3, <2>1 DEF DaysBefore
<1>5. PICK doy : doy = doe - DaysBefore(y)
  OBVIOUS
<1>6. PICK m : m = (5 * doy + 2) \div 153
  OBVIOUS
<1>7. CivilFromDays(day) = [day |-> doy - DaysBeforeMonth(m) + 1, month |-> NameOf(m)]
  <2>1. doy = doe - (365 * y + y \div 4 - y \div 100)
    BY <1>4, <1>5
  <2> QED BY <1>1, <1>6, <2>1 DEF CivilFromDays, DaysBeforeMonth, NameOf, YearOfEra
<1>8. CivilDate(day).month = NameOf(m) /\ CivilDate(day).day = doy - DaysBeforeMonth(m) + 1 /\ CivilDate(day).weekday = Weekday(day)
  <2>1. PICK era : CivilDate(day) = DateAt(y + 400 * era, doy, Weekday(day))
    BY SMT, <1>1, <1>5, ByYear
  <2> QED BY <1>6, <2>1 DEF DateAt
<1> QED BY <1>7, <1>8

\* The dates civil_from_days and weekday_from_days compute are those of the
\* calendar, of every day since 1970.
THEOREM CivilIsGregorian ==
  \A day \in Nat : Gregorian[day] = CivilDate(day)
<1> DEFINE Epoch == [year |-> 1970, month |-> 1, day |-> 1, weekday |-> 4]
           Follows(c) == [n \in Nat |-> IF n = 0 THEN Epoch ELSE Tomorrow(c[n - 1])]
           civil == [n \in Nat |-> CivilDate(n)]
           Wrong == {n \in Nat : Gregorian[n] # CivilDate(n)}
<1>1. Gregorian = CHOOSE c : c = Follows(c)
  BY DEF Gregorian, DatesFrom
<1>2. civil = Follows(civil)
  <2>1. \A n \in Nat : civil[n] = IF n = 0 THEN Epoch ELSE Tomorrow(civil[n - 1])
    <3> SUFFICES ASSUME NEW n \in Nat PROVE CivilDate(n) = IF n = 0 THEN Epoch ELSE Tomorrow(civil[n - 1])
      OBVIOUS
    <3>1. CASE n = 0
      BY <3>1, EpochIs
    <3>2. CASE n # 0
      <4>1. PICK before \in Nat : before = n - 1
        BY <3>2
      <4>2. Tomorrow(CivilDate(before)) = CivilDate(before + 1)
        BY TomorrowIs
      <4>3. before + 1 = n /\ civil[before] = CivilDate(before)
        BY <4>1
      <4> QED BY <3>2, <4>1, <4>2, <4>3
    <3> QED BY <3>1, <3>2
  <2> QED BY <2>1
<1>3. Gregorian = Follows(Gregorian)
  <2> HIDE DEF Follows, civil
  <2> QED BY <1>1, <1>2
<1>4. \A n \in Nat : Gregorian[n] = IF n = 0 THEN Epoch ELSE Tomorrow(Gregorian[n - 1])
  BY <1>3
<1> SUFFICES ASSUME Wrong # {} PROVE FALSE
  OBVIOUS
<1>5. PICK n \in Wrong : \A k \in Wrong : <<k, n>> \notin OpToRel(<, Nat)
  BY WFMin, NatLessThanWellFounded
<1>6. n \in Nat /\ Gregorian[n] # CivilDate(n) /\ \A k \in Wrong : ~(k < n)
  BY <1>5 DEF OpToRel
<1>7. n # 0
  BY <1>4, <1>6, EpochIs
<1>8. PICK before \in Nat : before = n - 1
  BY <1>6, <1>7
<1>9. Gregorian[before] = CivilDate(before)
  BY <1>6, <1>8
<1>10. Tomorrow(CivilDate(before)) = CivilDate(before + 1) /\ before + 1 = n
  BY <1>6, <1>8, TomorrowIs
<1>11. Gregorian[n] = Tomorrow(Gregorian[n - 1])
  BY <1>4, <1>6, <1>7
<1> QED BY <1>6, <1>8, <1>9, <1>10, <1>11

(***************************************************************************)
(* What an expression names.                                               *)
(***************************************************************************)
IsEntry(e, low, high) ==
  /\ e.range \in {"all", "star", "number", "span"}
  /\ e.step \in Nat \ {0}
  /\ e.range = "all" => e.step = 1
  /\ e.range = "number" => e.from \in Int /\ low <= e.from /\ e.from <= high
  /\ e.range = "span" => /\ e.from \in Int /\ low <= e.from
                         /\ e.to \in Int /\ e.to <= high

\* What a parsed entry is.
LEMMA EntriesAre ==
  ASSUME NEW low \in Int, NEW high \in Int, NEW entries \in Fields(low, high), NEW e \in entries
  PROVE  IsEntry(e, low, high)
<1>1. CASE entries = Star
  BY <1>1 DEF Star, IsEntry
<1>2. CASE e \in Entries(low, high)
  BY <1>2 DEF Entries, Steps, IsEntry
<1> QED BY <1>1, <1>2 DEF Fields

\* The numbers that parse_field makes of an entry are those that it says,
LEMMA EntryNames ==
  ASSUME NEW low \in Int, NEW high \in Int, NEW e, IsEntry(e, low, high),
         NEW n \in Int, low <= n, n <= high
  PROVE  n \in Named(e, low, high) <=> Says(e, n, low)
<1>0. CASE e.range = "all"
  <2>1. (n - low) % 1 = 0
    OBVIOUS
  <2> QED BY <1>0, <2>1 DEF IsEntry, Named, EntryRange, Says
<1>1. CASE e.range = "star"
  BY <1>1 DEF IsEntry, Named, EntryRange, Says
<1>2. CASE e.range = "number"
  <2>1. CASE e.step = 1
    <3>1. n \in Named(e, low, high) <=> n \in e.from .. e.from /\ (n - e.from) % 1 = 0
      BY <1>2, <2>1 DEF IsEntry, Named, EntryRange
    <3>2. n = e.from => (n - e.from) % 1 = 0
      BY <1>2 DEF IsEntry
    <3> QED BY <1>2, <2>1, <3>1, <3>2 DEF IsEntry, Says
  <2>2. CASE e.step # 1
    <3>1. e.step > 1
      BY <2>2 DEF IsEntry
    <3>2. n \in Named(e, low, high) <=> n \in e.from .. high /\ (n - e.from) % e.step = 0
      BY <1>2, <3>1 DEF Named, EntryRange
    <3> QED BY <1>2, <2>2, <3>2 DEF IsEntry, Says
  <2> QED BY <2>1, <2>2
<1>3. CASE e.range = "span"
  <2>1. n \in Named(e, low, high) <=> n \in e.from .. e.to /\ (n - e.from) % e.step = 0
    BY <1>3 DEF Named, EntryRange
  <2> QED BY <1>3, <2>1 DEF IsEntry, Says
<1> QED BY <1>0, <1>1, <1>2, <1>3 DEF IsEntry

\* so those it makes of a field are those that one of its entries says,
LEMMA FieldIs ==
  ASSUME NEW low \in Int, NEW high \in Int, NEW entries \in Fields(low, high),
         NEW n \in Int, low <= n, n <= high
  PROVE  n \in Field(entries, low, high) <=> Stands(entries, n, low)
<1>1. \A e \in entries : n \in Named(e, low, high) <=> Says(e, n, low)
  <2> SUFFICES ASSUME NEW e \in entries PROVE n \in Named(e, low, high) <=> Says(e, n, low)
    OBVIOUS
  <2>1. IsEntry(e, low, high)
    BY EntriesAre
  <2> QED BY <2>1, EntryNames
<1> QED BY <1>1 DEF Field, Stands

\* and all are within the field's bounds.
LEMMA FieldWithin ==
  ASSUME NEW low \in Int, NEW high \in Int, NEW entries \in Fields(low, high), NEW n \in Field(entries, low, high)
  PROVE  n \in Int /\ low <= n /\ n <= high
<1>1. PICK e \in entries : n \in Named(e, low, high)
  BY DEF Field
<1>2. IsEntry(e, low, high)
  BY EntriesAre
<1> QED BY <1>1, <1>2 DEF IsEntry, Named, EntryRange

\* Sunday is 0 or 7 in an expression, and 0 in what the code makes of it.
LEMMA WeekdayIs ==
  ASSUME NEW entries \in Fields(0, 7), NEW n \in Int, 0 <= n, n <= 6
  PROVE  n \in WeekdayField(entries) <=> \E k \in {n, n + 7} \cap 0 .. 7 : Stands(entries, k, 0)
<1>1. PICK low \in Int, high \in Int : low = 0 /\ high = 7
  OBVIOUS
<1>2. \A k \in Int : low <= k /\ k <= high => (k \in Field(entries, low, high) <=> Stands(entries, k, low))
  BY <1>1, FieldIs
<1>3. \A k \in Int : 0 <= k /\ k <= 7 => (k \in Field(entries, 0, 7) <=> Stands(entries, k, 0))
  BY <1>1, <1>2
<1>4. n \in WeekdayField(entries) <=> n \in Field(entries, 0, 7) \/ (n = 0 /\ 7 \in Field(entries, 0, 7))
  BY DEF WeekdayField
<1>5. (\E k \in {n, n + 7} \cap 0 .. 7 : Stands(entries, k, 0)) <=> Stands(entries, n, 0) \/ (n = 0 /\ Stands(entries, 7, 0))
  <2>1. CASE n = 0
    <3>1. \A k : k \in {n, n + 7} \cap 0 .. 7 <=> k = 0 \/ k = 7
      BY <2>1
    <3> QED BY <2>1, <3>1
  <2>2. CASE n # 0
    <3>1. n + 7 > 7 /\ n \in 0 .. 7
      BY <2>2
    <3>2. \A k : k \in {n, n + 7} \cap 0 .. 7 => k = n
      BY <3>1
    <3>3. n \in {n, n + 7} \cap 0 .. 7
      BY <3>1
    <3> QED BY <2>2, <3>2, <3>3
  <2> QED BY <2>1, <2>2
<1> QED BY <1>3, <1>4, <1>5

\* A star says every number.
LEMMA StarStands ==
  ASSUME NEW n \in Int, NEW low \in Int
  PROVE  Stands(Star, n, low)
BY DEF Stands, Says, Star

\* A day of the month, a month and a day of the week.
LEMMA DateWithin ==
  ASSUME NEW day \in Int
  PROVE  /\ CivilDate(day).month \in Int /\ 1 <= CivilDate(day).month /\ CivilDate(day).month <= 12
         /\ CivilDate(day).day \in Int /\ 1 <= CivilDate(day).day /\ CivilDate(day).day <= 31
         /\ CivilDate(day).weekday \in Int /\ 0 <= CivilDate(day).weekday /\ CivilDate(day).weekday <= 6
<1>1. PICK z, doe, y : z = day + 719468 /\ doe = z % 146097 /\ y = YearOfEra(doe)
  OBVIOUS
<1>2. z \in Int /\ doe \in Int /\ 0 <= doe /\ doe <= 146096
  BY <1>1
<1>3. /\ y \in Int /\ DaysBefore(y) <= doe /\ doe < DaysBefore(y + 1)
      /\ DaysBefore(y) \in Int /\ DaysBefore(y + 1) \in Int
  BY <1>1, <1>2, YearOfDay DEF DaysBefore
<1>4. PICK doy : doy = doe - DaysBefore(y)
  OBVIOUS
<1>5. doy \in Int /\ 0 <= doy /\ doy <= 365
  BY <1>2, <1>3, <1>4, LengthOfYear
<1>6. PICK m \in Int : 0 <= m /\ m <= 11 /\ DaysBeforeMonth(m) <= doy /\ doy < DaysBeforeMonth(m + 1)
  BY <1>5, MonthOfDay
<1>7. (5 * doy + 2) \div 153 = m
  BY <1>5, <1>6, MonthIs
<1>8. /\ CivilDate(day).month = NameOf(m)
      /\ CivilDate(day).day = doy - DaysBeforeMonth(m) + 1
      /\ CivilDate(day).weekday = Weekday(day)
  <2>1. PICK era : CivilDate(day) = DateAt(y + 400 * era, doy, Weekday(day))
    BY SMT, <1>1, <1>4, ByYear
  <2> QED BY <1>7, <2>1 DEF DateAt
<1>9. NameOf(m) \in Int /\ 1 <= NameOf(m) /\ NameOf(m) <= 12
  BY <1>6 DEF NameOf
<1>10. \/ m = 0 \/ m = 1 \/ m = 2 \/ m = 3 \/ m = 4 \/ m = 5
       \/ m = 6 \/ m = 7 \/ m = 8 \/ m = 9 \/ m = 10 \/ m = 11
  BY <1>6
<1>11. /\ DaysBeforeMonth(m) \in Int /\ DaysBeforeMonth(m + 1) \in Int
       /\ DaysBeforeMonth(m + 1) <= DaysBeforeMonth(m) + 31
  BY <1>10, MonthsAre
<1>12. /\ doy - DaysBeforeMonth(m) + 1 \in Int
       /\ 1 <= doy - DaysBeforeMonth(m) + 1 /\ doy - DaysBeforeMonth(m) + 1 <= 31
  BY <1>5, <1>6, <1>11
<1>13. Weekday(day) \in Int /\ 0 <= Weekday(day) /\ Weekday(day) <= 6
  BY DEF Weekday
<1> QED BY <1>8, <1>9, <1>12, <1>13

\* A day matches when the calendar says so.
LEMMA DayIs ==
  ASSUME NEW x \in Expressions, NEW day \in Nat
  PROVE  MatchesDay(Parsed(x), day) <=> SaysOf(x, Gregorian[day])
<1>1. PICK date : date = CivilDate(day)
  OBVIOUS
<1>2. /\ date.month \in Int /\ 1 <= date.month /\ date.month <= 12
      /\ date.day \in Int /\ 1 <= date.day /\ date.day <= 31
      /\ date.weekday \in Int /\ 0 <= date.weekday /\ date.weekday <= 6
  BY <1>1, DateWithin
<1>3. /\ CivilFromDays(day).month = date.month /\ CivilFromDays(day).day = date.day
      /\ Weekday(day) = date.weekday
  BY <1>1, CivilIs
<1>4. /\ x.month \in Fields(1, 12) /\ x.day \in Fields(1, 31)
      /\ x.weekday \in Fields(0, 7)
  BY DEF Expressions
<1>5. date.month \in Field(x.month, 1, 12) <=> Stands(x.month, date.month, 1)
  BY <1>2, <1>4, FieldIs
<1>6. date.day \in Field(x.day, 1, 31) <=> Stands(x.day, date.day, 1)
  BY <1>2, <1>4, FieldIs
<1>7. date.weekday \in WeekdayField(x.weekday)
        <=> \E n \in {date.weekday, date.weekday + 7} \cap 0 .. 7 : Stands(x.weekday, n, 0)
  BY <1>2, <1>4, WeekdayIs
<1>8. x.day = Star => Stands(x.day, date.day, 1)
  BY <1>2, StarStands
<1>9. /\ x.weekday = Star => Stands(x.weekday, date.weekday, 0)
      /\ date.weekday \in {date.weekday, date.weekday + 7} \cap 0 .. 7
  <2>1. date.weekday \in 0 .. 7
    BY <1>2
  <2>2. Stands(Star, date.weekday, 0)
    BY <1>2, StarStands
  <2> QED BY <2>1, <2>2
<1>10. PICK ofMonth \in BOOLEAN, ofWeek \in BOOLEAN :
         /\ ofMonth <=> Stands(x.day, date.day, 1)
         /\ ofWeek <=> \E n \in {date.weekday, date.weekday + 7} \cap 0 .. 7 : Stands(x.weekday, n, 0)
  OBVIOUS
<1>11. MatchesDay(Parsed(x), day) <=>
         /\ Stands(x.month, date.month, 1)
         /\ CASE x.day # Star /\ x.weekday # Star -> ofMonth \/ ofWeek
              [] x.day # Star /\ ~(x.weekday # Star) -> ofMonth
              [] ~(x.day # Star) /\ x.weekday # Star -> ofWeek
              [] OTHER -> TRUE
  BY <1>3, <1>5, <1>6, <1>7, <1>10 DEF MatchesDay, Parsed
<1>12. SaysOf(x, date) <=>
         /\ Stands(x.month, date.month, 1)
         /\ IF x.day # Star /\ x.weekday # Star THEN ofMonth \/ ofWeek ELSE ofMonth /\ ofWeek
  BY <1>10 DEF SaysOf, Restricted, Star
<1>13. (x.day = Star => ofMonth) /\ (x.weekday = Star => ofWeek)
  BY <1>8, <1>9, <1>10
<1>14. MatchesDay(Parsed(x), day) <=> SaysOf(x, date)
  BY <1>11, <1>12, <1>13
<1> QED BY <1>1, <1>14, CivilIsGregorian

(***************************************************************************)
(* The next minute.                                                        *)
(***************************************************************************)
\* The least of some naturals.
LEMMA LeastOne ==
  ASSUME NEW S \in SUBSET Nat, S # {}
  PROVE  Min(S) \in S /\ \A n \in S : Min(S) <= n
<1>1. PICK m \in S : \A k \in S : <<k, m>> \notin OpToRel(<, Nat)
  BY WFMin, NatLessThanWellFounded
<1>2. m \in Nat /\ \A k \in S : ~(k < m)
  BY <1>1 DEF OpToRel
<1>3. \A k \in S : m <= k
  BY <1>2
<1> QED BY <1>1, <1>3 DEF Min

\* The times of day of a schedule.
IsClock(s) ==
  /\ \A h \in s.hours : h \in Int /\ 0 <= h /\ h <= 23
  /\ \A m \in s.minutes : m \in Int /\ 0 <= m /\ m <= 59
AtTime(s, t) == t % Minute = 0 /\ t \div Hour \in s.hours /\ (t % Hour) \div Minute \in s.minutes

\* What first_time_of_day_from chooses from: the minutes of a day that a schedule names.
LEMMA TimesOfDay ==
  ASSUME NEW s, IsClock(s), NEW t
  PROVE  t \in {h * Hour + m * Minute : h \in s.hours, m \in s.minutes}
           <=> t \in Int /\ 0 <= t /\ t < Day /\ AtTime(s, t)
<1>1. ASSUME NEW h \in s.hours, NEW m \in s.minutes, t = h * Hour + m * Minute
      PROVE  t \in Int /\ 0 <= t /\ t < Day /\ AtTime(s, t)
  <2>1. h \in Int /\ 0 <= h /\ h <= 23 /\ m \in Int /\ 0 <= m /\ m <= 59 /\ t = h * 3600 + m * 60
    BY <1>1 DEF IsClock, Hour, Minute
  <2>2. t \in Int /\ 0 <= t /\ t < 86400
    BY <2>1
  <2>3. t \div 3600 = h /\ t % 3600 = 60 * m /\ t % 60 = 0
    BY <2>1
  <2>4. (60 * m) \div 60 = m
    BY <2>1
  <2>5. t \div Hour \in s.hours /\ (t % Hour) \div Minute \in s.minutes /\ t % Minute = 0
    BY <2>3, <2>4 DEF Hour, Minute
  <2> QED BY <2>2, <2>5 DEF AtTime, Day
<1>2. ASSUME t \in Int, 0 <= t, AtTime(s, t)
      PROVE  t \in {h * Hour + m * Minute : h \in s.hours, m \in s.minutes}
  <2>1. PICK h, m : h = t \div Hour /\ m = (t % Hour) \div Minute
    OBVIOUS
  <2>2. h \in s.hours /\ m \in s.minutes
    BY <1>2, <2>1 DEF AtTime
  <2>3. t = h * Hour + m * Minute
    <3>1. PICK r : r = t % 3600
      OBVIOUS
    <3>2. r \in Int /\ t = 3600 * h + r /\ m = r \div 60 /\ h \in Int
      BY <1>2, <2>1, <3>1 DEF Hour, Minute
    <3>3. r % 60 = 0
      BY <1>2, <3>1 DEF AtTime, Minute
    <3> QED BY <3>2, <3>3 DEF Hour, Minute
  <2> QED BY <2>2, <2>3
<1> QED BY <1>1, <1>2

\* first_time_of_day_from finds the first of them from a second on, if there is one.
LEMMA FirstTimeIs ==
  ASSUME NEW s, IsClock(s), NEW from \in Nat
  PROVE  LET first == FirstTimeFrom(s, from)
         IN /\ first = Never \/ (first \in Nat /\ from <= first /\ first < Day /\ AtTime(s, first))
            /\ \A t \in Nat : from <= t /\ t < Day /\ AtTime(s, t) => first # Never /\ first <= t
<1> DEFINE times == {t \in {h * Hour + m * Minute : h \in s.hours, m \in s.minutes} : t >= from}
<1>1. \A t : t \in times <=> t \in Int /\ 0 <= t /\ t < Day /\ AtTime(s, t) /\ from <= t
  <2> SUFFICES ASSUME NEW t
               PROVE  t \in times <=> t \in Int /\ 0 <= t /\ t < Day /\ AtTime(s, t) /\ from <= t
    OBVIOUS
  <2>1. t \in {h * Hour + m * Minute : h \in s.hours, m \in s.minutes}
          <=> t \in Int /\ 0 <= t /\ t < Day /\ AtTime(s, t)
    BY TimesOfDay
  <2> QED BY <2>1
<1>2. FirstTimeFrom(s, from) = IF times = {} THEN Never ELSE Min(times)
  BY DEF FirstTimeFrom
<1> HIDE DEF times
<1>3. CASE times = {}
  BY <1>1, <1>2, <1>3
<1>4. CASE times # {}
  <2>1. times \in SUBSET Nat
    BY <1>1
  <2>2. Min(times) \in times /\ \A n \in times : Min(times) <= n
    BY <1>4, <2>1, LeastOne
  <2>3. FirstTimeFrom(s, from) = Min(times)
    BY <1>2, <1>4
  <2>4. Min(times) # Never
    BY <2>1, <2>2 DEF Never
  <2> QED BY <1>1, <2>1, <2>2, <2>3, <2>4
<1> QED BY <1>3, <1>4

\* A second that a schedule names.
MatchesAt(s, t) == MatchesDay(s, t \div Day) /\ AtTime(s, t % Day)

\* The search stops at a day that has a matching second left,
LEMMA HitsWhenMatches ==
  ASSUME NEW s, IsClock(s), NEW start \in Nat, NEW t \in Nat, start <= t, MatchesAt(s, t)
  PROVE  LET offset == t \div Day - start \div Day
         IN /\ offset \in Nat
            /\ Hits(s, start, offset) /\ FirstOn(s, start, offset) <= t % Day
<1>1. PICK d, r, e, q : d = t \div Day /\ r = t % Day /\ e = start \div Day /\ q = start % Day
  OBVIOUS
<1>2. /\ d \in Int /\ r \in Nat /\ r < Day /\ t = 86400 * d + r
      /\ e \in Int /\ q \in Nat /\ q < Day /\ start = 86400 * e + q
  BY <1>1 DEF Day
<1>3. PICK offset : offset = d - e
  OBVIOUS
<1>4. offset \in Nat /\ (offset = 0 => q <= r) /\ e + offset = d
  BY <1>2, <1>3 DEF Day
<1>5. PICK from : from = IF offset = 0 THEN q ELSE 0
  OBVIOUS
<1>6. from \in Nat /\ from <= r
  BY <1>2, <1>4, <1>5
<1>7. FirstOn(s, start, offset) = FirstTimeFrom(s, from)
  BY <1>1, <1>5 DEF FirstOn
<1>8. AtTime(s, r) /\ MatchesDay(s, d)
  BY <1>1 DEF MatchesAt
<1>9. FirstTimeFrom(s, from) # Never /\ FirstTimeFrom(s, from) <= r
  BY <1>2, <1>6, <1>8, FirstTimeIs
<1>10. Hits(s, start, offset)
  BY <1>1, <1>4, <1>7, <1>8, <1>9 DEF Hits
<1> QED BY <1>1, <1>3, <1>4, <1>7, <1>9, <1>10

\* and at no other: what it finds there matches.
LEMMA MatchesWhenHits ==
  ASSUME NEW s, IsClock(s), NEW start \in Nat, NEW offset \in Nat, Hits(s, start, offset)
  PROVE  LET t == (start \div Day + offset) * Day + FirstOn(s, start, offset)
         IN /\ t \in Nat /\ start <= t /\ MatchesAt(s, t)
            /\ t < (start \div Day + offset + 1) * Day
            /\ FirstOn(s, start, offset) \in Nat
<1>1. PICK e, q : e = start \div Day /\ q = start % Day
  OBVIOUS
<1>2. e \in Nat /\ q \in Nat /\ q < Day /\ start = 86400 * e + q
  BY <1>1 DEF Day
<1>3. PICK from, f : from = (IF offset = 0 THEN q ELSE 0) /\ f = FirstTimeFrom(s, from)
  OBVIOUS
<1>4. from \in Nat
  BY <1>2, <1>3
<1>5. FirstOn(s, start, offset) = f
  BY <1>1, <1>3 DEF FirstOn
<1>6. f # Never /\ MatchesDay(s, e + offset)
  BY <1>1, <1>5 DEF Hits
<1>7. f \in Nat /\ from <= f /\ f < Day /\ AtTime(s, f)
  BY <1>3, <1>4, <1>6, FirstTimeIs
<1>8. PICK d, t : d = e + offset /\ t = d * Day + f
  OBVIOUS
<1>9. /\ d \in Nat /\ t \in Nat /\ t = 86400 * d + f
      /\ t \div 86400 = d /\ t % 86400 = f /\ t < (d + 1) * 86400
  BY <1>2, <1>7, <1>8 DEF Day
<1>10. start <= t
  <2>1. CASE offset = 0
    BY <1>2, <1>3, <1>7, <1>8, <1>9, <2>1
  <2>2. CASE offset # 0
    BY <1>2, <1>7, <1>8, <1>9, <2>2 DEF Day
  <2> QED BY <2>1, <2>2
<1>11. MatchesAt(s, t)
  BY <1>6, <1>7, <1>8, <1>9 DEF MatchesAt, Day
<1>12. e + offset + 1 = d + 1
  BY <1>8
<1> QED BY <1>1, <1>5, <1>7, <1>8, <1>9, <1>10, <1>11, <1>12 DEF Day

\* It matches when the calendar and the expression say so.
LEMMA MatchesAsNamed ==
  ASSUME NEW x \in Expressions, NEW t \in Nat
  PROVE  MatchesAt(Parsed(x), t) <=> Naming(x, Gregorian[t \div Day], t)
<1>1. PICK day, r : day = t \div Day /\ r = t % Day
  OBVIOUS
<1>2. /\ day \in Nat /\ r \in Nat /\ r < Day
      /\ r % Minute = t % Minute /\ r % Hour = t % Hour
  <2>1. day \in Nat /\ r \in Nat /\ r < 86400 /\ t = 86400 * day + r
    BY <1>1 DEF Day
  <2>2. t % 60 = r % 60 /\ t % 3600 = r % 3600
    BY <2>1
  <2> QED BY <2>1, <2>2 DEF Day, Minute, Hour
<1>3. MatchesDay(Parsed(x), day) <=> SaysOf(x, Gregorian[day])
  BY <1>2, DayIs
<1>4. x.hour \in Fields(0, 23) /\ x.minute \in Fields(0, 59)
  BY DEF Expressions
<1>5. PICK h, m : h = r \div Hour /\ m = (r % Hour) \div Minute
  OBVIOUS
<1>6. h \in Int /\ 0 <= h /\ h <= 23 /\ m \in Int /\ 0 <= m /\ m <= 59
  BY <1>2, <1>5 DEF Day, Hour, Minute
<1>7. h \in Field(x.hour, 0, 23) <=> Stands(x.hour, h, 0)
  BY <1>4, <1>6, FieldIs
<1>8. m \in Field(x.minute, 0, 59) <=> Stands(x.minute, m, 0)
  BY <1>4, <1>6, FieldIs
<1>9. AtTime(Parsed(x), r) <=> t % Minute = 0 /\ Stands(x.hour, h, 0) /\ Stands(x.minute, m, 0)
  BY <1>2, <1>5, <1>7, <1>8 DEF AtTime, Parsed
<1>10. MatchesAt(Parsed(x), t) <=> MatchesDay(Parsed(x), day) /\ AtTime(Parsed(x), r)
  BY <1>1 DEF MatchesAt
<1>11. Naming(x, Gregorian[t \div Day], t)
         <=> t % Minute = 0 /\ Stands(x.hour, h, 0) /\ Stands(x.minute, m, 0) /\ SaysOf(x, Gregorian[day])
  BY <1>1, <1>2, <1>5 DEF Naming
<1> QED BY <1>3, <1>9, <1>10, <1>11

\* The hours and minutes of a parsed expression are those of a clock.
LEMMA ParsedIsClock ==
  ASSUME NEW x \in Expressions
  PROVE  IsClock(Parsed(x))
<1>1. x.hour \in Fields(0, 23) /\ x.minute \in Fields(0, 59)
  BY DEF Expressions
<1>2. \A h \in Field(x.hour, 0, 23) : h \in Int /\ 0 <= h /\ h <= 23
  BY <1>1, FieldWithin
<1>3. \A m \in Field(x.minute, 0, 59) : m \in Int /\ 0 <= m /\ m <= 59
  BY <1>1, FieldWithin
<1> QED BY <1>2, <1>3 DEF IsClock, Parsed

\* What is searched, from a minute on.
Horizon(after) == (NextMinute(after) \div Day + SearchLimitDays) * Day

\* Where the search stops, nothing before it did match.
LEMMA FirstHit ==
  ASSUME NEW s, NEW start \in Nat, NEW hit \in 0 .. SearchLimitDays - 1, Hits(s, start, hit),
         NEW offset, offset = CHOOSE o \in 0 .. SearchLimitDays - 1 : IsFirst(s, start, o)
  PROVE  /\ offset \in Nat /\ offset < SearchLimitDays /\ Hits(s, start, offset)
         /\ \A o \in Nat : Hits(s, start, o) => offset <= o
<1> DEFINE All == {o \in Nat : Hits(s, start, o)}
<1>1. SearchLimitDays = 1464
  BY DEF SearchLimitDays
<1>2. hit \in Nat /\ hit < SearchLimitDays /\ hit \in All
  BY <1>1
<1>3. PICK first : first = Min(All)
  OBVIOUS
<1>4. first \in All /\ \A o \in All : first <= o
  BY <1>2, <1>3, LeastOne
<1>5. first \in 0 .. SearchLimitDays - 1
  BY <1>1, <1>2, <1>4
<1>6. IsFirst(s, start, first)
  BY <1>4 DEF IsFirst
<1>8. offset \in 0 .. SearchLimitDays - 1 /\ IsFirst(s, start, offset)
  BY <1>5, <1>6
<1>9. offset \in Nat /\ offset < SearchLimitDays
  <2>1. PICK most \in Int : most = SearchLimitDays
    BY <1>1
  <2>2. offset \in 0 .. most - 1
    BY <1>8, <2>1
  <2>3. offset \in Nat /\ offset < most
    BY <2>2
  <2> QED BY <2>1, <2>3
<1>10. ASSUME NEW o \in Nat, Hits(s, start, o), o < offset PROVE FALSE
  <2>1. o \in 0 .. offset - 1
    BY <1>9, <1>10
  <2> QED BY <1>8, <1>10, <2>1 DEF IsFirst
<1>11. Hits(s, start, offset)
  BY <1>8 DEF IsFirst
<1>12. \A o \in Nat : Hits(s, start, o) => offset <= o
  <2> SUFFICES ASSUME NEW o \in Nat, Hits(s, start, o) PROVE offset <= o
    OBVIOUS
  <2>1. ~(o < offset)
    BY <1>10
  <2> QED BY <1>9, <2>1
<1> QED BY <1>9, <1>11, <1>12

\* next_after finds the next minute that matches, if one does within the days
\* that it searches.
LEMMA NextAfterIs ==
  ASSUME NEW s, IsClock(s), NEW after \in Nat
  PROVE  LET next == NextAfter(s, after)
         IN /\ next = Never
               \/ (next \in Nat /\ after < next /\ next < Horizon(after) /\ MatchesAt(s, next))
            /\ \A t \in Nat : after < t /\ MatchesAt(s, t) =>
                 t >= Horizon(after) \/ (next # Never /\ next <= t)
<1>1. PICK start, first : start = NextMinute(after) /\ first = start \div Day
  OBVIOUS
<1>2. /\ start \in Nat /\ after < start /\ first \in Nat
      /\ \A t \in Nat : after < t /\ t % Minute = 0 => start <= t
  <2>1. PICK q : q = after \div 60
    OBVIOUS
  <2>2. q \in Nat /\ 60 * q <= after /\ after < 60 * q + 60 /\ start = 60 * q + 60
    BY <1>1, <2>1 DEF NextMinute, Minute
  <2>3. ASSUME NEW t \in Nat, after < t, t % 60 = 0 PROVE start <= t
    <3>1. PICK p : p = t \div 60
      OBVIOUS
    <3>2. p \in Nat /\ t = 60 * p
      BY <2>3, <3>1
    <3> QED BY <2>2, <2>3, <3>2
  <2>4. first \in Nat
    BY <1>1, <2>2 DEF Day
  <2> QED BY <2>2, <2>3, <2>4 DEF Minute
<1>3. Horizon(after) = (first + SearchLimitDays) * Day
  BY <1>1 DEF Horizon
<1>4. \A t \in Nat : after < t /\ MatchesAt(s, t) => start <= t
  <2>1. ASSUME NEW t \in Nat, MatchesAt(s, t) PROVE t % Minute = 0
    BY <2>1 DEF MatchesAt, AtTime, Minute, Day
  <2> QED BY <1>2, <2>1
<1>5. PICK offset : offset = CHOOSE o \in 0 .. SearchLimitDays - 1 : IsFirst(s, start, o)
  OBVIOUS
<1>6. CASE \E o \in 0 .. SearchLimitDays - 1 : Hits(s, start, o)
  <2>1. /\ offset \in Nat /\ offset < SearchLimitDays /\ Hits(s, start, offset)
        /\ \A o \in Nat : Hits(s, start, o) => offset <= o
    BY <1>2, <1>5, <1>6, FirstHit
  <2>2. PICK f : f = FirstOn(s, start, offset)
    OBVIOUS
  <2>3. PICK next : next = (first + offset) * Day + f
    OBVIOUS
  <2>4. NextAfter(s, after) = next
    BY <1>1, <1>5, <1>6, <2>2, <2>3 DEF NextAfter
  <2>5. /\ next \in Nat /\ start <= next /\ MatchesAt(s, next)
        /\ next < (first + offset + 1) * Day /\ f \in Nat
    BY <1>1, <1>2, <2>1, <2>2, <2>3, MatchesWhenHits
  <2>6. next < Horizon(after)
    BY <1>2, <1>3, <2>1, <2>5 DEF SearchLimitDays, Day
  <2>7. ASSUME NEW t \in Nat, after < t, MatchesAt(s, t)
        PROVE  next <= t
    <3>1. PICK o, r : o = t \div Day - first /\ r = t % Day
      OBVIOUS
    <3>2. o \in Nat /\ Hits(s, start, o) /\ FirstOn(s, start, o) <= r
      BY <1>1, <1>2, <1>4, <2>7, <3>1, HitsWhenMatches
    <3>3. offset <= o
      BY <2>1, <3>2
    <3>4. t = (first + o) * 86400 + r /\ r \in Nat
      BY <1>2, <3>1, <3>2 DEF Day
    <3>5. CASE offset = o
      BY <1>2, <2>2, <2>3, <2>5, <3>2, <3>4, <3>5 DEF Day
    <3>6. CASE offset # o
      BY <1>2, <2>1, <2>5, <3>2, <3>3, <3>4, <3>6 DEF Day
    <3> QED BY <3>5, <3>6
  <2>8. next # Never
    BY <2>5 DEF Never
  <2> QED BY <1>2, <2>4, <2>5, <2>6, <2>7, <2>8
<1>7. CASE ~\E o \in 0 .. SearchLimitDays - 1 : Hits(s, start, o)
  <2>1. NextAfter(s, after) = Never
    BY <1>1, <1>7 DEF NextAfter
  <2>2. ASSUME NEW t \in Nat, after < t, MatchesAt(s, t)
        PROVE  t >= Horizon(after)
    <3>1. PICK o, r : o = t \div Day - first /\ r = t % Day
      OBVIOUS
    <3>2. o \in Nat /\ Hits(s, start, o)
      BY <1>1, <1>2, <1>4, <2>2, <3>1, HitsWhenMatches
    <3>3. o >= SearchLimitDays
      BY <1>7, <3>2 DEF SearchLimitDays
    <3>4. t = (first + o) * 86400 + r /\ r \in Nat
      BY <1>2, <3>1, <3>2 DEF Day
    <3> QED BY <1>2, <1>3, <3>2, <3>3, <3>4 DEF Day, SearchLimitDays
  <2> QED BY <2>1, <2>2
<1> QED BY <1>6, <1>7

\* next_after of any expression and second since 1970: what it finds is later
\* and named by the expression, by the calendar, and nothing between is; and if
\* it finds nothing, nothing is named within the days that it searches.
THEOREM NextAfterHolds ==
  ASSUME NEW x \in Expressions, NEW after \in Nat
  PROVE  LET next == NextAfter(Parsed(x), after)
             Names(t) == Naming(x, Gregorian[t \div Day], t)
         IN /\ next # Never => next \in Nat /\ after < next /\ Names(next)
            /\ \A t \in Nat : after < t /\ Names(t) => t >= Horizon(after) \/ (next # Never /\ next <= t)
<1>1. PICK s : s = Parsed(x)
  OBVIOUS
<1>2. IsClock(s)
  BY <1>1, ParsedIsClock
<1>3. \A t \in Nat : MatchesAt(s, t) <=> Naming(x, Gregorian[t \div Day], t)
  BY <1>1, MatchesAsNamed
<1> QED BY <1>1, <1>2, <1>3, NextAfterIs

\* 0 0 29 2 *
LeapDays ==
  LET At(n) == {[range |-> "number", from |-> n, step |-> 1]}
  IN [minute |-> At(0), hour |-> At(0), day |-> At(29), month |-> At(2), weekday |-> Star]

\* It names the midnights that begin a 29 February.
LEMMA LeapDaysAre ==
  /\ LeapDays \in Expressions
  /\ \A t \in Nat : Naming(LeapDays, Gregorian[t \div Day], t)
       <=> (t % Day = 0 /\ CivilDate(t \div Day).month = 2 /\ CivilDate(t \div Day).day = 29)
<1>1. LeapDays \in Expressions
  <2>0. 1 \in Steps
    BY SMT DEF Steps, MaxStep
  <2>1. ASSUME NEW low \in Int, NEW high \in Int, NEW n \in low .. high
        PROVE  {[range |-> "number", from |-> n, step |-> 1]} \in Fields(low, high)
    <3>1. [range |-> "number", from |-> n, step |-> 1] \in [range : {"number"}, from : low .. high, step : Steps]
      BY <2>0
    <3>2. [range |-> "number", from |-> n, step |-> 1] \in Entries(low, high)
      BY <3>1 DEF Entries
    <3>3. PICK e \in Entries(low, high) : e = [range |-> "number", from |-> n, step |-> 1]
      BY <3>2
    <3>4. PICK one : one = {e}
      OBVIOUS
    <3>5. one \in SUBSET Entries(low, high) /\ one # {}
      BY <3>4
    <3>6. one \in Fields(low, high)
      BY <3>5 DEF Fields
    <3> QED BY <3>3, <3>4, <3>6
  <2>2. /\ {[range |-> "number", from |-> 0, step |-> 1]} \in Fields(0, 59)
        /\ {[range |-> "number", from |-> 0, step |-> 1]} \in Fields(0, 23)
        /\ {[range |-> "number", from |-> 29, step |-> 1]} \in Fields(1, 31)
        /\ {[range |-> "number", from |-> 2, step |-> 1]} \in Fields(1, 12)
    BY <2>1
  <2>3. Star \in Fields(0, 7)
    BY DEF Fields
  <2> QED BY <2>2, <2>3 DEF LeapDays, Expressions
<1>2. ASSUME NEW t \in Nat
      PROVE  Naming(LeapDays, Gregorian[t \div Day], t)
               <=> (t % Day = 0 /\ CivilDate(t \div Day).month = 2 /\ CivilDate(t \div Day).day = 29)
  <2>1. PICK date, day, r : day = t \div Day /\ r = t % Day /\ date = CivilDate(day)
    OBVIOUS
  <2>2. day \in Nat /\ r \in Nat /\ r < 86400 /\ t = 86400 * day + r
    BY <2>1 DEF Day
  <2>3. Gregorian[day] = date
    BY <2>1, <2>2, CivilIsGregorian
  <2>4. \A n, low, k : Stands({[range |-> "number", from |-> n, step |-> 1]}, k, low) <=> k = n
    BY DEF Stands, Says
  <2>5. Stands(Star, date.weekday, 0) /\ date.weekday \in {date.weekday, date.weekday + 7} \cap 0 .. 7
    <3>1. date.weekday \in Int /\ 0 <= date.weekday /\ date.weekday <= 6
      BY <2>1, <2>2, DateWithin
    <3>2. date.weekday \in 0 .. 7
      BY <3>1
    <3>3. Stands(Star, date.weekday, 0)
      BY <3>1, StarStands
    <3> QED BY <3>2, <3>3
  <2>6. SaysOf(LeapDays, date) <=> date.month = 2 /\ date.day = 29
    BY <2>4, <2>5 DEF SaysOf, LeapDays, Restricted, Star
  <2>7. Naming(LeapDays, date, t) <=>
          t % Minute = 0 /\ r \div Hour = 0 /\ (t % Hour) \div Minute = 0 /\ date.month = 2 /\ date.day = 29
    BY <2>1, <2>4, <2>6 DEF Naming, LeapDays
  <2>8. (t % 60 = 0 /\ r \div 3600 = 0 /\ (t % 3600) \div 60 = 0) <=> r = 0
    <3>1. t % 60 = r % 60 /\ t % 3600 = r % 3600
      BY <2>2
    <3> QED BY <2>2, <3>1
  <2> QED BY <2>1, <2>3, <2>7, <2>8 DEF Minute, Hour
<1> QED BY <1>1, <1>2

\* From 2096-03-01 a leap day is eight years away.
LEMMA NoLeapDay ==
  ASSUME NEW day \in Int, 46081 <= day, day < 46081 + 1464
  PROVE  ~(CivilDate(day).month = 2 /\ CivilDate(day).day = 29)
<1>1. PICK doe \in Int, era \in Int : doe = day - 11017 /\ era = 5
  OBVIOUS
<1>2. day + 719468 = 146097 * era + doe /\ 35064 <= doe /\ doe < 36528
  BY <1>1
<1>3. /\ DaysBefore(96) = 35064 /\ DaysBefore(97) = 35429 /\ DaysBefore(98) = 35794
      /\ DaysBefore(99) = 36159 /\ DaysBefore(100) = 36524 /\ DaysBefore(101) = 36889
  BY DEF DaysBefore
<1>4. PICK yoe \in Int : DaysBefore(yoe) <= doe /\ doe < DaysBefore(yoe + 1)
                         /\ DaysBefore(yoe) \in Int /\ DaysBefore(yoe + 1) = DaysBefore(yoe) + 365
  <2>1. CASE doe < 35429
    BY <1>2, <1>3, <2>1
  <2>2. CASE 35429 <= doe /\ doe < 35794
    BY <1>3, <2>2
  <2>3. CASE 35794 <= doe /\ doe < 36159
    BY <1>3, <2>3
  <2>4. CASE 36159 <= doe /\ doe < 36524
    BY <1>3, <2>4
  <2>5. CASE 36524 <= doe
    BY <1>2, <1>3, <2>5
  <2> QED BY <2>1, <2>2, <2>3, <2>4, <2>5
<1>5. PICK doy : doy = doe - DaysBefore(yoe)
  OBVIOUS
<1>6. doy \in Int /\ 0 <= doy /\ doy < 365
  BY <1>4, <1>5
<1>7. CivilDate(day) = DateAt(yoe + 400 * era, doy, Weekday(day))
  <2>1. 0 <= doe /\ doe <= 146096
    BY <1>2
  <2>2. InEra(day, era, yoe, doe)
    BY <1>2, <1>4, <2>1 DEF InEra
  <2>3. CivilDate(day) = DateAt(yoe + 400 * era, doe - DaysBefore(yoe), Weekday(day))
    BY <2>2, ByEra
  <2> QED BY <1>5, <2>3
<1>8. PICK m \in Int : 0 <= m /\ m <= 11 /\ DaysBeforeMonth(m) <= doy /\ doy < DaysBeforeMonth(m + 1)
  BY <1>6, MonthOfDay
<1>9. CivilDate(day).month = NameOf(m) /\ CivilDate(day).day = doy - DaysBeforeMonth(m) + 1
  <2>1. (5 * doy + 2) \div 153 = m
    BY <1>6, <1>8, MonthIs
  <2> QED BY <1>7, <2>1 DEF DateAt
<1>10. NameOf(m) = 2 => m = 11
  BY <1>8 DEF NameOf
<1> QED BY <1>6, <1>9, <1>10, MonthsAre

\* The next one is in 2104.
LEMMA LeapDayOf2104 == CivilDate(49001).month = 2 /\ CivilDate(49001).day = 29
<1>1. PICK day \in Int, era \in Int, yoe \in Int, doe \in Int : day = 49001 /\ era = 5 /\ yoe = 103 /\ doe = 37984
  OBVIOUS
<1>2. DaysBefore(yoe) = 37619 /\ DaysBefore(yoe + 1) = 37985
  BY <1>1 DEF DaysBefore
<1>3. day + 719468 = 146097 * era + doe /\ 0 <= doe /\ doe <= 146096
  BY <1>1
<1>4. CivilDate(day) = DateAt(yoe + 400 * era, doe - DaysBefore(yoe), Weekday(day))
  <2>1. InEra(day, era, yoe, doe)
    BY <1>1, <1>2, <1>3 DEF InEra
  <2> QED BY <2>1, ByEra
<1>5. PICK doy \in Int, m \in Int : doy = 365 /\ m = 11
  OBVIOUS
<1>6. doe - DaysBefore(yoe) = doy
  BY <1>1, <1>2, <1>5
<1>7. (5 * doy + 2) \div 153 = m
  BY <1>5
<1>8. CivilDate(day).month = NameOf(m) /\ CivilDate(day).day = doy - DaysBeforeMonth(m) + 1
  BY <1>4, <1>6, <1>7 DEF DateAt
<1>9. NameOf(m) = 2 /\ doy - DaysBeforeMonth(m) + 1 = 29
  BY <1>5, MonthsAre DEF NameOf
<1> QED BY <1>1, <1>8, <1>9

\* Four years are not enough for a leap day across 2100, which is none: from
\* 2096-03-01 next_after finds no 29 February, though there is one in 2104
\* (SEARCH_LIMIT_DAYS says that four years cover the worst case).
THEOREM FourYearsFallShort ==
  LET after == 46081 * Day
      leap   == 49001 * Day
  IN /\ LeapDays \in Expressions
     /\ NextAfter(Parsed(LeapDays), after) = Never
     /\ after < leap /\ Naming(LeapDays, Gregorian[leap \div Day], leap)
<1>1. PICK from \in Nat, to \in Nat : from = 46081 /\ to = 49001
  OBVIOUS
<1>2. PICK after, leap : after = from * Day /\ leap = to * Day
  OBVIOUS
<1>3. after \in Nat /\ leap \in Nat /\ after = 86400 * from /\ leap = 86400 * to /\ after < leap
  BY <1>1, <1>2 DEF Day
<1>4. Horizon(after) = (from + 1464) * 86400
  <2>1. NextMinute(after) = 86400 * from + 60
    <3>1. after \div 60 = 1440 * from
      BY <1>3
    <3> QED BY <1>1, <3>1 DEF NextMinute, Minute
  <2>2. NextMinute(after) \div 86400 = from
    BY <1>1, <2>1
  <2> QED BY <2>2 DEF Horizon, SearchLimitDays, Day
<1>5. ASSUME NEW t \in Nat, after < t, t < Horizon(after)
      PROVE  ~MatchesAt(Parsed(LeapDays), t)
  <2>1. PICK day : day = t \div Day
    OBVIOUS
  <2>2. day \in Int /\ 86400 * day <= t /\ t < 86400 * day + 86400
    BY <2>1 DEF Day
  <2>3. 46081 <= day /\ day < 46081 + 1464
    BY <1>1, <1>3, <1>4, <1>5, <2>2
  <2>4. ~(CivilDate(day).month = 2 /\ CivilDate(day).day = 29)
    BY <2>2, <2>3, NoLeapDay
  <2>5. ~Naming(LeapDays, Gregorian[t \div Day], t)
    BY <2>1, <2>4, LeapDaysAre
  <2> QED BY <2>5, MatchesAsNamed, LeapDaysAre
<1>6. NextAfter(Parsed(LeapDays), after) = Never
  <2>1. IsClock(Parsed(LeapDays))
    BY ParsedIsClock, LeapDaysAre
  <2>2. PICK s : s = Parsed(LeapDays)
    OBVIOUS
  <2>3. NextAfter(s, after) = Never
        \/ (NextAfter(s, after) \in Nat /\ after < NextAfter(s, after) /\ NextAfter(s, after) < Horizon(after)
            /\ MatchesAt(s, NextAfter(s, after)))
    BY <1>3, <2>1, <2>2, NextAfterIs
  <2> QED BY <1>5, <2>2, <2>3
<1>7. Naming(LeapDays, Gregorian[leap \div Day], leap)
  <2>1. leap \div Day = to /\ leap % Day = 0
    BY <1>3 DEF Day
  <2>2. CivilDate(to).month = 2 /\ CivilDate(to).day = 29
    BY <1>1, LeapDayOf2104
  <2> QED BY <1>3, <2>1, <2>2, LeapDaysAre
<1> QED BY <1>1, <1>2, <1>3, <1>6, <1>7, LeapDaysAre

(***************************************************************************)
(* The timer's invariant.                                                  *)
(***************************************************************************)
\* What a minute of a root is: due, handed over, or behind a firing too late for it.
DueAt(r, m) == MatchesAt(schedule[r], m)
HandedOver(r, m) == \E f \in fired : f.root = r /\ f.minute = m
Covered(r, m) == HandedOver(r, m) \/ \E p \in passed : p[1] < m /\ m <= p[2]
Waits == at \in {"Asleep", "Awake"}

\* The timer's types; its firings are a finite set.
TimerTypeOK ==
  /\ schedule \in [Scheduled -> {Parsed(x) : x \in Expressions}]
  /\ started \in Nat /\ clock \in Nat /\ at \in {"Top", "Asleep", "Awake", "Stopped"}
  /\ fireAt \in Nat \cup {Never} /\ due \subseteq Scheduled /\ wait \in Nat
  /\ IsFiniteSet(fired) /\ fired \subseteq [root : Scheduled, minute : Nat, time : Nat]
  /\ setBack \in BOOLEAN

\* What the timer waits for is the next minute of the roots that are due then.
WaitsForDue ==
  Waits => fireAt \in Nat /\ fireAt >= Minute /\ \A r \in due : DueAt(r, fireAt)

\* Nothing was missed up to the clock, or while it waits up to fireAt.
NothingMissed ==
  \A r \in Scheduled : \A m \in Nat :
    started < m /\ DueAt(r, m) =>
      /\ at = "Top" /\ m <= clock => Covered(r, m)
      /\ Waits /\ m <= fireAt => Covered(r, m) \/ (m = fireAt /\ r \in due)

\* Without a step back of the clock, what it waits for is later than what it fired for.
OnceOnly ==
  /\ \A f \in fired : DueAt(f.root, f.minute) /\ f.minute >= Minute /\ (f.time > 0 => setBack)
  /\ ~setBack => \A f \in fired : f.minute <= clock /\ (Waits => f.minute < fireAt)

TimerInv == TimerTypeOK /\ WaitsForDue /\ NothingMissed /\ OnceOnly

\* Firings are counted.
LEMMA TimesAre ==
  ASSUME IsFiniteSet(fired), NEW r, NEW m
  PROVE  Times(r, m) \in Nat /\ (Times(r, m) > 0 <=> HandedOver(r, m))
<1> DEFINE of == {f \in fired : f.root = r /\ f.minute = m}
<1>1. IsFiniteSet(of)
  BY FS_Subset
<1>2. Cardinality(of) \in Nat /\ (Cardinality(of) = 0 <=> of = {})
  BY <1>1, FS_CardinalityType, FS_EmptySet
<1>3. Times(r, m) = Cardinality(of)
  BY DEF Times
<1>4. of # {} <=> HandedOver(r, m)
  BY DEF HandedOver
<1> HIDE DEF of
<1> QED BY <1>2, <1>3, <1>4

\* next_after, of a root's schedule and the clock.
LEMMA NextOfIs ==
  ASSUME TimerTypeOK, NEW r \in Scheduled
  PROVE  LET next == NextOf(r, clock)
         IN /\ next = Never
               \/ (next \in Nat /\ clock < next /\ next < Horizon(clock) /\ DueAt(r, next))
            /\ \A t \in Nat : clock < t /\ DueAt(r, t) => t >= Horizon(clock) \/ (next # Never /\ next <= t)
<1>1. PICK s : s = schedule[r]
  OBVIOUS
<1>2. PICK x \in Expressions : s = Parsed(x)
  BY <1>1 DEF TimerTypeOK
<1>3. IsClock(s)
  BY <1>2, ParsedIsClock
<1>4. clock \in Nat
  BY DEF TimerTypeOK
<1>5. /\ NextAfter(s, clock) = Never
         \/ (NextAfter(s, clock) \in Nat /\ clock < NextAfter(s, clock) /\ NextAfter(s, clock) < Horizon(clock)
             /\ MatchesAt(s, NextAfter(s, clock)))
      /\ \A t \in Nat : clock < t /\ MatchesAt(s, t) =>
           t >= Horizon(clock) \/ (NextAfter(s, clock) # Never /\ NextAfter(s, clock) <= t)
  BY <1>3, <1>4, NextAfterIs
<1> QED BY <1>1, <1>5 DEF NextOf, DueAt

\* next_due
LEMMA SoonestIs ==
  ASSUME TimerTypeOK, NEW next, next = Soonest(clock), next # Never
  PROVE  /\ next \in Nat /\ clock < next /\ next >= Minute
         /\ \A r \in Scheduled : NextOf(r, clock) = next => DueAt(r, next)
         /\ \A r \in Scheduled : \A t \in Nat :
              clock < t /\ t <= next /\ DueAt(r, t) => t = next /\ NextOf(r, clock) = next
<1> DEFINE all == {NextOf(r, clock) : r \in Scheduled} \ {Never}
<1>1. next = Min(all) /\ all # {}
  BY DEF Soonest
<1>2. all \in SUBSET Nat
  BY NextOfIs
<1>3. next \in all /\ \A n \in all : next <= n
  BY <1>1, <1>2, LeastOne
<1>4. next \in Nat
  BY <1>2, <1>3
<1>5. PICK q \in Scheduled : next = NextOf(q, clock)
  BY <1>3
<1>6. clock < next /\ next < Horizon(clock) /\ DueAt(q, next)
  BY <1>5, NextOfIs
<1>7. next >= Minute
  <2>1. next % 60 = 0
    BY <1>4, <1>6 DEF DueAt, MatchesAt, AtTime, Minute, Day
  <2>2. next > 0
    BY <1>4, <1>6 DEF TimerTypeOK
  <2> QED BY <1>4, <2>1, <2>2 DEF Minute
<1>8. ASSUME NEW r \in Scheduled, NextOf(r, clock) = next PROVE DueAt(r, next)
  BY <1>8, NextOfIs
<1>9. ASSUME NEW r \in Scheduled, NEW t \in Nat, clock < t, t <= next, DueAt(r, t)
      PROVE  t = next /\ NextOf(r, clock) = next
  <2>1. PICK n : n = NextOf(r, clock)
    OBVIOUS
  <2>2. n = Never \/ n \in Nat
    BY <2>1, NextOfIs
  <2>3. Horizon(clock) \in Int
    <3>1. clock \in Nat
      BY DEF TimerTypeOK
    <3> QED BY <3>1 DEF Horizon, NextMinute, Minute, Day, SearchLimitDays
  <2>4. t < Horizon(clock)
    BY <1>4, <1>6, <1>9, <2>3
  <2>5. n # Never /\ n <= t
    BY <1>9, <2>1, <2>3, <2>4, NextOfIs
  <2>6. next <= n
    BY <1>3, <2>1, <2>5
  <2> QED BY <1>4, <1>9, <2>1, <2>2, <2>5, <2>6
<1> QED BY <1>4, <1>6, <1>7, <1>8, <1>9

\* How the timer starts.
TimerBegins ==
  /\ started \in Nat /\ schedule \in [Scheduled -> {Parsed(x) : x \in Expressions}]
  /\ TimerInit

\* That is the invariant's beginning.
LEMMA TimerInitially == TimerBegins => TimerInv
<1> SUFFICES ASSUME TimerBegins PROVE TimerInv
  OBVIOUS
<1>1. TimerTypeOK
  BY FS_EmptySet DEF TimerBegins, TimerInit, TimerTypeOK
<1>2. WaitsForDue
  BY DEF TimerBegins, TimerInit, WaitsForDue, Waits
<1>3. NothingMissed
  BY DEF TimerBegins, TimerInit, NothingMissed, Waits
<1>4. OnceOnly
  BY DEF TimerBegins, TimerInit, OnceOnly
<1> QED BY <1>1, <1>2, <1>3, <1>4 DEF TimerInv

\* The timer looks for the soonest minute of all roots: no root is due before it.
LEMMA PlanKeeps ==
  ASSUME TimerInv, Plan
  PROVE  TimerInv'
<1>1. TimerTypeOK /\ at = "Top" /\ NothingMissed /\ OnceOnly
  BY DEF TimerInv, Plan
<1>2. PICK next : next = Soonest(clock)
  OBVIOUS
<1>3. /\ fireAt' = next /\ schedule' = schedule /\ started' = started /\ clock' = clock
      /\ fired' = fired /\ passed' = passed /\ setBack' = setBack
  BY <1>2 DEF Plan
<1>4. CASE next = Never
  <2>1. at' = "Stopped" /\ due' = due /\ wait' = wait
    BY <1>3, <1>4 DEF Plan
  <2>2. TimerTypeOK'
    BY <1>1, <1>3, <1>4, <2>1 DEF TimerTypeOK
  <2>3. WaitsForDue' /\ NothingMissed'
    BY <2>1 DEF WaitsForDue, NothingMissed, Waits
  <2>4. OnceOnly'
    BY <1>1, <1>3, <2>1 DEF OnceOnly, Waits, DueAt
  <2> QED BY <2>2, <2>3, <2>4 DEF TimerInv
<1>5. CASE next # Never
  <2>1. /\ at' = "Asleep" /\ due' = {r \in Scheduled : NextOf(r, clock) = next}
        /\ wait' = SleepFor(next, clock)
    BY <1>3, <1>5 DEF Plan
  <2>2. /\ next \in Nat /\ clock < next /\ next >= Minute
        /\ \A r \in Scheduled : NextOf(r, clock) = next => DueAt(r, next)
        /\ \A r \in Scheduled : \A t \in Nat :
             clock < t /\ t <= next /\ DueAt(r, t) => t = next /\ NextOf(r, clock) = next
    BY <1>1, <1>2, <1>5, SoonestIs
  <2>3. clock \in Nat
    BY <1>1 DEF TimerTypeOK
  <2>4. wait' \in Nat
    <3>1. PICK gap : gap = next - clock
      OBVIOUS
    <3>2. gap \in Nat /\ MaxSleep \in Nat
      BY <2>2, <2>3, <3>1 DEF MaxSleep
    <3>3. Min({gap, MaxSleep}) \in Nat
      BY <3>2, MinOfTwo
    <3> QED BY <2>1, <3>1, <3>3 DEF SleepFor
  <2>5. TimerTypeOK'
    BY <1>1, <1>3, <2>1, <2>2, <2>4 DEF TimerTypeOK
  <2>6. WaitsForDue'
    <3>1. \A r \in due' : MatchesAt(schedule[r], next)
      BY <2>1, <2>2 DEF DueAt
    <3> QED BY <1>3, <2>2, <3>1 DEF WaitsForDue, DueAt
  <2>7. NothingMissed'
    <3> SUFFICES ASSUME NEW r \in Scheduled, NEW m \in Nat, started < m, MatchesAt(schedule[r], m), m <= next
                 PROVE  Covered(r, m)' \/ (m = next /\ r \in due')
      BY <1>3, <2>1 DEF NothingMissed, DueAt, Waits
    <3>1. CASE m <= clock
      <4>1. Covered(r, m)
        BY <1>1, <3>1 DEF NothingMissed, DueAt
      <4>2. Covered(r, m)'
        BY <1>3, <4>1 DEF Covered, HandedOver
      <4> QED BY <4>2
    <3>2. CASE clock < m
      <4>1. m = next /\ NextOf(r, clock) = next
        BY <2>2, <3>2 DEF DueAt
      <4> QED BY <2>1, <4>1
    <3> QED BY <2>3, <3>1, <3>2
  <2>8. OnceOnly'
    <3>1. \A f \in fired : f.minute \in Nat
      BY <1>1 DEF TimerTypeOK
    <3> QED BY <1>1, <1>3, <2>1, <2>2, <2>3, <3>1 DEF OnceOnly, Waits, DueAt
  <2> QED BY <2>5, <2>6, <2>7, <2>8 DEF TimerInv
<1> QED BY <1>4, <1>5

\* The clock goes on, forward unless it is set back.
LEMMA ClockKeeps ==
  ASSUME TimerInv, Waits, Waits', clock' \in Nat, ~setBack' => ~setBack /\ clock <= clock', setBack' \in BOOLEAN,
         at' \in {"Asleep", "Awake"},
         schedule' = schedule, started' = started, fireAt' = fireAt, due' = due, wait' = wait,
         fired' = fired, passed' = passed
  PROVE  TimerInv'
<1>1. TimerTypeOK'
  BY DEF TimerInv, TimerTypeOK
<1>2. WaitsForDue'
  BY DEF TimerInv, WaitsForDue, DueAt
<1>3. NothingMissed'
  <2> SUFFICES ASSUME NEW r \in Scheduled, NEW m \in Nat, started < m, MatchesAt(schedule[r], m), m <= fireAt
               PROVE  Covered(r, m)' \/ (m = fireAt /\ r \in due)
    BY DEF NothingMissed, DueAt
  <2>1. Covered(r, m) \/ (m = fireAt /\ r \in due)
    BY DEF TimerInv, NothingMissed, DueAt
  <2>2. Covered(r, m) => Covered(r, m)'
    BY DEF Covered, HandedOver
  <2> QED BY <2>1, <2>2
<1>4. OnceOnly'
  <2>1. \A f \in fired : f.minute \in Nat
    BY DEF TimerInv, TimerTypeOK
  <2>2. \A f \in fired : DueAt(f.root, f.minute)' /\ f.minute >= Minute /\ (f.time > 0 => setBack')
    BY DEF TimerInv, OnceOnly, DueAt, TimerTypeOK
  <2>3. ~setBack' => \A f \in fired : f.minute <= clock' /\ f.minute < fireAt
    BY <2>1 DEF TimerInv, OnceOnly, TimerTypeOK
  <2> QED BY <2>2, <2>3 DEF OnceOnly
<1> QED BY <1>1, <1>2, <1>3, <1>4 DEF TimerInv

\* It sleeps, and the clock goes on.
LEMMA SleepKeeps ==
  ASSUME TimerInv, NEW more \in Lates, Sleep(more)
  PROVE  TimerInv'
<1>1. more \in Nat /\ clock \in Nat /\ wait \in Nat /\ setBack \in BOOLEAN
  BY TimerAssumption DEF TimerAssumption, TimerInv, TimerTypeOK
<1>2. clock' \in Nat /\ clock <= clock'
  BY <1>1 DEF Sleep
<1>3. Waits /\ Waits' /\ at' = "Awake"
  BY DEF Sleep, Waits
<1> QED BY <1>1, <1>2, <1>3, ClockKeeps DEF Sleep, sleeping

\* The clock is stepped, back perhaps.
LEMMA StepKeeps ==
  ASSUME TimerInv, NEW by \in ClockSteps, StepClock(by)
  PROVE  TimerInv'
<1>1. by \in Int /\ clock \in Nat /\ setBack \in BOOLEAN
  BY TimerAssumption DEF TimerAssumption, TimerInv, TimerTypeOK
<1>2. clock' = clock + by /\ clock' \in Nat /\ setBack' = (setBack \/ by < 0)
  BY <1>1 DEF StepClock
<1>3. by < 0 \/ clock <= clock'
  BY <1>1, <1>2
<1>4. setBack' \in BOOLEAN /\ (~setBack' => ~setBack /\ ~(by < 0))
  BY <1>1, <1>2
<1>5. Waits /\ Waits' /\ at' \in {"Asleep", "Awake"}
  BY DEF StepClock, Waits
<1>6. ~setBack' => ~setBack /\ clock <= clock'
  BY <1>3, <1>4
<1> QED BY <1>2, <1>4, <1>5, <1>6, ClockKeeps DEF StepClock, sleeping

\* It woke before fireAt: nothing was due up to the clock.
LEMMA EarlyKeeps ==
  ASSUME TimerInv, Early
  PROVE  TimerInv'
<1>1. /\ at = "Awake" /\ clock < fireAt /\ at' = "Top" /\ Waits
      /\ schedule' = schedule /\ started' = started /\ clock' = clock /\ fireAt' = fireAt /\ due' = due /\ wait' = wait
      /\ fired' = fired /\ passed' = passed /\ setBack' = setBack
  BY DEF Early, sleeping, told, Waits
<1>2. TimerTypeOK'
  BY <1>1 DEF TimerInv, TimerTypeOK
<1>3. WaitsForDue'
  BY <1>1 DEF WaitsForDue, Waits
<1>4. NothingMissed'
  <2> SUFFICES ASSUME NEW r \in Scheduled, NEW m \in Nat, started < m, MatchesAt(schedule[r], m), m <= clock
               PROVE  Covered(r, m)'
    BY <1>1 DEF NothingMissed, DueAt, Waits
  <2>1. m <= fireAt /\ m # fireAt
    BY <1>1 DEF TimerInv, TimerTypeOK, WaitsForDue
  <2>2. Covered(r, m)
    BY <1>1, <2>1 DEF TimerInv, NothingMissed, DueAt
  <2> QED BY <1>1, <2>2 DEF Covered, HandedOver
<1>5. OnceOnly'
  BY <1>1 DEF TimerInv, OnceOnly, DueAt, Waits
<1> QED BY <1>2, <1>3, <1>4, <1>5 DEF TimerInv

\* It hands over what was due at fireAt; what was due since has been passed.
LEMMA FireKeeps ==
  ASSUME TimerInv, FireDue
  PROVE  TimerInv'
<1> DEFINE new == {[root |-> r, minute |-> fireAt, time |-> Times(r, fireAt)] : r \in due}
<1>1. /\ at = "Awake" /\ fireAt <= clock /\ at' = "Top" /\ Waits
      /\ schedule' = schedule /\ started' = started /\ clock' = clock /\ fireAt' = fireAt /\ due' = due /\ wait' = wait
      /\ fired' = fired \cup new /\ passed' = passed \cup {<<fireAt, clock>>} /\ setBack' = setBack
  BY DEF FireDue, sleeping, Waits, TimerInv, TimerTypeOK, WaitsForDue
<1>2. /\ fireAt \in Nat /\ fireAt >= Minute /\ clock \in Nat /\ due \subseteq Scheduled
      /\ \A r \in due : DueAt(r, fireAt)
      /\ IsFiniteSet(fired) /\ \A f \in fired : f.root \in Scheduled /\ f.minute \in Nat /\ f.time \in Nat
  BY <1>1 DEF TimerInv, TimerTypeOK, WaitsForDue
<1>3. \A f \in new : /\ f \in [root : Scheduled, minute : Nat, time : Nat]
                     /\ f.root \in due /\ f.minute = fireAt
                     /\ f.time > 0 => HandedOver(f.root, fireAt)
  <2> SUFFICES ASSUME NEW r \in due
               PROVE  /\ r \in Scheduled /\ fireAt \in Nat
                      /\ Times(r, fireAt) \in Nat /\ (Times(r, fireAt) > 0 => HandedOver(r, fireAt))
    OBVIOUS
  <2> QED BY <1>2, TimesAre
<1>4. \A r \in due : \E f \in new : f.root = r /\ f.minute = fireAt
  <2> SUFFICES ASSUME NEW r \in due PROVE \E f \in new : f.root = r /\ f.minute = fireAt
    OBVIOUS
  <2>1. [root |-> r, minute |-> fireAt, time |-> Times(r, fireAt)] \in new
    OBVIOUS
  <2> QED BY <2>1
<1>5. IsFiniteSet(new)
  <2>1. IsFiniteSet(due)
    BY <1>2, FS_Subset, TimerAssumption DEF TimerAssumption
  <2> DEFINE tell == [r \in due |-> [root |-> r, minute |-> fireAt, time |-> Times(r, fireAt)]]
  <2>2. tell \in Surjection(due, new)
    BY DEF Surjection
  <2> QED BY <2>1, <2>2, FS_Surjection
<1> HIDE DEF new
<1>6. TimerTypeOK'
  <2>1. IsFiniteSet(fired')
    BY <1>1, <1>2, <1>5, FS_Union
  <2>2. fired' \subseteq [root : Scheduled, minute : Nat, time : Nat]
    BY <1>1, <1>3 DEF TimerInv, TimerTypeOK
  <2> QED BY <1>1, <2>1, <2>2 DEF TimerInv, TimerTypeOK
<1>7. WaitsForDue'
  BY <1>1 DEF WaitsForDue, Waits
<1>8. NothingMissed'
  <2> SUFFICES ASSUME NEW r \in Scheduled, NEW m \in Nat, started < m, MatchesAt(schedule[r], m), m <= clock
               PROVE  Covered(r, m)'
    BY <1>1 DEF NothingMissed, DueAt, Waits
  <2>1. CASE m <= fireAt
    <3>1. Covered(r, m) \/ (m = fireAt /\ r \in due)
      BY <1>1, <2>1 DEF TimerInv, NothingMissed, DueAt
    <3>2. CASE Covered(r, m)
      BY <1>1, <3>2 DEF Covered, HandedOver
    <3>3. CASE m = fireAt /\ r \in due
      BY <1>1, <1>4, <3>3 DEF Covered, HandedOver
    <3> QED BY <3>1, <3>2, <3>3
  <2>2. CASE fireAt < m
    <3>1. <<fireAt, clock>> \in passed' /\ <<fireAt, clock>>[1] < m /\ m <= <<fireAt, clock>>[2]
      BY <1>1, <2>2
    <3> QED BY <3>1 DEF Covered
  <2> QED BY <1>2, <2>1, <2>2
<1>9. OnceOnly'
  <2>1. ASSUME NEW f \in new
        PROVE  MatchesAt(schedule[f.root], f.minute) /\ f.minute >= Minute /\ (f.time > 0 => setBack) /\ f.minute <= clock
    <3>1. MatchesAt(schedule[f.root], f.minute) /\ f.minute >= Minute /\ f.minute <= clock
      BY <1>1, <1>2, <1>3 DEF DueAt
    <3>2. ASSUME f.time > 0, ~setBack PROVE FALSE
      <4>1. PICK g \in fired : g.root = f.root /\ g.minute = fireAt
        BY <1>3, <3>2 DEF HandedOver
      <4>2. g.minute < fireAt
        BY <1>1, <3>2, <4>1 DEF TimerInv, OnceOnly
      <4> QED BY <1>2, <4>1, <4>2
    <3> QED BY <3>1, <3>2
  <2>2. ASSUME NEW f \in fired
        PROVE  /\ MatchesAt(schedule[f.root], f.minute) /\ f.minute >= Minute /\ (f.time > 0 => setBack)
               /\ ~setBack => f.minute <= clock
    BY DEF TimerInv, OnceOnly, DueAt
  <2> QED BY <1>1, <2>1, <2>2 DEF OnceOnly, DueAt, Waits
<1> QED BY <1>6, <1>7, <1>8, <1>9 DEF TimerInv

\* So every step of the timer keeps its invariant.
LEMMA TimerNextKeeps == TimerInv /\ [TimerNext]_timer => TimerInv'
<1> SUFFICES ASSUME TimerInv, [TimerNext]_timer PROVE TimerInv'
  OBVIOUS
<1>1. CASE Plan
  BY <1>1, PlanKeeps
<1>2. CASE Early
  BY <1>2, EarlyKeeps
<1>3. CASE FireDue
  BY <1>3, FireKeeps
<1>4. CASE \E more \in Lates : Sleep(more)
  BY <1>4, SleepKeeps
<1>5. CASE \E by \in ClockSteps : StepClock(by)
  BY <1>5, StepKeeps
<1>6. CASE UNCHANGED timer
  BY <1>6 DEF timer, sleeping, told, TimerInv, TimerTypeOK, WaitsForDue, NothingMissed, OnceOnly, Waits, DueAt, Covered, HandedOver
<1> QED BY <1>1, <1>2, <1>3, <1>4, <1>5, <1>6 DEF TimerNext

(***************************************************************************)
(* The theorems.                                                           *)
(***************************************************************************)
\* The invariant holds, for any roots, expressions and clocks.
THEOREM TimerHolds == TimerSpec => []TimerInv
<1>1. TimerSpec => TimerBegins /\ [][TimerNext]_timer
  BY DEF TimerSpec, TimerBegins
<1> QED BY <1>1, TimerInitially, TimerNextKeeps, PTL

\* What DueIn stands for: the seconds of a span that an expression names, by the calendar.
DueByCalendar ==
  \A x \in Expressions : \A from, to \in Nat :
    DueIn(Parsed(x), from, to) = {t \in from + 1 .. to : Naming(x, Gregorian[t \div Day], t)}

\* These are the seconds that the schedule made of the expression matches.
LEMMA DueInIs ==
  ASSUME DueByCalendar, TimerTypeOK, NEW r \in Scheduled, NEW from \in Nat, NEW to \in Nat, NEW t
  PROVE  t \in DueIn(schedule[r], from, to) <=> t \in Nat /\ from < t /\ t <= to /\ DueAt(r, t)
<1>1. PICK x \in Expressions : schedule[r] = Parsed(x)
  BY DEF TimerTypeOK
<1>2. t \in DueIn(schedule[r], from, to) <=> t \in from + 1 .. to /\ Naming(x, Gregorian[t \div Day], t)
  BY <1>1 DEF DueByCalendar
<1>3. t \in from + 1 .. to <=> t \in Nat /\ from < t /\ t <= to
  OBVIOUS
<1>4. t \in Nat => (MatchesAt(Parsed(x), t) <=> Naming(x, Gregorian[t \div Day], t))
  BY MatchesAsNamed
<1> QED BY <1>1, <1>2, <1>3, <1>4 DEF DueAt

\* The invariant is about what next_after finds, the property about the calendar.
LEMMA DueFires ==
  ASSUME DueByCalendar, TimerInv
  PROVE  FiresAsDue
<1>1. TimerTypeOK /\ NothingMissed /\ OnceOnly /\ IsFiniteSet(fired) /\ started \in Nat /\ clock \in Nat
  BY DEF TimerInv, TimerTypeOK
<1>2. ASSUME at = "Top", NEW r \in Scheduled, NEW m \in DueIn(schedule[r], started, clock)
      PROVE  Times(r, m) > 0 \/ \E p \in passed : p[1] < m /\ m <= p[2]
  <2>1. m \in Nat /\ started < m /\ m <= clock /\ DueAt(r, m)
    BY <1>1, <1>2, DueInIs
  <2>2. Covered(r, m)
    BY <1>1, <1>2, <2>1 DEF NothingMissed
  <2> QED BY <1>1, <2>2, TimesAre DEF Covered
<1>3. ASSUME NEW f \in fired
      PROVE  f.minute \in DueIn(schedule[f.root], f.minute - Minute, f.minute) /\ (f.time > 0 => setBack)
  <2>1. f.root \in Scheduled /\ f.minute \in Nat
    BY <1>1 DEF TimerTypeOK
  <2>2. DueAt(f.root, f.minute) /\ f.minute >= Minute /\ (f.time > 0 => setBack)
    BY <1>1 DEF OnceOnly
  <2>3. PICK from : from = f.minute - Minute
    OBVIOUS
  <2>4. from \in Nat /\ from < f.minute
    BY <2>1, <2>2, <2>3 DEF Minute
  <2>5. f.minute \in DueIn(schedule[f.root], from, f.minute)
    BY <1>1, <2>1, <2>2, <2>4, DueInIs
  <2> QED BY <2>2, <2>3, <2>5
<1> QED BY <1>2, <1>3 DEF FiresAsDue, MissedOnlyWhilePassed, OnlyDueAndOnce

\* A root is handed over for the minutes its expression names by the calendar,
\* and for no other, except those that went by while the timer was late for
\* another root; and never twice for one unless the clock was set back (run).
THEOREM FiresHold == DueByCalendar => (TimerSpec => []FiresAsDue)
<1> SUFFICES ASSUME DueByCalendar PROVE TimerSpec => []FiresAsDue
  OBVIOUS
<1>1. TimerInv => FiresAsDue
  BY DueFires
<1> QED BY <1>1, TimerHolds, PTL

(***************************************************************************)
(* The hour.                                                               *)
(***************************************************************************)
\* While it sleeps the clock has not shown fireAt, or shows it since a step; once
\* awake, for no longer than the sleep.
HourInv ==
  /\ late \in Nat /\ shown \in Int /\ clock \in Int /\ fireAt \in Int /\ wait \in Int
  /\ at = "Asleep" => /\ wait <= MaxSleep
                      /\ shown = 0 \/ (shown = NotYet /\ clock < fireAt)
  /\ at = "Awake" => shown <= MaxSleep + late

\* It holds at first,
LEMMA HourInitially == TimerBegins => HourInv
BY DEF TimerBegins, TimerInit, HourInv, NotYet, Never

\* and every step keeps it: a sleep is no longer than MAX_SLEEP.
LEMMA HourKeeps == HourInv /\ TimerInv /\ TimerInv' /\ [TimerNext]_timer => HourInv'
<1> SUFFICES ASSUME HourInv, TimerInv, TimerInv', [TimerNext]_timer PROVE HourInv'
  OBVIOUS
<1>0. clock' \in Int /\ fireAt' \in Int /\ wait' \in Int /\ clock \in Nat
  BY DEF TimerInv, TimerTypeOK, Never
<1>1. CASE Plan
  <2>1. at = "Top" /\ shown' = NotYet /\ late' = late /\ clock' = clock /\ fireAt' = Soonest(clock)
    BY <1>1 DEF Plan
  <2>2. CASE fireAt' = Never
    BY <1>0, <1>1, <2>1, <2>2 DEF Plan, HourInv, NotYet
  <2>3. CASE fireAt' # Never
    <3>1. at' = "Asleep" /\ wait' = Min({fireAt' - clock, MaxSleep})
      BY <1>1, <2>3 DEF Plan, SleepFor
    <3>2. PICK next : next = fireAt'
      OBVIOUS
    <3>3. next \in Int /\ clock < next
      BY <2>1, <2>3, <3>2, SoonestIs DEF TimerInv
    <3>4. PICK gap \in Int : gap = next - clock
      BY <1>0, <3>3
    <3>5. Min({gap, MaxSleep}) <= MaxSleep
      BY MinOfTwo DEF MaxSleep
    <3> QED BY <1>0, <2>1, <3>1, <3>2, <3>3, <3>4, <3>5 DEF HourInv, NotYet
  <2> QED BY <2>2, <2>3
<1>2. CASE Early
  BY <1>0, <1>2 DEF Early, HourInv, sleeping, told
<1>3. CASE FireDue
  BY <1>0, <1>3 DEF FireDue, HourInv, sleeping
<1>4. ASSUME NEW more \in Lates, Sleep(more) PROVE HourInv'
  <2>1. more \in Nat
    BY TimerAssumption DEF TimerAssumption
  <2>2. /\ at = "Asleep" /\ at' = "Awake" /\ clock' = clock + wait + more /\ late' = more /\ fireAt' = fireAt /\ wait' = wait
        /\ shown' = IF clock' < fireAt THEN NotYet ELSE IF shown = NotYet THEN clock' - fireAt ELSE shown + (wait + more)
    BY <1>4 DEF Sleep, Shows, sleeping
  <2>3. shown' \in Int /\ shown' <= MaxSleep + more
    BY <1>0, <2>1, <2>2 DEF HourInv, NotYet, MaxSleep
  <2> QED BY <1>0, <2>1, <2>2, <2>3 DEF HourInv
<1>5. ASSUME NEW by \in ClockSteps, StepClock(by) PROVE HourInv'
  <2>1. /\ at' = at /\ late' = late /\ fireAt' = fireAt /\ wait' = wait
        /\ shown' = IF clock' < fireAt THEN NotYet ELSE IF shown = NotYet THEN 0 ELSE shown + 0
    BY <1>5 DEF StepClock, Shows, sleeping
  <2> QED BY <1>0, <2>1 DEF HourInv, NotYet, MaxSleep
<1>6. CASE UNCHANGED timer
  BY <1>6 DEF timer, sleeping, told, HourInv
<1> QED BY <1>1, <1>2, <1>3, <1>4, <1>5, <1>6 DEF TimerNext

\* However the clock is stepped, what is due is handed over within MAX_SLEEP of
\* the clock's showing it, and what the sleep overran (run).
THEOREM HourHolds == TimerSpec => WithinTheHour
<1>1. TimerSpec => TimerBegins /\ [][TimerNext]_timer
  BY DEF TimerSpec, TimerBegins
<1>2. HourInv /\ [TimerNext]_timer => [FireDue => shown <= MaxSleep + late]_timer
  BY DEF FireDue, HourInv
<1> QED BY <1>1, <1>2, TimerHolds, HourInitially, HourKeeps, PTL DEF WithinTheHour
=============================================================================
