----------------------------- MODULE AgentRunner -----------------------------
(***************************************************************************)
(* The agent's runner (crates/agent/src/runner.rs, `Runner`): scans on     *)
(* behalf of the schedule and of HTTP requests, at most one of a root at a *)
(* time, and the path each root's snapshots are stored under, which a      *)
(* scrape of /metrics looks up on a thread that may never come back.       *)
(*                                                                         *)
(* A root is the path as configured or requested; where it leads may       *)
(* change under the agent (a link re-pointed, a mount that comes and       *)
(* goes), so two roots may lead to the same place.  An action is one       *)
(* critical section or one call into the file system.  What a scan does in *)
(* the store (its base, its rows, retention) is no part of this module.  *)
(***************************************************************************)
EXTENDS Integers, FiniteSets

CONSTANTS
  Roots,       \* every root a scan is asked of
  Configured,  \* those of the configuration; the others are ad hoc
  Paths,       \* canonical paths
  Tasks,       \* blocking tasks that scan
  Scrapes,     \* one for each root of each call of recorded_roots
  Threads      \* threads that resolve roots

Absent    == "absent"     \* canonicalize fails
Resolving == "resolving"  \* Resolution::Resolving
Failed    == "failed"     \* Resolution::Failed; a path is Resolution::Known
NoSlot    == "no slot"    \* not in the map `recorded`
Nothing   == "nothing"    \* no scan has recorded a path

ASSUME RunnerAssumption ==
  /\ Configured \subseteq Roots
  /\ Paths \cap {Absent, Resolving, Failed, NoSlot, Nothing} = {}

VARIABLES
  target,    \* where each root leads now
  inFlight,  \* Runner::in_flight
  task,      \* each task: where it is in `scan_root`
  slot,      \* Runner::recorded and the state of the slots in it
  wrote,     \* history: what the last scan recorded in a slot
  resolver,  \* each thread of `start_resolving`
  scrape     \* each scrape: where it is in `recorded_roots`

scanning == <<inFlight, task>>
resolving == <<slot, wrote, resolver, scrape>>
vars == <<target, scanning, resolving>>

(***************************************************************************)
(* The initial state.                                                      *)
(***************************************************************************)
NoRoot == "no root"
Idle     == [at |-> "Idle", root |-> NoRoot, accepted |-> FALSE,
             overtaken |-> FALSE, path |-> Absent]
Parked   == [at |-> "Idle", root |-> NoRoot, found |-> Absent]
NotAsking == [at |-> "Idle", root |-> NoRoot]

Init ==
  /\ target \in [Roots -> Paths \cup {Absent}]
  /\ inFlight = {}
  /\ task = [t \in Tasks |-> Idle]
  /\ slot = [r \in Configured |-> NoSlot]
  /\ wrote = [r \in Configured |-> Nothing]
  /\ resolver = [h \in Threads |-> Parked]
  /\ scrape = [c \in Scrapes |-> NotAsking]

\* A link is re-pointed, a file system mounted or unmounted.
Repoint(r) ==
  /\ \E p \in (Paths \cup {Absent}) \ {target[r]} :
       target' = [target EXCEPT ![r] = p]
  /\ UNCHANGED <<scanning, resolving>>

(***************************************************************************)
(* Scans: asked for, claimed, run, released.                               *)
(***************************************************************************)
\* Mutant: a root that is being scanned is accepted too.
RequestedAnyway(r) == target[r] # Absent

\* What trigger_scan checks before it answers 202.
MayRequest(r) ==
  /\ target[r] # Absent
  /\ r \notin inFlight

Spawn(t, r, accepted) ==
  /\ task[t].at = "Idle"
  /\ task' = [task EXCEPT ![t] =
       [Idle EXCEPT !.at = "Spawned", !.root = r, !.accepted = accepted]]
  /\ UNCHANGED <<target, inFlight, resolving>>

\* trigger_scan; refusals change nothing.
Request(t, r) == MayRequest(r) /\ Spawn(t, r, TRUE)

\* The scheduler's run_one.
Fire(t, r) == r \in Configured /\ Spawn(t, r, FALSE)

MayClaim(r) == r \notin inFlight

Running(r, at) == [Idle EXCEPT !.at = at, !.root = r]

\* Those accepted for a root and not started when another scan of it is.
Overtaken(t, r) ==
  [u \in Tasks |->
    IF u # t /\ task[u].at = "Spawned" /\ task[u].root = r
    THEN [task[u] EXCEPT !.overtaken = TRUE]
    ELSE task[u]]

\* try_claim
Claim(t) ==
  /\ task[t].at = "Spawned"
  /\ MayClaim(task[t].root)
  /\ inFlight' = inFlight \cup {task[t].root}
  /\ task' = [Overtaken(t, task[t].root) EXCEPT ![t] = Running(task[t].root, "Claimed")]
  /\ UNCHANGED <<target, resolving>>

\* AlreadyRunning; the callers say so and go on.
Skip(t) ==
  /\ task[t].at = "Spawned"
  /\ ~MayClaim(task[t].root)
  /\ task' = [task EXCEPT ![t] = Idle]
  /\ UNCHANGED <<target, inFlight, resolving>>

\* The walk resolves the root when it starts.
Walk(t) ==
  /\ task[t].at = "Claimed"
  /\ target[task[t].root] # Absent
  /\ task' = [task EXCEPT ![t].at = "Walked", ![t].path = target[task[t].root]]
  /\ UNCHANGED <<target, inFlight, resolving>>

\* The snapshot is saved and its path remembered, under the map's lock; ad-hoc
\* roots are not.  Retention follows, and leaves this state alone.
Remember(t) ==
  LET r == task[t].root IN
  /\ task[t].at = "Walked"
  /\ task' = [task EXCEPT ![t] = Running(task[t].root, "Ending")]
  /\ IF r \in Configured
     THEN /\ slot' = [slot EXCEPT ![r] = task[t].path]
          /\ wrote' = [wrote EXCEPT ![r] = task[t].path]
     ELSE UNCHANGED <<slot, wrote>>
  /\ UNCHANGED <<target, inFlight, resolver, scrape>>

\* An error or a panic on the way: in the store, the walk or the save.
Fail(t) ==
  /\ task[t].at \in {"Claimed", "Walked"}
  /\ task' = [task EXCEPT ![t] = Running(task[t].root, "Ending")]
  /\ UNCHANGED <<target, inFlight, resolving>>

\* RootGuard::drop, on every way out.
Release(t) ==
  /\ task[t].at = "Ending"
  /\ inFlight' = inFlight \ {task[t].root}
  /\ task' = [task EXCEPT ![t] = Idle]
  /\ UNCHANGED <<target, resolving>>

(***************************************************************************)
(* What a root is recorded as: the resolver threads.                       *)
(***************************************************************************)
\* canonicalize; on a dead share it never returns, so nothing makes it happen.
Canonicalize(h) ==
  /\ resolver[h].at = "Reading"
  /\ resolver' = [resolver EXCEPT ![h].at = "Found",
                                  ![h].found = target[resolver[h].root]]
  /\ UNCHANGED <<target, scanning, slot, wrote, scrape>>

Outcome(found) == IF found = Absent THEN Failed ELSE found

Settled(state, found) == IF state = Resolving THEN Outcome(found) ELSE state

\* Recorded::finish.  The thread's slot is still the map's: only a scrape whose
\* thread did not start removes one (RunnerInv of AgentProofs).
Finish(h) ==
  LET r == resolver[h].root IN
  /\ resolver[h].at = "Found"
  /\ slot' = [slot EXCEPT ![r] = Settled(@, resolver[h].found)]
  /\ resolver' = [resolver EXCEPT ![h] = Parked]
  /\ UNCHANGED <<target, scanning, wrote, scrape>>

(***************************************************************************)
(* The scrapes.                                                            *)
(***************************************************************************)
\* Mutant: a resolver for every scrape until the answer is known.
UnlessKnown(state) == state \notin Paths

\* Mutant: a failure is kept.
OnlyOnce(state) == state = NoSlot

\* Whether start_resolving starts a thread.
Startable(state) == state \in {NoSlot, Failed}

Asking(r, at) == [NotAsking EXCEPT !.at = at, !.root = r]

\* start_resolving finds an answer, or a resolver that is running.
Join(c, r) ==
  /\ scrape[c].at = "Idle"
  /\ ~Startable(slot[r])
  /\ scrape' = [scrape EXCEPT ![c] = Asking(r, "Waiting")]
  /\ UNCHANGED <<target, scanning, slot, wrote, resolver>>

\* It starts a resolver.  Until the thread reads, nobody can tell the slot that
\* was just marked from one whose thread is running: one action.
StartResolver(c, r, h) ==
  /\ scrape[c].at = "Idle"
  /\ Startable(slot[r])
  /\ resolver[h].at = "Idle"
  /\ slot' = [slot EXCEPT ![r] = Resolving]
  /\ resolver' = [resolver EXCEPT ![h] = [at |-> "Reading", root |-> r, found |-> Absent]]
  /\ scrape' = [scrape EXCEPT ![c] = Asking(r, "Waiting")]
  /\ UNCHANGED <<target, scanning, wrote>>

\* It marks the slot, and no thread can be started.
SpawnFails(c, r) ==
  /\ scrape[c].at = "Idle"
  /\ Startable(slot[r])
  /\ slot' = [slot EXCEPT ![r] = Resolving]
  /\ scrape' = [scrape EXCEPT ![c] = Asking(r, "Starting")]
  /\ UNCHANGED <<target, scanning, wrote, resolver>>

\* It then forgets the slot, whatever is in it by now.  A scrape that waits for
\* that slot waits until its deadline: nothing will change it.
Forget(c) ==
  LET r == scrape[c].root IN
  /\ scrape[c].at = "Starting"
  /\ slot' = [slot EXCEPT ![r] = NoSlot]
  /\ wrote' = [wrote EXCEPT ![r] = Nothing]
  /\ scrape' = [scrape EXCEPT ![c] = NotAsking]
  /\ UNCHANGED <<target, scanning, resolver>>

\* wait_until returns: the path, the root as configured for a failure, or
\* nothing at the deadline, which comes whatever the resolver does.
Answer(c) ==
  /\ scrape[c].at = "Waiting"
  /\ scrape' = [scrape EXCEPT ![c] = NotAsking]
  /\ UNCHANGED <<target, scanning, slot, wrote, resolver>>

(***************************************************************************)
(* The specification.                                                      *)
(***************************************************************************)
Scan(t) ==
  \/ \E r \in Roots : Request(t, r) \/ Fire(t, r)
  \/ Claim(t) \/ Skip(t) \/ Walk(t) \/ Remember(t) \/ Fail(t) \/ Release(t)

Scraping(c) ==
  \/ \E r \in Configured :
       \/ Join(c, r)
       \/ SpawnFails(c, r)
       \/ \E h \in Threads : StartResolver(c, r, h)
  \/ Forget(c) \/ Answer(c)

Next ==
  \/ \E r \in Roots : Repoint(r)
  \/ \E t \in Tasks : Scan(t)
  \/ \E h \in Threads : Canonicalize(h) \/ Finish(h)
  \/ \E c \in Scrapes : Scraping(c)

\* Threads that are not in a system call are scheduled, and time passes.
Spec ==
  /\ Init
  /\ [][Next]_vars
  /\ \A h \in Threads : WF_vars(Finish(h))
  /\ \A c \in Scrapes : WF_vars(Forget(c)) /\ WF_vars(Answer(c))

(***************************************************************************)
(* Properties.                                                             *)
(***************************************************************************)
States == {NoSlot, Resolving, Failed} \cup Paths

TaskStates ==
  [at : {"Idle", "Spawned", "Claimed", "Walked", "Ending"}, root : Roots \cup {NoRoot},
   accepted : BOOLEAN, overtaken : BOOLEAN, path : Paths \cup {Absent}]

ResolverStates ==
  [at : {"Idle", "Reading", "Found"}, root : Configured \cup {NoRoot},
   found : Paths \cup {Absent}]

ScrapeStates ==
  [at : {"Idle", "Starting", "Waiting"}, root : Configured \cup {NoRoot}]

\* The variables have the types the code gives them; in particular a slot never
\* holds the path of a root that did not resolve.
TypeOK ==
  /\ target \in [Roots -> Paths \cup {Absent}]
  /\ inFlight \subseteq Roots
  /\ task \in [Tasks -> TaskStates]
  /\ slot \in [Configured -> States]
  /\ wrote \in [Configured -> Paths \cup {Nothing}]
  /\ resolver \in [Threads -> ResolverStates]
  /\ scrape \in [Scrapes -> ScrapeStates]

Scans(t) == task[t].at \in {"Claimed", "Walked", "Ending"}

\* A root is scanned by at most one task at a time, and in_flight names exactly
\* the roots being scanned: no claim is lost, and none outlives its scan on any
\* way out (try_claim, RootGuard).
OneScan ==
  /\ \A t, u \in Tasks :
       Scans(t) /\ Scans(u) /\ task[t].root = task[u].root => t = u
  /\ inFlight = {task[t].root : t \in {u \in Tasks : Scans(u)}}

\* A request answered 202 is never skipped for a scan that was already running
\* when it was asked: whoever got the claim got it after the request, so the
\* caller that watches for a new snapshot is not waiting for an old scan
\* (trigger_scan).
AcceptedIsScanned ==
  [][\A t \in Tasks : Skip(t) /\ task[t].accepted => task[t].overtaken]_vars

\* At most one thread resolves a root, however many scrapes ask and give up and
\* threads fail to start: a dead share costs one stuck thread (Resolving).
OneResolver ==
  \A h, g \in Threads :
    /\ resolver[h].at # "Idle"
    /\ resolver[g].at # "Idle"
    /\ resolver[h].root = resolver[g].root
    => h = g

\* Until its slot is forgotten a root is known by what its last scan wrote; no
\* resolver that comes back late overwrites it (Recorded::set, finish).
RowsKnown == \A r \in Configured : wrote[r] # Nothing => slot[r] = wrote[r]

\* What the runner says of a root is so: scanned by one, resolved by one, known
\* by its last scan.
RunnerSound == TypeOK /\ OneScan /\ OneResolver /\ RowsKnown

Asks(c, r) == scrape[c].at = "Waiting" /\ scrape[c].root = r
Reads(h)   == resolver[h].at = "Reading"
Starts(c)  == scrape[c].at = "Starting"

\* A root that failed to resolve is not reported that way for ever: if it leads
\* somewhere from some time on, is asked for again and again, threads start and
\* system calls return, then its path becomes known and stays known
\* (start_resolving retries a failure).
Resolves ==
  \A r \in Configured :
    /\ <>[](target[r] \in Paths)
    /\ []<>(\E c \in Scrapes : Asks(c, r))
    /\ <>[](\A c \in Scrapes : ~Starts(c))
    /\ \A h \in Threads : []<>~Reads(h)
    => <>[](slot[r] \in Paths)
=============================================================================
