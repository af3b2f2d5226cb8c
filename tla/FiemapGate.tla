------------------------------ MODULE FiemapGate ------------------------------
(***************************************************************************)
(* The gate in front of FIEMAP calls: crates/scan-core/src/extents.rs, and *)
(* its one user, map_deferred in scan.rs.                                  *)
(*                                                                         *)
(* Threads that ask one filesystem for the extents of its files get in     *)
(* each other's way once files share extents.  Then they take turns, a run *)
(* of files each, unless whoever has the turn no longer finishes any.      *)
(*                                                                         *)
(* Time passes in equal steps, and only when no thread could do something  *)
(* at once; a call takes FileTime at most, or it never returns.            *)
(***************************************************************************)
EXTENDS Integers, FiniteSets

CONSTANTS
  Walkers,     \* threads of the walk
  Permits,     \* fiemap_cap
  Patience,    \* GATE_PATIENCE
  RunLength,   \* GATE_RUN
  FilesEach,   \* in the directory each thread lists
  FileTime,    \* the longest a call takes that returns
  MaxHung      \* bound: calls that never return

ASSUME FiemapGateAssumption ==
  /\ IsFiniteSet(Walkers)
  /\ {Permits, RunLength, FilesEach, FileTime} \subseteq Nat \ {0}
  /\ MaxHung \in Nat
  /\ Patience \in Nat /\ Patience > FileTime

VARIABLES
  armed, abandoned,   \* Gate's flags
  ticks,              \* Gate::ticks
  busy,               \* Gate::busy
  walker,             \* each thread: where it is, and map_deferred's locals
  notified,           \* external: the waiting threads that `freed` has woken
  dropped             \* ScanProgress::cancel

gate == <<armed, abandoned, ticks, busy, walker, notified, dropped>>

AtGate(w, place) == walker[w].at = place
Goes(w, state) == walker' = [walker EXCEPT ![w] = state]
IsArmed == armed /\ ~abandoned
Waiting == {w \in Walkers : AtGate(w, "Waiting")}

(***************************************************************************)
(* Enter, wait, leave.                                                     *)
(***************************************************************************)
GoesAhead(w) == [walker[w] EXCEPT !.at = "Mapping", !.seen = 0, !.waited = 0]
Admitted(w) == [GoesAhead(w) EXCEPT !.permit = TRUE]
WaitsOn(w) == [walker[w] EXCEPT !.at = "Waiting", !.seen = ticks, !.waited = 0]

TellAll == notified \cup Waiting

\* Gate::enter up to the wait.
Enter(w) ==
  /\ AtGate(w, "Between") /\ walker[w].left > 0 /\ ~dropped
  /\ walker[w].run = 0 /\ walker[w].defers
  /\ IF ~IsArmed THEN Goes(w, GoesAhead(w)) /\ UNCHANGED busy
     ELSE IF busy < Permits THEN Goes(w, Admitted(w)) /\ busy' = busy + 1
     ELSE Goes(w, WaitsOn(w)) /\ UNCHANGED busy
  /\ UNCHANGED <<armed, abandoned, ticks, notified, dropped>>

\* Within a run, and where the gate was not armed when the listing began.
GoOn(w) ==
  /\ AtGate(w, "Between") /\ walker[w].left > 0
  /\ IF walker[w].defers THEN ~dropped /\ walker[w].run > 0 ELSE TRUE
  /\ Goes(w, [walker[w] EXCEPT !.at = "Mapping"])
  /\ UNCHANGED <<armed, abandoned, ticks, busy, notified, dropped>>

\* Mutant: there is no limit to it.
Forever(w) == FALSE
OutOfPatience(w) == walker[w].waited >= Patience

\* wait_timeout_while looks again.
SleepOn(w) ==
  /\ AtGate(w, "Waiting") /\ w \in notified /\ ~OutOfPatience(w)
  /\ busy >= Permits /\ ~abandoned
  /\ notified' = notified \ {w}
  /\ UNCHANGED <<armed, abandoned, ticks, busy, walker, dropped>>

Awake(w) ==
  /\ AtGate(w, "Waiting")
  /\ \/ w \in notified /\ (busy < Permits \/ abandoned)
     \/ OutOfPatience(w)

WaitedEnough(w) ==
  /\ Awake(w)
  /\ IF abandoned THEN Goes(w, GoesAhead(w)) /\ notified' = notified \ {w} /\ UNCHANGED <<abandoned, busy>>
     ELSE IF busy < Permits
     THEN Goes(w, Admitted(w)) /\ busy' = busy + 1 /\ notified' = notified \ {w} /\ UNCHANGED abandoned
     ELSE IF ticks = walker[w].seen
     THEN Goes(w, GoesAhead(w)) /\ abandoned' = TRUE /\ notified' = TellAll \ {w} /\ UNCHANGED busy
     ELSE Goes(w, WaitsOn(w)) /\ notified' = notified \ {w} /\ UNCHANGED <<abandoned, busy>>
  /\ UNCHANGED <<armed, ticks, dropped>>

\* Permit::drop, under the lock and after it.
GiveBack(w) ==
  /\ AtGate(w, "Returning") /\ busy' = busy - 1
  /\ Goes(w, [walker[w] EXCEPT !.at = "Notifying", !.permit = FALSE])
  /\ UNCHANGED <<armed, abandoned, ticks, notified, dropped>>

\* notify_one
Notify(w) ==
  /\ AtGate(w, "Notifying")
  /\ IF Waiting \subseteq notified THEN UNCHANGED notified
     ELSE \E o \in Waiting \ notified : notified' = notified \cup {o}
  /\ Goes(w, [walker[w] EXCEPT !.at = "Between"])
  /\ UNCHANGED <<armed, abandoned, ticks, busy, dropped>>

(***************************************************************************)
(* map_deferred, and the listing that maps as it goes.                     *)
(***************************************************************************)
Begin(w) ==
  /\ AtGate(w, "Away")
  /\ Goes(w, [walker[w] EXCEPT !.at = "Between", !.defers = IsArmed])
  /\ UNCHANGED <<armed, abandoned, ticks, busy, notified, dropped>>

\* Mutant: only a whole run counts.
RunTicks(w) == IF walker[w].permit /\ walker[w].run + 1 = RunLength THEN 1 ELSE 0
Ticked(w) == IF walker[w].permit THEN 1 ELSE 0

\* A file's call is back; what it shares arms the gate.
Mapped(w) ==
  /\ AtGate(w, "Mapping")
  /\ \/ UNCHANGED armed
     \/ ~dropped /\ armed' = TRUE
  /\ ticks' = ticks + Ticked(w)
  /\ LET run == (walker[w].run + 1) % RunLength
         after == [walker[w] EXCEPT !.left = @ - 1, !.run = run, !.spent = 0]
     IN Goes(w, [after EXCEPT !.at = IF run = 0 /\ walker[w].permit THEN "Returning" ELSE "Between"])
  /\ UNCHANGED <<abandoned, busy, notified, dropped>>

\* The last file, or a cancel between two.
Leave(w) ==
  /\ AtGate(w, "Between")
  /\ walker[w].left = 0 \/ (walker[w].defers /\ dropped)
  /\ Goes(w, [walker[w] EXCEPT !.left = 0, !.at = IF walker[w].permit THEN "Returning" ELSE "Through"])
  /\ UNCHANGED <<armed, abandoned, ticks, busy, notified, dropped>>

Walk(w) ==
  \/ Begin(w) \/ Enter(w) \/ GoOn(w) \/ SleepOn(w) \/ WaitedEnough(w)
  \/ GiveBack(w) \/ Notify(w) \/ Leave(w)

(***************************************************************************)
(* Outside.                                                                *)
(***************************************************************************)
Hung == {w \in Walkers : AtGate(w, "Hung")}

Hang(w) ==
  /\ AtGate(w, "Mapping") /\ walker[w].spent = 0 /\ Cardinality(Hung) < MaxHung
  /\ Goes(w, [walker[w] EXCEPT !.at = "Hung"])
  /\ UNCHANGED <<armed, abandoned, ticks, busy, notified, dropped>>

CancelWalk ==
  /\ ~dropped /\ dropped' = TRUE
  /\ UNCHANGED <<armed, abandoned, ticks, busy, walker, notified>>

Busy(w) ==
  \/ walker[w].at \in {"Away", "Between", "Returning", "Notifying"}
  \/ AtGate(w, "Waiting") /\ (w \in notified \/ OutOfPatience(w))
  \/ AtGate(w, "Mapping") /\ walker[w].spent = FileTime

Pass ==
  /\ ~ \E w \in Walkers : Busy(w)
  /\ \E w \in Walkers : walker[w].at \in {"Waiting", "Mapping"}
  /\ walker' = [w \in Walkers |->
       IF AtGate(w, "Waiting") THEN [walker[w] EXCEPT !.waited = IF @ < Patience THEN @ + 1 ELSE @]
       ELSE IF AtGate(w, "Mapping") THEN [walker[w] EXCEPT !.spent = @ + 1]
       ELSE walker[w]]
  /\ UNCHANGED <<armed, abandoned, ticks, busy, notified, dropped>>

\* The gate is met armed or not.
GateInit ==
  /\ armed \in BOOLEAN /\ abandoned = FALSE /\ ticks = 0 /\ busy = 0
  /\ walker = [w \in Walkers |->
       [at |-> "Away", left |-> FilesEach, run |-> 0, permit |-> FALSE, defers |-> FALSE,
        seen |-> 0, waited |-> 0, spent |-> 0]]
  /\ notified = {} /\ dropped = FALSE

GateNext ==
  \/ \E w \in Walkers : Walk(w) \/ Mapped(w) \/ Hang(w)
  \/ CancelWalk \/ Pass

\* As long as some thread or call can go on, or time can pass, something does.
Proceed == Pass \/ \E w \in Walkers : Walk(w) \/ Mapped(w)
GateFairness == WF_gate(Proceed)

GateSpec == GateInit /\ [][GateNext]_gate /\ GateFairness

(***************************************************************************)
(* Properties.                                                             *)
(***************************************************************************)
\* The gate is given up only if whoever has a permit will not be back.  "A
\* holder that is slow but finishing files is waited for" (extents.rs:605), also
\* when a run of files takes longer than anybody's patience.
GivenUpForTheStuck == abandoned => \E w \in Hung : walker[w].permit

\* No more are inside than there are permits, and none is lost: a permit that is
\* not given back would close the gate until it is given up.
PermitsAccountedFor ==
  LET holding == {w \in Walkers : walker[w].permit}
  IN busy = Cardinality(holding) /\ busy <= Permits

\* Once it is given up nobody spends a patience of his own on it (extents.rs:694).
NobodyWaitsAfter == abandoned => \A w \in Waiting : w \in notified

GateIsFair == GivenUpForTheStuck /\ PermitsAccountedFor /\ NobodyWaitsAfter

\* "The gate only ever makes the walk faster; it must never be what stops it"
\* (extents.rs:582): whatever hangs inside, every other thread gets through.
GateLetsThrough ==
  (\E w \in Walkers : AtGate(w, "Between")) ~> \A w \in Walkers : walker[w].at \in {"Through", "Hung"}
=============================================================================
