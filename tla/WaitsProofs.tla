----------------------------- MODULE WaitsProofs -----------------------------
(***************************************************************************)
(* Proofs about the two waits for something that may never return: the     *)
(* gate in front of FIEMAP, for any number of walkers, permits and files   *)
(* and any patience, and the start of an FSEvents stream, for any number   *)
(* of replays.  Then that what a replay answers is what the trait Journal  *)
(* promises, for any number of replays, files, changes and losses.         *)
(***************************************************************************)
EXTENDS FiemapGate, FsEvents, FiniteSetTheorems, SequenceTheorems, TLAPS

(***************************************************************************)
(* The gate's invariant.                                                   *)
(***************************************************************************)
Places == {"Away", "Between", "Mapping", "Waiting", "Returning", "Notifying", "Through", "Hung"}

WalkerState ==
  [at : Places, left : Int, run : 0..(RunLength - 1), permit : BOOLEAN, defers : BOOLEAN,
   seen : Nat, waited : 0..Patience, spent : 0..FileTime]

GateTypeOK ==
  /\ armed \in BOOLEAN
  /\ abandoned \in BOOLEAN
  /\ ticks \in Nat
  /\ busy \in Nat
  /\ walker \in [Walkers -> WalkerState]
  /\ notified \in SUBSET Walkers
  /\ dropped \in BOOLEAN

\* A permit is held from the gate to the end of its run, and given back at once.
Placed(w) ==
  /\ walker[w].permit => walker[w].at \in {"Mapping", "Hung", "Between", "Returning"}
  /\ walker[w].permit /\ AtGate(w, "Between") /\ walker[w].left > 0 => walker[w].run > 0
  /\ AtGate(w, "Returning") => walker[w].permit
  /\ AtGate(w, "Waiting") => walker[w].seen <= ticks

HoldersPlaced == \A w \in Walkers : Placed(w)

Holding == {w \in Walkers : walker[w].permit}

\* Who has a permit, is about to wake someone for one, or was woken for one.
Tokens ==
  {w \in Walkers : walker[w].permit \/ AtGate(w, "Notifying") \/ (AtGate(w, "Waiting") /\ w \in notified)}

\* No wake-up is lost: while someone sleeps, every permit is held or on its way.
WakesAccounted == ~(Waiting \subseteq notified) => Cardinality(Tokens) >= Permits

\* Whoever has waited while nothing ticked has waited for the same holders,
\* none of whom has finished a file since.
Stalled(w) == AtGate(w, "Waiting") /\ walker[w].waited > 0 /\ walker[w].seen = ticks

NoProgress(w) ==
  /\ busy >= Permits
  /\ \A h \in Holding : AtGate(h, "Hung") \/ (AtGate(h, "Mapping") /\ walker[h].spent >= walker[w].waited)

SameHolders == \A w \in Walkers : Stalled(w) => NoProgress(w)

GateInv ==
  /\ GateTypeOK /\ HoldersPlaced /\ WakesAccounted /\ SameHolders
  /\ GateIsFair

LEMMA GateConstants ==
  /\ IsFiniteSet(Walkers)
  /\ Permits \in Nat \ {0} /\ RunLength \in Nat \ {0} /\ FilesEach \in Nat \ {0}
  /\ FileTime \in Nat \ {0} /\ Patience \in Nat /\ Patience > FileTime
  /\ 0 \in 0..(RunLength - 1) /\ 0 \in 0..Patience /\ 0 \in 0..FileTime
BY FiemapGateAssumption

LEMMA FieldTyped ==
  ASSUME NEW s \in WalkerState
  PROVE  /\ \A at \in Places : [s EXCEPT !.at = at] \in WalkerState
         /\ \A at \in Places, left \in Int : [s EXCEPT !.left = left, !.at = at] \in WalkerState
         /\ \A at \in Places, defers \in BOOLEAN : [s EXCEPT !.at = at, !.defers = defers] \in WalkerState
         /\ \A left \in Int, run \in 0..(RunLength - 1), spent \in 0..FileTime :
              [s EXCEPT !.left = left, !.run = run, !.spent = spent] \in WalkerState
<1>1. ASSUME NEW at \in Places PROVE [s EXCEPT !.at = at] \in WalkerState
  BY DEF WalkerState
<1>2. ASSUME NEW at \in Places, NEW defers \in BOOLEAN
      PROVE  [s EXCEPT !.at = at, !.defers = defers] \in WalkerState
  BY DEF WalkerState
<1>3. ASSUME NEW left \in Int, NEW run \in 0..(RunLength - 1), NEW spent \in 0..FileTime
      PROVE  [s EXCEPT !.left = left, !.run = run, !.spent = spent] \in WalkerState
  BY DEF WalkerState
<1>4. ASSUME NEW at \in Places, NEW left \in Int
      PROVE  [s EXCEPT !.left = left, !.at = at] \in WalkerState
  BY DEF WalkerState
<1>5. QED
  BY <1>1, <1>2, <1>3, <1>4

\* What the steps make of a walker.
LEMMA WalkerSteps ==
  ASSUME GateTypeOK, NEW w \in Walkers
  PROVE  /\ GoesAhead(w) \in WalkerState /\ Admitted(w) \in WalkerState /\ WaitsOn(w) \in WalkerState
         /\ \A at \in Places : [walker[w] EXCEPT !.at = at] \in WalkerState
         /\ [walker[w] EXCEPT !.at = "Between", !.defers = IsArmed] \in WalkerState
         /\ [walker[w] EXCEPT !.left = 0, !.at = IF walker[w].permit THEN "Returning" ELSE "Through"] \in WalkerState
<1>1. walker[w] \in WalkerState /\ ticks \in Nat
  BY DEF GateTypeOK
<1>2. GoesAhead(w) \in WalkerState
  BY <1>1, GateConstants DEF GoesAhead, WalkerState, Places
<1>3. Admitted(w) \in WalkerState
  BY <1>2 DEF Admitted, WalkerState
<1>4. WaitsOn(w) \in WalkerState
  BY <1>1, GateConstants DEF WaitsOn, WalkerState, Places
<1>5. "Between" \in Places /\ IsArmed \in BOOLEAN
  BY DEF Places, IsArmed, GateTypeOK
<1>7. \A at \in Places : [walker[w] EXCEPT !.at = at] \in WalkerState
  BY <1>1, FieldTyped
<1>8. [walker[w] EXCEPT !.at = "Between", !.defers = IsArmed] \in WalkerState
  BY <1>1, <1>5, FieldTyped
<1>9. [walker[w] EXCEPT !.left = 0, !.at = IF walker[w].permit THEN "Returning" ELSE "Through"] \in WalkerState
  <2> DEFINE there == IF walker[w].permit THEN "Returning" ELSE "Through"
             none  == 0
  <2>1. there \in Places /\ none \in Int
    BY DEF Places
  <2> HIDE DEF there, none
  <2>2. [walker[w] EXCEPT !.left = none, !.at = there] \in WalkerState
    BY <1>1, <2>1, FieldTyped
  <2>3. QED
    BY <2>2 DEF there, none
<1>10. QED
  BY <1>2, <1>3, <1>4, <1>7, <1>8, <1>9

LEMMA GateTypeInit == GateInit => GateTypeOK
<1> SUFFICES ASSUME GateInit PROVE GateTypeOK
  OBVIOUS
<1>1. [at |-> "Away", left |-> FilesEach, run |-> 0, permit |-> FALSE, defers |-> FALSE,
       seen |-> 0, waited |-> 0, spent |-> 0] \in WalkerState
  BY GateConstants DEF WalkerState, Places
<1>2. QED
  BY <1>1 DEF GateInit, GateTypeOK

LEMMA GateTypeNext == GateTypeOK /\ [GateNext]_gate /\ busy' \in Nat => GateTypeOK'
<1> SUFFICES ASSUME GateTypeOK, [GateNext]_gate, busy' \in Nat PROVE GateTypeOK'
  OBVIOUS
<1> USE DEF GateTypeOK
<1>a. ASSUME NEW w \in Walkers, NEW s \in WalkerState, Goes(w, s)
      PROVE  walker' \in [Walkers -> WalkerState]
  BY <1>a DEF Goes
<1>b. \A w \in Walkers, at \in Places : [walker[w] EXCEPT !.at = at] \in WalkerState
  BY WalkerSteps
<1>1. ASSUME NEW w \in Walkers, Begin(w) PROVE GateTypeOK'
  BY <1>1, <1>a, WalkerSteps DEF Begin
<1>2. ASSUME NEW w \in Walkers, Enter(w) PROVE GateTypeOK'
  BY <1>2, <1>a, WalkerSteps DEF Enter
<1>3. ASSUME NEW w \in Walkers, GoOn(w) PROVE GateTypeOK'
  BY <1>3, <1>a, <1>b DEF GoOn, Places
<1>4. ASSUME NEW w \in Walkers, SleepOn(w) PROVE GateTypeOK'
  BY <1>4 DEF SleepOn
<1>5. ASSUME NEW w \in Walkers, WaitedEnough(w) PROVE GateTypeOK'
  BY <1>5, <1>a, WalkerSteps DEF WaitedEnough, TellAll, Waiting
<1>6. ASSUME NEW w \in Walkers, GiveBack(w) PROVE GateTypeOK'
  <2>1. [walker[w] EXCEPT !.at = "Notifying", !.permit = FALSE] \in WalkerState
    BY DEF WalkerState, Places
  <2>2. QED
    BY <1>6, <1>a, <2>1 DEF GiveBack
<1>7. ASSUME NEW w \in Walkers, Notify(w) PROVE GateTypeOK'
  BY <1>7, <1>a, <1>b DEF Notify, Waiting, Places
<1>8. ASSUME NEW w \in Walkers, Leave(w) PROVE GateTypeOK'
  BY <1>8, <1>a, WalkerSteps DEF Leave
<1>9. ASSUME NEW w \in Walkers, Mapped(w) PROVE GateTypeOK'
  <2> DEFINE run   == (walker[w].run + 1) % RunLength
             after == [walker[w] EXCEPT !.left = @ - 1, !.run = run, !.spent = 0]
             there == IF run = 0 /\ walker[w].permit THEN "Returning" ELSE "Between"
  <2>1. run \in 0..(RunLength - 1)
    BY GateConstants DEF WalkerState
  <2>2. [after EXCEPT !.at = there] \in WalkerState
    <3> HIDE DEF run
    <3>1. after \in WalkerState
      <4>1. walker[w].left - 1 \in Int
        BY DEF WalkerState
      <4>2. QED
        BY <2>1, <4>1, FieldTyped, GateConstants
    <3> HIDE DEF after
    <3>2. there \in Places
      BY DEF Places
    <3>3. QED
      BY <3>1, <3>2, FieldTyped
  <2>3. ticks' \in Nat
    BY <1>9 DEF Mapped, Ticked
  <2>4. QED
    BY <1>9, <1>a, <2>2, <2>3 DEF Mapped
<1>10. ASSUME NEW w \in Walkers, Hang(w) PROVE GateTypeOK'
  BY <1>10, <1>a, <1>b DEF Hang, Places
<1>11. CASE CancelWalk
  BY <1>11 DEF CancelWalk
<1>12. CASE Pass
  <2>1. ASSUME NEW w \in Walkers, AtGate(w, "Waiting")
        PROVE  [walker[w] EXCEPT !.waited = IF @ < Patience THEN @ + 1 ELSE @] \in WalkerState
    BY <2>1, GateConstants DEF WalkerState
  <2>2. ASSUME NEW w \in Walkers, AtGate(w, "Mapping")
        PROVE  [walker[w] EXCEPT !.spent = @ + 1] \in WalkerState
    <3>1. walker[w].spent # FileTime
      BY <1>12, <2>2 DEF Pass, Busy
    <3>2. QED
      BY <3>1, GateConstants DEF WalkerState
  <2>3. walker' \in [Walkers -> WalkerState]
    BY <1>12, <2>1, <2>2 DEF Pass
  <2>4. QED
    BY <1>12, <2>3 DEF Pass
<1>13. CASE UNCHANGED gate
  BY <1>13 DEF gate
<1>14. QED
  BY <1>1, <1>2, <1>3, <1>4, <1>5, <1>6, <1>7, <1>8, <1>9, <1>10, <1>11, <1>12, <1>13
  DEF GateNext, Walk

\* One walker moves, and to where.
LEMMA Moves ==
  ASSUME GateTypeOK, NEW w \in Walkers, NEW s, Goes(w, s)
  PROVE  walker'[w] = s /\ \A u \in Walkers : u # w => walker'[u] = walker[u]
BY DEF Goes, GateTypeOK

LEMMA Fields ==
  ASSUME GateTypeOK, NEW w \in Walkers
  PROVE  /\ GoesAhead(w).at = "Mapping" /\ GoesAhead(w).permit = walker[w].permit
         /\ GoesAhead(w).spent = walker[w].spent /\ GoesAhead(w).run = walker[w].run
         /\ Admitted(w).at = "Mapping" /\ Admitted(w).permit
         /\ Admitted(w).spent = walker[w].spent /\ Admitted(w).run = walker[w].run
         /\ WaitsOn(w).at = "Waiting" /\ WaitsOn(w).permit = walker[w].permit
         /\ WaitsOn(w).seen = ticks /\ WaitsOn(w).waited = 0 /\ WaitsOn(w).run = walker[w].run
BY DEF GoesAhead, Admitted, WaitsOn, GateTypeOK, WalkerState

\* Time moves no walker, and no holder gives up his permit.
LEMMA PassKeeps ==
  ASSUME GateTypeOK, Pass
  PROVE  \A w \in Walkers :
           /\ walker'[w].at = walker[w].at /\ walker'[w].permit = walker[w].permit
           /\ walker'[w].left = walker[w].left /\ walker'[w].run = walker[w].run
           /\ walker'[w].seen = walker[w].seen
           /\ ~AtGate(w, "Waiting") => walker'[w].waited = walker[w].waited
           /\ ~AtGate(w, "Mapping") => walker'[w].spent = walker[w].spent
           /\ AtGate(w, "Waiting") => walker'[w].waited = IF walker[w].waited < Patience THEN walker[w].waited + 1 ELSE walker[w].waited
           /\ AtGate(w, "Mapping") => walker'[w].spent = walker[w].spent + 1
BY DEF Pass, GateTypeOK, WalkerState, AtGate

LEMMA UpdatedFields ==
  ASSUME NEW s \in WalkerState, NEW a, NEW b
  PROVE  /\ [s EXCEPT !.at = a, !.defers = b].at = a
         /\ [s EXCEPT !.at = a, !.defers = b].permit = s.permit
         /\ [s EXCEPT !.at = a, !.defers = b].run = s.run
         /\ [s EXCEPT !.at = a, !.permit = b].at = a
         /\ [s EXCEPT !.at = a, !.permit = b].permit = b
         /\ [s EXCEPT !.left = b, !.at = a].at = a
         /\ [s EXCEPT !.left = b, !.at = a].permit = s.permit
BY DEF WalkerState

\* What each of a walker's own steps does to it, field by field.
Still(w) == \A u \in Walkers : u # w => walker'[u] = walker[u]
Keeps(w) == walker'[w].permit = walker[w].permit /\ walker'[w].run = walker[w].run

LEMMA BeginDoes ==
  ASSUME GateTypeOK, NEW w \in Walkers, Begin(w)
  PROVE  Still(w) /\ Keeps(w) /\ walker'[w].at = "Between"
<1>1. walker'[w] = [walker[w] EXCEPT !.at = "Between", !.defers = IsArmed] /\ Still(w)
  BY Moves DEF Begin, Still
<1>2. walker[w] \in WalkerState
  BY DEF GateTypeOK
<1>3. QED
  BY <1>1, <1>2, UpdatedFields DEF Keeps

LEMMA GoOnDoes ==
  ASSUME GateTypeOK, NEW w \in Walkers, GoOn(w)
  PROVE  Still(w) /\ Keeps(w) /\ walker'[w].at = "Mapping" /\ walker'[w].spent = walker[w].spent
BY Moves DEF GoOn, Still, Keeps, GateTypeOK, WalkerState

LEMMA EnterDoes ==
  ASSUME GateTypeOK, NEW w \in Walkers, Enter(w)
  PROVE  /\ Still(w)
         /\ \/ Keeps(w) /\ walker'[w].at = "Mapping" /\ ~IsArmed /\ busy' = busy
            \/ /\ walker'[w].at = "Mapping" /\ walker'[w].permit
               /\ IsArmed /\ busy < Permits /\ busy' = busy + 1
            \/ /\ Keeps(w) /\ walker'[w].at = "Waiting"
               /\ walker'[w].seen = ticks /\ walker'[w].waited = 0
               /\ IsArmed /\ ~(busy < Permits) /\ busy' = busy
<1>1. Still(w)
  BY Moves DEF Enter, Still
<1>2. CASE ~IsArmed
  <2>1. Goes(w, GoesAhead(w)) /\ busy' = busy
    BY <1>2 DEF Enter
  <2>2. walker'[w] = GoesAhead(w)
    BY <2>1, Moves
  <2>3. QED
    BY <1>1, <1>2, <2>1, <2>2, Fields DEF Keeps
<1>3. CASE IsArmed /\ busy < Permits
  <2>1. Goes(w, Admitted(w)) /\ busy' = busy + 1
    BY <1>3 DEF Enter
  <2>2. walker'[w] = Admitted(w)
    BY <2>1, Moves
  <2>3. QED
    BY <1>1, <1>3, <2>1, <2>2, Fields
<1>4. CASE IsArmed /\ ~(busy < Permits)
  <2>1. Goes(w, WaitsOn(w)) /\ busy' = busy
    BY <1>4 DEF Enter
  <2>2. walker'[w] = WaitsOn(w)
    BY <2>1, Moves
  <2>3. QED
    BY <1>1, <1>4, <2>1, <2>2, Fields DEF Keeps
<1>5. QED
  BY <1>1, <1>2, <1>3, <1>4

LEMMA WaitedEnoughDoes ==
  ASSUME GateTypeOK, NEW w \in Walkers, WaitedEnough(w)
  PROVE  /\ Still(w)
         /\ \/ /\ Keeps(w) /\ walker'[w].at = "Mapping" /\ abandoned /\ abandoned'
               /\ busy' = busy /\ notified' = notified \ {w}
            \/ /\ walker'[w].at = "Mapping" /\ walker'[w].permit /\ ~abandoned /\ ~abandoned'
               /\ busy < Permits /\ busy' = busy + 1 /\ notified' = notified \ {w}
            \/ /\ Keeps(w) /\ walker'[w].at = "Mapping" /\ ~abandoned /\ abandoned'
               /\ ~(busy < Permits) /\ ticks = walker[w].seen /\ OutOfPatience(w)
               /\ busy' = busy /\ notified' = TellAll \ {w}
            \/ /\ Keeps(w) /\ walker'[w].at = "Waiting" /\ ~abandoned /\ ~abandoned'
               /\ walker'[w].seen = ticks /\ walker'[w].waited = 0
               /\ ~(busy < Permits) /\ busy' = busy /\ notified' = notified \ {w}
<1>1. Still(w)
  BY Moves DEF WaitedEnough, Still
<1>2. CASE abandoned
  <2>1. Goes(w, GoesAhead(w)) /\ busy' = busy /\ abandoned' = abandoned /\ notified' = notified \ {w}
    BY <1>2 DEF WaitedEnough
  <2>2. walker'[w] = GoesAhead(w)
    BY <2>1, Moves
  <2>3. QED
    BY <1>1, <1>2, <2>1, <2>2, Fields DEF Keeps
<1>3. CASE ~abandoned /\ busy < Permits
  <2>1. Goes(w, Admitted(w)) /\ busy' = busy + 1 /\ abandoned' = abandoned /\ notified' = notified \ {w}
    BY <1>3 DEF WaitedEnough
  <2>2. walker'[w] = Admitted(w)
    BY <2>1, Moves
  <2>3. QED
    BY <1>1, <1>3, <2>1, <2>2, Fields
<1>4. CASE ~abandoned /\ ~(busy < Permits) /\ ticks = walker[w].seen
  <2>1. Goes(w, GoesAhead(w)) /\ busy' = busy /\ abandoned' = TRUE /\ notified' = TellAll \ {w}
    BY <1>4 DEF WaitedEnough
  <2>2. walker'[w] = GoesAhead(w)
    BY <2>1, Moves
  <2>3. OutOfPatience(w)
    BY <1>4 DEF WaitedEnough, Awake
  <2>4. QED
    BY <1>1, <1>4, <2>1, <2>2, <2>3, Fields DEF Keeps
<1>5. CASE ~abandoned /\ ~(busy < Permits) /\ ticks # walker[w].seen
  <2>1. Goes(w, WaitsOn(w)) /\ busy' = busy /\ abandoned' = abandoned /\ notified' = notified \ {w}
    BY <1>5 DEF WaitedEnough
  <2>2. walker'[w] = WaitsOn(w)
    BY <2>1, Moves
  <2>3. QED
    BY <1>1, <1>5, <2>1, <2>2, Fields DEF Keeps
<1>6. QED
  BY <1>1, <1>2, <1>3, <1>4, <1>5

LEMMA GiveBackDoes ==
  ASSUME GateTypeOK, NEW w \in Walkers, GiveBack(w)
  PROVE  Still(w) /\ walker'[w].at = "Notifying" /\ walker'[w].permit = FALSE
<1>1. walker'[w] = [walker[w] EXCEPT !.at = "Notifying", !.permit = FALSE] /\ Still(w)
  BY Moves DEF GiveBack, Still
<1>2. walker[w] \in WalkerState
  BY DEF GateTypeOK
<1>3. QED
  BY <1>1, <1>2, UpdatedFields

LEMMA NotifyDoes ==
  ASSUME GateTypeOK, NEW w \in Walkers, Notify(w)
  PROVE  Still(w) /\ Keeps(w) /\ walker'[w].at = "Between"
BY Moves DEF Notify, Still, Keeps, GateTypeOK, WalkerState

LEMMA LeaveDoes ==
  ASSUME GateTypeOK, NEW w \in Walkers, Leave(w)
  PROVE  /\ Still(w) /\ walker'[w].permit = walker[w].permit
         /\ walker'[w].at = IF walker[w].permit THEN "Returning" ELSE "Through"
<1> DEFINE there == IF walker[w].permit THEN "Returning" ELSE "Through"
           none  == 0
<1>1. walker'[w] = [walker[w] EXCEPT !.left = none, !.at = there] /\ Still(w)
  BY Moves DEF Leave, Still
<1>2. walker[w] \in WalkerState
  BY DEF GateTypeOK
<1> HIDE DEF there, none
<1>3. walker'[w].at = there /\ walker'[w].permit = walker[w].permit
  BY <1>1, <1>2, UpdatedFields
<1>4. QED
  BY <1>1, <1>3 DEF there

LEMMA HangDoes ==
  ASSUME GateTypeOK, NEW w \in Walkers, Hang(w)
  PROVE  Still(w) /\ Keeps(w) /\ walker'[w].at = "Hung"
BY Moves DEF Hang, Still, Keeps, GateTypeOK, WalkerState

LEMMA MappedDoes ==
  ASSUME GateTypeOK, NEW w \in Walkers, Mapped(w)
  PROVE  /\ Still(w) /\ walker'[w].permit = walker[w].permit
         /\ walker'[w].at = IF walker'[w].run = 0 /\ walker[w].permit THEN "Returning" ELSE "Between"
         /\ walker'[w].run \in Nat
         /\ ticks' = IF walker[w].permit THEN ticks + 1 ELSE ticks
<1> DEFINE run   == (walker[w].run + 1) % RunLength
           after == [walker[w] EXCEPT !.left = @ - 1, !.run = run, !.spent = 0]
           there == IF run = 0 /\ walker[w].permit THEN "Returning" ELSE "Between"
<1>1. walker'[w] = [after EXCEPT !.at = there] /\ Still(w)
  BY Moves DEF Mapped, Still
<1>2. run \in Nat
  BY GateConstants DEF GateTypeOK, WalkerState
<1> HIDE DEF run
<1>3. after.permit = walker[w].permit /\ after.run = run
  BY DEF GateTypeOK, WalkerState
<1> HIDE DEF after, there
<1>4. [after EXCEPT !.at = there].permit = after.permit /\ [after EXCEPT !.at = there].run = after.run
  BY DEF GateTypeOK, WalkerState
<1>5. [after EXCEPT !.at = there].at = there
  BY DEF after, GateTypeOK, WalkerState
<1>6. QED
  BY <1>1, <1>2, <1>3, <1>4, <1>5 DEF there, Mapped, Ticked, GateTypeOK

LEMMA StillPlaced ==
  ASSUME GateTypeOK, HoldersPlaced, NEW w \in Walkers, Still(w), Placed(w)', ticks' = ticks \/ ticks' = ticks + 1
  PROVE  HoldersPlaced'
<1> SUFFICES ASSUME NEW u \in Walkers, u # w PROVE Placed(u)'
  BY DEF HoldersPlaced
<1>1. walker'[u] = walker[u] /\ Placed(u) /\ ticks \in Nat /\ walker[u].seen \in Nat
  BY DEF Still, HoldersPlaced, GateTypeOK, WalkerState
<1>2. ticks <= ticks'
  BY <1>1
<1>3. QED
  BY <1>1, <1>2 DEF Placed, AtGate

LEMMA HoldersPlacedNext ==
  ASSUME GateTypeOK, HoldersPlaced, [GateNext]_gate
  PROVE  HoldersPlaced'
<1>a. ASSUME NEW w \in Walkers PROVE Placed(w)
  BY DEF HoldersPlaced
<1> USE DEF Placed, AtGate, Keeps
<1>1. ASSUME NEW w \in Walkers, Begin(w) PROVE HoldersPlaced'
  <2>1. Placed(w)'
    BY <1>1, <1>a, BeginDoes DEF Begin
  <2>2. QED
    BY <1>1, <2>1, BeginDoes, StillPlaced DEF Begin
<1>2. ASSUME NEW w \in Walkers, Enter(w) PROVE HoldersPlaced'
  <2>1. ticks' = ticks /\ ticks \in Nat
    BY <1>2 DEF Enter, GateTypeOK
  <2>2. Placed(w)'
    BY <1>2, <2>1, <1>a, EnterDoes DEF Enter
  <2>3. QED
    BY <1>2, <2>1, <2>2, EnterDoes, StillPlaced
<1>3. ASSUME NEW w \in Walkers, GoOn(w) PROVE HoldersPlaced'
  <2>1. Placed(w)'
    BY <1>3, <1>a, GoOnDoes DEF GoOn
  <2>2. QED
    BY <1>3, <2>1, GoOnDoes, StillPlaced DEF GoOn
<1>4. ASSUME NEW w \in Walkers, SleepOn(w) PROVE HoldersPlaced'
  BY <1>4 DEF SleepOn, HoldersPlaced
<1>5. ASSUME NEW w \in Walkers, WaitedEnough(w) PROVE HoldersPlaced'
  <2>1. ticks' = ticks /\ ticks \in Nat
    BY <1>5 DEF WaitedEnough, GateTypeOK
  <2>2. Placed(w)'
    <3>1. ~walker[w].permit
      BY <1>5, <1>a DEF WaitedEnough, Awake
    <3>2. QED
      BY <1>5, <2>1, <3>1, WaitedEnoughDoes
  <2>3. QED
    BY <1>5, <2>1, <2>2, WaitedEnoughDoes, StillPlaced
<1>6. ASSUME NEW w \in Walkers, GiveBack(w) PROVE HoldersPlaced'
  <2>1. Placed(w)'
    BY <1>6, GiveBackDoes
  <2>2. QED
    BY <1>6, <2>1, GiveBackDoes, StillPlaced DEF GiveBack
<1>7. ASSUME NEW w \in Walkers, Notify(w) PROVE HoldersPlaced'
  <2>1. Placed(w)'
    BY <1>7, <1>a, NotifyDoes DEF Notify
  <2>2. QED
    BY <1>7, <2>1, NotifyDoes, StillPlaced DEF Notify
<1>8. ASSUME NEW w \in Walkers, Leave(w) PROVE HoldersPlaced'
  <2>1. Placed(w)'
    BY <1>8, <1>a, LeaveDoes DEF Leave
  <2>2. QED
    BY <1>8, <2>1, LeaveDoes, StillPlaced DEF Leave
<1>9. ASSUME NEW w \in Walkers, Mapped(w) PROVE HoldersPlaced'
  <2>1. Placed(w)'
    BY <1>9, <1>a, MappedDoes
  <2>2. QED
    BY <1>9, <2>1, MappedDoes, StillPlaced
<1>10. ASSUME NEW w \in Walkers, Hang(w) PROVE HoldersPlaced'
  <2>1. Placed(w)'
    BY <1>10, <1>a, HangDoes DEF Hang
  <2>2. QED
    BY <1>10, <2>1, HangDoes, StillPlaced DEF Hang
<1>11. CASE CancelWalk
  BY <1>11 DEF CancelWalk, HoldersPlaced
<1>12. CASE Pass
  <2>1. ticks' = ticks
    BY <1>12 DEF Pass
  <2>2. QED
    BY <1>12, <2>1, PassKeeps DEF HoldersPlaced
<1>13. CASE UNCHANGED gate
  BY <1>13 DEF gate, HoldersPlaced
<1>14. QED
  BY <1>1, <1>2, <1>3, <1>4, <1>5, <1>6, <1>7, <1>8, <1>9, <1>10, <1>11, <1>12, <1>13
  DEF GateNext, Walk

(***************************************************************************)
(* Permits.                                                                *)
(***************************************************************************)
LEMMA SetsAreFinite ==
  /\ IsFiniteSet(Holding) /\ Cardinality(Holding) \in Nat
  /\ IsFiniteSet(Tokens) /\ Cardinality(Tokens) \in Nat
  /\ Holding \subseteq Tokens /\ Cardinality(Holding) <= Cardinality(Tokens)
<1>1. Holding \subseteq Walkers /\ Tokens \subseteq Walkers /\ Holding \subseteq Tokens
  BY DEF Holding, Tokens
<1>2. IsFiniteSet(Holding) /\ IsFiniteSet(Tokens)
  BY <1>1, GateConstants, FS_Subset
<1>3. QED
  BY <1>1, <1>2, FS_CardinalityType, FS_Subset

LEMMA SetsAreFiniteNext ==
  /\ IsFiniteSet(Holding') /\ Cardinality(Holding') \in Nat
  /\ IsFiniteSet(Tokens') /\ Cardinality(Tokens') \in Nat
  /\ Holding' \subseteq Tokens' /\ Cardinality(Holding') <= Cardinality(Tokens')
<1>1. Holding' \subseteq Walkers /\ Tokens' \subseteq Walkers /\ Holding' \subseteq Tokens'
  BY DEF Holding, Tokens
<1>2. IsFiniteSet(Holding') /\ IsFiniteSet(Tokens')
  BY <1>1, GateConstants, FS_Subset
<1>3. QED
  BY <1>1, <1>2, FS_CardinalityType, FS_Subset

LEMMA HoldingSame ==
  ASSUME NEW w \in Walkers, Still(w), walker'[w].permit = walker[w].permit
  PROVE  Holding' = Holding
BY DEF Still, Holding

LEMMA PermitTaken ==
  ASSUME PermitsAccountedFor, NEW w \in Walkers, Still(w), ~walker[w].permit, walker'[w].permit,
         busy < Permits, busy' = busy + 1
  PROVE  PermitsAccountedFor'
<1>1. Holding' = Holding \cup {w} /\ w \notin Holding
  BY DEF Still, Holding
<1>2. Cardinality(Holding') = Cardinality(Holding) + 1
  BY <1>1, SetsAreFinite, FS_AddElement
<1>3. QED
  BY <1>2, SetsAreFinite, GateConstants DEF PermitsAccountedFor, Holding

LEMMA PermitReturned ==
  ASSUME PermitsAccountedFor, NEW w \in Walkers, Still(w), walker[w].permit, ~walker'[w].permit, busy' = busy - 1
  PROVE  PermitsAccountedFor'
<1>1. Holding' = Holding \ {w} /\ w \in Holding
  BY DEF Still, Holding
<1>2. Cardinality(Holding') = Cardinality(Holding) - 1
  BY <1>1, SetsAreFinite, FS_RemoveElement
<1>3. QED
  BY <1>2, SetsAreFinite, GateConstants DEF PermitsAccountedFor, Holding

LEMMA PermitsKept ==
  ASSUME PermitsAccountedFor, Holding' = Holding, busy' = busy
  PROVE  PermitsAccountedFor'
BY DEF PermitsAccountedFor, Holding

LEMMA PermitsNext ==
  ASSUME GateTypeOK, HoldersPlaced, PermitsAccountedFor, [GateNext]_gate
  PROVE  PermitsAccountedFor'
<1>a. ASSUME NEW w \in Walkers PROVE Placed(w)
  BY DEF HoldersPlaced
<1>b. ASSUME NEW w \in Walkers, Still(w), walker'[w].permit = walker[w].permit, busy' = busy PROVE PermitsAccountedFor'
  BY <1>b, HoldingSame, PermitsKept
<1> USE DEF Keeps
<1>1. ASSUME NEW w \in Walkers, Begin(w) PROVE PermitsAccountedFor'
  BY <1>1, <1>b, BeginDoes DEF Begin
<1>2. ASSUME NEW w \in Walkers, Enter(w) PROVE PermitsAccountedFor'
  <2>1. ~walker[w].permit
    BY <1>2, <1>a DEF Enter, Placed
  <2>2. QED
    BY <1>2, <1>b, <2>1, EnterDoes, PermitTaken
<1>3. ASSUME NEW w \in Walkers, GoOn(w) PROVE PermitsAccountedFor'
  BY <1>3, <1>b, GoOnDoes DEF GoOn
<1>4. ASSUME NEW w \in Walkers, SleepOn(w) PROVE PermitsAccountedFor'
  BY <1>4 DEF SleepOn, PermitsAccountedFor
<1>5. ASSUME NEW w \in Walkers, WaitedEnough(w) PROVE PermitsAccountedFor'
  <2>1. ~walker[w].permit
    BY <1>5, <1>a DEF WaitedEnough, Awake, Placed, AtGate
  <2>2. QED
    BY <1>5, <1>b, <2>1, WaitedEnoughDoes, PermitTaken
<1>6. ASSUME NEW w \in Walkers, GiveBack(w) PROVE PermitsAccountedFor'
  <2>1. walker[w].permit /\ busy' = busy - 1
    BY <1>6, <1>a DEF GiveBack, Placed
  <2>2. QED
    BY <1>6, <2>1, GiveBackDoes, PermitReturned
<1>7. ASSUME NEW w \in Walkers, Notify(w) PROVE PermitsAccountedFor'
  BY <1>7, <1>b, NotifyDoes DEF Notify
<1>8. ASSUME NEW w \in Walkers, Leave(w) PROVE PermitsAccountedFor'
  BY <1>8, <1>b, LeaveDoes DEF Leave
<1>9. ASSUME NEW w \in Walkers, Mapped(w) PROVE PermitsAccountedFor'
  BY <1>9, <1>b, MappedDoes DEF Mapped
<1>10. ASSUME NEW w \in Walkers, Hang(w) PROVE PermitsAccountedFor'
  BY <1>10, <1>b, HangDoes DEF Hang
<1>11. CASE CancelWalk
  BY <1>11 DEF CancelWalk, PermitsAccountedFor
<1>12. CASE Pass
  <2>1. Holding' = Holding /\ busy' = busy
    BY <1>12, PassKeeps DEF Holding, Pass
  <2>2. QED
    BY <2>1, PermitsKept
<1>13. CASE UNCHANGED gate
  BY <1>13 DEF gate, PermitsAccountedFor
<1>14. QED
  BY <1>1, <1>2, <1>3, <1>4, <1>5, <1>6, <1>7, <1>8, <1>9, <1>10, <1>11, <1>12, <1>13
  DEF GateNext, Walk

LEMMA GateTyped == GateTypeOK /\ HoldersPlaced /\ PermitsAccountedFor /\ [GateNext]_gate => GateTypeOK'
<1> SUFFICES ASSUME GateTypeOK, HoldersPlaced, PermitsAccountedFor, [GateNext]_gate PROVE GateTypeOK'
  OBVIOUS
<1>1. PermitsAccountedFor'
  BY PermitsNext
<1>2. busy' \in Nat
  BY <1>1, SetsAreFiniteNext DEF PermitsAccountedFor, Holding
<1>3. QED
  BY <1>2, GateTypeNext

(***************************************************************************)
(* Wake-ups.                                                               *)
(***************************************************************************)
Asleep == Waiting \ notified

LEMMA WakesKept ==
  ASSUME WakesAccounted, Tokens \subseteq Tokens', Asleep' \subseteq Asleep
  PROVE  WakesAccounted'
<1>1. Cardinality(Tokens) <= Cardinality(Tokens')
  BY SetsAreFiniteNext, FS_Subset
<1>2. QED
  BY <1>1, SetsAreFinite, SetsAreFiniteNext, GateConstants DEF WakesAccounted, Asleep

LEMMA WakesByTheFull ==
  ASSUME PermitsAccountedFor', ~(busy' < Permits)
  PROVE  WakesAccounted'
BY SetsAreFiniteNext, GateConstants DEF WakesAccounted, PermitsAccountedFor, Holding

LEMMA WakesNext ==
  ASSUME GateTypeOK, HoldersPlaced, PermitsAccountedFor, NobodyWaitsAfter, WakesAccounted, [GateNext]_gate
  PROVE  WakesAccounted'
<1>a. ASSUME NEW w \in Walkers PROVE Placed(w)
  BY DEF HoldersPlaced
<1>b. ASSUME NEW w \in Walkers, Still(w), notified' = notified, ~(AtGate(w, "Waiting"))',
             w \in Tokens => w \in Tokens'
      PROVE  WakesAccounted'
  <2>1. Tokens \subseteq Tokens'
    BY <1>b DEF Still, Tokens, AtGate
  <2>2. Asleep' \subseteq Asleep
    BY <1>b DEF Still, Asleep, Waiting, AtGate
  <2>3. QED
    BY <2>1, <2>2, WakesKept
<1>c. PermitsAccountedFor'
  BY PermitsNext
<1> USE DEF Keeps
<1>1. ASSUME NEW w \in Walkers, Begin(w) PROVE WakesAccounted'
  BY <1>1, <1>b, BeginDoes DEF Begin, Tokens, AtGate
<1>2. ASSUME NEW w \in Walkers, Enter(w) PROVE WakesAccounted'
  <2>1. CASE walker'[w].at = "Waiting"
    BY <1>2, <1>c, <2>1, EnterDoes, WakesByTheFull
  <2>2. CASE walker'[w].at # "Waiting"
    <3>1. notified' = notified /\ AtGate(w, "Between")
      BY <1>2 DEF Enter
    <3>2. w \in Tokens => w \in Tokens'
      BY <1>2, <2>2, <3>1, EnterDoes DEF Tokens, AtGate
    <3>3. QED
      BY <1>2, <1>b, <2>2, <3>1, <3>2, EnterDoes DEF AtGate
  <2>3. QED
    BY <2>1, <2>2
<1>3. ASSUME NEW w \in Walkers, GoOn(w) PROVE WakesAccounted'
  BY <1>3, <1>b, GoOnDoes DEF GoOn, Tokens, AtGate
<1>4. ASSUME NEW w \in Walkers, SleepOn(w) PROVE WakesAccounted'
  <2>1. ~(busy' < Permits)
    BY <1>4, GateConstants DEF SleepOn, GateTypeOK
  <2>2. QED
    BY <1>c, <2>1, WakesByTheFull
<1>5. ASSUME NEW w \in Walkers, WaitedEnough(w) PROVE WakesAccounted'
  <2>1. CASE walker'[w].at = "Waiting"
    BY <1>5, <1>c, <2>1, WaitedEnoughDoes, WakesByTheFull
  <2>2. CASE walker'[w].at = "Mapping" /\ abandoned /\ notified' = notified \ {w}
    BY <1>5, <2>2, WaitedEnoughDoes DEF WakesAccounted, NobodyWaitsAfter, Waiting, AtGate, Still
  <2>3. CASE walker'[w].at = "Mapping" /\ walker'[w].permit /\ notified' = notified \ {w}
    <3>1. Tokens \subseteq Tokens'
      BY <1>5, <2>3, WaitedEnoughDoes DEF Still, Tokens, AtGate
    <3>2. Asleep' \subseteq Asleep
      BY <1>5, <2>3, WaitedEnoughDoes DEF Still, Asleep, Waiting, AtGate
    <3>3. QED
      BY <3>1, <3>2, WakesKept
  <2>4. CASE walker'[w].at = "Mapping" /\ notified' = TellAll \ {w}
    BY <1>5, <2>4, WaitedEnoughDoes DEF WakesAccounted, TellAll, Waiting, AtGate, Still
  <2>5. QED
    BY <1>5, <2>1, <2>2, <2>3, <2>4, WaitedEnoughDoes
<1>6. ASSUME NEW w \in Walkers, GiveBack(w) PROVE WakesAccounted'
  BY <1>6, <1>b, GiveBackDoes DEF GiveBack, Tokens, AtGate
<1>7. ASSUME NEW w \in Walkers, Notify(w) PROVE WakesAccounted'
  <2>1. ~walker[w].permit /\ AtGate(w, "Notifying") /\ walker'[w].at = "Between" /\ Still(w)
        /\ ~walker'[w].permit
    BY <1>7, <1>a, NotifyDoes DEF Notify, Placed, AtGate
  <2>2. Waiting' = Waiting
    BY <2>1 DEF Waiting, AtGate, Still
  <2>3. CASE Waiting \subseteq notified
    BY <1>7, <2>2, <2>3 DEF Notify, WakesAccounted
  <2>4. ASSUME NEW o \in Waiting \ notified, notified' = notified \cup {o} PROVE WakesAccounted'
    <3>1. o \in Walkers /\ AtGate(o, "Waiting") /\ o # w /\ ~walker[o].permit
      BY <2>1, <2>4, <1>a DEF Waiting, Placed, AtGate
    <3>2. w \in Tokens /\ o \notin Tokens
      BY <2>1, <2>4, <3>1 DEF Tokens, AtGate
    <3>3. Tokens' = (Tokens \ {w}) \cup {o}
      BY <2>1, <2>4, <3>1 DEF Tokens, AtGate, Still
    <3>4. Cardinality(Tokens \ {w}) = Cardinality(Tokens) - 1 /\ IsFiniteSet(Tokens \ {w})
      BY <3>2, SetsAreFinite, FS_RemoveElement
    <3>5. Cardinality(Tokens') = Cardinality(Tokens \ {w}) + 1
      <4>1. o \notin Tokens \ {w}
        BY <3>2
      <4>2. QED
        BY <3>3, <3>4, <4>1, FS_AddElement
    <3>6. Cardinality(Tokens') = Cardinality(Tokens)
      BY <3>4, <3>5, SetsAreFinite
    <3>7. QED
      BY <2>4, <3>6 DEF WakesAccounted
  <2>5. QED
    BY <1>7, <2>3, <2>4 DEF Notify
<1>8. ASSUME NEW w \in Walkers, Leave(w) PROVE WakesAccounted'
  <2>1. notified' = notified /\ AtGate(w, "Between")
    BY <1>8 DEF Leave
  <2>2. w \in Tokens => w \in Tokens'
    BY <1>8, <2>1, LeaveDoes DEF Tokens, AtGate
  <2>3. QED
    BY <1>8, <1>b, <2>1, <2>2, LeaveDoes DEF AtGate
<1>9. ASSUME NEW w \in Walkers, Mapped(w) PROVE WakesAccounted'
  <2>1. notified' = notified /\ AtGate(w, "Mapping")
    BY <1>9 DEF Mapped
  <2>2. w \in Tokens => w \in Tokens'
    BY <1>9, <2>1, MappedDoes DEF Tokens, AtGate
  <2>3. QED
    BY <1>9, <1>b, <2>1, <2>2, MappedDoes DEF AtGate
<1>10. ASSUME NEW w \in Walkers, Hang(w) PROVE WakesAccounted'
  BY <1>10, <1>b, HangDoes DEF Hang, Tokens, AtGate
<1>11. CASE CancelWalk
  BY <1>11 DEF CancelWalk, WakesAccounted, Tokens, Waiting, AtGate
<1>12. CASE Pass
  <2>1. Tokens' = Tokens /\ Waiting' = Waiting /\ notified' = notified
    BY <1>12, PassKeeps DEF Pass, Tokens, Waiting, AtGate
  <2>2. QED
    BY <2>1 DEF WakesAccounted
<1>13. CASE UNCHANGED gate
  BY <1>13 DEF gate, WakesAccounted, Tokens, Waiting, AtGate
<1>14. QED
  BY <1>1, <1>2, <1>3, <1>4, <1>5, <1>6, <1>7, <1>8, <1>9, <1>10, <1>11, <1>12, <1>13
  DEF GateNext, Walk

(***************************************************************************)
(* Giving it up.                                                           *)
(***************************************************************************)
LEMMA NobodyWaitsNext ==
  ASSUME GateTypeOK, NobodyWaitsAfter, [GateNext]_gate
  PROVE  NobodyWaitsAfter'
<1>a. ASSUME NEW w \in Walkers, Still(w), notified \subseteq notified', abandoned' = abandoned, ~(AtGate(w, "Waiting"))'
      PROVE  NobodyWaitsAfter'
  BY <1>a DEF NobodyWaitsAfter, Waiting, AtGate, Still
<1>1. ASSUME NEW w \in Walkers, Begin(w) PROVE NobodyWaitsAfter'
  BY <1>1, <1>a, BeginDoes DEF Begin, AtGate
<1>2. ASSUME NEW w \in Walkers, Enter(w) PROVE NobodyWaitsAfter'
  <2>1. notified' = notified /\ abandoned' = abandoned
    BY <1>2 DEF Enter
  <2>2. CASE walker'[w].at = "Waiting"
    BY <1>2, <2>1, <2>2, EnterDoes DEF NobodyWaitsAfter, IsArmed
  <2>3. CASE walker'[w].at # "Waiting"
    BY <1>2, <1>a, <2>1, <2>3, EnterDoes DEF AtGate
  <2>4. QED
    BY <2>2, <2>3
<1>3. ASSUME NEW w \in Walkers, GoOn(w) PROVE NobodyWaitsAfter'
  BY <1>3, <1>a, GoOnDoes DEF GoOn, AtGate
<1>4. ASSUME NEW w \in Walkers, SleepOn(w) PROVE NobodyWaitsAfter'
  BY <1>4 DEF SleepOn, NobodyWaitsAfter
<1>5. ASSUME NEW w \in Walkers, WaitedEnough(w) PROVE NobodyWaitsAfter'
  <2>1. CASE ~abandoned'
    BY <2>1 DEF NobodyWaitsAfter
  <2>2. CASE abandoned'
    <3>1. walker'[w].at = "Mapping" /\ Still(w) /\ (Waiting \subseteq notified \/ TellAll \ {w} \subseteq notified')
          /\ notified \ {w} \subseteq notified'
      BY <1>5, <2>2, WaitedEnoughDoes DEF NobodyWaitsAfter, TellAll
    <3>2. QED
      BY <3>1 DEF NobodyWaitsAfter, Waiting, AtGate, Still, TellAll
  <2>3. QED
    BY <2>1, <2>2
<1>6. ASSUME NEW w \in Walkers, GiveBack(w) PROVE NobodyWaitsAfter'
  BY <1>6, <1>a, GiveBackDoes DEF GiveBack, AtGate
<1>7. ASSUME NEW w \in Walkers, Notify(w) PROVE NobodyWaitsAfter'
  <2>1. notified \subseteq notified' /\ abandoned' = abandoned
    BY <1>7 DEF Notify
  <2>2. QED
    BY <1>7, <1>a, <2>1, NotifyDoes DEF AtGate
<1>8. ASSUME NEW w \in Walkers, Leave(w) PROVE NobodyWaitsAfter'
  BY <1>8, <1>a, LeaveDoes DEF Leave, AtGate
<1>9. ASSUME NEW w \in Walkers, Mapped(w) PROVE NobodyWaitsAfter'
  BY <1>9, <1>a, MappedDoes DEF Mapped, AtGate
<1>10. ASSUME NEW w \in Walkers, Hang(w) PROVE NobodyWaitsAfter'
  BY <1>10, <1>a, HangDoes DEF Hang, AtGate
<1>11. CASE CancelWalk
  BY <1>11 DEF CancelWalk, NobodyWaitsAfter, Waiting, AtGate
<1>12. CASE Pass
  BY <1>12, PassKeeps DEF Pass, NobodyWaitsAfter, Waiting, AtGate
<1>13. CASE UNCHANGED gate
  BY <1>13 DEF gate, NobodyWaitsAfter, Waiting, AtGate
<1>14. QED
  BY <1>1, <1>2, <1>3, <1>4, <1>5, <1>6, <1>7, <1>8, <1>9, <1>10, <1>11, <1>12, <1>13
  DEF GateNext, Walk

\* Who gives the gate up has found every holder stuck.
LEMMA StuckWhenGivenUp ==
  ASSUME GateTypeOK, HoldersPlaced, PermitsAccountedFor, SameHolders,
         NEW w \in Waiting, OutOfPatience(w), ticks = walker[w].seen
  PROVE  Holding # {} /\ \A h \in Holding : AtGate(h, "Hung")
<1>1. w \in Walkers /\ walker[w].waited \in Nat /\ walker[w].waited >= Patience
  BY DEF Waiting, OutOfPatience, GateTypeOK, WalkerState
<1>2. busy >= Permits
      /\ \A h \in Holding : AtGate(h, "Hung") \/ (AtGate(h, "Mapping") /\ walker[h].spent >= walker[w].waited)
  <2>1. Stalled(w)
    BY <1>1, GateConstants DEF Stalled, Waiting
  <2>2. QED
    BY <1>1, <2>1 DEF SameHolders, NoProgress
<1>3. Holding # {}
  <2>1. busy = Cardinality(Holding)
    BY DEF PermitsAccountedFor, Holding
  <2>2. SUFFICES ASSUME Holding = {} PROVE FALSE
    OBVIOUS
  <2>3. busy = 0
    BY <2>1, <2>2, FS_EmptySet
  <2>4. QED
    BY <1>2, <2>3, GateConstants
<1>4. ASSUME NEW h \in Holding PROVE AtGate(h, "Hung")
  <2>1. walker[h].spent \in 0..FileTime
    BY DEF Holding, GateTypeOK, WalkerState
  <2>2. ~(walker[h].spent >= walker[w].waited)
    BY <1>1, <2>1, GateConstants
  <2>3. QED
    BY <1>2, <2>2
<1>5. QED
  BY <1>3, <1>4

LEMMA GivenUpNext ==
  ASSUME GateTypeOK, HoldersPlaced, PermitsAccountedFor, SameHolders, GivenUpForTheStuck, [GateNext]_gate
  PROVE  GivenUpForTheStuck'
<1>a. ASSUME NEW w \in Walkers, Still(w), ~AtGate(w, "Hung"), abandoned' => abandoned PROVE GivenUpForTheStuck'
  BY <1>a DEF GivenUpForTheStuck, Hung, AtGate, Still
<1>1. ASSUME NEW w \in Walkers, Begin(w) PROVE GivenUpForTheStuck'
  BY <1>1, <1>a, BeginDoes DEF Begin, AtGate
<1>2. ASSUME NEW w \in Walkers, Enter(w) PROVE GivenUpForTheStuck'
  <2>1. AtGate(w, "Between") /\ abandoned' = abandoned
    BY <1>2 DEF Enter
  <2>2. QED
    BY <1>2, <1>a, <2>1, EnterDoes DEF AtGate
<1>3. ASSUME NEW w \in Walkers, GoOn(w) PROVE GivenUpForTheStuck'
  BY <1>3, <1>a, GoOnDoes DEF GoOn, AtGate
<1>4. ASSUME NEW w \in Walkers, SleepOn(w) PROVE GivenUpForTheStuck'
  BY <1>4 DEF SleepOn, GivenUpForTheStuck, Hung, AtGate
<1>5. ASSUME NEW w \in Walkers, WaitedEnough(w) PROVE GivenUpForTheStuck'
  <2>1. AtGate(w, "Waiting") /\ Still(w)
    BY <1>5, WaitedEnoughDoes DEF WaitedEnough, Awake
  <2>2. CASE abandoned' => abandoned
    BY <1>a, <2>1, <2>2 DEF AtGate
  <2>3. CASE ~abandoned /\ ticks = walker[w].seen /\ OutOfPatience(w)
    <3>1. Holding # {} /\ \A h \in Holding : AtGate(h, "Hung")
      BY <2>1, <2>3, StuckWhenGivenUp DEF Waiting
    <3>2. PICK h \in Holding : AtGate(h, "Hung")
      BY <3>1
    <3>3. h \in Walkers /\ h # w /\ walker[h].permit
      BY <2>1, <3>2 DEF Holding, AtGate
    <3>4. QED
      BY <2>1, <3>2, <3>3 DEF Still, GivenUpForTheStuck, Hung, AtGate
  <2>4. QED
    BY <1>5, <2>2, <2>3, WaitedEnoughDoes
<1>6. ASSUME NEW w \in Walkers, GiveBack(w) PROVE GivenUpForTheStuck'
  BY <1>6, <1>a, GiveBackDoes DEF GiveBack, AtGate
<1>7. ASSUME NEW w \in Walkers, Notify(w) PROVE GivenUpForTheStuck'
  <2>1. AtGate(w, "Notifying") /\ abandoned' = abandoned
    BY <1>7 DEF Notify
  <2>2. QED
    BY <1>7, <1>a, <2>1, NotifyDoes DEF AtGate
<1>8. ASSUME NEW w \in Walkers, Leave(w) PROVE GivenUpForTheStuck'
  BY <1>8, <1>a, LeaveDoes DEF Leave, AtGate
<1>9. ASSUME NEW w \in Walkers, Mapped(w) PROVE GivenUpForTheStuck'
  BY <1>9, <1>a, MappedDoes DEF Mapped, AtGate
<1>10. ASSUME NEW w \in Walkers, Hang(w) PROVE GivenUpForTheStuck'
  BY <1>10, <1>a, HangDoes DEF Hang, AtGate
<1>11. CASE CancelWalk
  BY <1>11 DEF CancelWalk, GivenUpForTheStuck, Hung, AtGate
<1>12. CASE Pass
  BY <1>12, PassKeeps DEF Pass, GivenUpForTheStuck, Hung, AtGate
<1>13. CASE UNCHANGED gate
  BY <1>13 DEF gate, GivenUpForTheStuck, Hung, AtGate
<1>14. QED
  BY <1>1, <1>2, <1>3, <1>4, <1>5, <1>6, <1>7, <1>8, <1>9, <1>10, <1>11, <1>12, <1>13
  DEF GateNext, Walk

(***************************************************************************)
(* The same holders all along.                                             *)
(***************************************************************************)
\* The step of a walker that holds no permit, or no longer looks for progress.
LEMMA ProgressKept ==
  ASSUME GateTypeOK, SameHolders, NEW w \in Walkers, Still(w), ticks' = ticks, busy' = busy,
         Holding' \subseteq Holding, w \in Holding => (AtGate(w, "Hung"))', ~Stalled(w)'
  PROVE  SameHolders'
<1> SUFFICES ASSUME NEW u \in Walkers, Stalled(u)' PROVE NoProgress(u)'
  BY DEF SameHolders
<1>1. u # w /\ walker'[u] = walker[u]
  BY DEF Still
<1>2. Stalled(u)
  BY <1>1 DEF Stalled, AtGate
<1>3. NoProgress(u)
  BY <1>2 DEF SameHolders
<1>4. ASSUME NEW h \in Holding'
      PROVE  (AtGate(h, "Hung") \/ (AtGate(h, "Mapping") /\ walker[h].spent >= walker[u].waited))'
  <2>1. h \in Holding /\ h \in Walkers
    BY <1>4 DEF Holding
  <2>2. CASE h = w
    BY <2>1, <2>2
  <2>3. CASE h # w
    <3>1. walker'[h] = walker[h]
      BY <2>1, <2>3 DEF Still
    <3>2. QED
      BY <1>1, <1>3, <2>1, <3>1 DEF NoProgress, AtGate
  <2>4. QED
    BY <2>2, <2>3
<1>5. QED
  BY <1>3, <1>4 DEF NoProgress

\* Nobody is stalled while there is room, or while a holder is on his way.
LEMMA NobodyStalled ==
  ASSUME GateTypeOK, SameHolders, NEW w \in Walkers, Still(w), ticks' = ticks, ~Stalled(w)',
         busy < Permits \/ (walker[w].permit /\ ~AtGate(w, "Hung") /\ ~AtGate(w, "Mapping"))
  PROVE  SameHolders'
<1> SUFFICES ASSUME NEW u \in Walkers, Stalled(u)' PROVE FALSE
  BY DEF SameHolders
<1>1. walker'[u] = walker[u]
  BY DEF Still
<1>2. NoProgress(u)
  BY <1>1 DEF SameHolders, Stalled, AtGate
<1>3. ~(busy < Permits)
  BY <1>2, GateConstants DEF NoProgress, GateTypeOK
<1>4. w \in Holding
  BY <1>3 DEF Holding
<1>5. QED
  BY <1>2, <1>3, <1>4 DEF NoProgress

LEMMA SameHoldersNext ==
  ASSUME GateTypeOK, HoldersPlaced, PermitsAccountedFor, WakesAccounted, SameHolders, [GateNext]_gate
  PROVE  SameHolders'
<1>a. ASSUME NEW w \in Walkers PROVE Placed(w)
  BY DEF HoldersPlaced
<1>b. ASSUME NEW w \in Walkers, Still(w), walker'[w].permit = walker[w].permit, ticks' = ticks, busy' = busy,
             ~walker[w].permit \/ (~AtGate(w, "Hung") /\ ~AtGate(w, "Mapping")), ~Stalled(w)'
      PROVE  SameHolders'
  <2>1. CASE walker[w].permit
    BY <1>b, <2>1, NobodyStalled
  <2>2. CASE ~walker[w].permit
    BY <1>b, <2>2, HoldingSame, ProgressKept DEF Holding
  <2>3. QED
    BY <2>1, <2>2
<1> USE DEF Keeps
<1>1. ASSUME NEW w \in Walkers, Begin(w) PROVE SameHolders'
  BY <1>1, <1>b, BeginDoes DEF Begin, Stalled, AtGate
<1>2. ASSUME NEW w \in Walkers, Enter(w) PROVE SameHolders'
  <2>1. ~walker[w].permit /\ ticks' = ticks
    BY <1>2, <1>a DEF Enter, Placed
  <2>2. ~Stalled(w)'
    BY <1>2, EnterDoes DEF Stalled, AtGate
  <2>3. CASE busy < Permits
    BY <1>2, <2>1, <2>2, <2>3, EnterDoes, NobodyStalled
  <2>4. CASE ~(busy < Permits)
    BY <1>2, <1>b, <2>1, <2>2, <2>4, EnterDoes
  <2>5. QED
    BY <2>3, <2>4
<1>3. ASSUME NEW w \in Walkers, GoOn(w) PROVE SameHolders'
  BY <1>3, <1>b, GoOnDoes DEF GoOn, Stalled, AtGate
<1>4. ASSUME NEW w \in Walkers, SleepOn(w) PROVE SameHolders'
  BY <1>4 DEF SleepOn, SameHolders, Stalled, NoProgress, Holding, AtGate
<1>5. ASSUME NEW w \in Walkers, WaitedEnough(w) PROVE SameHolders'
  <2>1. ~walker[w].permit /\ ticks' = ticks
    BY <1>5, <1>a DEF WaitedEnough, Awake, Placed, AtGate
  <2>2. ~Stalled(w)'
    BY <1>5, WaitedEnoughDoes DEF Stalled, AtGate
  <2>3. CASE busy < Permits
    BY <1>5, <2>1, <2>2, <2>3, WaitedEnoughDoes, NobodyStalled
  <2>4. CASE ~(busy < Permits)
    BY <1>5, <1>b, <2>1, <2>2, <2>4, WaitedEnoughDoes
  <2>5. QED
    BY <2>3, <2>4
<1>6. ASSUME NEW w \in Walkers, GiveBack(w) PROVE SameHolders'
  <2>1. walker[w].permit /\ ticks' = ticks /\ AtGate(w, "Returning")
    BY <1>6, <1>a DEF GiveBack, Placed
  <2>2. ~Stalled(w)'
    BY <1>6, GiveBackDoes DEF Stalled, AtGate
  <2>3. QED
    BY <1>6, <2>1, <2>2, GiveBackDoes, NobodyStalled DEF AtGate
<1>7. ASSUME NEW w \in Walkers, Notify(w) PROVE SameHolders'
  BY <1>7, <1>b, NotifyDoes DEF Notify, Stalled, AtGate
<1>8. ASSUME NEW w \in Walkers, Leave(w) PROVE SameHolders'
  <2>1. ~Stalled(w)'
    BY <1>8, LeaveDoes DEF Stalled, AtGate
  <2>2. QED
    BY <1>8, <1>b, <2>1, LeaveDoes DEF Leave, AtGate
<1>9. ASSUME NEW w \in Walkers, Mapped(w) PROVE SameHolders'
  <2>1. ~Stalled(w)'
    BY <1>9, MappedDoes DEF Stalled, AtGate
  <2>2. CASE ~walker[w].permit
    BY <1>9, <1>b, <2>1, <2>2, MappedDoes DEF Mapped
  <2>3. CASE walker[w].permit
    <3>1. ticks' = ticks + 1 /\ ticks \in Nat /\ Still(w)
      BY <1>9, <2>3, MappedDoes DEF GateTypeOK
    <3>2. ASSUME NEW u \in Walkers PROVE ~Stalled(u)'
      <4>1. CASE u = w
        BY <2>1, <4>1
      <4>2. CASE u # w
        <5>1. walker'[u] = walker[u] /\ walker[u].seen \in Nat
          BY <3>1, <4>2 DEF Still, GateTypeOK, WalkerState
        <5>2. AtGate(u, "Waiting") => walker[u].seen <= ticks
          BY <1>a DEF Placed
        <5>3. QED
          BY <3>1, <5>1, <5>2 DEF Stalled, AtGate
      <4>3. QED
        BY <4>1, <4>2
    <3>3. QED
      BY <3>2 DEF SameHolders
  <2>4. QED
    BY <2>2, <2>3
<1>10. ASSUME NEW w \in Walkers, Hang(w) PROVE SameHolders'
  BY <1>10, HangDoes, HoldingSame, ProgressKept DEF Hang, Stalled, AtGate
<1>11. CASE CancelWalk
  BY <1>11 DEF CancelWalk, SameHolders, Stalled, NoProgress, Holding, AtGate
<1>12. CASE Pass
  <2> SUFFICES ASSUME NEW u \in Walkers, Stalled(u)' PROVE NoProgress(u)'
    BY DEF SameHolders
  <2>1. \A w \in Walkers : ~Busy(w)
    BY <1>12 DEF Pass
  <2>2. Holding' = Holding /\ busy' = busy /\ ticks' = ticks
    BY <1>12, PassKeeps DEF Holding, Pass
  <2>3. AtGate(u, "Waiting") /\ walker[u].seen = ticks
    BY <1>12, <2>2, PassKeeps DEF Stalled, AtGate
  <2>4. ~(Waiting \subseteq notified)
    BY <2>1, <2>3 DEF Waiting, Busy
  <2>5. Tokens = Holding
    BY <2>1 DEF Tokens, Holding, Busy, AtGate
  <2>6. busy >= Permits
    BY <2>4, <2>5 DEF WakesAccounted, PermitsAccountedFor, Holding
  <2>7. ASSUME NEW h \in Holding
        PROVE  (AtGate(h, "Hung") \/ (AtGate(h, "Mapping") /\ walker[h].spent >= walker[u].waited))'
    <3>1. h \in Walkers /\ (AtGate(h, "Hung") \/ AtGate(h, "Mapping"))
      BY <2>1, <1>a DEF Holding, Placed, AtGate, Busy
    <3>2. CASE AtGate(h, "Hung")
      BY <1>12, <3>1, <3>2, PassKeeps DEF AtGate
    <3>3. CASE AtGate(h, "Mapping")
      <4>1. walker'[h].at = "Mapping" /\ walker'[h].spent = walker[h].spent + 1 /\ walker[h].spent \in Nat
        BY <1>12, <3>1, <3>3, PassKeeps DEF AtGate, GateTypeOK, WalkerState
      <4>2. walker[u].waited \in Nat /\ walker'[u].waited \in Nat /\ walker'[u].waited <= walker[u].waited + 1
        <5>1. walker[u].waited \in Nat
          BY DEF GateTypeOK, WalkerState
        <5>2. walker'[u].waited = IF walker[u].waited < Patience THEN walker[u].waited + 1 ELSE walker[u].waited
          BY <1>12, <2>3, PassKeeps
        <5>3. QED
          BY <5>1, <5>2
      <4>3. CASE walker[u].waited = 0
        BY <4>1, <4>2, <4>3 DEF AtGate
      <4>4. CASE walker[u].waited > 0
        <5>1. NoProgress(u)
          BY <2>3, <4>4 DEF SameHolders, Stalled
        <5>2. walker[h].spent >= walker[u].waited
          BY <3>3, <5>1 DEF NoProgress, AtGate
        <5>3. QED
          BY <4>1, <4>2, <5>2 DEF AtGate
      <4>5. QED
        BY <4>2, <4>3, <4>4
    <3>4. QED
      BY <3>1, <3>2, <3>3
  <2>8. QED
    BY <2>2, <2>6, <2>7 DEF NoProgress
<1>13. CASE UNCHANGED gate
  BY <1>13 DEF gate, SameHolders, Stalled, NoProgress, Holding, AtGate
<1>14. QED
  BY <1>1, <1>2, <1>3, <1>4, <1>5, <1>6, <1>7, <1>8, <1>9, <1>10, <1>11, <1>12, <1>13
  DEF GateNext, Walk

LEMMA GateInvInit == GateInit => GateInv
<1> SUFFICES ASSUME GateInit PROVE GateInv
  OBVIOUS
<1>1. GateTypeOK
  BY GateTypeInit
<1>2. \A w \in Walkers : walker[w].at = "Away" /\ walker[w].permit = FALSE
  BY DEF GateInit
<1>3. Holding = {} /\ Waiting = {} /\ busy = 0 /\ abandoned = FALSE
  BY <1>2 DEF Holding, Waiting, AtGate, GateInit
<1>4. PermitsAccountedFor
  <2>1. busy = Cardinality(Holding) /\ busy <= Permits
    BY <1>3, GateConstants, FS_EmptySet
  <2>2. QED
    BY <2>1 DEF PermitsAccountedFor, Holding
<1>5. HoldersPlaced /\ SameHolders
  BY <1>2 DEF HoldersPlaced, Placed, SameHolders, Stalled, AtGate
<1>6. QED
  BY <1>1, <1>3, <1>4, <1>5 DEF GateInv, GateIsFair, GivenUpForTheStuck, NobodyWaitsAfter, WakesAccounted

\* However long the calls take that return, and however many never do: the gate
\* is given up for the stuck only, no permit is lost, and nobody waits after.
THEOREM GateFair == GateSpec => []GateIsFair
<1>1. GateInit => GateInv
  BY GateInvInit
<1>2. GateInv /\ [GateNext]_gate => GateInv'
  <2> SUFFICES ASSUME GateInv, [GateNext]_gate PROVE GateInv'
    OBVIOUS
  <2> USE DEF GateInv, GateIsFair
  <2>1. GateTypeOK' /\ HoldersPlaced' /\ PermitsAccountedFor'
    BY GateTyped, HoldersPlacedNext, PermitsNext
  <2>2. WakesAccounted' /\ NobodyWaitsAfter'
    BY WakesNext, NobodyWaitsNext
  <2>3. SameHolders' /\ GivenUpForTheStuck'
    BY SameHoldersNext, GivenUpNext
  <2>4. QED
    BY <2>1, <2>2, <2>3
<1>3. GateInv => GateIsFair
  BY DEF GateInv
<1>4. QED
  BY <1>1, <1>2, <1>3, PTL DEF GateSpec

(***************************************************************************)
(* The start of a stream: what the thread that asks and the one that       *)
(* starts can have come to together.                                       *)
(***************************************************************************)
AskPlaces == {"Idle", "Queued", "Starting", "Waiting", "Answered", "TooMany", "Lost", "Cancelled", "Deadline", "Ended"}
StartStates == {"None", "Running", "Started", "Failed", "Abandoned"}
StarterPlaces == {"None", "Calling", "Returned", "Closing", "Clearing", "Gone"}

StartTypeOK ==
  /\ asking \in [Replays -> AskPlaces]
  /\ starting \in [Replays -> StartStates]
  /\ starter \in [Replays -> StarterPlaces]
  /\ turn \in SUBSET Replays /\ hanging \in BOOLEAN
  /\ DOMAIN stream = Replays /\ \A r \in Replays : "at" \in DOMAIN stream[r]

InTurn(r) == asking[r] \notin {"Idle", "Queued", "Ended"}

\* What the start has come to for the thread that asks.
Phase(r) ==
  /\ asking[r] \in {"Idle", "Queued"} => starting[r] = "None"
  /\ asking[r] = "Starting" => starting[r] \in {"Running", "Started", "Failed"}
  /\ asking[r] \in {"Waiting", "Answered", "TooMany", "Lost"} => starting[r] = "Started"
  /\ asking[r] \in {"Cancelled", "Deadline"} => starting[r] \in {"Started", "Abandoned"}
  /\ asking[r] = "Ended" => starting[r] # "Running"
  /\ InTurn(r) => turn = {r}

\* Who holds the stream, and who has closed it.
Hands(r) ==
  /\ starting[r] = "None" => starter[r] = "None" /\ stream[r] = Closed
  /\ starting[r] = "Running" => starter[r] \in {"Calling", "Returned"}
  /\ starting[r] = "Started" =>
       /\ starter[r] = "Gone"
       /\ IF asking[r] = "Ended" THEN stream[r] = Closed ELSE stream[r].at = "Live"
  /\ starting[r] = "Failed" => starter[r] \in {"Closing", "Gone"}
  /\ starting[r] = "Abandoned" => starter[r] \in {"Calling", "Returned", "Clearing", "Gone"}
  /\ starting[r] \in {"Failed", "Abandoned"} /\ starter[r] \in {"Clearing", "Gone"} => stream[r] = Closed

\* A start that may not have returned is the only one.
Stuck(r) == starting[r] = "Abandoned" /\ starter[r] # "Gone"
Pending(r) == starting[r] = "Running" \/ Stuck(r)
OnePending == \A r, q \in Replays : Pending(r) /\ Pending(q) => r = q
HangsWithStuck == (hanging => \E r \in Replays : Stuck(r)) /\ ((\E r \in Replays : Stuck(r)) => hanging)

InHand == \A r \in Replays : Phase(r) /\ Hands(r)

StartInv == StartTypeOK /\ InHand /\ OnePending /\ HangsWithStuck

\* The invariant says what is to be shown of the starts.
LEMMA StartInvSuffices == StartInv => StartsAccountedFor
<1> SUFFICES ASSUME StartInv PROVE StartsAccountedFor
  OBVIOUS
<1> USE DEF StartInv, StartTypeOK
<1>1. OneStart
  <2> DEFINE calling == {r \in Replays : starter[r] = "Calling"}
  <2>1. ASSUME NEW r \in calling PROVE Pending(r)
    BY <2>1 DEF InHand, Hands, Pending, Stuck, StartStates
  <2>2. CASE calling = {}
    <3>1. Cardinality(calling) = 0
      BY <2>2, FS_EmptySet
    <3>2. QED
      BY <3>1 DEF OneStart
  <2>3. CASE calling # {}
    <3>1. PICK r \in calling : TRUE
      BY <2>3
    <3>2. calling = {r}
      BY <2>1, <3>1 DEF OnePending
    <3>3. Cardinality(calling) = 1
      BY <3>2, FS_Singleton
    <3>4. QED
      BY <3>3 DEF OneStart
  <2>4. QED
    BY <2>2, <2>3
<1>2. StuckWhileAbandoned
  BY DEF HangsWithStuck, StuckWhileAbandoned, Stuck
<1>3. ClosedInTheEnd
  BY DEF ClosedInTheEnd, InHand, Phase, Hands, StartStates
<1>4. QED
  BY <1>1, <1>2, <1>3 DEF StartsAccountedFor

LEMMA StartInvInit == Init => StartInv
<1> SUFFICES ASSUME Init PROVE StartInv
  OBVIOUS
<1>1. \A r \in Replays : asking[r] = "Idle" /\ starting[r] = "None" /\ starter[r] = "None" /\ stream[r] = Closed
  BY DEF Init
<1>2. StartTypeOK
  BY DEF Init, StartTypeOK, AskPlaces, StartStates, StarterPlaces, Closed
<1>3. InHand
  BY <1>1 DEF InHand, Phase, Hands, InTurn
<1>4. OnePending /\ HangsWithStuck
  BY <1>1 DEF OnePending, HangsWithStuck, Pending, Stuck, Init
<1>5. QED
  BY <1>2, <1>3, <1>4 DEF StartInv

\* What a step leaves alone that is another replay's.
Others(r) ==
  \A q \in Replays : q # r =>
    /\ asking'[q] = asking[q] /\ starting'[q] = starting[q]
    /\ starter'[q] = starter[q] /\ stream'[q] = stream[q]

\* A step of one replay's threads keeps what the others have come to.
LEMMA OthersInHand ==
  ASSUME StartTypeOK, InHand, NEW r \in Replays, Others(r), Phase(r)', Hands(r)',
         turn' = turn \/ turn' = turn \ {r} \/ turn = {}
  PROVE  InHand'
<1> SUFFICES ASSUME NEW q \in Replays, q # r PROVE Phase(q)' /\ Hands(q)'
  BY DEF InHand
<1>1. Phase(q) /\ Hands(q)
  BY DEF InHand
<1>2. asking'[q] = asking[q] /\ starting'[q] = starting[q] /\ starter'[q] = starter[q] /\ stream'[q] = stream[q]
  BY DEF Others
<1>3. InTurn(q) => turn' = {q}
  BY <1>1 DEF Phase
<1>4. Phase(q)'
  BY <1>1, <1>2, <1>3 DEF Phase, InTurn
<1>5. Hands(q)'
  BY <1>1, <1>2 DEF Hands
<1>6. QED
  BY <1>4, <1>5

\* A step that makes no start pending and abandons or clears none.
LEMMA StartInvKept ==
  ASSUME StartInv, StartTypeOK', NEW r \in Replays, Others(r), Phase(r)', Hands(r)',
         turn' = turn \/ turn' = turn \ {r},
         hanging' = hanging, Pending(r)' => Pending(r), Stuck(r)' <=> Stuck(r)
  PROVE  StartInv'
<1>1. InHand'
  BY OthersInHand DEF StartInv
<1>2. ASSUME NEW q \in Replays PROVE (Pending(q)' => Pending(q)) /\ (Stuck(q)' <=> Stuck(q))
  BY DEF Others, Pending, Stuck
<1>3. OnePending' /\ HangsWithStuck'
  BY <1>2 DEF StartInv, OnePending, HangsWithStuck
<1>4. QED
  BY <1>1, <1>3 DEF StartInv

\* The thread that asks goes on, and nothing else of the start changes.
LEMMA AskingMoves ==
  ASSUME StartInv, NEW r \in Replays, NEW a \in AskPlaces,
         asking' = [asking EXCEPT ![r] = a], UNCHANGED <<starting, starter, stream, hanging>>,
         turn' = turn \/ turn' = turn \ {r},
         (asking'[r] = a /\ starting'[r] = starting[r] /\ starter'[r] = starter[r] /\ stream'[r] = stream[r])
           => Phase(r)' /\ Hands(r)'
  PROVE  StartInv'
<1>1. StartTypeOK'
  BY DEF StartInv, StartTypeOK
<1>2. asking'[r] = a /\ Others(r)
  BY DEF StartInv, StartTypeOK, Others
<1>3. QED
  BY <1>1, <1>2, StartInvKept DEF Pending, Stuck

LEMMA AskingNext ==
  ASSUME StartInv, NEW r \in Replays,
         \/ WriteMarker(r) \/ NoBarrier(r) \/ GiveUpTurn(r) \/ Refuse(r)
         \/ CannotStart(r) \/ Started(r) \/ NotStarted(r) \/ Wait(r)
  PROVE  StartInv'
<1>a. Phase(r) /\ Hands(r) /\ asking[r] \in AskPlaces /\ starting[r] \in StartStates
  BY DEF StartInv, StartTypeOK, InHand
<1> USE DEF AskPlaces
<1>1. CASE WriteMarker(r)
  <2>1. asking' = [asking EXCEPT ![r] = "Queued"] /\ UNCHANGED <<starting, starter, stream, hanging, turn>>
    BY <1>1 DEF WriteMarker, Become, shared
  <2>2. QED
    BY <1>1, <1>a, <2>1, AskingMoves, ZenonT(30) DEF WriteMarker, Phase, Hands, InTurn
<1>2. CASE NoBarrier(r) \/ GiveUpTurn(r) \/ Refuse(r) \/ CannotStart(r)
  <2>1. /\ asking' = [asking EXCEPT ![r] = "Ended"] /\ turn' = turn \ {r}
        /\ UNCHANGED <<starting, starter, stream, hanging>>
        /\ asking[r] \in {"Idle", "Queued"}
    BY <1>2 DEF NoBarrier, GiveUpTurn, Refuse, CannotStart, Return, Become
  <2>2. QED
    BY <1>a, <2>1, AskingMoves DEF Phase, Hands, InTurn
<1>3. CASE Started(r)
  <2>1. /\ asking' = [asking EXCEPT ![r] = "Waiting"] /\ UNCHANGED <<starting, starter, stream, hanging, turn>>
        /\ asking[r] = "Starting" /\ starting[r] = "Started"
    BY <1>3 DEF Started, Become, shared
  <2>2. QED
    BY <1>a, <2>1, AskingMoves DEF Phase, Hands, InTurn
<1>4. CASE NotStarted(r)
  <2>1. /\ asking' = [asking EXCEPT ![r] = "Ended"] /\ turn' = turn \ {r}
        /\ UNCHANGED <<starting, starter, stream, hanging>>
        /\ asking[r] = "Starting" /\ starting[r] = "Failed"
    BY <1>4 DEF NotStarted, Return, Become
  <2>2. QED
    BY <1>a, <2>1, AskingMoves DEF Phase, Hands, InTurn
<1>5. CASE Wait(r)
  <2>1. PICK a \in {"TooMany", "Answered", "Lost", "Cancelled", "Deadline"} :
          asking' = [asking EXCEPT ![r] = a]
    BY <1>5 DEF Wait, Become, TimeIsUp
  <2>2. asking[r] = "Waiting" /\ UNCHANGED <<starting, starter, stream, hanging, turn>>
    BY <1>5 DEF Wait, shared
  <2>3. QED
    BY <1>a, <2>1, <2>2, AskingMoves DEF Phase, Hands, InTurn
<1>6. QED
  BY <1>1, <1>2, <1>3, <1>4, <1>5

\* The replay ends, and closes the stream unless it was left to the other.
LEMMA EndingNext ==
  ASSUME StartInv, NEW r \in Replays, GiveUp(r) \/ Take(r)
  PROVE  StartInv'
<1>a. Phase(r) /\ Hands(r) /\ asking[r] \in AskPlaces /\ starting[r] \in StartStates
  BY DEF StartInv, StartTypeOK, InHand
<1>1. /\ asking' = [asking EXCEPT ![r] = "Ended"] /\ turn' = turn \ {r}
      /\ UNCHANGED <<starting, starter, hanging>> /\ LetGo(r)
      /\ asking[r] \in {"TooMany", "Lost", "Cancelled", "Deadline", "Answered"}
  BY DEF GiveUp, Take, Return, Become
<1>2. asking'[r] = "Ended" /\ Others(r) /\ "at" \in DOMAIN stream'[r] /\ DOMAIN stream' = Replays
      /\ (IF starting[r] = "Abandoned" THEN stream'[r] = stream[r] ELSE stream'[r] = Closed)
  <2>1. "at" \in DOMAIN Closed
    BY DEF Closed
  <2>2. CASE starting[r] = "Abandoned"
    BY <1>1, <2>2 DEF StartInv, StartTypeOK, Others, LetGo
  <2>3. CASE starting[r] # "Abandoned"
    BY <1>1, <2>1, <2>3 DEF StartInv, StartTypeOK, Others, LetGo, Close
  <2>4. QED
    BY <2>2, <2>3
<1>3. StartTypeOK'
  BY <1>1, <1>2 DEF StartInv, StartTypeOK, Others, AskPlaces
<1>4. Phase(r)' /\ Hands(r)'
  BY <1>a, <1>1, <1>2 DEF Phase, Hands, InTurn, StartStates
<1>5. QED
  BY <1>1, <1>2, <1>3, <1>4, StartInvKept DEF Pending, Stuck

\* A start begins only when none is pending.
LEMMA StartNext ==
  ASSUME StartInv, NEW r \in Replays, Start(r)
  PROVE  StartInv'
<1> USE DEF StartInv, StartTypeOK
<1>1. \A q \in Replays : ~Pending(q) /\ ~InTurn(q)
  <2>1. \A q \in Replays : ~InTurn(q)
    BY DEF Start, InHand, Phase
  <2>2. \A q \in Replays : ~Stuck(q)
    BY DEF Start, HangsWithStuck, MustRefuse
  <2>3. \A q \in Replays : starting[q] # "Running"
    BY <2>1 DEF InHand, Phase, InTurn, AskPlaces
  <2>4. QED
    BY <2>1, <2>2, <2>3 DEF Pending
<1>2. /\ asking'[r] = "Starting" /\ starting'[r] = "Running" /\ starter'[r] = "Calling" /\ turn' = {r}
      /\ hanging' = hanging /\ Others(r)
  BY DEF Start, Become, Others
<1>3. StartTypeOK'
  <2>1. DOMAIN stream' = Replays /\ \A q \in Replays : "at" \in DOMAIN stream'[q]
    BY DEF Start
  <2>2. QED
    BY <2>1 DEF Start, Become, AskPlaces, StartStates, StarterPlaces
<1>4. Phase(r)' /\ Hands(r)'
  BY <1>2 DEF Phase, Hands, InTurn
<1>5. InHand'
  <2> SUFFICES ASSUME NEW q \in Replays, q # r PROVE Phase(q)' /\ Hands(q)'
    BY <1>4 DEF InHand
  <2>1. Phase(q) /\ Hands(q) /\ ~InTurn(q)
    BY <1>1 DEF InHand
  <2>2. QED
    BY <1>2, <2>1 DEF Others, Phase, Hands, InTurn
<1>6. \A q \in Replays : (Pending(q)' => q = r) /\ ~Stuck(q)'
  BY <1>1, <1>2 DEF Others, Pending, Stuck
<1>7. OnePending' /\ HangsWithStuck'
  BY <1>1, <1>2, <1>6 DEF OnePending, HangsWithStuck, Pending
<1>8. QED
  BY <1>3, <1>5, <1>7

\* It is abandoned only while it runs, and so is the one that is stuck then.
LEMMA AbandonNext ==
  ASSUME StartInv, NEW r \in Replays, Abandon(r)
  PROVE  StartInv'
<1> USE DEF StartInv, StartTypeOK
<1>1. PICK why \in {"Deadline", "Cancelled"} :
        /\ asking' = [asking EXCEPT ![r] = why]
        /\ hanging' = TRUE
        /\ starting' = [starting EXCEPT ![r] = "Abandoned"]
  BY DEF Abandon, TimeIsUp, MarkHanging
<1>2. asking[r] = "Starting" /\ starting[r] = "Running" /\ UNCHANGED <<stream, turn, starter>>
  BY DEF Abandon
<1>3. asking'[r] = why /\ starting'[r] = "Abandoned" /\ Others(r) /\ starter'[r] = starter[r]
  BY <1>1, <1>2 DEF Others
<1>4. StartTypeOK'
  BY <1>1, <1>2 DEF AskPlaces, StartStates
<1>5. Phase(r) /\ Hands(r)
  BY DEF InHand
<1>6. Phase(r)' /\ Hands(r)'
  BY <1>2, <1>3, <1>5 DEF Phase, Hands, InTurn
<1>7. InHand'
  BY <1>2, <1>3, <1>6, OthersInHand
<1>8. \A q \in Replays : Pending(q)' => Pending(q)
  BY <1>2, <1>3 DEF Others, Pending, Stuck
<1>9. Stuck(r)'
  BY <1>2, <1>3, <1>5 DEF Stuck, Hands
<1>10. QED
  BY <1>1, <1>4, <1>7, <1>8, <1>9 DEF OnePending, HangsWithStuck

\* The call returns, and the thread that made it comes to the lock.
LEMMA StarterNext ==
  ASSUME StartInv, NEW r \in Replays, StartReturns(r) \/ HandOver(r) \/ CloseHere(r)
  PROVE  StartInv'
<1>a. Phase(r) /\ Hands(r) /\ starting[r] \in StartStates /\ starter[r] \in StarterPlaces /\ asking[r] \in AskPlaces
  BY DEF StartInv, StartTypeOK, InHand
<1>b. /\ starter \in [Replays -> StarterPlaces] /\ starting \in [Replays -> StartStates]
      /\ DOMAIN stream = Replays /\ \A q \in Replays : "at" \in DOMAIN stream[q]
  BY DEF StartInv, StartTypeOK
<1>1. CASE StartReturns(r)
  <2>1. /\ starter[r] = "Calling" /\ starter' = [starter EXCEPT ![r] = "Returned"]
        /\ UNCHANGED <<turn, hanging, asking, starting>>
    BY <1>1 DEF StartReturns, shared
  <2>2. /\ DOMAIN stream' = Replays /\ \A q \in Replays : "at" \in DOMAIN stream'[q]
        /\ \A q \in Replays : q # r => stream'[q] = stream[q]
    BY <1>1, <1>b DEF StartReturns
  <2>3. StartTypeOK' /\ Others(r) /\ starter'[r] = "Returned"
    BY <2>1, <2>2 DEF StartInv, StartTypeOK, Others, StarterPlaces
  <2>4. Phase(r)' /\ Hands(r)'
    BY <1>a, <2>1, <2>3 DEF Phase, Hands, InTurn, StartStates
  <2>5. QED
    BY <2>1, <2>3, <2>4, StartInvKept DEF Pending, Stuck
<1>2. CASE HandOver(r)
  <2>1. /\ starter[r] = "Returned" /\ starting[r] = "Running" /\ asking[r] = "Starting"
        /\ UNCHANGED <<turn, hanging, asking, stream>>
    BY <1>2, <1>a DEF HandOver, Hands, Phase, StartStates, shared, AskPlaces
  <2>2. CASE stream[r].at = "Live"
    <3>1. starting' = [starting EXCEPT ![r] = "Started"] /\ starter' = [starter EXCEPT ![r] = "Gone"]
      BY <1>2, <2>2 DEF HandOver
    <3>2. StartTypeOK' /\ Others(r) /\ starter'[r] = "Gone" /\ starting'[r] = "Started"
      BY <2>1, <3>1 DEF StartInv, StartTypeOK, Others, StarterPlaces, StartStates
    <3>3. Phase(r)' /\ Hands(r)'
      BY <1>a, <2>1, <2>2, <3>2 DEF Phase, Hands, InTurn
    <3>4. QED
      BY <2>1, <3>2, <3>3, StartInvKept DEF Pending, Stuck
  <2>3. CASE stream[r].at # "Live"
    <3>1. starting' = [starting EXCEPT ![r] = "Failed"] /\ starter' = [starter EXCEPT ![r] = "Closing"]
      BY <1>2, <2>3 DEF HandOver
    <3>2. StartTypeOK' /\ Others(r) /\ starter'[r] = "Closing" /\ starting'[r] = "Failed"
      BY <2>1, <3>1 DEF StartInv, StartTypeOK, Others, StarterPlaces, StartStates
    <3>3. Phase(r)' /\ Hands(r)'
      BY <1>a, <2>1, <3>2 DEF Phase, Hands, InTurn
    <3>4. QED
      BY <2>1, <3>2, <3>3, StartInvKept DEF Pending, Stuck
  <2>4. QED
    BY <2>2, <2>3
<1>3. CASE CloseHere(r)
  <2> DEFINE next == IF starting[r] = "Abandoned" THEN "Clearing" ELSE "Gone"
  <2>1. /\ stream' = [stream EXCEPT ![r] = Closed] /\ starter' = [starter EXCEPT ![r] = next]
        /\ UNCHANGED <<turn, hanging, asking, starting>>
        /\ (starting[r] = "Abandoned" /\ starter[r] # "Gone") \/ starting[r] = "Failed"
    BY <1>3, <1>a DEF CloseHere, Close, Hands, StartStates, shared
  <2>2. next \in StarterPlaces /\ "at" \in DOMAIN Closed
    BY DEF StarterPlaces, Closed
  <2>3. starter'[r] = next /\ stream'[r] = Closed /\ Others(r)
    BY <1>b, <2>1 DEF Others
  <2>4. DOMAIN stream' = Replays /\ \A q \in Replays : "at" \in DOMAIN stream'[q]
    BY <1>b, <2>1, <2>2
  <2>5. StartTypeOK'
    <3> HIDE DEF next
    <3>1. QED
      BY <2>1, <2>2, <2>4 DEF StartInv, StartTypeOK
  <2>6. Phase(r)' /\ Hands(r)'
    BY <1>a, <2>1, <2>3 DEF Phase, Hands, InTurn
  <2>7. (Stuck(r)' <=> Stuck(r)) /\ (Pending(r)' => Pending(r))
    BY <2>1, <2>3 DEF Pending, Stuck
  <2>8. QED
    BY <2>1, <2>3, <2>5, <2>6, <2>7, StartInvKept
<1>4. QED
  BY <1>1, <1>2, <1>3

\* What is cleared is the one start that was stuck.
LEMMA ClearNext ==
  ASSUME StartInv, NEW r \in Replays, Clear(r)
  PROVE  StartInv'
<1> USE DEF StartInv, StartTypeOK
<1>1. Phase(r) /\ Hands(r) /\ starting[r] = "Abandoned"
  BY DEF InHand, Hands, Clear, StartStates
<1>2. /\ starter[r] = "Clearing" /\ starter' = [starter EXCEPT ![r] = "Gone"] /\ hanging' = FALSE
      /\ UNCHANGED <<stream, turn, asking, starting>>
  BY DEF Clear
<1>3. starter'[r] = "Gone" /\ Others(r) /\ StartTypeOK'
  BY <1>2 DEF Others, StarterPlaces
<1>4. Phase(r)' /\ Hands(r)'
  BY <1>1, <1>2, <1>3 DEF Phase, Hands, InTurn
<1>5. InHand'
  BY <1>2, <1>3, <1>4, OthersInHand
<1>6. Stuck(r)
  BY <1>1, <1>2 DEF Stuck
<1>7. \A q \in Replays : (Pending(q)' => Pending(q)) /\ ~Stuck(q)'
  BY <1>1, <1>2, <1>3, <1>6 DEF Others, OnePending, Pending, Stuck
<1>8. QED
  BY <1>2, <1>3, <1>5, <1>7 DEF OnePending, HangsWithStuck

\* A delivery leaves the stream where it is.
LEMMA DeliveryNext ==
  ASSUME StartInv, NEW r \in Replays, Deliver(r) \/ DeliverAgain(r)
  PROVE  StartInv'
<1>a. Phase(r) /\ Hands(r)
  BY DEF StartInv, InHand
<1>1. stream[r].at = "Live" /\ UNCHANGED <<turn, hanging, asking, starting, starter>>
  BY DEF Deliver, DeliverAgain, Call, shared
<1>2. /\ DOMAIN stream' = Replays /\ (\A q \in Replays : "at" \in DOMAIN stream'[q])
      /\ stream'[r].at = stream[r].at
      /\ \A q \in Replays : q # r => stream'[q] = stream[q]
  BY DEF Deliver, DeliverAgain, StartInv, StartTypeOK
<1>3. stream[r] # Closed
  BY <1>1 DEF Closed
<1>4. StartTypeOK' /\ Others(r)
  BY <1>1, <1>2 DEF StartInv, StartTypeOK, Others
<1>5. Phase(r)' /\ Hands(r)'
  BY <1>a, <1>1, <1>2, <1>3 DEF Phase, Hands, InTurn
<1>6. QED
  BY <1>1, <1>4, <1>5, StartInvKept DEF Pending, Stuck

LEMMA StartInvNext == StartInv /\ [Next]_vars => StartInv'
<1> SUFFICES ASSUME StartInv, [Next]_vars PROVE StartInv'
  OBVIOUS
<1>1. ASSUME UNCHANGED <<stream, shared, asking, starting, starter>> PROVE StartInv'
  BY <1>1 DEF shared, StartInv, StartTypeOK, InHand, Phase, Hands, InTurn, OnePending, HangsWithStuck, Pending, Stuck
<1>2. CASE UNCHANGED vars
  BY <1>1, <1>2 DEF vars
<1>3. CASE Number
  BY <1>1, <1>3 DEF Number
<1>4. ASSUME NEW f \in Files, Happen(f) PROVE StartInv'
  BY <1>1, <1>4 DEF Happen
<1>5. ASSUME NEW r \in Replays, StartReturns(r) \/ Deliver(r) \/ DeliverAgain(r) PROVE StartInv'
  BY <1>5, StarterNext, DeliveryNext
<1>6. ASSUME NEW r \in Replays, Asking(r) PROVE StartInv'
  BY <1>6, AskingNext, EndingNext, StartNext, AbandonNext DEF Asking
<1>7. ASSUME NEW r \in Replays, Starting(r) PROVE StartInv'
  BY <1>7, StarterNext, ClearNext DEF Starting
<1>8. QED
  BY <1>2, <1>3, <1>4, <1>5, <1>6, <1>7 DEF Next, Service

\* However many replays there are and whatever FSEvents does: one start at a
\* time, refused exactly while one is stuck, and each stream closed by one.
THEOREM StartsSound == Spec => []StartsAccountedFor
<1>1. QED
  BY StartInvInit, StartInvNext, StartInvSuffices, PTL DEF Spec

(***************************************************************************)
(* A replay's answer.                                                      *)
(***************************************************************************)
FilePaths == {File(f) : f \in Files}
Changing == FilePaths \cup {Marker(r) : r \in Replays}

\* A record that was numbered for a change, in full or not.
Tells(rec, p) == rec = InFull(p) \/ rec \in Lossy(p)
Numbered == UNION {{InFull(p)} \cup Lossy(p) : p \in Changing}

\* How a path of the model begins.
LEMMA Beginnings ==
  ASSUME NEW a, NEW b, NEW c
  PROVE  /\ SubSeq(<<a, b, c>>, 1, 2) = <<a, b>>
         /\ SubSeq(<<a, b>>, 1, 2) = <<a, b>> /\ SubSeq(<<a, b>>, 1, 1) = <<a>>
         /\ SubSeq(<<a>>, 1, 1) = <<a>>
         /\ SubSeq(<<a, b>>, 1, 0) = <<>> /\ SubSeq(<<a>>, 1, 0) = <<>>
         /\ SubSeq(<<>>, 1, 0) = <<>>
<1> DEFINE S == {a, b, c}
<1>1. /\ <<a, b, c>> \in Seq(S) /\ <<a, b>> \in Seq(S) /\ <<a>> \in Seq(S)
      /\ Len(<<a, b, c>>) = 3 /\ Len(<<a, b>>) = 2 /\ Len(<<a>>) = 1
  OBVIOUS
<1>2. SubSeq(<<a, b>>, 1, 2) = <<a, b>> /\ SubSeq(<<a>>, 1, 1) = <<a>>
  BY <1>1, SubSeqFull
<1>3. SubSeq(<<a, b>>, 1, 0) = <<>> /\ SubSeq(<<a>>, 1, 0) = <<>> /\ SubSeq(<<>>, 1, 0) = <<>>
  BY SubSeqEmpty
<1>4. SubSeq(<<a, b>>, 1, 1) = <<a>>
  <2>1. \A i \in 1..1 : <<a, b>>[i] \in S
    OBVIOUS
  <2>2. /\ SubSeq(<<a, b>>, 1, 1) \in Seq(S) /\ Len(SubSeq(<<a, b>>, 1, 1)) = 1
        /\ SubSeq(<<a, b>>, 1, 1)[1] = <<a, b>>[1]
    BY <2>1, SubSeqProperties
  <2>3. \A i \in 1..1 : SubSeq(<<a, b>>, 1, 1)[i] = <<a>>[i]
    BY <2>2
  <2>4. QED
    BY <1>1, <2>2, <2>3, SeqEqual
<1>5. SubSeq(<<a, b, c>>, 1, 2) = <<a, b>>
  <2>1. \A i \in 1..2 : <<a, b, c>>[i] \in S
    OBVIOUS
  <2>2. /\ SubSeq(<<a, b, c>>, 1, 2) \in Seq(S) /\ Len(SubSeq(<<a, b, c>>, 1, 2)) = 2
        /\ \A i \in 1..2 : SubSeq(<<a, b, c>>, 1, 2)[i] = <<a, b, c>>[i]
    BY <2>1, SubSeqProperties
  <2>3. \A i \in 1..2 : SubSeq(<<a, b, c>>, 1, 2)[i] = <<a, b>>[i]
    BY <2>2
  <2>4. QED
    BY <1>1, <2>2, <2>3, SeqEqual
<1>6. QED
  BY <1>2, <1>3, <1>4, <1>5

\* Where one path is under another, of those the model has.
LEMMA OneName ==
  ASSUME NEW f \in Files
  PROVE  /\ Parent(File(f)) = Data
         /\ Under(File(f), File(f)) /\ Under(File(f), Data) /\ Under(File(f), Disk)
         /\ Under(Data, Disk) /\ Under(Data, Data) /\ Under(Disk, Disk)
<1> USE DEF Parent, File, Data, Disk, Under, IsPrefix
<1>1. Len(<<"data", f>>) = 2 /\ Len(<<"data">>) = 1 /\ Len(<<>>) = 0
  OBVIOUS
<1>2. /\ SubSeq(<<"data", f>>, 1, 2) = <<"data", f>> /\ SubSeq(<<"data", f>>, 1, 1) = <<"data">>
      /\ SubSeq(<<"data">>, 1, 1) = <<"data">>
      /\ SubSeq(<<"data", f>>, 1, 0) = <<>> /\ SubSeq(<<"data">>, 1, 0) = <<>> /\ SubSeq(<<>>, 1, 0) = <<>>
  BY Beginnings
<1>3. Parent(File(f)) = Data
  BY <1>1, <1>2
<1>4. QED
  BY <1>1, <1>2, <1>3

\* A marker is of its own replay, in a directory no file is under.
LEMMA MarkerNames ==
  ASSUME NEW r \in Replays
  PROVE  /\ Parent(Marker(r)) = MarkerDir(r)
         /\ ~Under(Disk, MarkerDir(r)) /\ ~Under(Data, MarkerDir(r))
         /\ \A f \in Files : ~Under(File(f), MarkerDir(r)) /\ Marker(r) # File(f)
         /\ \A q \in Replays : Marker(r) # MarkerDir(q) /\ (Marker(r) = Marker(q) => r = q)
         /\ Marker(r) # Disk /\ Marker(r) # Data
<1> USE DEF Parent, Marker, MarkerDir, Disk, Data, File, Under, IsPrefix
<1>1. Parent(Marker(r)) = MarkerDir(r)
  <2>1. Len(<<"temp", r, "sync">>) = 3
    OBVIOUS
  <2>2. SubSeq(<<"temp", r, "sync">>, 1, 2) = <<"temp", r>>
    BY Beginnings
  <2>3. QED
    BY <2>1, <2>2
<1>2. ~Under(Disk, MarkerDir(r)) /\ ~Under(Data, MarkerDir(r))
  OBVIOUS
<1>3. ASSUME NEW f \in Files PROVE ~Under(File(f), MarkerDir(r))
  <2>1. SubSeq(<<"temp", r>>, 1, 2) = <<"temp", r>> /\ SubSeq(<<"data", f>>, 1, 2) = <<"data", f>>
    BY Beginnings
  <2>2. <<"temp", r>> # <<"data", f>> /\ Len(<<"temp", r>>) = 2
    OBVIOUS
  <2>3. QED
    BY <2>1, <2>2
<1>4. \A f \in Files : Marker(r) # File(f)
  OBVIOUS
<1>5. ASSUME NEW q \in Replays PROVE Marker(r) # MarkerDir(q) /\ (Marker(r) = Marker(q) => r = q)
  OBVIOUS
<1>6. Marker(r) # Disk /\ Marker(r) # Data
  OBVIOUS
<1>7. QED
  BY <1>1, <1>2, <1>3, <1>4, <1>5, <1>6

\* What was told of a change by the first n records.
Told(p, n) == \E i \in 1..n : Tells(log[i], p)
Queued(p, n) == \E j \in 1..n : queue[j] = p

SinkState ==
  [events : SUBSET Claims, historyDone : BOOLEAN, synced : BOOLEAN,
   barrierLost : BOOLEAN, overflowed : BOOLEAN]

StreamState == [at : {"Closed", "Created", "Live"}, from : Nat, sent : Nat, done : BOOLEAN]

JournalTypeOK ==
  /\ queue \in Seq(Changing) /\ log \in Seq(Numbered)
  /\ done \in SUBSET FilePaths /\ before \in [Replays -> SUBSET FilePaths]
  /\ sink \in [Replays -> SinkState] /\ stream \in [Replays -> StreamState]
  /\ DOMAIN answer = Replays

\* Nothing that changed is forgotten: it is on its way or was told of.
OnItsWay == \A p \in done : Told(p, Len(log)) \/ Queued(p, Len(queue))

\* What had changed by then comes before the marker, on its way and in the log.
MarkerAfter(r) ==
  \A p \in before[r] :
    /\ \A k \in 1..Len(queue) : queue[k] = Marker(r) => Told(p, Len(log)) \/ Queued(p, k - 1)
    /\ \A i \in 1..Len(log) : log[i] = InFull(Marker(r)) => Told(p, i - 1)

\* Before its barrier a replay has no marker.
Unmarked(r) ==
  asking[r] = "Idle" =>
    /\ \A k \in 1..Len(queue) : queue[k] # Marker(r)
    /\ \A i \in 1..Len(log) : log[i] # InFull(Marker(r))

\* What the sink has of a record that was delivered.
Has(r, rec) ==
  sink[r].overflowed \/ (OfTheRoot(r, rec.path) => Change(rec) \in sink[r].events)

\* The sink after the first n records.
Heard(r, n) ==
  /\ n <= Len(log)
  /\ \A i \in 1..n : Watches(r, log[i].path) => Has(r, log[i])
  /\ sink[r].synced => \E i \in 1..n : log[i] = InFull(Marker(r))

Listens(r) == asking[r] \in {"Idle", "Queued", "Starting", "Waiting", "Answered"}

\* As long as its sink may yet be taken, it holds what its stream delivered.
Listening(r) ==
  Listens(r) =>
    /\ Heard(r, stream[r].sent)
    /\ stream[r].at # "Live" => stream[r].sent = 0
    /\ starting[r] = "Failed" => stream[r].at # "Live"

Answering(r) ==
  /\ asking[r] = "Answered" => sink[r].synced
  /\ asking[r] # "Ended" => answer[r] = NoAnswer

EachReplay == \A r \in Replays : MarkerAfter(r) /\ Unmarked(r) /\ Listening(r) /\ Answering(r)

JournalInv == JournalTypeOK /\ OnItsWay /\ EachReplay

\* What a numbered record says, and that only one in full is of the marker.
LEMMA NumberedSay ==
  ASSUME NEW rec \in Numbered
  PROVE  /\ rec # HistoryDone /\ Change(rec) \in Claims
         /\ \A r \in Replays : rec.path = Marker(r) => rec = InFull(Marker(r))
         /\ \A r \in Replays, p \in Changing :
              Tells(rec, p) /\ rec = InFull(Marker(r)) => p = Marker(r)
<1>1. PICK p \in Changing : Tells(rec, p)
  BY DEF Numbered, Tells
<1>2. /\ Disk \in Paths /\ p \in Paths /\ Parent(p) \in Paths
      /\ \A r \in Replays : Parent(p) # Marker(r) /\ Disk # Marker(r)
  <2>1. CASE p \in FilePaths
    <3>1. PICK f \in Files : p = File(f)
      BY <2>1 DEF FilePaths
    <3>2. Parent(p) = Data
      BY <3>1, OneName
    <3>3. QED
      BY <3>1, <3>2, MarkerNames DEF Paths
  <2>2. CASE p \in {Marker(r) : r \in Replays}
    <3>1. PICK r \in Replays : p = Marker(r)
      BY <2>2
    <3>2. Parent(p) = MarkerDir(r)
      BY <3>1, MarkerNames
    <3>3. \A q \in Replays : Parent(p) # Marker(q) /\ Disk # Marker(q)
      BY <3>2, MarkerNames
    <3>4. QED
      BY <3>1, <3>2, <3>3 DEF Paths
  <2>3. QED
    BY <2>1, <2>2 DEF Changing
<1>3. \/ rec = [path |-> p, flags |-> {"ItemIsFile"}]
      \/ rec = [path |-> Disk, flags |-> {"KernelDropped"}]
      \/ rec = [path |-> Parent(p), flags |-> {"MustScanSubDirs"}]
      \/ rec = [path |-> Parent(p), flags |-> {}]
  BY <1>1 DEF Tells, InFull, Lossy, Record
<1>4. rec # HistoryDone
  <2>1. "HistoryDone" \notin rec.flags
    BY <1>3
  <2>2. HistoryDone.flags = {"HistoryDone"}
    BY DEF HistoryDone, Record
  <2>3. QED
    BY <2>1, <2>2
<1>5. rec.path \in Paths
  BY <1>2, <1>3
<1>6. Change(rec) \in Claims
  <2>1. Kind(rec.flags) \in {"Lost", "SubtreeUnknown", "Removed", "Renamed", "Created", "Modified"}
    BY DEF Kind
  <2>2. QED
    BY <1>5, <2>1 DEF Change, Claims
<1>7. ASSUME NEW r \in Replays, rec.path = Marker(r) PROVE rec = InFull(Marker(r))
  BY <1>2, <1>3, <1>7 DEF InFull, Record
<1>8. ASSUME NEW r \in Replays, NEW q \in Changing, Tells(rec, q), rec = InFull(Marker(r)) PROVE q = Marker(r)
  <2>1. rec.flags = {"ItemIsFile"} /\ rec.path = Marker(r)
    BY <1>8 DEF InFull, Record
  <2>2. rec \notin Lossy(q)
    BY <2>1 DEF Lossy, Record
  <2>3. rec = InFull(q)
    BY <1>8, <2>2 DEF Tells
  <2>4. QED
    BY <2>1, <2>3 DEF InFull, Record
<1>9. QED
  BY <1>4, <1>6, <1>7, <1>8

\* A record of a change under the root is heard, kept, and has it read again.
LEMMA RecordReaches ==
  ASSUME NEW r \in Replays, NEW f \in Files, NEW rec, Tells(rec, File(f)), Concerns(r, File(f))
  PROVE  Watches(r, rec.path) /\ OfTheRoot(r, rec.path) /\ Covers(Change(rec), File(f))
<1>1. \/ rec = [path |-> File(f), flags |-> {"ItemIsFile"}]
      \/ rec = [path |-> Disk, flags |-> {"KernelDropped"}]
      \/ rec = [path |-> Data, flags |-> {"MustScanSubDirs"}]
      \/ rec = [path |-> Data, flags |-> {}]
  BY OneName DEF Tells, InFull, Lossy, Record
<1>2. rec.path \in {File(f), Data, Disk} /\ Under(File(f), rec.path)
  BY <1>1, OneName
<1>3. Root(r) \in {Data, Disk}
  BY DEF Root
<1>4. Watches(r, rec.path)
  BY <1>2, <1>3, OneName DEF Watches
<1>5. OfTheRoot(r, rec.path)
  BY <1>2, MarkerNames DEF OfTheRoot, InMarkerDir
<1>6. Covers(Change(rec), File(f))
  <2>1. CASE rec = [path |-> File(f), flags |-> {"ItemIsFile"}]
    BY <2>1 DEF Covers, Change
  <2>2. CASE rec.flags \in {{"KernelDropped"}, {"MustScanSubDirs"}, {}}
    <3>1. Kind(rec.flags) \in {"Lost", "SubtreeUnknown"}
      <4>1. CASE rec.flags = {"KernelDropped"}
        <5>1. rec.flags \cap LOST # {}
          BY <4>1 DEF LOST
        <5>2. QED
          BY <5>1 DEF Kind
      <4>2. CASE rec.flags # {"KernelDropped"}
        <5>1. "MustScanSubDirs" \in rec.flags \/ rec.flags \cap KINDS = {}
          BY <2>2, <4>2 DEF KINDS
        <5>2. QED
          BY <5>1 DEF Kind
      <4>3. QED
        BY <4>1, <4>2
    <3>2. QED
      BY <1>2, <3>1 DEF Covers, Change
  <2>3. QED
    BY <1>1, <2>1, <2>2
<1>7. QED
  BY <1>4, <1>5, <1>6

\* Two fields of a sink set, in turn.
LEMMA Marked ==
  ASSUME NEW s, NEW synced, NEW lost,
         s = [events |-> s.events, historyDone |-> s.historyDone, synced |-> s.synced,
              barrierLost |-> s.barrierLost, overflowed |-> s.overflowed]
  PROVE  [s EXCEPT !.synced = synced, !.barrierLost = lost] =
         [events |-> s.events, historyDone |-> s.historyDone, synced |-> synced,
          barrierLost |-> lost, overflowed |-> s.overflowed]
<1> DEFINE t == [s EXCEPT !.synced = synced]
<1>1. t = [events |-> s.events, historyDone |-> s.historyDone, synced |-> synced,
           barrierLost |-> s.barrierLost, overflowed |-> s.overflowed]
  OBVIOUS
<1>2. [s EXCEPT !.synced = synced, !.barrierLost = lost] = [t EXCEPT !.barrierLost = lost]
  OBVIOUS
<1> HIDE DEF t
<1>3. [t EXCEPT !.barrierLost = lost] =
      [events |-> s.events, historyDone |-> s.historyDone, synced |-> synced,
       barrierLost |-> lost, overflowed |-> s.overflowed]
  BY <1>1
<1>4. QED
  BY <1>2, <1>3

\* Sink::record forgets nothing it was told, unless it says it has too much.
LEMMA RecordedKeeps ==
  ASSUME NEW r \in Replays, NEW s \in SinkState, NEW rec \in Numbered
  PROVE  /\ Recorded(r, s, rec) \in SinkState
         /\ Recorded(r, s, rec).synced = (s.synced \/ rec.path = Marker(r))
         /\ s.overflowed => Recorded(r, s, rec).overflowed
         /\ \/ Recorded(r, s, rec).overflowed
            \/ /\ s.events \subseteq Recorded(r, s, rec).events
               /\ OfTheRoot(r, rec.path) => Change(rec) \in Recorded(r, s, rec).events
<1> DEFINE lost == s.barrierLost \/ LosesMarker(r, rec)
           synced == s.synced \/ rec.path = Marker(r)
           seen == [s EXCEPT !.synced = synced, !.barrierLost = lost]
           change == Change(rec)
<1>1. rec # HistoryDone /\ change \in Claims
  BY NumberedSay
<1>2. /\ s = [events |-> s.events, historyDone |-> s.historyDone, synced |-> s.synced,
             barrierLost |-> s.barrierLost, overflowed |-> s.overflowed]
      /\ s.events \in SUBSET Claims /\ s.historyDone \in BOOLEAN /\ s.overflowed \in BOOLEAN
  BY DEF SinkState
<1>a. s = [events |-> s.events, historyDone |-> s.historyDone, synced |-> s.synced,
           barrierLost |-> s.barrierLost, overflowed |-> s.overflowed]
  BY <1>2
<1>3. synced \in BOOLEAN /\ lost \in BOOLEAN
  <2>1. s.synced \in BOOLEAN /\ s.barrierLost \in BOOLEAN /\ LosesMarker(r, rec) \in BOOLEAN
    BY DEF SinkState, LosesMarker
  <2>2. QED
    BY <2>1
<1>4. Recorded(r, s, rec) = IF OfTheRoot(r, rec.path) THEN Held(seen, change) ELSE seen
  BY <1>1 DEF Recorded
<1> HIDE DEF lost, synced, change
<1>5. /\ seen = [events |-> s.events, historyDone |-> s.historyDone, synced |-> synced,
                barrierLost |-> lost, overflowed |-> s.overflowed]
      /\ seen \in SinkState
  <2>1. seen = [events |-> s.events, historyDone |-> s.historyDone, synced |-> synced,
                barrierLost |-> lost, overflowed |-> s.overflowed]
    BY <1>a, Marked
  <2>2. QED
    BY <1>2, <1>3, <2>1 DEF SinkState
<1> HIDE DEF seen
<1>6. /\ seen.synced = synced /\ seen.overflowed = s.overflowed /\ seen.events = s.events
      /\ DOMAIN seen = {"events", "historyDone", "synced", "barrierLost", "overflowed"}
  BY <1>5
<1> DEFINE held == Held(seen, change)
<1>7. /\ held \in SinkState /\ held.synced = synced
      /\ s.overflowed => held.overflowed
      /\ held.overflowed \/ (s.events \subseteq held.events /\ change \in held.events)
  <2>1. CASE s.overflowed
    <3>1. held = seen
      BY <1>6, <2>1 DEF Held
    <3>2. QED
      BY <1>5, <1>6, <2>1, <3>1
  <2>2. CASE ~s.overflowed /\ Cardinality(seen.events \cup {change}) > Cap
    <3>1. held = [seen EXCEPT !.overflowed = TRUE, !.events = {}]
      BY <1>6, <2>2 DEF Held
    <3>2. held = [events |-> {}, historyDone |-> s.historyDone, synced |-> synced,
                  barrierLost |-> lost, overflowed |-> TRUE]
      BY <1>5, <3>1
    <3>3. held \in SinkState
      BY <1>2, <1>3, <3>2 DEF SinkState
    <3>4. QED
      BY <3>2, <3>3
  <2>3. CASE ~s.overflowed /\ ~(Cardinality(seen.events \cup {change}) > Cap)
    <3>1. held = [seen EXCEPT !.events = seen.events \cup {change}]
      BY <1>6, <2>3 DEF Held
    <3>2. held = [events |-> s.events \cup {change}, historyDone |-> s.historyDone, synced |-> synced,
                  barrierLost |-> lost, overflowed |-> s.overflowed]
      BY <1>5, <3>1
    <3>3. held \in SinkState
      BY <1>1, <1>2, <1>3, <3>2 DEF SinkState
    <3>4. QED
      BY <2>3, <3>2, <3>3
  <2>4. QED
    BY <2>1, <2>2, <2>3
<1>8. CASE OfTheRoot(r, rec.path)
  BY <1>4, <1>7, <1>8 DEF synced, change
<1>9. CASE ~OfTheRoot(r, rec.path)
  BY <1>4, <1>5, <1>6, <1>9 DEF synced
<1>10. QED
  BY <1>8, <1>9

\* What a step must leave alone of a replay that it is not a step of.
SameReplay(q) ==
  /\ before'[q] = before[q] /\ asking'[q] = asking[q] /\ starting'[q] = starting[q]
  /\ sink'[q] = sink[q] /\ stream'[q] = stream[q] /\ answer'[q] = answer[q]

EachIs(q) == MarkerAfter(q) /\ Unmarked(q) /\ Listening(q) /\ Answering(q)

\* A step that is not of the queue nor the log keeps what is so of the others.
LEMMA OthersAsTheyWere ==
  ASSUME NEW q \in Replays, EachIs(q), SameReplay(q), queue' = queue, log' = log
  PROVE  EachIs(q)'
<1> USE DEF EachIs, SameReplay
<1>1. MarkerAfter(q)'
  BY DEF MarkerAfter, Told, Queued
<1>2. Unmarked(q)'
  BY DEF Unmarked
<1>3. Listening(q)'
  BY DEF Listening, Listens, Heard, Has
<1>4. Answering(q)'
  BY DEF Answering
<1>5. QED
  BY <1>1, <1>2, <1>3, <1>4

\* Such a step of one replay is right if that one still listens and answers.
LEMMA JournalKept ==
  ASSUME JournalInv, JournalTypeOK', UNCHANGED <<queue, log, done, before>>,
         NEW r \in Replays, \A q \in Replays : q # r => SameReplay(q),
         asking'[r] = "Idle" => asking[r] = "Idle", Listening(r)', Answering(r)'
  PROVE  JournalInv'
<1>1. OnItsWay'
  BY DEF JournalInv, OnItsWay, Told, Queued
<1>2. \A q \in Replays : EachIs(q)
  BY DEF JournalInv, EachReplay, EachIs
<1>3. EachIs(r)'
  <2>1. MarkerAfter(r)'
    BY <1>2 DEF EachIs, MarkerAfter, Told, Queued
  <2>2. Unmarked(r)'
    BY <1>2 DEF EachIs, Unmarked
  <2>3. QED
    BY <2>1, <2>2 DEF EachIs
<1>4. \A q \in Replays : EachIs(q)'
  BY <1>2, <1>3, OthersAsTheyWere
<1>5. EachReplay'
  BY <1>4 DEF EachReplay, EachIs
<1>6. QED
  BY <1>1, <1>5 DEF JournalInv

\* A record is numbered: what is told of is so from then on.
LEMMA StillTold ==
  ASSUME JournalTypeOK, NEW rec \in Numbered, log' = Append(log, rec)
  PROVE  /\ Len(log') = Len(log) + 1 /\ Len(log) \in Nat /\ log' \in Seq(Numbered)
         /\ log'[Len(log) + 1] = rec
         /\ \A i \in 1..Len(log) : log'[i] = log[i]
         /\ \A p : \A n \in 0..Len(log) : Told(p, n) => Told(p, n)'
         /\ \A p : Told(p, Len(log)) => Told(p, Len(log))'
         /\ \A p : Tells(rec, p) => Told(p, Len(log))'
<1>1. /\ Len(log') = Len(log) + 1 /\ Len(log) \in Nat /\ log' \in Seq(Numbered)
      /\ log'[Len(log) + 1] = rec
      /\ \A i \in 1..Len(log) : log'[i] = log[i]
  BY AppendProperties, LenProperties DEF JournalTypeOK
<1>2. ASSUME NEW p, NEW n \in 0..Len(log), Told(p, n) PROVE Told(p, n)'
  BY <1>1, <1>2 DEF Told
<1>3. ASSUME NEW p, Told(p, Len(log)) PROVE Told(p, Len(log))'
  BY <1>1, <1>3 DEF Told
<1>4. ASSUME NEW p, Tells(rec, p) PROVE Told(p, Len(log))'
  <2>1. Len(log') \in 1..Len(log') /\ Tells(log'[Len(log')], p)
    BY <1>1, <1>4
  <2>2. QED
    BY <2>1 DEF Told
<1>5. QED
  BY <1>1, <1>2, <1>3, <1>4

\* What is numbered leaves the queue for the log: nothing is lost of its order.
LEMMA NumberJournal ==
  ASSUME JournalInv, Number
  PROVE  JournalInv'
<1> USE DEF JournalInv
<1>1. /\ queue \in Seq(Changing) /\ queue # <<>> /\ queue' = Tail(queue)
      /\ UNCHANGED <<stream, asking, starting, sink, answer, done, before>>
  BY DEF JournalTypeOK, Number, history
<1>2. PICK rec \in Numbered : Tells(rec, Head(queue)) /\ log' = Append(log, rec)
  <2>1. Head(queue) \in Changing
    BY <1>1, HeadTailProperties
  <2>2. PICK rec : Tells(rec, Head(queue)) /\ log' = Append(log, rec)
    BY DEF Number, Tells
  <2>3. rec \in Numbered
    BY <2>1, <2>2 DEF Numbered, Tells
  <2>4. QED
    BY <2>2, <2>3
<1>3. /\ queue' \in Seq(Changing) /\ Len(queue') = Len(queue) - 1 /\ Len(queue) \in Nat
      /\ \A j \in 1..Len(queue') : queue'[j] = queue[j + 1]
      /\ Head(queue) = queue[1] /\ Head(queue) \in Changing
  BY <1>1, HeadTailProperties, LenProperties
<1>4. /\ Len(log') = Len(log) + 1 /\ Len(log) \in Nat /\ log' \in Seq(Numbered)
      /\ log'[Len(log) + 1] = rec
      /\ \A i \in 1..Len(log) : log'[i] = log[i]
      /\ \A p : \A n \in 0..Len(log) : Told(p, n) => Told(p, n)'
      /\ \A p : Told(p, Len(log)) => Told(p, Len(log))'
      /\ \A p : Tells(rec, p) => Told(p, Len(log))'
  BY <1>2, StillTold
<1>5. JournalTypeOK'
  BY <1>1, <1>3, <1>4 DEF JournalTypeOK
<1>6. ASSUME NEW p, NEW n \in 1..Len(queue), Queued(p, n)
      PROVE  Told(p, Len(log))' \/ Queued(p, n - 1)'
  <2>1. PICK j \in 1..n : queue[j] = p
    BY <1>6 DEF Queued
  <2>2. CASE j = 1
    BY <1>2, <1>3, <1>4, <2>1, <2>2
  <2>3. CASE j # 1
    <3>1. j - 1 \in 1..(n - 1) /\ j - 1 \in 1..Len(queue') /\ queue'[j - 1] = queue[(j - 1) + 1]
      BY <1>3, <2>3
    <3>2. queue'[j - 1] = p
      BY <2>1, <3>1
    <3>3. QED
      BY <3>1, <3>2 DEF Queued
  <2>4. QED
    BY <2>2, <2>3
<1>7. OnItsWay'
  <2> SUFFICES ASSUME NEW p \in done PROVE Told(p, Len(log))' \/ Queued(p, Len(queue))'
    BY <1>1 DEF OnItsWay
  <2>1. CASE Told(p, Len(log))
    BY <1>4, <2>1
  <2>2. CASE Queued(p, Len(queue))
    <3>1. Len(queue) \in 1..Len(queue)
      BY <1>3, <2>2 DEF Queued
    <3>2. QED
      BY <1>3, <1>6, <2>2, <3>1
  <2>3. QED
    BY <2>1, <2>2 DEF OnItsWay
<1>8. ASSUME NEW r \in Replays PROVE EachIs(r)'
  <2>a. EachIs(r)
    BY DEF EachReplay, EachIs
  <2>1. MarkerAfter(r)'
    <3> SUFFICES ASSUME NEW p \in before[r]
        PROVE /\ \A k \in 1..Len(queue') : queue'[k] = Marker(r) => Told(p, Len(log))' \/ Queued(p, k - 1)'
              /\ \A i \in 1..Len(log') : log'[i] = InFull(Marker(r)) => Told(p, i - 1)'
      BY <1>1 DEF MarkerAfter
    <3>1. ASSUME NEW k \in 1..Len(queue'), queue'[k] = Marker(r)
          PROVE  Told(p, Len(log))' \/ Queued(p, k - 1)'
      <4>1. k + 1 \in 1..Len(queue) /\ queue[k + 1] = Marker(r) /\ k \in 1..Len(queue) /\ (k + 1) - 1 = k
        BY <1>3, <3>1
      <4>2. Told(p, Len(log)) \/ Queued(p, k)
        BY <2>a, <4>1 DEF EachIs, MarkerAfter
      <4>3. QED
        BY <1>4, <1>6, <4>1, <4>2
    <3>2. ASSUME NEW i \in 1..Len(log'), log'[i] = InFull(Marker(r))
          PROVE  Told(p, i - 1)'
      <4>1. CASE i \in 1..Len(log)
        <5>1. Told(p, i - 1) /\ i - 1 \in 0..Len(log)
          BY <1>4, <2>a, <3>2, <4>1 DEF EachIs, MarkerAfter
        <5>2. QED
          BY <1>4, <5>1
      <4>2. CASE i \notin 1..Len(log)
        <5>1. i = Len(log) + 1 /\ rec = InFull(Marker(r)) /\ i - 1 = Len(log)
          BY <1>4, <3>2, <4>2
        <5>2. queue[1] = Marker(r)
          BY <1>2, <1>3, <5>1, NumberedSay
        <5>3. 1 \in 1..Len(queue) /\ 1 - 1 = 0
          BY <1>3, <1>1
        <5>4. Told(p, Len(log)) \/ Queued(p, 0)
          BY <2>a, <5>2, <5>3 DEF EachIs, MarkerAfter
        <5>5. ~Queued(p, 0)
          BY DEF Queued
        <5>6. Len(log) \in 0..Len(log)
          BY <1>4
        <5>7. QED
          BY <1>4, <5>1, <5>4, <5>5, <5>6
      <4>3. QED
        BY <4>1, <4>2
    <3>3. QED
      BY <3>1, <3>2
  <2>2. Unmarked(r)'
    <3> SUFFICES ASSUME asking[r] = "Idle"
        PROVE /\ \A k \in 1..Len(queue') : queue'[k] # Marker(r)
              /\ \A i \in 1..Len(log') : log'[i] # InFull(Marker(r))
      BY <1>1 DEF Unmarked
    <3>1. \A k \in 1..Len(queue) : queue[k] # Marker(r)
      BY <2>a DEF EachIs, Unmarked
    <3>2. \A k \in 1..Len(queue') : queue'[k] # Marker(r)
      BY <1>3, <3>1
    <3>3. Head(queue) # Marker(r)
      BY <1>3, <1>1, <3>1
    <3>4. rec # InFull(Marker(r))
      BY <1>2, <1>3, <3>3, NumberedSay
    <3>5. \A i \in 1..Len(log') : log'[i] # InFull(Marker(r))
      BY <1>4, <2>a, <3>4 DEF EachIs, Unmarked
    <3>6. QED
      BY <3>2, <3>5
  <2>3. Listening(r)'
    <3>1. stream[r].sent \in Nat
      BY DEF JournalTypeOK, StreamState
    <3>2. ASSUME NEW n \in Nat, Heard(r, n) PROVE Heard(r, n)'
      <4>1. n <= Len(log') /\ \A i \in 1..n : i \in 1..Len(log) /\ log'[i] = log[i]
        BY <1>4, <3>2 DEF Heard
      <4>2. QED
        BY <1>1, <3>2, <4>1 DEF Heard, Has
    <3>3. QED
      BY <1>1, <2>a, <3>1, <3>2 DEF EachIs, Listening, Listens
  <2>4. Answering(r)'
    BY <1>1, <2>a DEF EachIs, Answering
  <2>5. QED
    BY <2>1, <2>2, <2>3, <2>4 DEF EachIs
<1>9. QED
  BY <1>5, <1>7, <1>8 DEF EachReplay, EachIs

\* Something joins the queue behind what is there.
LEMMA StillQueued ==
  ASSUME JournalTypeOK, NEW c \in Changing, queue' = Append(queue, c), log' = log
  PROVE  /\ queue' \in Seq(Changing) /\ Len(queue') = Len(queue) + 1 /\ Len(queue) \in Nat
         /\ queue'[Len(queue) + 1] = c
         /\ \A j \in 1..Len(queue) : queue'[j] = queue[j]
         /\ \A p : \A n \in 0..Len(queue) : Queued(p, n) => Queued(p, n)'
         /\ \A p : Queued(p, Len(queue)) => Queued(p, Len(queue))'
         /\ Queued(c, Len(queue))'
         /\ \A p, n : Told(p, n) => Told(p, n)'
<1>1. /\ queue' \in Seq(Changing) /\ Len(queue') = Len(queue) + 1 /\ Len(queue) \in Nat
      /\ queue'[Len(queue) + 1] = c
      /\ \A j \in 1..Len(queue) : queue'[j] = queue[j]
  BY AppendProperties, LenProperties DEF JournalTypeOK
<1>2. ASSUME NEW p, NEW n \in 0..Len(queue), Queued(p, n) PROVE Queued(p, n)'
  BY <1>1, <1>2 DEF Queued
<1>3. ASSUME NEW p, Queued(p, Len(queue)) PROVE Queued(p, Len(queue))'
  BY <1>1, <1>3 DEF Queued
<1>4. Queued(c, Len(queue))'
  <2>1. Len(queue') \in 1..Len(queue') /\ queue'[Len(queue')] = c
    BY <1>1
  <2>2. QED
    BY <2>1 DEF Queued
<1>5. ASSUME NEW p, NEW n, Told(p, n) PROVE Told(p, n)'
  BY <1>5 DEF Told
<1>6. QED
  BY <1>1, <1>2, <1>3, <1>4, <1>5

\* What joins the queue and is not a replay's marker is of no matter to it.
LEMMA BehindOthers ==
  ASSUME JournalInv, NEW c \in Changing, queue' = Append(queue, c), log' = log,
         NEW q \in Replays, c # Marker(q), SameReplay(q)
  PROVE  EachIs(q)'
<1>1. EachIs(q) /\ JournalTypeOK
  BY DEF JournalInv, EachReplay, EachIs
<1>2. /\ Len(queue') = Len(queue) + 1 /\ Len(queue) \in Nat /\ queue'[Len(queue) + 1] = c
      /\ \A j \in 1..Len(queue) : queue'[j] = queue[j]
      /\ \A p : \A n \in 0..Len(queue) : Queued(p, n) => Queued(p, n)'
      /\ \A p, n : Told(p, n) => Told(p, n)'
  BY <1>1, StillQueued
<1>3. \A k \in 1..Len(queue') : queue'[k] = Marker(q) => k \in 1..Len(queue) /\ queue[k] = Marker(q) /\ k - 1 \in 0..Len(queue)
  BY <1>2
<1>4. MarkerAfter(q)'
  <2> SUFFICES ASSUME NEW p \in before[q]
      PROVE /\ \A k \in 1..Len(queue') : queue'[k] = Marker(q) => Told(p, Len(log))' \/ Queued(p, k - 1)'
            /\ \A i \in 1..Len(log') : log'[i] = InFull(Marker(q)) => Told(p, i - 1)'
    BY DEF MarkerAfter, SameReplay
  <2>1. ASSUME NEW k \in 1..Len(queue'), queue'[k] = Marker(q) PROVE Told(p, Len(log))' \/ Queued(p, k - 1)'
    <3>1. Told(p, Len(log)) \/ Queued(p, k - 1)
      BY <1>1, <1>3, <2>1 DEF EachIs, MarkerAfter
    <3>2. CASE Told(p, Len(log))
      BY <3>2 DEF Told
    <3>3. CASE Queued(p, k - 1)
      BY <1>2, <1>3, <2>1, <3>3
    <3>4. QED
      BY <3>1, <3>2, <3>3
  <2>2. ASSUME NEW i \in 1..Len(log'), log'[i] = InFull(Marker(q)) PROVE Told(p, i - 1)'
    BY <1>1, <1>2, <2>2 DEF EachIs, MarkerAfter
  <2>3. QED
    BY <2>1, <2>2
<1>5. Unmarked(q)'
  BY <1>1, <1>3 DEF EachIs, Unmarked, SameReplay
<1>6. Listening(q)'
  BY <1>1 DEF EachIs, SameReplay, Listening, Listens, Heard, Has
<1>7. Answering(q)'
  BY <1>1 DEF EachIs, SameReplay, Answering
<1>8. QED
  BY <1>4, <1>5, <1>6, <1>7 DEF EachIs

\* A change goes behind every marker that is on its way.
LEMMA HappenJournal ==
  ASSUME JournalInv, NEW f \in Files, Happen(f)
  PROVE  JournalInv'
<1>1. /\ queue' = Append(queue, File(f)) /\ log' = log /\ done' = done \cup {File(f)}
      /\ UNCHANGED <<stream, asking, starting, sink, answer, before>>
  BY DEF Happen
<1>2. File(f) \in Changing /\ File(f) \in FilePaths /\ \A q \in Replays : File(f) # Marker(q)
  BY MarkerNames DEF Changing, FilePaths
<1>3. JournalTypeOK
  BY DEF JournalInv
<1>4. /\ queue' \in Seq(Changing) /\ Queued(File(f), Len(queue))'
      /\ \A p : Queued(p, Len(queue)) => Queued(p, Len(queue))'
  BY <1>1, <1>2, <1>3, StillQueued
<1>5. JournalTypeOK'
  BY <1>1, <1>2, <1>3, <1>4 DEF JournalTypeOK
<1>6. OnItsWay'
  <2> SUFFICES ASSUME NEW p \in done' PROVE Told(p, Len(log))' \/ Queued(p, Len(queue))'
    BY DEF OnItsWay
  <2>1. CASE p = File(f)
    BY <1>4, <2>1
  <2>2. CASE p \in done
    <3>1. Told(p, Len(log)) \/ Queued(p, Len(queue))
      BY <2>2 DEF JournalInv, OnItsWay
    <3>2. Told(p, Len(log)) => Told(p, Len(log))'
      BY <1>1 DEF Told
    <3>3. QED
      BY <1>4, <3>1, <3>2
  <2>3. QED
    BY <1>1, <2>1, <2>2
<1>7. ASSUME NEW q \in Replays PROVE EachIs(q)'
  <2>1. SameReplay(q)
    BY <1>1 DEF SameReplay
  <2>2. QED
    BY <1>1, <1>2, <2>1, BehindOthers
<1>8. QED
  BY <1>5, <1>6, <1>7 DEF JournalInv, EachReplay, EachIs

\* The marker goes behind every change made so far.
LEMMA WriteMarkerJournal ==
  ASSUME JournalInv, StartInv, NEW r \in Replays, WriteMarker(r)
  PROVE  JournalInv'
<1>1. /\ queue' = Append(queue, Marker(r)) /\ log' = log /\ done' = done
      /\ before' = [before EXCEPT ![r] = done] /\ asking' = [asking EXCEPT ![r] = "Queued"]
      /\ asking[r] = "Idle"
      /\ UNCHANGED <<stream, starting, sink, answer>>
  BY DEF WriteMarker, Become
<1>2. Marker(r) \in Changing
  BY DEF Changing
<1>3. JournalTypeOK
  BY DEF JournalInv
<1>4. /\ queue' \in Seq(Changing) /\ Len(queue') = Len(queue) + 1 /\ Len(queue) \in Nat
      /\ queue'[Len(queue) + 1] = Marker(r)
      /\ \A j \in 1..Len(queue) : queue'[j] = queue[j]
      /\ \A p : \A n \in 0..Len(queue) : Queued(p, n) => Queued(p, n)'
      /\ \A p : Queued(p, Len(queue)) => Queued(p, Len(queue))'
  BY <1>1, <1>2, <1>3, StillQueued
<1>5. before'[r] = done /\ asking'[r] = "Queued" /\ JournalTypeOK'
  <2>1. done \in SUBSET FilePaths
    BY <1>3 DEF JournalTypeOK
  <2>2. before' \in [Replays -> SUBSET FilePaths] /\ before'[r] = done
    BY <1>1, <1>3, <2>1 DEF JournalTypeOK
  <2>3. asking'[r] = "Queued"
    BY <1>1 DEF StartInv, StartTypeOK
  <2>4. QED
    BY <1>1, <1>3, <1>4, <2>2, <2>3 DEF JournalTypeOK
<1>6. OnItsWay'
  <2> SUFFICES ASSUME NEW p \in done PROVE Told(p, Len(log))' \/ Queued(p, Len(queue))'
    BY <1>1 DEF OnItsWay
  <2>1. Told(p, Len(log)) => Told(p, Len(log))'
    BY <1>1 DEF Told
  <2>2. QED
    BY <1>4, <2>1 DEF JournalInv, OnItsWay
<1>7. ASSUME NEW q \in Replays, q # r PROVE EachIs(q)'
  <2>1. SameReplay(q)
    BY <1>1, <1>3, <1>7 DEF SameReplay, JournalTypeOK, StartInv, StartTypeOK
  <2>2. Marker(r) # Marker(q)
    BY <1>7, MarkerNames
  <2>3. QED
    BY <1>1, <1>2, <2>1, <2>2, BehindOthers
<1>8. EachIs(r)'
  <2>a. EachIs(r)
    BY DEF JournalInv, EachReplay, EachIs
  <2>b. /\ \A k \in 1..Len(queue) : queue[k] # Marker(r)
        /\ \A i \in 1..Len(log) : log[i] # InFull(Marker(r))
    BY <1>1, <2>a DEF EachIs, Unmarked
  <2>1. MarkerAfter(r)'
    <3> SUFFICES ASSUME NEW p \in done
        PROVE /\ \A k \in 1..Len(queue') : queue'[k] = Marker(r) => Told(p, Len(log))' \/ Queued(p, k - 1)'
              /\ \A i \in 1..Len(log') : log'[i] = InFull(Marker(r)) => Told(p, i - 1)'
      BY <1>5 DEF MarkerAfter
    <3>1. ASSUME NEW k \in 1..Len(queue'), queue'[k] = Marker(r) PROVE Told(p, Len(log))' \/ Queued(p, k - 1)'
      <4>1. k - 1 = Len(queue) /\ Len(queue) \in 0..Len(queue)
        BY <1>4, <2>b, <3>1
      <4>2. Told(p, Len(log)) \/ Queued(p, Len(queue))
        BY DEF JournalInv, OnItsWay
      <4>3. CASE Told(p, Len(log))
        BY <1>1, <4>3 DEF Told
      <4>4. CASE Queued(p, Len(queue))
        <5>1. Queued(p, k - 1)
          BY <4>1, <4>4
        <5>2. k - 1 \in 0..Len(queue)
          BY <4>1
        <5>3. QED
          BY <1>4, <5>1, <5>2
      <4>5. QED
        BY <4>2, <4>3, <4>4
    <3>2. QED
      BY <1>1, <2>b, <3>1
  <2>2. Unmarked(r)'
    BY <1>5 DEF Unmarked
  <2>3. Listening(r)'
    BY <1>1, <1>5, <2>a DEF EachIs, Listening, Listens, Heard, Has
  <2>4. Answering(r)'
    BY <1>1, <1>5, <2>a DEF EachIs, Answering
  <2>5. QED
    BY <2>1, <2>2, <2>3, <2>4 DEF EachIs
<1>9. QED
  BY <1>5, <1>6, <1>7, <1>8 DEF JournalInv, EachReplay, EachIs

\* One more record in the sink: what was heard still is, and so is the record.
LEMMA CallHears ==
  ASSUME JournalInv, NEW r \in Replays, NEW rec \in Numbered, log' = log,
         sink' = [sink EXCEPT ![r] = Recorded(r, sink[r], rec)],
         NEW n \in Nat, Heard(r, n), NEW m \in Nat, n <= m, m <= Len(log),
         \A i \in 1..m : i \in 1..n \/ log[i] = rec,
         \E i \in 1..m : log[i] = rec
  PROVE  Heard(r, m)' /\ sink'[r] \in SinkState /\ (sink[r].synced => sink'[r].synced)
<1> DEFINE s == sink[r]  t == Recorded(r, s, rec)
<1>1. sink'[r] = t /\ s \in SinkState
  BY DEF JournalInv, JournalTypeOK
<1>2. /\ t \in SinkState /\ t.synced = (s.synced \/ rec.path = Marker(r))
      /\ s.overflowed => t.overflowed
      /\ \/ t.overflowed
         \/ s.events \subseteq t.events /\ (OfTheRoot(r, rec.path) => Change(rec) \in t.events)
  BY <1>1, RecordedKeeps
<1> HIDE DEF t
<1>3. ASSUME NEW i \in 1..m, Watches(r, log[i].path) PROVE Has(r, log[i])'
  <2>1. CASE t.overflowed
    BY <1>1, <2>1 DEF Has
  <2>2. CASE ~t.overflowed /\ log[i] = rec
    BY <1>1, <1>2, <2>2 DEF Has
  <2>3. CASE ~t.overflowed /\ i \in 1..n
    <3>1. Has(r, log[i])
      BY <1>3, <2>3 DEF Heard
    <3>2. OfTheRoot(r, log[i].path) => Change(log[i]) \in s.events
      BY <1>2, <2>3, <3>1 DEF Has
    <3>3. QED
      BY <1>1, <1>2, <2>3, <3>2 DEF Has
  <2>4. QED
    BY <2>1, <2>2, <2>3
<1>4. t.synced => \E i \in 1..m : log[i] = InFull(Marker(r))
  <2>1. CASE s.synced
    <3>1. \E i \in 1..n : log[i] = InFull(Marker(r))
      BY <2>1 DEF Heard
    <3>2. QED
      BY <3>1
  <2>2. CASE rec.path = Marker(r)
    BY <2>2, NumberedSay
  <2>3. QED
    BY <1>2, <2>1, <2>2
<1>5. Heard(r, m)'
  BY <1>1, <1>3, <1>4 DEF Heard
<1>6. QED
  BY <1>1, <1>2, <1>5

\* The end of the history says nothing of what changed.
LEMMA HistoryEndHears ==
  ASSUME JournalInv, NEW r \in Replays, log' = log,
         sink' = [sink EXCEPT ![r] = Recorded(r, sink[r], HistoryDone)],
         NEW n \in Nat, Heard(r, n)
  PROVE  Heard(r, n)' /\ sink'[r] \in SinkState /\ (sink[r].synced => sink'[r].synced)
<1> DEFINE s == sink[r]
<1>1. s \in SinkState /\ sink'[r] = [s EXCEPT !.historyDone = TRUE]
  BY DEF JournalInv, JournalTypeOK, Recorded
<1>2. s = [events |-> s.events, historyDone |-> s.historyDone, synced |-> s.synced,
           barrierLost |-> s.barrierLost, overflowed |-> s.overflowed]
  BY <1>1 DEF SinkState
<1> DEFINE ended == TRUE  t == [s EXCEPT !.historyDone = ended]
<1> HIDE DEF ended
<1>3. t = [events |-> s.events, historyDone |-> ended, synced |-> s.synced,
           barrierLost |-> s.barrierLost, overflowed |-> s.overflowed]
  BY <1>2
<1>4. t \in SinkState
  <2>1. /\ s.events \in SUBSET Claims /\ s.synced \in BOOLEAN /\ s.barrierLost \in BOOLEAN
        /\ s.overflowed \in BOOLEAN /\ ended \in BOOLEAN
    BY <1>1 DEF SinkState, ended
  <2> HIDE DEF t
  <2>2. QED
    BY <1>3, <2>1 DEF SinkState
<1>5. t.events = s.events /\ t.synced = s.synced /\ t.overflowed = s.overflowed
  BY <1>3
<1> HIDE DEF t
<1>6. sink'[r] = t
  BY <1>1 DEF t, ended
<1>7. Heard(r, n)'
  BY <1>5, <1>6 DEF Heard, Has
<1>8. QED
  BY <1>4, <1>5, <1>6, <1>7

\* A record is handed to the callback, for the first time or again.
LEMMA DeliverJournal ==
  ASSUME JournalInv, NEW r \in Replays, Deliver(r) \/ DeliverAgain(r)
  PROVE  JournalInv'
<1>1. JournalTypeOK /\ EachIs(r)
  BY DEF JournalInv, EachReplay, EachIs
<1>2. UNCHANGED <<queue, log, done, before, asking, starting, answer>>
  BY DEF Deliver, DeliverAgain, Call, outside, history
<1>3. stream[r].at = "Live" /\ Listens(r)
  BY DEF Deliver, DeliverAgain, Heeded, Listens
<1>4. PICK n \in Nat : n = stream[r].sent
  BY <1>1 DEF JournalTypeOK, StreamState
<1>5. Heard(r, n) /\ stream[r] \in StreamState /\ starting[r] # "Failed" /\ Len(log) \in Nat
  BY <1>1, <1>3, <1>4, LenProperties DEF EachIs, Listening, JournalTypeOK
<1>6. \A i \in 1..Len(log) : log[i] \in Numbered
  BY <1>1, ElementOfSeq DEF JournalTypeOK
<1>7. /\ DOMAIN stream' = Replays /\ DOMAIN sink' = Replays
      /\ \A q \in Replays : q # r => sink'[q] = sink[q] /\ stream'[q] = stream[q]
  BY <1>1 DEF Deliver, DeliverAgain, Call, JournalTypeOK
<1>8. /\ stream'[r] \in StreamState /\ stream'[r].at = "Live"
      /\ Heard(r, stream[r].sent)' /\ sink'[r] \in SinkState
      /\ sink[r].synced => sink'[r].synced
  <2>1. CASE Deliver(r) /\ stream[r].sent = stream[r].from /\ ~stream[r].done
    <3>1. /\ stream' = [stream EXCEPT ![r].done = TRUE]
          /\ sink' = [sink EXCEPT ![r] = Recorded(r, sink[r], HistoryDone)]
      BY <2>1 DEF Deliver, Call
    <3>2. stream'[r] \in StreamState /\ stream'[r].at = "Live" /\ stream'[r].sent = n
      BY <1>1, <1>3, <1>4, <1>5, <3>1 DEF StreamState, JournalTypeOK
    <3>3. Heard(r, n)' /\ sink'[r] \in SinkState /\ (sink[r].synced => sink'[r].synced)
      BY <1>2, <1>5, <3>1, HistoryEndHears
    <3>4. QED
      BY <3>2, <3>3
  <2>2. CASE Deliver(r) /\ ~(stream[r].sent = stream[r].from /\ ~stream[r].done)
    <3>1. /\ n < Len(log) /\ stream' = [stream EXCEPT ![r].sent = n + 1]
          /\ IF Watches(r, log[n + 1].path)
             THEN sink' = [sink EXCEPT ![r] = Recorded(r, sink[r], log[n + 1])]
             ELSE sink' = sink
      BY <1>4, <2>2 DEF Deliver, Call
    <3>2. stream'[r] \in StreamState /\ stream'[r].at = "Live" /\ stream'[r].sent = n + 1
      <4> DEFINE u == stream[r]  m == n + 1
      <4>1. u = [at |-> u.at, from |-> u.from, sent |-> u.sent, done |-> u.done]
        BY <1>5 DEF StreamState
      <4>2. u.from \in Nat /\ u.done \in BOOLEAN /\ u.at = "Live" /\ m \in Nat
        BY <1>3, <1>5 DEF StreamState
      <4>3. stream'[r] = [u EXCEPT !.sent = m]
        BY <1>1, <3>1 DEF JournalTypeOK
      <4> HIDE DEF u, m
      <4>4. stream'[r] = [at |-> u.at, from |-> u.from, sent |-> m, done |-> u.done]
        BY <4>1, <4>3
      <4>5. stream'[r] \in StreamState
        BY <4>2, <4>4 DEF StreamState
      <4>6. QED
        BY <4>2, <4>4, <4>5 DEF m
    <3>3. Heard(r, n + 1)' /\ sink'[r] \in SinkState /\ (sink[r].synced => sink'[r].synced)
      <4>1. n + 1 \in 1..Len(log) /\ n + 1 \in Nat /\ \A i \in 1..(n + 1) : i \in 1..n \/ i = n + 1
        BY <1>5, <3>1
      <4>2. CASE Watches(r, log[n + 1].path)
        <5> DEFINE rec == log[n + 1]  m == n + 1
        <5>1. rec \in Numbered /\ sink' = [sink EXCEPT ![r] = Recorded(r, sink[r], rec)]
          BY <1>6, <3>1, <4>1, <4>2
        <5>2. /\ m \in Nat /\ n <= m /\ m <= Len(log)
              /\ \A i \in 1..m : i \in 1..n \/ log[i] = rec
              /\ \E i \in 1..m : log[i] = rec
          BY <3>1, <4>1
        <5> HIDE DEF rec, m
        <5>3. Heard(r, m)' /\ sink'[r] \in SinkState /\ (sink[r].synced => sink'[r].synced)
          BY <1>2, <1>5, <5>1, <5>2, CallHears
        <5>4. QED
          BY <5>3 DEF m
      <4>3. CASE ~Watches(r, log[n + 1].path)
        <5>1. sink' = sink /\ sink[r] \in SinkState
          BY <1>1, <3>1, <4>3 DEF JournalTypeOK
        <5>2. Heard(r, n + 1)
          BY <1>5, <3>1, <4>1, <4>3 DEF Heard
        <5>3. QED
          BY <1>2, <5>1, <5>2 DEF Heard, Has
      <4>4. QED
        BY <4>2, <4>3
    <3>4. QED
      BY <3>2, <3>3
  <2>3. CASE DeliverAgain(r)
    <3>1. n > 0 /\ stream' = stream /\ sink' = [sink EXCEPT ![r] = Recorded(r, sink[r], log[n])]
      BY <1>4, <2>3 DEF DeliverAgain, Call
    <3>2. n \in 1..Len(log) /\ n <= Len(log)
      BY <1>5, <3>1 DEF Heard
    <3>3. Heard(r, n)' /\ sink'[r] \in SinkState /\ (sink[r].synced => sink'[r].synced)
      <4> DEFINE rec == log[n]
      <4>1. /\ rec \in Numbered /\ sink' = [sink EXCEPT ![r] = Recorded(r, sink[r], rec)]
            /\ n <= n /\ n <= Len(log)
            /\ \A i \in 1..n : i \in 1..n \/ log[i] = rec
            /\ \E i \in 1..n : log[i] = rec
        BY <1>6, <3>1, <3>2
      <4> HIDE DEF rec
      <4>2. QED
        BY <1>2, <1>5, <4>1, CallHears
    <3>4. QED
      BY <1>3, <1>4, <1>5, <3>1, <3>3
  <2>4. QED
    BY <2>1, <2>2, <2>3
<1>9. JournalTypeOK'
  <2>1. sink' \in [Replays -> SinkState] /\ stream' \in [Replays -> StreamState]
    <3>1. /\ sink' = [q \in Replays |-> sink'[q]] /\ stream' = [q \in Replays |-> stream'[q]]
      <4>1. sink' = [sink EXCEPT ![r] = sink'[r]]
        BY <1>1 DEF Deliver, DeliverAgain, Call, JournalTypeOK
      <4>2. stream' = [stream EXCEPT ![r] = stream'[r]]
        BY <1>1 DEF Deliver, DeliverAgain, Call, JournalTypeOK
      <4>3. QED
        BY <1>1, <4>1, <4>2 DEF JournalTypeOK
    <3>2. \A q \in Replays : sink'[q] \in SinkState /\ stream'[q] \in StreamState
      BY <1>1, <1>7, <1>8 DEF JournalTypeOK
    <3>3. QED
      BY <3>1, <3>2
  <2>2. QED
    BY <1>1, <1>2, <2>1 DEF JournalTypeOK
<1>10. Listening(r)' /\ Answering(r)'
  <2>1. Listening(r)'
    BY <1>2, <1>5, <1>8 DEF Listening
  <2>2. Answering(r)'
    BY <1>1, <1>2, <1>8 DEF EachIs, Answering
  <2>3. QED
    BY <2>1, <2>2
<1>11. \A q \in Replays : q # r => SameReplay(q)
  BY <1>2, <1>7 DEF SameReplay
<1>12. QED
  BY <1>2, <1>9, <1>10, <1>11, JournalKept

\* The thread that asks goes on with what it has heard.
LEMMA AskingJournal ==
  ASSUME JournalInv, StartInv, NEW r \in Replays, Started(r) \/ Abandon(r) \/ Wait(r)
  PROVE  JournalInv'
<1>1. JournalTypeOK /\ EachIs(r) /\ DOMAIN asking = Replays /\ DOMAIN starting = Replays
  BY DEF JournalInv, EachReplay, EachIs, StartInv, StartTypeOK
<1>2. PICK a \in {"Waiting", "TooMany", "Answered", "Lost", "Cancelled", "Deadline"} :
        asking' = [asking EXCEPT ![r] = a]
  BY DEF Started, Abandon, Wait, Become, TimeIsUp
<1>3. /\ UNCHANGED <<queue, log, done, before, sink, stream, answer>>
      /\ \A q \in Replays : q # r => starting'[q] = starting[q]
      /\ starting'[r] = starting[r] \/ starting'[r] = "Abandoned"
      /\ asking[r] \in {"Starting", "Waiting"}
  BY <1>1 DEF Started, Abandon, Wait, outside, history
<1>4. asking'[r] = a /\ \A q \in Replays : q # r => asking'[q] = asking[q]
  BY <1>1, <1>2
<1>5. JournalTypeOK'
  BY <1>1, <1>3 DEF JournalTypeOK
<1>6. Listening(r)'
  BY <1>1, <1>3 DEF EachIs, Listening, Listens, Heard, Has
<1>7. a = "Answered" => sink[r].synced
  <2>1. CASE Wait(r)
    <3>1. \/ Answered(r)
          \/ asking' = [asking EXCEPT ![r] = "TooMany"]
          \/ asking' = [asking EXCEPT ![r] = "Lost"]
          \/ \E why \in {"Deadline", "Cancelled"} : asking' = [asking EXCEPT ![r] = why]
      BY <2>1 DEF Wait, Become, TimeIsUp
    <3>2. Answered(r) \/ asking'[r] \in {"TooMany", "Lost", "Deadline", "Cancelled"}
      BY <1>1, <3>1
    <3>3. Answered(r) => sink[r].synced
      BY DEF Answered
    <3>4. QED
      BY <1>4, <3>2, <3>3
  <2>2. CASE Started(r) \/ Abandon(r)
    <3>1. asking'[r] # "Answered"
      BY <1>1, <2>2 DEF Started, Abandon, Become, TimeIsUp
    <3>2. QED
      BY <1>4, <3>1
  <2>3. QED
    BY <2>1, <2>2
<1>8. Answering(r)'
  BY <1>1, <1>3, <1>4, <1>7 DEF EachIs, Answering
<1>9. \A q \in Replays : q # r => SameReplay(q)
  BY <1>3, <1>4 DEF SameReplay
<1>10. QED
  BY <1>3, <1>4, <1>5, <1>6, <1>8, <1>9, JournalKept

\* Whatever is returned, the replay hears no more.
LEMMA ReturnJournal ==
  ASSUME JournalInv, StartInv, NEW r \in Replays, NEW what, Return(r, what),
         UNCHANGED stream \/ Close(r), UNCHANGED starting
  PROVE  JournalInv'
<1>1. JournalTypeOK /\ DOMAIN asking = Replays
  BY DEF JournalInv, StartInv, StartTypeOK
<1>2. /\ UNCHANGED <<queue, log, done, before, starting>>
      /\ asking' = [asking EXCEPT ![r] = "Ended"] /\ answer' = [answer EXCEPT ![r] = what]
      /\ sink' = [sink EXCEPT ![r] = Empty]
  BY DEF Return, Become, outside, history
<1>3. stream' \in [Replays -> StreamState] /\ \A q \in Replays : q # r => stream'[q] = stream[q]
  <2>1. Closed \in StreamState
    BY DEF Closed, StreamState
  <2>2. CASE UNCHANGED stream
    BY <1>1, <2>2 DEF JournalTypeOK
  <2>3. CASE Close(r)
    BY <1>1, <2>1, <2>3 DEF Close, JournalTypeOK
  <2>4. QED
    BY <2>2, <2>3
<1>4. Empty \in SinkState
  BY DEF Empty, SinkState
<1>5. JournalTypeOK'
  BY <1>1, <1>2, <1>3, <1>4 DEF JournalTypeOK
<1>6. asking'[r] = "Ended" /\ \A q \in Replays : q # r => SameReplay(q)
  BY <1>1, <1>2, <1>3 DEF SameReplay, JournalTypeOK
<1>7. Listening(r)' /\ Answering(r)'
  BY <1>6 DEF Listening, Listens, Answering
<1>8. QED
  BY <1>2, <1>5, <1>6, <1>7, JournalKept

\* Every way a replay can end.
LEMMA EndingJournal ==
  ASSUME JournalInv, StartInv, NEW r \in Replays,
         \/ NoBarrier(r) \/ GiveUpTurn(r) \/ Refuse(r) \/ CannotStart(r)
         \/ NotStarted(r) \/ GiveUp(r) \/ Take(r)
  PROVE  JournalInv'
<1>1. PICK what : Return(r, what)
  BY DEF NoBarrier, GiveUpTurn, Refuse, CannotStart, NotStarted, GiveUp, Take
<1>2. (UNCHANGED stream \/ Close(r)) /\ UNCHANGED starting
  BY DEF NoBarrier, GiveUpTurn, Refuse, CannotStart, NotStarted, GiveUp, Take, LetGo
<1>3. QED
  BY <1>1, <1>2, ReturnJournal

\* A stream is made, started, handed over and closed with nothing heard.
LEMMA StreamJournal ==
  ASSUME JournalInv, StartInv, NEW r \in Replays,
         Start(r) \/ StartReturns(r) \/ HandOver(r) \/ CloseHere(r) \/ Clear(r)
  PROVE  JournalInv'
<1>1. JournalTypeOK /\ EachIs(r) /\ Phase(r) /\ Hands(r)
  BY DEF JournalInv, EachReplay, EachIs, StartInv, InHand
<1>2. DOMAIN asking = Replays /\ DOMAIN starting = Replays /\ starting[r] \in StartStates
  BY DEF StartInv, StartTypeOK
<1>3. UNCHANGED <<queue, log, done, before, sink, answer>>
  BY DEF Start, StartReturns, HandOver, CloseHere, Clear, outside, history
<1>4. stream[r] \in StreamState /\ Len(log) \in Nat
  BY <1>1, LenProperties DEF JournalTypeOK
<1>5. ASSUME stream' \in [Replays -> StreamState],
             \A q \in Replays : q # r => SameReplay(q),
             asking'[r] = "Idle" => asking[r] = "Idle",
             asking[r] = "Ended" \/ asking'[r] # "Ended",
             asking'[r] = "Answered" => asking[r] = "Answered",
             asking[r] # "Ended" \/ asking'[r] = "Ended",
             Listening(r)'
      PROVE  JournalInv'
  <2>1. JournalTypeOK'
    BY <1>1, <1>3, <1>5 DEF JournalTypeOK
  <2>2. Answering(r)'
    BY <1>1, <1>3, <1>5 DEF EachIs, Answering
  <2>3. QED
    BY <1>3, <1>5, <2>1, <2>2, JournalKept
<1>6. \A n \in Nat : Heard(r, n) => Heard(r, n)'
  BY <1>3 DEF Heard, Has
<1>7. CASE Start(r)
  <2>1. /\ asking[r] = "Queued" /\ asking' = [asking EXCEPT ![r] = "Starting"]
        /\ stream' = [stream EXCEPT ![r].at = "Created"]
        /\ starting' = [starting EXCEPT ![r] = "Running"]
    BY <1>7 DEF Start, Become
  <2>2. stream[r] = Closed
    BY <1>1, <2>1 DEF Phase, Hands
  <2>3. /\ stream'[r] = [Closed EXCEPT !.at = "Created"]
        /\ stream' = [stream EXCEPT ![r] = [Closed EXCEPT !.at = "Created"]]
    BY <1>1, <2>1, <2>2 DEF JournalTypeOK
  <2> DEFINE no == FALSE
  <2>a. Closed = [at |-> "Closed", from |-> 0, sent |-> 0, done |-> no] /\ no \in BOOLEAN
    BY DEF Closed
  <2> HIDE DEF no
  <2>4. [Closed EXCEPT !.at = "Created"] = [at |-> "Created", from |-> 0, sent |-> 0, done |-> no]
    BY <2>a
  <2>5. stream'[r].at = "Created" /\ stream'[r].sent = 0
    BY <2>3, <2>4
  <2>6. [Closed EXCEPT !.at = "Created"] \in StreamState
    BY <2>a, <2>4 DEF StreamState
  <2>7. stream' \in [Replays -> StreamState] /\ \A q \in Replays : q # r => SameReplay(q)
    BY <1>1, <1>2, <1>3, <2>1, <2>3, <2>6 DEF JournalTypeOK, SameReplay
  <2>8. Heard(r, 0)
    BY <1>1, <2>1, <2>2 DEF EachIs, Listening, Listens, Closed
  <2>9. Heard(r, 0)'
    BY <1>6, <2>8
  <2>10. asking'[r] = "Starting" /\ starting'[r] = "Running"
    BY <1>2, <2>1
  <2>11. Listening(r)'
    BY <2>5, <2>9, <2>10 DEF Listening
  <2>12. QED
    BY <1>5, <2>1, <2>7, <2>10, <2>11
<1>8. CASE StartReturns(r)
  <2>1. /\ starter[r] = "Calling" /\ UNCHANGED <<asking, starting>>
        /\ \/ stream' = [stream EXCEPT ![r].at = "Live", ![r].from = Len(log)]
           \/ stream' = stream
    BY <1>8 DEF StartReturns
  <2>2. starting[r] # "Failed"
    BY <1>1, <2>1 DEF Hands
  <2>3. /\ stream' \in [Replays -> StreamState]
        /\ \A q \in Replays : q # r => stream'[q] = stream[q]
        /\ stream'[r].sent = stream[r].sent
        /\ stream'[r].at # "Live" => stream[r].at # "Live"
    <3>1. CASE stream' = stream
      BY <1>1, <3>1 DEF JournalTypeOK
    <3>2. CASE stream' = [stream EXCEPT ![r].at = "Live", ![r].from = Len(log)]
      <4> DEFINE u == stream[r]  n == Len(log)
                 v == [u EXCEPT !.at = "Live", !.from = n]
                 w == [at |-> "Live", from |-> n, sent |-> u.sent, done |-> u.done]
      <4>1. u = [at |-> u.at, from |-> u.from, sent |-> u.sent, done |-> u.done]
        BY <1>4 DEF StreamState
      <4>2. stream' = [stream EXCEPT ![r] = v]
        BY <1>1, <3>2 DEF JournalTypeOK
      <4>3. u.sent \in Nat /\ u.done \in BOOLEAN /\ n \in Nat
        BY <1>4 DEF StreamState
      <4> HIDE DEF u, n
      <4>4. v = w
        <5> DEFINE x == [u EXCEPT !.at = "Live"]
        <5>1. x = [at |-> "Live", from |-> u.from, sent |-> u.sent, done |-> u.done]
          BY <4>1
        <5>2. v = [x EXCEPT !.from = n]
          BY <4>1
        <5> HIDE DEF x, v
        <5>3. [x EXCEPT !.from = n] = w
          BY <5>1
        <5>4. QED
          BY <5>2, <5>3
      <4>5. w \in StreamState
        BY <4>3 DEF StreamState
      <4> HIDE DEF v
      <4>6. stream'[r] = w /\ stream' \in [Replays -> StreamState]
            /\ \A q \in Replays : q # r => stream'[q] = stream[q]
        <5> HIDE DEF w
        <5>1. QED
          BY <1>1, <4>2, <4>4, <4>5 DEF JournalTypeOK
      <4>7. stream'[r].sent = u.sent /\ stream'[r].at = "Live"
        BY <4>6
      <4>8. QED
        BY <4>6, <4>7 DEF u
    <3>3. QED
      BY <2>1, <3>1, <3>2
  <2>4. \A q \in Replays : q # r => SameReplay(q)
    BY <1>3, <2>1, <2>3 DEF SameReplay
  <2>5. stream[r].sent \in Nat
    BY <1>4 DEF StreamState
  <2>6. Listening(r)'
    BY <1>1, <1>6, <2>1, <2>2, <2>3, <2>5 DEF EachIs, Listening, Listens
  <2>7. QED
    BY <1>5, <2>1, <2>3, <2>4, <2>6
<1>9. CASE HandOver(r)
  <2>1. /\ UNCHANGED <<asking, stream>>
        /\ \/ starting' = [starting EXCEPT ![r] = "Started"]
           \/ /\ stream[r].at # "Live"
              /\ starting' = [starting EXCEPT ![r] = "Failed"]
    <3>1. CASE stream[r].at = "Live"
      BY <1>9, <3>1 DEF HandOver
    <3>2. CASE stream[r].at # "Live"
      BY <1>9, <3>2 DEF HandOver
    <3>3. QED
      BY <3>1, <3>2
  <2>2. stream' \in [Replays -> StreamState] /\ \A q \in Replays : q # r => SameReplay(q)
    BY <1>1, <1>2, <1>3, <2>1 DEF JournalTypeOK, SameReplay
  <2>3. starting'[r] = "Failed" => stream[r].at # "Live"
    BY <1>2, <2>1
  <2>4. stream[r].sent \in Nat
    BY <1>4 DEF StreamState
  <2>5. Listening(r)'
    BY <1>1, <1>6, <2>1, <2>3, <2>4 DEF EachIs, Listening, Listens
  <2>6. QED
    BY <1>5, <2>1, <2>2, <2>5
<1>10. CASE CloseHere(r)
  <2>1. /\ stream' = [stream EXCEPT ![r] = Closed] /\ UNCHANGED <<asking, starting>>
        /\ starting[r] \in {"Abandoned", "Failed"}
    BY <1>1, <1>2, <1>10 DEF CloseHere, Close, Hands, StartStates
  <2>2. Closed \in StreamState /\ Closed.at = "Closed" /\ Closed.sent = 0
    BY DEF Closed, StreamState
  <2>3. stream' \in [Replays -> StreamState] /\ stream'[r] = Closed
    BY <1>1, <2>1, <2>2 DEF JournalTypeOK
  <2>4. \A q \in Replays : q # r => SameReplay(q)
    BY <1>1, <1>3, <2>1 DEF JournalTypeOK, SameReplay
  <2>5. Listening(r)'
    <3> SUFFICES ASSUME Listens(r) PROVE Heard(r, 0)'
      BY <2>1, <2>2, <2>3 DEF Listening, Listens
    <3>1. starting[r] = "Failed"
      BY <1>1, <2>1 DEF Listens, Phase
    <3>2. Heard(r, 0)
      BY <1>1, <3>1 DEF EachIs, Listening
    <3>3. QED
      BY <1>6, <3>2
  <2>6. QED
    BY <1>5, <2>1, <2>3, <2>4, <2>5
<1>11. CASE Clear(r)
  <2>1. UNCHANGED <<asking, starting, stream>>
    BY <1>11 DEF Clear
  <2>2. stream' \in [Replays -> StreamState] /\ (\A q \in Replays : q # r => SameReplay(q)) /\ Listening(r)'
    BY <1>1, <1>3, <2>1 DEF JournalTypeOK, SameReplay, EachIs, Listening, Listens, Heard, Has
  <2>3. QED
    BY <1>5, <2>1, <2>2
<1>12. QED
  BY <1>7, <1>8, <1>9, <1>10, <1>11

\* Nothing has changed, and nobody has heard a thing.
LEMMA JournalInvInit == Init => JournalInv
<1> SUFFICES ASSUME Init PROVE JournalInv
  OBVIOUS
<1>1. /\ queue = <<>> /\ log = <<>> /\ done = {}
      /\ \A r \in Replays : /\ before[r] = {} /\ asking[r] = "Idle" /\ starting[r] = "None"
                            /\ stream[r] = Closed /\ sink[r] = Empty /\ answer[r] = NoAnswer
  BY DEF Init
<1>2. Len(queue) = 0 /\ Len(log) = 0
  BY <1>1
<1>3. JournalTypeOK
  <2>1. Closed \in StreamState /\ Empty \in SinkState
    BY DEF Closed, StreamState, Empty, SinkState
  <2>2. queue \in Seq(Changing) /\ log \in Seq(Numbered)
    BY <1>1
  <2>3. QED
    BY <2>1, <2>2 DEF Init, JournalTypeOK
<1>4. OnItsWay
  BY <1>1 DEF OnItsWay
<1>5. ASSUME NEW r \in Replays PROVE EachIs(r)
  <2>1. Closed.sent = 0 /\ Empty.synced = FALSE
    BY DEF Closed, Empty
  <2>2. Heard(r, 0)
    BY <1>1, <1>2, <2>1 DEF Heard
  <2>3. Listening(r)
    BY <1>1, <2>1, <2>2 DEF Listening
  <2>4. QED
    BY <1>1, <1>2, <2>3 DEF EachIs, MarkerAfter, Unmarked, Answering
<1>6. QED
  BY <1>3, <1>4, <1>5 DEF JournalInv, EachReplay, EachIs

\* The invariant is inductive, given who holds which stream.
LEMMA JournalInvNext == JournalInv /\ StartInv /\ [Next]_vars => JournalInv'
<1> SUFFICES ASSUME JournalInv, StartInv, [Next]_vars PROVE JournalInv'
  OBVIOUS
<1>1. CASE UNCHANGED vars
  <2>1. UNCHANGED <<queue, log, done, before, sink, stream, answer, asking, starting>>
    BY <1>1 DEF vars, outside, history
  <2>2. JournalTypeOK'
    BY <2>1 DEF JournalInv, JournalTypeOK
  <2>3. OnItsWay'
    BY <2>1 DEF JournalInv, OnItsWay, Told, Queued
  <2>4. \A q \in Replays : EachIs(q) /\ SameReplay(q)
    BY <2>1 DEF JournalInv, EachReplay, EachIs, SameReplay
  <2>5. \A q \in Replays : EachIs(q)'
    BY <2>1, <2>4, OthersAsTheyWere
  <2>6. QED
    BY <2>2, <2>3, <2>5 DEF JournalInv, EachReplay, EachIs
<1>2. CASE Number
  BY <1>2, NumberJournal
<1>3. ASSUME NEW f \in Files, Happen(f) PROVE JournalInv'
  BY <1>3, HappenJournal
<1>4. ASSUME NEW r \in Replays, StartReturns(r) \/ Deliver(r) \/ DeliverAgain(r) PROVE JournalInv'
  BY <1>4, StreamJournal, DeliverJournal
<1>5. ASSUME NEW r \in Replays, Asking(r) PROVE JournalInv'
  BY <1>5, WriteMarkerJournal, AskingJournal, EndingJournal, StreamJournal DEF Asking
<1>6. ASSUME NEW r \in Replays, Starting(r) PROVE JournalInv'
  BY <1>6, StreamJournal DEF Starting
<1>7. QED
  BY <1>1, <1>2, <1>3, <1>4, <1>5, <1>6 DEF Next, Service

\* However the records come, repeated, late and with less than happened: the
\* sink of a replay that may yet answer holds what its stream delivered, the
\* marker only after everything that was there before it.
THEOREM JournalInvHolds == Spec => []JournalInv
<1>1. QED
  BY StartInvInit, StartInvNext, JournalInvInit, JournalInvNext, PTL DEF Spec

\* What was delivered up to the marker is enough of an answer.
LEMMA TakenIsEnough ==
  ASSUME JournalInv, NEW r \in Replays, asking[r] = "Answered", ~sink[r].overflowed
  PROVE  /\ sink[r].events \subseteq Claims
         /\ \A c \in before[r] : Concerns(r, c) => \E claim \in sink[r].events : Covers(claim, c)
<1>1. JournalTypeOK /\ EachIs(r)
  BY DEF JournalInv, EachReplay, EachIs
<1>2. PICK n \in Nat : n = stream[r].sent
  BY <1>1 DEF JournalTypeOK, StreamState
<1>3. Heard(r, n) /\ sink[r].synced /\ Len(log) \in Nat
  BY <1>1, <1>2, LenProperties DEF EachIs, Listening, Listens, Answering, JournalTypeOK
<1>4. PICK i \in 1..n : log[i] = InFull(Marker(r))
  BY <1>3 DEF Heard
<1>5. i \in 1..Len(log)
  BY <1>3, <1>4 DEF Heard
<1>6. ASSUME NEW c \in before[r], Concerns(r, c)
      PROVE  \E claim \in sink[r].events : Covers(claim, c)
  <2>1. PICK f \in Files : c = File(f)
    BY <1>1 DEF JournalTypeOK, FilePaths
  <2>2. Told(c, i - 1)
    BY <1>1, <1>4, <1>5 DEF EachIs, MarkerAfter
  <2>3. PICK j \in 1..(i - 1) : Tells(log[j], c)
    BY <2>2 DEF Told
  <2>4. j \in 1..n
    BY <1>4, <2>3
  <2>5. /\ Watches(r, log[j].path) /\ OfTheRoot(r, log[j].path)
        /\ Covers(Change(log[j]), c)
    BY <1>6, <2>1, <2>3, RecordReaches
  <2>6. Change(log[j]) \in sink[r].events
    BY <1>3, <2>4, <2>5 DEF Heard, Has
  <2>7. QED
    BY <2>5, <2>6
<1>7. sink[r].events \subseteq Claims
  BY <1>1 DEF JournalTypeOK, SinkState
<1>8. QED
  BY <1>6, <1>7

\* Before it returns a replay has answered nothing.
LEMMA NotYet ==
  ASSUME NEW r \in Replays, answer[r] = NoAnswer
  PROVE  Returned[r] = Journal!Nothing
<1>1. answer[r].past = FALSE /\ answer[r].said = "nothing" /\ answer[r].claims = {}
  BY DEF NoAnswer
<1>2. Returned[r] = [said |-> answer[r].said, claims |-> answer[r].claims]
  BY <1>1 DEF Returned
<1>3. QED
  BY <1>1, <1>2 DEF Journal!Nothing

\* A replay starts as the trait has it.
LEMMA InitJournal == Init => Journal!Init
<1> SUFFICES ASSUME Init PROVE Journal!Init
  OBVIOUS
<1>1. \A r \in Replays : answer[r] = NoAnswer
  BY DEF Init
<1>2. NoAnswer.past = FALSE /\ NoAnswer.said = "nothing" /\ NoAnswer.claims = {}
  BY DEF NoAnswer
<1>3. Returned = [r \in Replays |-> [said |-> "nothing", claims |-> {}]]
  BY <1>1, <1>2 DEF Returned
<1>4. QED
  BY <1>3 DEF Init, Journal!Init, Journal!Nothing

\* A replay returns: it refuses, or it answers with enough.
LEMMA ReturnAnswers ==
  ASSUME JournalInv, NEW r \in Replays, NEW what, Return(r, what), asking[r] # "Ended"
  PROVE  /\ UNCHANGED <<done, before>>
         /\ Returned[r] = Journal!Nothing
         /\ Returned' = [Returned EXCEPT ![r] =
              IF what.past THEN [said |-> "no answer", claims |-> {}]
              ELSE [said |-> what.said, claims |-> what.claims]]
<1>1. JournalTypeOK /\ EachIs(r)
  BY DEF JournalInv, EachReplay, EachIs
<1>2. answer' = [answer EXCEPT ![r] = what] /\ UNCHANGED <<done, before>> /\ DOMAIN answer = Replays
  BY <1>1 DEF Return, history, JournalTypeOK
<1>3. answer[r] = NoAnswer
  BY <1>1 DEF EachIs, Answering
<1>4. Returned[r] = Journal!Nothing
  BY <1>3, NotYet
<1> DEFINE Says(a) == IF a.past THEN [said |-> "no answer", claims |-> {}]
                      ELSE [said |-> a.said, claims |-> a.claims]
<1>5. Returned = [q \in Replays |-> Says(answer[q])] /\ Returned' = [q \in Replays |-> Says(answer'[q])]
  BY DEF Returned
<1> HIDE DEF Says
<1>6. Returned' = [Returned EXCEPT ![r] = Says(what)]
  BY <1>2, <1>5
<1>7. QED
  BY <1>2, <1>4, <1>6 DEF Says

\* Every step is one the trait allows, or none it can see.
LEMMA NextAnswers == JournalInv /\ [Next]_vars => [Journal!Next]_<<done, before, Returned>>
<1> SUFFICES ASSUME JournalInv, [Next]_vars PROVE Journal!Next \/ UNCHANGED <<done, before, Returned>>
  OBVIOUS
<1>1. ASSUME UNCHANGED <<done, before, answer>> PROVE UNCHANGED <<done, before, Returned>>
  BY <1>1 DEF Returned
<1>2. CASE UNCHANGED vars
  BY <1>1, <1>2 DEF vars, history
<1>3. CASE Number
  BY <1>1, <1>3 DEF Number, history
<1>4. ASSUME NEW f \in Files, Happen(f) PROVE Journal!Happen
  <2>1. done' = done \cup {File(f)} /\ UNCHANGED <<before, answer>>
    BY <1>4 DEF Happen
  <2>2. done \subseteq Paths /\ File(f) \in Paths
    BY DEF JournalInv, JournalTypeOK, FilePaths, Paths
  <2>3. QED
    BY <2>1, <2>2 DEF Journal!Happen, Journal!More, Returned
<1>5. ASSUME NEW r \in Replays, WriteMarker(r) PROVE Journal!SetBarrier(r)
  <2>1. before' = [before EXCEPT ![r] = done] /\ done' = done /\ answer' = answer /\ asking[r] = "Idle"
    BY <1>5 DEF WriteMarker
  <2>2. done \subseteq Paths
    BY DEF JournalInv, JournalTypeOK, FilePaths, Paths
  <2>3. answer[r] = NoAnswer
    BY <2>1 DEF JournalInv, EachReplay, Answering
  <2>4. Returned[r] = Journal!Nothing
    BY <2>3, NotYet
  <2>5. QED
    BY <2>1, <2>2, <2>4 DEF Journal!SetBarrier, Journal!More, Returned
<1>6. ASSUME NEW r \in Replays, Return(r, Refused), asking[r] # "Ended" PROVE Journal!Refuse(r)
  <2>1. Refused.past = FALSE /\ Refused.said = "no answer" /\ Refused.claims = {}
    BY DEF Refused
  <2>2. QED
    BY <1>6, <2>1, ReturnAnswers DEF Journal!Refuse, Journal!Refused
<1>7. ASSUME NEW r \in Replays, Take(r) PROVE Journal!Replay(r) \/ Journal!Refuse(r)
  <2> DEFINE events == sink[r].events  past == sink[r].overflowed
             what == [said |-> "changes", claims |-> events, past |-> past]
  <2>1. asking[r] = "Answered" /\ Return(r, what)
    BY <1>7 DEF Take
  <2>2. what.said = "changes" /\ what.claims = events /\ what.past = past
    OBVIOUS
  <2>3. /\ UNCHANGED <<done, before>>
        /\ Returned[r] = Journal!Nothing
        /\ Returned' = [Returned EXCEPT ![r] =
             IF past THEN [said |-> "no answer", claims |-> {}]
             ELSE [said |-> "changes", claims |-> events]]
    <3>1. asking[r] # "Ended"
      BY <2>1
    <3> HIDE DEF what, past, events
    <3>2. /\ UNCHANGED <<done, before>>
          /\ Returned[r] = Journal!Nothing
          /\ Returned' = [Returned EXCEPT ![r] =
               IF what.past THEN [said |-> "no answer", claims |-> {}]
               ELSE [said |-> what.said, claims |-> what.claims]]
      BY <2>1, <3>1, ReturnAnswers
    <3>3. QED
      BY <2>2, <3>2
  <2>4. CASE past
    BY <2>3, <2>4 DEF Journal!Refuse, Journal!Refused
  <2>5. CASE ~past
    <3>1. Returned' = [Returned EXCEPT ![r] = [said |-> "changes", claims |-> events]]
      BY <2>3, <2>5
    <3>2. Returned'[r] = [said |-> "changes", claims |-> events]
      BY <3>1 DEF Returned
    <3>3. Returned'[r].claims = events
      BY <3>2
    <3>4. events \subseteq Claims /\ \A c \in before[r] : Concerns(r, c) => \E claim \in events : Covers(claim, c)
      BY <2>1, <2>5, TakenIsEnough
    <3> HIDE DEF events
    <3>5. QED
      BY <2>3, <3>1, <3>3, <3>4 DEF Journal!Replay, Journal!Enough
  <2>6. QED
    BY <2>4, <2>5
<1>8. ASSUME NEW r \in Replays, Asking(r) PROVE Journal!Next \/ UNCHANGED <<done, before, Returned>>
  <2>1. CASE WriteMarker(r)
    BY <1>5, <2>1 DEF Journal!Next
  <2>2. CASE \/ NoBarrier(r) \/ GiveUpTurn(r) \/ Refuse(r) \/ CannotStart(r) \/ NotStarted(r) \/ GiveUp(r)
    <3>1. Return(r, Refused) /\ asking[r] # "Ended"
      BY <2>2 DEF NoBarrier, GiveUpTurn, Refuse, CannotStart, NotStarted, GiveUp
    <3>2. QED
      BY <1>6, <3>1 DEF Journal!Next
  <2>3. CASE Take(r)
    BY <1>7, <2>3 DEF Journal!Next
  <2>4. CASE Start(r) \/ Started(r) \/ Abandon(r) \/ Wait(r)
    BY <1>1, <2>4 DEF Start, Started, Abandon, Wait, history
  <2>5. QED
    BY <1>8, <2>1, <2>2, <2>3, <2>4 DEF Asking
<1>9. ASSUME NEW r \in Replays, StartReturns(r) \/ Deliver(r) \/ DeliverAgain(r) \/ Starting(r)
      PROVE  UNCHANGED <<done, before, Returned>>
  <2>1. UNCHANGED <<done, before, answer>>
    BY <1>9 DEF StartReturns, Deliver, DeliverAgain, Call, Starting, HandOver, CloseHere, Clear, history
  <2>2. QED
    BY <1>1, <2>1
<1>10. QED
  BY <1>2, <1>1, <1>3, <1>4, <1>8, <1>9 DEF Next, Service, Journal!Next

\* FSEvents as it is used here is the journal a rescan is promised.
THEOREM AnswersHold == Spec => AnswersToTheMarker
<1>1. QED
  BY InitJournal, NextAnswers, JournalInvHolds, PTL DEF Spec, AnswersToTheMarker, Journal!Spec
=============================================================================
