--------------------------- MODULE JournalReplay ---------------------------
(***************************************************************************)
(* What an incremental rescan is promised by any journal (the trait        *)
(* Journal, crates/scan-core/src/journal.rs): a replay's answer holds       *)
(* every change finished before its barrier was set, or there is none.     *)
(***************************************************************************)
EXTENDS FiniteSets

CONSTANTS
  Replays,          \* replays of roots, each asked once
  Changes,          \* what may change
  Concerns(_, _),   \* a change is under the root of a replay
  Claims,           \* what an answer may say of a change
  Covers(_, _)      \* a claim makes a rescan read a change again

VARIABLES
  done,     \* the changes made
  barrier,  \* for each replay, the changes made when its barrier was set
  answer    \* what each replay has answered

Nothing == [said |-> "nothing", claims |-> {}]
Refused == [said |-> "no answer", claims |-> {}]

Init ==
  /\ done = {}
  /\ barrier = [r \in Replays |-> {}]
  /\ answer = [r \in Replays |-> Nothing]

More(new) == new \subseteq Changes /\ done \subseteq new

Happen ==
  /\ More(done')
  /\ UNCHANGED <<barrier, answer>>

SetBarrier(r) ==
  /\ answer[r] = Nothing
  /\ More(done')
  /\ barrier' = [barrier EXCEPT ![r] = done']
  /\ UNCHANGED answer

\* An answer may say more than was asked, never less.
Enough(r, claims) ==
  \A c \in barrier[r] : Concerns(r, c) => \E claim \in claims : Covers(claim, c)

Replay(r) ==
  /\ answer[r] = Nothing
  /\ answer' = [answer EXCEPT ![r] = [said |-> "changes", claims |-> answer'[r].claims]]
  /\ answer'[r].claims \subseteq Claims
  /\ Enough(r, answer'[r].claims)
  /\ UNCHANGED <<done, barrier>>

Refuse(r) ==
  /\ answer[r] = Nothing
  /\ answer' = [answer EXCEPT ![r] = Refused]
  /\ UNCHANGED <<done, barrier>>

Next == Happen \/ \E r \in Replays : SetBarrier(r) \/ Replay(r) \/ Refuse(r)

Spec == Init /\ [][Next]_<<done, barrier, answer>>
=============================================================================
