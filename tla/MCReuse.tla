------------------------------- MODULE MCReuse -------------------------------
(***************************************************************************)
(* What was read before and is used again: the base of a rescan, and the   *)
(* hashes kept between searches for duplicates.  They share no state, so a *)
(* behaviour is of the one or of the other.                                *)
(*                                                                         *)
(* Of the rescan's disk: a directory 1 and a file 5 in the root 0, a file  *)
(* 3 and a directory 2 in 1, a file 4 in 2.                                *)
(***************************************************************************)
EXTENDS IncrementalRescan, Duplicates

VARIABLE side

MCParent == [n \in 1..5 |-> CASE n \in {1, 5} -> 0
                              [] n \in {2, 3} -> 1
                              [] n = 4 -> 2]

Holding(f3, f4, f5) ==
  [n \in 1..5 |-> CASE n = 1 -> 11 [] n = 2 -> 12 [] n = 3 -> f3 [] n = 4 -> f4 [] n = 5 -> f5]

\* Plain files; a file with a name outside the root, and a volume mounted.
MCDisks == {[own |-> Holding(21, 22, Absent), outside |-> {}, mounted |-> {}],
            [own |-> Holding(Absent, 22, Absent), outside |-> {22}, mounted |-> MountPoints]}

\* Contents 10, 11 and 12 are of one size and tell apart by the prefix or by
\* the whole; 20 is of another.
SizeOf(c) == c \div 10
PrefixOf(c) == IF c = 12 THEN 2 ELSE 1

\* Nothing is said of what follows a change that the key cannot show.
StillTelling == ~racy

\* Which inode is whose does not matter, nor which of them holds what: the
\* first is the first name's, and contents are in order.
Settled ==
  /\ \A n \in Labels : names[n] \in 1..(1 + Cardinality({names[m] : m \in {m \in Labels : m < n}}))
  /\ \A m, n \in Here : names[m] <= names[n] => ContentOf(m) <= ContentOf(n)

Begins ==
  /\ side \in {"rescan", "dupes"}
  /\ Init
  /\ side = "dupes" => outside = {} /\ mounted = {}
  /\ DupesInit
  /\ IF side = "dupes" THEN Settled ELSE \A n \in Labels : names[n] = NoFile

OneOfThem ==
  \/ side = "rescan" /\ Next /\ UNCHANGED <<side, dupes>>
  \/ side = "dupes" /\ DupesNext /\ UNCHANGED <<side, vars>>

ReuseSpec == Begins /\ [][OneOfThem]_<<side, vars, dupes>>
=============================================================================
