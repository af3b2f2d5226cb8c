--------------------------- MODULE MCParallelWalk ---------------------------
(***************************************************************************)
(* Module ParallelWalk for TLC: a root 0 with directories 1 and 2 and a    *)
(* file 3; files 4 and 5 and a directory 6 in 1, a file 7 in 2, and a file *)
(* 8 in 6, which is too deep to be entered.                                *)
(***************************************************************************)
EXTENDS ParallelWalk

MCParent == [n \in 1..8 |-> CASE n \in {1, 2, 3} -> 0
                              [] n \in {4, 5, 6} -> 1
                              [] n = 7 -> 2
                              [] n = 8 -> 6]

\* Which names are of one file.
Inos ==
  {[n \in Files |-> CASE n = 3 -> s[1] [] n = 4 -> s[2] [] n = 5 -> s[3]
                      [] n = 7 -> s[4] [] OTHER -> 9] :
    s \in {<<1, 2, 3, 4>>, <<1, 2, 2, 4>>, <<1, 2, 3, 2>>, <<1, 2, 3, 1>>, <<1, 1, 2, 1>>}}

Linked(ino) == {i \in Inodes : Cardinality({n \in Files : ino[n] = i}) > 1}

\* What goes wrong, and what is left out: nothing, an entry, a whole directory,
\* one left out by the options.
Faults == {[broken |-> {}, skipped |-> {}], [broken |-> {4, 6}, skipped |-> {}],
           [broken |-> {7}, skipped |-> {1}]}

\* Files that are clones; each has a block of its own besides the family's,
\* and inode 2 two, so that members of a family differ in size.
OwnBlocks(i) == IF i = 2 THEN {i, 22} ELSE {i}

CloneDisks ==
  {[ino |-> ino, linked |-> Linked(ino) \cup {3},
    family |-> [i \in Inodes |-> IF i \in clones THEN "f" ELSE
                                 IF i \in others THEN "g" ELSE NoFamily],
    blocks |-> [i \in Inodes |-> OwnBlocks(i) \cup (IF i \in clones THEN {10} ELSE
                                              IF i \in others THEN {20} ELSE {})],
    shared |-> {}, unmapped |-> {},
    broken |-> fault.broken, skipped |-> fault.skipped] :
     ino \in Inos, clones \in {{}, {1, 2}, {1, 4}, {2, 4}, {1, 2, 3}, 1..4}, others \in {{}, {1, 4}, {2, 3}}, fault \in Faults}

\* Files that share extents: blocks 10 and 20, among them or with files outside.
ExtentDisks ==
  {[ino |-> ino, linked |-> Linked(ino),
    family |-> [i \in Inodes |-> NoFamily],
    blocks |-> [i \in Inodes |-> OwnBlocks(i) \cup (IF i \in first THEN {10} ELSE {})
                                        \cup (IF i \in second THEN {20} ELSE {})],
    shared |-> {10, 20}, unmapped |-> unmapped,
    broken |-> fault.broken, skipped |-> fault.skipped] :
     ino \in Inos, first \in {{1, 2, 4}, {3, 4}, {2}}, second \in {{}, {1, 3}, {2, 3, 4}},
     unmapped \in {{}, {4}}, fault \in Faults}

MCDisks == CloneDisks \cup ExtentDisks
==============================================================================
