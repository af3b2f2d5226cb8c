----------------------------- MODULE SnapshotDiff -----------------------------
(***************************************************************************)
(* Where the space went between two scans: crates/diff/src/lib.rs.         *)
(*                                                                         *)
(* A tree is a function of paths, which are sequences of names, to what is *)
(* there: whether it is a directory, and the size of all below it.  The    *)
(* walk is told by what it enters rather than step by step: a directory    *)
(* is entered if every one above it was passed over for what is in it.     *)
(***************************************************************************)
EXTENDS Integers, Sequences, FiniteSets, SequencesExt, FiniteSetsExt

Unlimited == 99       \* no max_depth

SizeAt(tree, p) == IF p \in DOMAIN tree THEN tree[p].size ELSE 0
Sign(n) == IF n > 0 THEN 1 ELSE IF n < 0 THEN -1 ELSE 0
Abs(n) == IF n < 0 THEN -n ELSE n
Delta(old, new, p) == SizeAt(new, p) - SizeAt(old, p)
Holds(tree, p) == {q \in DOMAIN tree : q # <<>> /\ Front(q) = p}

Both(old, new, p) == p \in DOMAIN old \cap DOMAIN new
BothFolders(old, new, p) == Both(old, new, p) /\ old[p].dir /\ new[p].dir

\* concentration, of 10
Most(delta) == (9 * Abs(delta)) \div 10

\* dominated_by_one_child
Dominated(old, new, p) ==
  LET delta == Delta(old, new, p)
  IN /\ delta # 0
     /\ \E q \in Holds(old, p) \cup Holds(new, p) :
          /\ BothFolders(old, new, q)
          /\ Sign(Delta(old, new, q)) = Sign(delta)
          /\ Abs(Delta(old, new, q)) >= Most(delta)

Deep(p, opts) == Len(p) >= opts.depth

\* A directory of both trees is passed over for one it holds, or told of; with
\* the files asked for it is entered then too.
PassedOver(old, new, p, opts) == ~Deep(p, opts) /\ Dominated(old, new, p)
Changed(old, new, p, opts) == BothFolders(old, new, p) /\ Abs(Delta(old, new, p)) >= opts.min

Entered(old, new, p, opts) ==
  \A n \in 1..Len(p) :
    LET q == SubSeq(p, 1, n)
    IN /\ Changed(old, new, q, opts)
       /\ \/ PassedOver(old, new, q, opts)
          \/ opts.files /\ ~Deep(q, opts)

Told(old, new, p, opts) ==
  IF BothFolders(old, new, p) THEN Changed(old, new, p, opts) /\ ~PassedOver(old, new, p, opts)
  ELSE IF Both(old, new, p) THEN opts.files /\ Abs(Delta(old, new, p)) >= opts.min
  ELSE /\ SizeAt(old, p) + SizeAt(new, p) >= opts.min
       /\ opts.files \/ (IF p \in DOMAIN old THEN old[p].dir ELSE new[p].dir)

Kind(old, new, p) ==
  IF p \notin DOMAIN old THEN "Added"
  ELSE IF p \notin DOMAIN new THEN "Removed"
  ELSE IF new[p].size >= old[p].size THEN "Grown" ELSE "Shrunk"

Diff(old, new, opts) ==
  {[path |-> p, kind |-> Kind(old, new, p), old |-> SizeAt(old, p), new |-> SizeAt(new, p)] :
     p \in {q \in DOMAIN old \cup DOMAIN new :
              q # <<>> /\ Entered(old, new, Front(q), opts) /\ Told(old, new, q, opts)}}
=============================================================================
