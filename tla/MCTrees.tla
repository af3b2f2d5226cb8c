------------------------------- MODULE MCTrees -------------------------------
(* What a walk charges and counts, the arena it fills, the folders a watch  *)
(* tells apart, and what is planned and drawn of a bucket's keys.  They     *)
(* share no state: a behaviour is of one of them.                           *)
EXTENDS MCParallelWalk, TreeArena, Movers, S3KeyTree

VARIABLE side

ADir(n, flags) == [dir |-> TRUE, own |-> n, flags |-> flags]
AFile(n, flags) == [dir |-> FALSE, own |-> n, flags |-> flags]

\* Seven entries, with files that share blocks and a mount on two levels.
ScannedDisks == {
  (<<>> :> ADir(1, {})) @@ (<<1>> :> ADir(2, {"MOUNT", "MOUNT_POINT"})) @@ (<<2>> :> ADir(4, {}))
    @@ (<<1, 1>> :> ADir(8, {})) @@ (<<1, 2>> :> AFile(16, {})) @@ (<<2, 1>> :> AFile(32, {"SHARED"}))
    @@ (<<1, 1, 1>> :> AFile(64, {"SHARED"})),
  (<<>> :> ADir(1, {})) @@ (<<1>> :> ADir(2, {})) @@ (<<2>> :> ADir(4, {})) @@ (<<3>> :> AFile(8, {}))
    @@ (<<2, 1>> :> ADir(16, {"MOUNT", "MOUNT_POINT"})) @@ (<<2, 2>> :> ADir(32, {})) @@ (<<1, 1>> :> AFile(64, {})) }

Tracked(n) == [dir |-> TRUE, own |-> n]
WatchedDisks == {
  (<<>> :> Tracked(0)) @@ (<<1>> :> Tracked(1)) @@ (<<1, 1>> :> Tracked(10)) @@ (<<2>> :> Tracked(10)),
  (<<>> :> Tracked(0)) @@ (<<1>> :> Tracked(10)) }

\* Buckets of up to five of these keys: a folder, an object of its name, its
\* marker, one that sorts between the two, names that are empty or a dot.
a == 4
b == 5

Keys == {<<a>>, <<a, Dash>>, <<a, Slash>>, <<a, Slash, a>>, <<a, Slash, b>>, <<a, Slash, b, Slash, a>>,
         <<a, Dash, Slash, a>>, <<a, Slash, Slash, b>>, <<Slash, a>>, <<b, Slash, Dot, Slash, a>>,
         <<b, Slash, a>>}

SmallBuckets == {keys \in SUBSET Keys : Cardinality(keys) <= 5}

\* No two keys have the same size or time.
Ranks == [k \in Keys |-> Cardinality({j \in Keys : Before(j, k)})]
SizeOfKey(key) == 2 ^ Ranks[key]
TimeOfKey(key) == (Ranks[key] * 7) % 13

One(set) == {CHOOSE x \in set : TRUE}

Begins ==
  /\ side \in {"walk", "arena", "watch", "bucket"}
  /\ disk \in (IF side = "walk" THEN MCDisks ELSE One(MCDisks))
  /\ shape \in (IF side = "arena" THEN ScannedDisks ELSE One(ScannedDisks))
  /\ held \in (IF side = "watch" THEN WatchedDisks ELSE One(WatchedDisks))
  /\ Init /\ ArenaInit /\ MoversInit
  /\ bucket \in (IF side = "bucket" THEN SmallBuckets ELSE {{}})
  /\ honours \in (IF side = "bucket" THEN BOOLEAN ELSE {TRUE})
  /\ DiscoveryInit

\* Only a walk may not stop halfway.
AtRest == side # "walk" /\ UNCHANGED <<side, vars, treeState, watch, discovery>>

OneOfThem ==
  \/ side = "walk" /\ Next /\ UNCHANGED <<side, treeState, watch, discovery>>
  \/ side = "arena" /\ ArenaNext /\ UNCHANGED <<side, vars, watch, discovery>>
  \/ side = "watch" /\ MoversNext /\ UNCHANGED <<side, vars, treeState, discovery>>
  \/ side = "bucket" /\ DiscoveryNext /\ UNCHANGED <<side, vars, treeState, watch>>
  \/ AtRest

TreesSpec == Begins /\ [][OneOfThem]_<<side, vars, treeState, watch, discovery>>
=============================================================================
