------------------------------- MODULE TreeArena -------------------------------
(***************************************************************************)
(* The tree of a scan: crates/scan-core/src/tree.rs and partial.rs.        *)
(*                                                                         *)
(* An arena of nodes.  The threads of the walk push a directory's children *)
(* as one block, in whatever order they finish directories; a copy may be  *)
(* taken and read in between.  What is finished is saved, loaded, made the *)
(* base of a rescan, or has entries taken out of it.  A name is a number,  *)
(* and a node carries its path in the place of its name; what allocation   *)
(* and times add to the sums, and the bytes of the names, are left out.    *)
(***************************************************************************)
EXTENDS Integers, Sequences, FiniteSets, SequencesExt, FiniteSetsExt

CONSTANT Shapes     \* of the disk: path -> [dir, own, flags]

VARIABLES
  shape,    \* what is on the disk
  nodes,    \* TreeBuilder::nodes, then Tree::nodes
  todo,     \* directories whose children have not been pushed
  use,      \* what was done of it: Walk, Scanned, Loaded, Base, Edited
  hidden    \* Removed::nodes: the entries a caller stops listing

treeState == <<shape, nodes, todo, use, hidden>>

RootNode == 1     \* 0 in the code
NoParent == 0
RolledUp == {"SHARED", "ERRORS", "MOUNT"}
Every == RolledUp \cup {"MOUNT_POINT"}

Ids == 1..Len(nodes)
Block(n) == n.start..n.start + n.len - 1
Backwards(ns) == [i \in 1..Len(ns) |-> Len(ns) + 1 - i]

New(path, parent) ==
  [path |-> path, parent |-> parent, dir |-> shape[path].dir,
   own |-> shape[path].own, size |-> shape[path].own, flags |-> shape[path].flags,
   files |-> IF shape[path].dir THEN 0 ELSE 1, dirs |-> 0, start |-> 0, len |-> 0]

(***************************************************************************)
(* The walk.                                                               *)
(***************************************************************************)
\* push_block.  The children are in the order the directory listed them in.
PushBlock ==
  /\ use = "Walk"
  /\ \E d \in todo :
       LET children == {p \in DOMAIN shape : p # <<>> /\ Front(p) = nodes[d].path}
           first == Len(nodes) + 1
           last == Len(nodes) + Cardinality(children)
       IN \E order \in {o \in [1..Cardinality(children) -> children] : IsInjective(o)} :
            /\ nodes' = (IF children = {} THEN nodes
                         ELSE [nodes EXCEPT ![d].start = first, ![d].len = Cardinality(children)])
                        \o [i \in 1..Cardinality(children) |-> New(order[i], d)]
            /\ todo' = (todo \ {d}) \cup {i \in first..last : nodes'[i].dir}
  /\ UNCHANGED <<shape, use, hidden>>

\* mark: a directory could not be listed.
Unreadable ==
  /\ use = "Walk"
  /\ \E d \in todo : nodes' = [nodes EXCEPT ![d].flags = @ \cup {"ERRORS"}] /\ todo' = todo \ {d}
  /\ UNCHANGED <<shape, use, hidden>>

AddTo(p, n) ==
  [p EXCEPT !.size = @ + n.size, !.files = @ + n.files,
            !.dirs = @ + n.dirs + (IF n.dir THEN 1 ELSE 0),
            !.flags = @ \cup (n.flags \cap RolledUp)]

\* Mutant: forwards.
AggregateDown(ns) ==
  FoldLeft(LAMBDA a, i : [a EXCEPT ![a[i].parent] = AddTo(@, a[i])], ns, [i \in 1..Len(ns) - 1 |-> i + 1])

\* Every node but the root, backwards.
Aggregate(ns) ==
  FoldLeft(LAMBDA a, i : [a EXCEPT ![a[i].parent] = AddTo(@, a[i])], ns, Front(Backwards(ns)))

\* PartialTree::snapshot: a copy of what there is, finished beside the walk.
Snapshot == Aggregate(nodes)

Finish ==
  /\ use = "Walk" /\ todo = {}
  /\ nodes' = Aggregate(nodes) /\ use' = "Scanned"
  /\ UNCHANGED <<shape, todo, hidden>>

(***************************************************************************)
(* Which of several names carries blocks they share: path_order.           *)
(***************************************************************************)
ByName(ids, Before(_, _)) ==
  [n \in 1..Cardinality(ids) |-> CHOOSE i \in ids : Cardinality({j \in ids : Before(j, i)}) = n - 1]

\* Directories level by level, each one's by name.
DirectoryRanks(ns) ==
  LET Folders(d) == ByName({i \in Block(ns[d]) : ns[i].dir}, LAMBDA i, j : Last(ns[i].path) < Last(ns[j].path))
      level[n \in 0..Len(ns)] ==
        IF n = 0 THEN <<RootNode>> ELSE FlattenSeq([k \in 1..Len(level[n - 1]) |-> Folders(level[n - 1][k])])
      all == FlattenSeq([n \in 1..Len(ns) |-> level[n - 1]])
  IN [d \in Range(all) |-> CHOOSE k \in 1..Len(all) : all[k] = d]

\* PathOrder::cmp
PathFirst(ns, rank, a, b) ==
  LET pa == rank[ns[a].parent]
      pb == rank[ns[b].parent]
  IN \/ pa < pb
     \/ pa = pb /\ Last(ns[a].path) < Last(ns[b].path)

(***************************************************************************)
(* A finished tree.                                                        *)
(***************************************************************************)
\* A snapshot keeps the totals, and beside a base its flags.
Load ==
  /\ use = "Scanned"
  /\ \E kept \in BOOLEAN :
       /\ nodes' = [i \in Ids |-> [nodes[i] EXCEPT !.own = 0, !.flags = IF kept THEN @ ELSE Every]]
       /\ use' = IF kept THEN "Loaded" ELSE "Foreign"
  /\ UNCHANGED <<shape, todo, hidden>>

TakeFrom(p, n) ==
  [p EXCEPT !.own = @ - n.size, !.flags = @ \cup (n.flags \cap RolledUp)]

\* Mutant: all flags are handed up.
PrepareAll ==
  /\ use = "Loaded"
  /\ nodes' = FoldLeft(LAMBDA a, i : [a EXCEPT ![a[i].parent] = [TakeFrom(@, a[i]) EXCEPT !.flags = @ \cup a[i].flags]],
                       [i \in Ids |-> [nodes[i] EXCEPT !.own = nodes[i].size]], Front(Backwards(nodes)))
  /\ use' = "Base"
  /\ UNCHANGED <<shape, todo, hidden>>

\* prepare_as_base
Prepare ==
  /\ use = "Loaded"
  /\ nodes' = FoldLeft(LAMBDA a, i : [a EXCEPT ![a[i].parent] = TakeFrom(@, a[i])],
                       [i \in Ids |-> [nodes[i] EXCEPT !.own = nodes[i].size]], Front(Backwards(nodes)))
  /\ use' = "Base"
  /\ UNCHANGED <<shape, todo, hidden>>

Ancestors(i) == {a \in Ids : nodes[a].path # nodes[i].path /\ IsPrefix(nodes[a].path, nodes[i].path)}
Subtree(i) == {b \in Ids : IsPrefix(nodes[i].path, nodes[b].path) /\ b \notin hidden}

DirsOf(n) == n.dirs + (IF n.dir THEN 1 ELSE 0)

\* remove_subtree: zeroed where it is, so that no id moves.
RemoveSubtree ==
  /\ use \in {"Scanned", "Loaded", "Foreign", "Edited"}
  /\ \E i \in Ids \ (hidden \cup {RootNode}) :
       /\ hidden' = hidden \cup Subtree(i)
       /\ nodes' = [j \in Ids |->
            IF j \in Ancestors(i)
            THEN [nodes[j] EXCEPT !.size = @ - nodes[i].size, !.files = @ - nodes[i].files, !.dirs = @ - DirsOf(nodes[i])]
            ELSE IF j \in Subtree(i)
            THEN [nodes[j] EXCEPT !.size = 0, !.own = 0, !.files = 0, !.dirs = 0, !.len = 0]
            ELSE nodes[j]]
  /\ use' = "Edited"
  /\ UNCHANGED <<shape, todo>>

ArenaInit ==
  /\ shape \in Shapes
  /\ nodes = <<New(<<>>, NoParent)>>
  /\ todo = {RootNode} /\ use = "Walk" /\ hidden = {}

ArenaNext == PushBlock \/ Unreadable \/ Finish \/ Load \/ Prepare \/ RemoveSubtree

ArenaSpec == ArenaInit /\ [][ArenaNext]_treeState

(***************************************************************************)
(* Properties.                                                             *)
(***************************************************************************)
\* Tree::check
Check(ns) ==
  /\ ns[RootNode].parent = NoParent
  /\ \A i \in 1..Len(ns) :
       /\ ns[i].len > 0 => ns[i].start > i /\ ns[i].start + ns[i].len - 1 <= Len(ns)
       /\ i # RootNode => ns[i].parent < i

SumOver(ns, ids, Of(_)) == MapThenSumSet(LAMBDA i : Of(ns[i]), ids)

\* The totals of these entries of ns are the sums of what shape has at them and
\* at what is below them.
Totals(ns, ids) ==
  \A i \in ids :
    LET below == {j \in ids : IsPrefix(ns[i].path, ns[j].path)}
    IN /\ ns[i].size = SumOver(ns, below, LAMBDA n : shape[n.path].own)
       /\ ns[i].files = Cardinality({j \in below : ~ns[j].dir})
       /\ ns[i].dirs = Cardinality({j \in below \ {i} : ns[j].dir})

\* A copy taken at any moment of the walk, whichever directories were finished
\* first, is "a complete tree of what has been read so far" (partial.rs:4).
PartialIsATree ==
  use = "Walk" =>
    LET tree == Snapshot
    IN /\ Check(tree) /\ Totals(tree, Ids)
       /\ \A i \in Ids : tree[i].path = nodes[i].path
            /\ tree[i].flags = nodes[i].flags
                 \cup (UNION {nodes[j].flags : j \in Subtree(i)} \cap RolledUp)

\* Of several names for the same blocks the shallowest and first carries them,
\* whatever order the threads finished in.
CarrierByPlace ==
  LET rank == DirectoryRanks(nodes)
      Place(p, q) == \/ Len(p) < Len(q)
                     \/ Len(p) = Len(q) /\ \E n \in 1..Len(p) : p[n] < q[n] /\ SubSeq(p, 1, n - 1) = SubSeq(q, 1, n - 1)
  IN hidden = {} =>
       \A a, b \in Ids \ {RootNode} : PathFirst(nodes, rank, a, b) <=> Place(nodes[a].path, nodes[b].path)

\* What a rescan copies from is what the scan before it read: each entry's own
\* share comes back, and its flags.
BaseIsAsScanned ==
  use = "Base" =>
    \A i \in Ids :
      /\ nodes[i].own = shape[nodes[i].path].own
      /\ shape[nodes[i].path].flags \subseteq nodes[i].flags
      /\ "MOUNT_POINT" \in nodes[i].flags => "MOUNT_POINT" \in shape[nodes[i].path].flags

\* After any removals the totals are those of a tree without what is gone, no
\* id has moved, and nothing listed holds what is not.
RemovedIsAsNeverThere ==
  use = "Edited" =>
    /\ Totals(nodes, Ids \ hidden)
    /\ \A i \in Ids \ hidden : \A j \in Ids : IsPrefix(nodes[j].path, nodes[i].path) => j \notin hidden
    /\ \A i \in hidden : nodes[i].size = 0 /\ nodes[i].len = 0

\* Whoever reads the arena, while it fills, finished, with entries taken out or
\* to copy from, finds the tree of what is in it.
ArenaIsATree == PartialIsATree /\ CarrierByPlace /\ RemovedIsAsNeverThere /\ BaseIsAsScanned
=============================================================================
