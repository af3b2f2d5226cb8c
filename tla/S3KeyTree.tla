------------------------------ MODULE S3KeyTree ------------------------------
(***************************************************************************)
(* What S3Discovery's steps deliver is drawn as folders:                   *)
(* crates/cli/src/s3/keys.rs `KeyTree`.  It keeps the folders of the       *)
(* current key open, closes those a key is not in, and opens again one     *)
(* that is met once more.                                                  *)
(*                                                                         *)
(* A path is the sequence of its names.  The tree is a function of paths;  *)
(* which place a folder has among its siblings, and the index by which a   *)
(* name is found, are left out.                                            *)
(***************************************************************************)
EXTENDS S3Discovery

CONSTANTS SizeOf(_), Time(_)   \* of an object

Marker(key) == key = <<>> \/ Last(key) = Slash

\* The names of a key: its segments that are not empty.
NamesOfKey(key) ==
  LET Cut(names, byte) == IF byte = Slash THEN Append(names, <<>>)
                          ELSE Front(names) \o <<Append(Last(names), byte)>>
  IN SelectSeq(FoldLeft(Cut, <<<<>>>>, key), LAMBDA name : name # <<>>)

Undrawable(key) == \E name \in ToSet(NamesOfKey(key)) : name \in {<<Dot>>, <<Dot, Dot>>}

Dir == [kind |-> "Dir", size |-> 0, alloc |-> 0, mtime |-> 0]
File(key) == [kind |-> "File", size |-> SizeOf(key), alloc |-> SizeOf(key), mtime |-> Time(key)]
Later(s, t) == IF s > t THEN s ELSE t

\* charge_to_folder
Charge(node, key) == [node EXCEPT !.alloc = @ + SizeOf(key), !.mtime = Later(@, Time(key))]
Add(node, key) == [node EXCEPT !.size = @ + SizeOf(key), !.alloc = @ + SizeOf(key), !.mtime = Later(@, Time(key))]

KeysUnder(nodes, path) == {p \in DOMAIN nodes : Len(p) = Len(path) + 1 /\ IsPrefix(path, p)}

Close(tree) ==
  LET path == tree.open
      times == {tree.nodes[p].mtime : p \in KeysUnder(tree.nodes, path)}
  IN [open |-> Front(path),
      nodes |-> [tree.nodes EXCEPT ![path].mtime = Max({@} \cup times)]]

\* Mutant: an object whose name is a folder's is forgotten.
OpenAnew(tree, name) ==
  LET path == Append(tree.open, name)
  IN [open |-> path,
      nodes |-> IF path \in DOMAIN tree.nodes /\ tree.nodes[path].kind = "Dir" THEN tree.nodes
                ELSE (path :> Dir) @@ tree.nodes]

\* A folder that is new, met again, or has the name of an object.
Open(tree, name) ==
  LET path == Append(tree.open, name)
      known == path \in DOMAIN tree.nodes
      made == IF known THEN [tree.nodes[path] EXCEPT !.kind = "Dir", !.size = 0] ELSE Dir
  IN [open |-> path, nodes |-> (path :> made) @@ tree.nodes]

DescendTo(tree, names) ==
  LET common == Max({n \in 0..Len(tree.open) : IsPrefix(SubSeq(tree.open, 1, n), names)})
      closed == FoldLeft(LAMBDA t, i : Close(t), tree, [i \in 1..Len(tree.open) - common |-> i])
  IN FoldLeft(Open, closed, SubSeq(names, common + 1, Len(names)))

PutFile(tree, name, key) ==
  LET path == Append(tree.open, name)
      node == IF path \notin DOMAIN tree.nodes THEN File(key)
              ELSE IF tree.nodes[path].kind = "Dir" THEN Charge(tree.nodes[path], key)
              ELSE Add(tree.nodes[path], key)
  IN [tree EXCEPT !.nodes = (path :> node) @@ tree.nodes]

Insert(tree, key) ==
  IF Undrawable(key) THEN tree
  ELSE IF Marker(key)
       THEN LET t == DescendTo(tree, NamesOfKey(key))
            IN [t EXCEPT !.nodes[t.open] = Charge(@, key)]
       ELSE PutFile(DescendTo(tree, Front(NamesOfKey(key))), Last(NamesOfKey(key)), key)

\* Closes everything, and the root.
CloseAll(tree) ==
  LET rest == DescendTo(tree, <<>>).nodes
  IN [rest EXCEPT ![<<>>].mtime = Max({@} \cup {rest[p].mtime : p \in KeysUnder(rest, <<>>)})]

Drawn(keys) == CloseAll(FoldLeft(Insert, [open |-> <<>>, nodes |-> (<<>> :> Dir)], keys))

(***************************************************************************)
(* What the tree of a set of keys should be.                               *)
(***************************************************************************)
Sum(keys) == MapThenSumSet(SizeOf, keys)

TreeOf(keys) ==
  LET drawn == {k \in keys : ~Undrawable(k)}
      Depth(k) == IF Marker(k) THEN Len(NamesOfKey(k)) ELSE Len(NamesOfKey(k)) - 1
      dirs == {<<>>} \cup UNION {{SubSeq(NamesOfKey(k), 1, n) : n \in 0..Depth(k)} : k \in drawn}
      paths == dirs \cup {NamesOfKey(k) : k \in drawn}
      Named(p) == {k \in drawn : NamesOfKey(k) = p}
      Under(p) == {k \in drawn : IsPrefix(p, NamesOfKey(k))}
  IN [p \in paths |->
        [kind |-> IF p \in dirs THEN "Dir" ELSE "File",
         size |-> IF p \in dirs THEN 0 ELSE Sum(Named(p)),
         alloc |-> Sum(Named(p)),
         mtime |-> Max({0} \cup {Time(k) : k \in Under(p)})]]

\* The folders drawn of what was listed are those of the bucket: each object's
\* bytes once, at the entry of its name, each folder as recent as what is in
\* it.  And, as nothing but the speed depends on the order (keys.rs:32), the
\* same tree is drawn of the keys of a small bucket in any order.
Orders ==
  CASE stage = "Planned" -> {Delivered}
    [] stage = "List" /\ honours /\ Cardinality(bucket) <= 4 ->
         LET keys == Sorted(bucket)
         IN {[i \in DOMAIN keys |-> keys[order[i]]] : order \in Permutations(DOMAIN keys)}
    [] OTHER -> {}

TreeIsTheBuckets == \A keys \in Orders : Drawn(keys) = TreeOf(bucket)
=============================================================================
