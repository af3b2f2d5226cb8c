-------------------------------- MODULE Movers --------------------------------
(***************************************************************************)
(* The folders a watch counts, and the rows of its frame:                  *)
(* crates/cli/src/watch/model.rs.  A record is kept for every folder, the  *)
(* ones that went away included, in an arena whose order the totals rely   *)
(* on; a record is known by its place in it, and places change when those  *)
(* that came and went are dropped.                                         *)
(*                                                                         *)
(* How events reach the model, and what becomes of those that do not, is   *)
(* WatchModel's subject.  Here each change names the folder to list, as    *)
(* under a watch of the whole tree; what is counted are logical sizes,     *)
(* with no hard links.                                                     *)
(***************************************************************************)
EXTENDS SnapshotDiff, TLC

CONSTANTS
  Labels,        \* of folders and files
  MaxDepth,     \* of the disk: a bound
  Sizes,        \* of what lies in a folder besides what has a name in Labels
  FirstDisks,   \* the disks a watch begins with
  MaxChanges,   \* of the disk: a bound
  WorthIt       \* records that came and went before they are dropped (1024)

VARIABLES
  held,     \* path -> [dir, own]
  changes,
  first,    \* what the first scan found
  dirs,     \* Model::dirs: [path, parent, present, baseline, direct, size, base]
  dirty,    \* Pending::dirty
  subtrees  \* Pending::subtrees

watch == <<held, changes, first, dirs, dirty, subtrees>>

Top == 1       \* 0 in the code
Unnamed == 0
Absent(p) == p \notin DOMAIN held
IsFolder(p) == p \in DOMAIN held /\ held[p].dir
Paths == UNION {[1..n -> Labels] : n \in 0..MaxDepth}
Under(p) == {q \in DOMAIN held : IsPrefix(p, q)}

TreeNow == [p \in DOMAIN held |->
              [dir |-> held[p].dir, size |-> MapThenSumSet(LAMBDA q : held[q].own, Under(p))]]

(***************************************************************************)
(* The records.                                                            *)
(***************************************************************************)
ChildrenOf(ds, i) == {c \in 2..Len(ds) : ds[c].parent = i}
WithinIds(ds, i) == {j \in 1..Len(ds) : IsPrefix(ds[i].path, ds[j].path)}

\* The deepest record that is present on the way to p.
Locate(p) ==
  LET present == {i \in 1..Len(dirs) : dirs[i].present /\ IsPrefix(dirs[i].path, p)}
  IN CHOOSE i \in present : \A j \in present : Len(dirs[j].path) <= Len(dirs[i].path)

NewRecord(parent, path) ==
  [path |-> path, parent |-> parent, present |-> TRUE, baseline |-> FALSE, direct |-> 0, size |-> 0, base |-> 0]

Ordered(ids, Before(_, _)) ==
  [n \in 1..Cardinality(ids) |-> CHOOSE i \in ids : Cardinality({j \in ids : Before(j, i)}) = n - 1]

\* Folders after those that hold them.
HolderFirst(p, q) ==
  \/ Len(p) < Len(q)
  \/ Len(p) = Len(q) /\ \E n \in 1..Len(p) : p[n] < q[n] /\ SubSeq(p, 1, n - 1) = SubSeq(q, 1, n - 1)

\* The records of these folders, made or brought back.
Adopt(ds, folders) ==
  LET known == {ds[i].path : i \in 1..Len(ds)}
      made == Ordered(folders \ known, HolderFirst)
      all == [i \in 1..Len(ds) |-> ds[i].path] \o made
      Place(p) == CHOOSE i \in 1..Len(all) : all[i] = p
  IN [i \in 1..Len(ds) |-> IF ds[i].path \in folders THEN [ds[i] EXCEPT !.present = TRUE] ELSE ds[i]]
     \o [n \in 1..Len(made) |-> NewRecord(Place(Front(made[n])), made[n])]

\* What a folder's listing charges to it: all but the folders it tracks.
Direct(p) ==
  held[p].own + MapThenSumSet(LAMBDA q : held[q].own, {q \in Under(p) : Len(q) = Len(p) + 1 /\ ~held[q].dir})

Gone(d) == IF d.present THEN [d EXCEPT !.present = FALSE, !.direct = 0] ELSE d

\* absorb: a scan of these subtrees is what they hold.
Absorb(ds, tops) ==
  LET folders == {q \in UNION {Under(p) : p \in tops} : held[q].dir}
      all == Adopt(ds, folders)
  IN [i \in 1..Len(all) |->
        IF all[i].path \in folders THEN [all[i] EXCEPT !.direct = Direct(all[i].path)]
        ELSE IF \E p \in tops : IsPrefix(p, all[i].path) THEN Gone(all[i])
        ELSE all[i]]

\* relist: this folder's own entries, what vanished from it, and each folder
\* that is new in it whole.
ListFolder(ds, i) ==
  LET seen == {c \in ChildrenOf(ds, i) : ds[c].present /\ IsFolder(ds[c].path)}
      new == {q \in Under(ds[i].path) : Len(q) = Len(ds[i].path) + 1 /\ held[q].dir} \ {ds[c].path : c \in seen}
      vanished == UNION {WithinIds(ds, c) : c \in {c \in ChildrenOf(ds, i) : ds[c].present} \ seen}
      own == [j \in 1..Len(ds) |-> IF j = i THEN [ds[i] EXCEPT !.direct = Direct(ds[i].path)]
                                   ELSE IF j \in vanished THEN Gone(ds[j]) ELSE ds[j]]
  IN Absorb(own, new)

\* aggregate: backwards, as every record is after the one that holds it.
SumUp(ds) ==
  FoldLeft(LAMBDA d, n : LET i == Len(ds) + 1 - n
                         IN IF i = Top THEN d ELSE [d EXCEPT ![d[i].parent].size = @ + d[i].size],
           [i \in 1..Len(ds) |-> [ds[i] EXCEPT !.size = ds[i].direct]],
           [n \in 1..Len(ds) |-> n])

Dead(d) == ~d.present /\ ~d.baseline

\* Mutant: a folder that went away is dropped with those that came and went.
KeptPresent(ds) == {i \in 1..Len(ds) : ds[i].present}
Kept(ds) == {i \in 1..Len(ds) : ~Dead(ds[i])}

\* compact_if_worth_it.  Which order what is kept takes, but that holders come
\* first, shows nowhere.
Compact(ds) ==
  LET dead == {i \in 1..Len(ds) : Dead(ds[i])}
      kept == Ordered(Kept(ds), <)
      place(i) == CHOOSE n \in 1..Len(kept) : kept[n] = i
  IN IF (Cardinality(dead) < WorthIt) \/ (Cardinality(dead) < Len(ds) \div 2) THEN ds
     ELSE [n \in 1..Len(kept) |->
             [ds[kept[n]] EXCEPT !.parent = IF n = Top THEN Top ELSE place(@)]]

(***************************************************************************)
(* The rows.                                                               *)
(***************************************************************************)
Moved(d) == d.size - d.base

\* dominated
Explained(ds, i) ==
  /\ Moved(ds[i]) # 0
  /\ \E c \in ChildrenOf(ds, i) :
       /\ ds[c].baseline /\ ds[c].present
       /\ Sign(Moved(ds[c])) = Sign(Moved(ds[i])) /\ Abs(Moved(ds[c])) >= Most(Moved(ds[i]))

Over(ds, i, min) == Abs(Moved(ds[i])) >= min /\ ds[i].baseline /\ ds[i].present /\ Explained(ds, i)

RowsOf(ds, min) ==
  LET entered[i \in 1..Len(ds)] == IF i = Top THEN TRUE ELSE entered[ds[i].parent] /\ Over(ds, i, min)
      MoverKind(d) == IF ~d.baseline THEN "Added" ELSE IF ~d.present THEN "Removed"
                      ELSE IF Moved(d) >= 0 THEN "Grown" ELSE "Shrunk"
      rows == {i \in 2..Len(ds) : entered[ds[i].parent] /\ Abs(Moved(ds[i])) >= min /\ ~Over(ds, i, min)}
  IN {[path |-> ds[i].path, kind |-> MoverKind(ds[i]), old |-> ds[i].base, new |-> ds[i].size] : i \in rows}

(***************************************************************************)
(* The disk.                                                               *)
(***************************************************************************)
Without(p) == [q \in DOMAIN held \ Under(p) |-> held[q]]

\* Handle: the folder that holds it is to be listed; one made where another was
\* is to be scanned.
Holding(p) == LET at == Locate(p) IN IF dirs[at].path = p /\ at # Top THEN dirs[at].parent ELSE at
Handled(gone, made) ==
  /\ changes < MaxChanges /\ changes' = changes + 1
  /\ dirty' = dirty \cup {Holding(p) : p \in gone \cup made}
  /\ subtrees' = subtrees \cup {i \in 2..Len(dirs) : dirs[i].present /\ dirs[i].path \in made}
  /\ UNCHANGED <<first, dirs>>

Make ==
  \E p \in Paths \ {<<>>}, dir \in BOOLEAN, n \in Sizes :
    /\ IsFolder(Front(p))
    /\ held' = (p :> [dir |-> dir, own |-> n]) @@ Without(p)
    /\ held' # held
    /\ Handled({}, {p})

\* What is in a folder but has no name of its own is heard of at a path below.
Write ==
  \E p \in DOMAIN held, n \in Sizes :
    /\ n # held[p].own
    /\ held' = [held EXCEPT ![p].own = n]
    /\ Handled({IF held[p].dir THEN Append(p, Unnamed) ELSE p}, {})

Delete ==
  \E p \in DOMAIN held \ {<<>>} : held' = Without(p) /\ Handled({p}, {})

Move ==
  \E p \in DOMAIN held \ {<<>>}, q \in Paths :
    /\ q # <<>> /\ Absent(q) /\ IsFolder(Front(q)) /\ ~IsPrefix(p, q)
    /\ LET moved == {r \in Under(p) : Len(q) + Len(r) - Len(p) <= MaxDepth}
       IN held' = [r \in {q \o SubSeq(r, Len(p) + 1, Len(r)) : r \in moved} |->
                     held[p \o SubSeq(r, Len(q) + 1, Len(r))]] @@ Without(p)
    /\ Handled({p}, {q})

(***************************************************************************)
(* A tick: what is pending is scanned and listed, shallowest first.        *)
(***************************************************************************)
Rescanned(ds, i) ==
  IF ds[i].present /\ IsFolder(ds[i].path) THEN Absorb(ds, {ds[i].path}) ELSE ds

\* One that is gone is found missing by the listing of what holds it.
Relisted(ds, i) ==
  IF ~ds[i].present THEN ds
  ELSE IF IsFolder(ds[i].path) THEN ListFolder(ds, i)
  ELSE LET there == {j \in 1..Len(ds) : IsPrefix(ds[j].path, ds[i].path) /\ IsFolder(ds[j].path)}
       IN ListFolder(ds, CHOOSE j \in there : \A k \in there : Len(ds[k].path) <= Len(ds[j].path))

InOrder(ds, ids) ==
  LET depth == [i \in 1..Len(ds) |-> Len(ds[i].path)]
  IN Ordered(ids, LAMBDA i, j : IF depth[i] = depth[j] THEN i < j ELSE depth[i] < depth[j])

Tick ==
  /\ dirty \cup subtrees # {}
  /\ dirs' = Compact(SumUp(FoldLeft(Relisted, FoldLeft(Rescanned, dirs, InOrder(dirs, subtrees)),
                                        InOrder(dirs, dirty))))
  /\ dirty' = {} /\ subtrees' = {}
  /\ UNCHANGED <<held, changes, first>>

Began(ds) == [i \in 1..Len(ds) |-> [ds[i] EXCEPT !.base = ds[i].size, !.baseline = TRUE]]

MoversInit ==
  /\ held \in FirstDisks /\ changes = 0 /\ first = TreeNow
  /\ dirs = Began(SumUp(Absorb(<<NewRecord(Top, <<>>)>>, {<<>>})))
  /\ dirty = {} /\ subtrees = {}

MoversNext == Make \/ Write \/ Delete \/ Move \/ Tick

MoversSpec == MoversInit /\ [][MoversNext]_watch

(***************************************************************************)
(* Properties.                                                             *)
(***************************************************************************)
Rule(min) == [min |-> min, files |-> FALSE, depth |-> Unlimited]
Leasts == {1, 2, 10}

\* A name that is a folder's on one side and a file's on the other.
ChangedKind(p) == p \in DOMAIN first \cap DOMAIN held /\ first[p].dir # held[p].dir

\* Once a tick has taken in what changed, the rows of the frame are those of
\* spacetrace diff, "so that the two answer alike" (model.rs:1014), whatever
\* came, went, came back and was dropped; but for a folder that became a file,
\* or a file a folder, of which diff says nothing.
FrameIsTheDiff ==
  dirty \cup subtrees = {} =>
    \A min \in Leasts :
      {row \in RowsOf(dirs, min) : ~ChangedKind(row.path)} = Diff(first, TreeNow, Rule(min))

=============================================================================
