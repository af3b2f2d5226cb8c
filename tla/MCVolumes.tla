----------------------------- MODULE MCVolumes -----------------------------
(* Two kinds of filesystem that are asked for more than a walk sees: one    *)
(* that shares and compresses blocks, and one whose table is read instead.  *)
(* They share no state: a behaviour is of one of them.                      *)
EXTENDS SharedExtents, NtfsTable

VARIABLE side

Btrfs == [of |-> "btrfs", id |-> 1]
Other == [of |-> "btrfs", id |-> 2]
Xfs == [of |-> "xfs", id |-> 3]
Zfs == [of |-> "zfs", id |-> 4]
Ref(off, ext, from, len) == [off |-> off, ext |-> ext, from |-> from, len |-> len, shifted |-> FALSE]
Folder(parent, dev, listed, fs) == [parent |-> parent, dev |-> dev, listed |-> listed, fs |-> fs]
Sharer(dir, refs) == [dir |-> dir, refs |-> refs]

\* A loose extent of four blocks, a compressed one of four in two, and one
\* behind the first that touches it.
Blocks == <<[at |-> 10, len |-> 4, packed |-> 0], [at |-> 20, len |-> 4, packed |-> 2],
            [at |-> 14, len |-> 3, packed |-> 0]>>

\* A copy with its middle overwritten; a compressed extent of which two slivers
\* are left; a file not written yet.
Copied == <<Ref(0, 1, 0, 4), Ref(4, 3, 0, 3)>>
Holed == <<Ref(0, 1, 0, 1), Ref(1, Unwritten, 0, 1), Ref(2, 1, 2, 2)>>
Packed == <<Ref(0, 2, 0, 4), Ref(4, 1, 1, 2)>>
Slivers == <<Ref(0, 2, 0, 1), Ref(2, 2, 3, 1), [Ref(5, 2, 1, 1) EXCEPT !.shifted = TRUE]>>
Twice == <<Ref(0, 2, 0, 1), Ref(2, 2, 3, 1), Ref(3, 3, 0, 3)>>
Lists3 == {<<Copied, Holed, Packed>>, <<Holed, Packed, Copied>>, <<Twice, Packed, Copied>>, <<Slivers, Packed, Holed>>, <<Twice, Copied, Holed>>}

\* A subvolume below, one that is mounted on its own; the same device twice;
\* another filesystem with the same addresses.
Trees == {
  <<Folder(1, 51, FALSE, Btrfs), Folder(1, 52, FALSE, Btrfs), Folder(1, 53, TRUE, Btrfs)>>,
  <<Folder(1, 60, FALSE, Zfs), Folder(1, 51, TRUE, Btrfs), Folder(1, 61, TRUE, Other)>>,
  <<Folder(1, 60, FALSE, Xfs), Folder(1, 51, TRUE, Btrfs), Folder(1, 51, TRUE, Btrfs)>>,
  <<Folder(1, 60, FALSE, Xfs), Folder(1, 61, TRUE, Xfs), Folder(1, 60, FALSE, Xfs)>> }

MCVolumeSet ==
  [dir : Trees, file : {[i \in 1..3 |-> Sharer(i, list[i])] : list \in Lists3}, ext : {Blocks}, outside : {{}, {2, 3}}]

Empty == [form |-> "file", used |-> FALSE, dir |-> FALSE, seq |-> 1, base |-> NoBase, names |-> {}, data |-> NoData, tag |-> "none"]
Name(p, s) == [as |-> "name", parent |-> p, pseq |-> s, dos |-> FALSE]
Alias(p, s) == [as |-> "NAME~1", parent |-> p, pseq |-> s, dos |-> TRUE]
RootDir == [Empty EXCEPT !.used = TRUE, !.dir = TRUE, !.names = {Name(Root, 1)}]
Meta == [Empty EXCEPT !.used = TRUE, !.names = {Name(Root, 1)}, !.data = 7]
Dir(p) == [Empty EXCEPT !.used = TRUE, !.dir = TRUE, !.names = {Name(p, 1)}]
File(ns, data) == [Empty EXCEPT !.used = TRUE, !.names = ns, !.data = data]
Ext(b, ns, data) == [File(ns, data) EXCEPT !.base = [id |-> b, seq |-> 1]]

OneRun(length) == [length |-> length, clusters |-> 1, unreadable |-> {}, pieces |-> <<[first |-> 0, pairs |-> <<[len |-> 6, delta |-> 3]>>]>>,
                  holds |-> [a \in (0..20) \cup {Hole} |-> IF a \in 3..8 THEN a - 3 ELSE 98]]
\* Two clusters a record, in four runs of two records, one that goes back, and
\* a record across two of them.
Pieces == [length |-> 6, clusters |-> 2, unreadable |-> {3},
           pieces |-> <<[first |-> 8, pairs |-> <<[len |-> 3, delta |-> 1], [len |-> 1, delta |-> 4]>>],
                        [first |-> 0, pairs |-> <<[len |-> 3, delta |-> 12], [len |-> 5, delta |-> -6]>>]>>,
           holds |-> [a \in (0..20) \cup {Hole} |->
              CASE a \in 1..3 -> a + 7 [] a = 5 -> 11 [] a \in 12..14 -> a - 12 [] a \in 6..10 -> a - 3 [] OTHER -> 98]]
With(v, busy, users) == [busy |-> busy, length |-> v.length, clusters |-> v.clusters, unreadable |-> v.unreadable, pieces |-> v.pieces, holds |-> v.holds,
                   record |-> <<RootDir, Meta>> \o users]

MCDisks == {
  With(OneRun(6), {3, 4, 5, 6}, <<Dir(Root), File({Name(3, 1), Alias(3, 1)}, NoData), Ext(4, {Name(Root, 1)}, 2), Empty>>),
  With(OneRun(6), {3, 5, 6}, <<Ext(6, {Name(5, 1)}, 2), File({Name(5, 1)}, 1), Dir(Root), File({Name(Root, 1)}, NoData)>>),
  With(OneRun(5), {3, 4, 6}, <<File({Name(4, 1)}, 1), Dir(Root), File({Name(Root, 1)}, 2), Empty>>),
  With(OneRun(6), {3, 4, 6}, <<[Empty EXCEPT !.seq = 2, !.names = {Name(Root, 1)}], Ext(3, {Name(Root, 1)}, 3), Dir(Root), File({Name(5, 1)}, 1)>>),
  With(OneRun(6), {4}, <<[File({Name(Root, 1)}, 1) EXCEPT !.seq = 2], Ext(3, {Name(5, 1)}, 3), Dir(Root), File({Name(5, 1)}, 1)>>),
  With(Pieces, {6}, <<[Dir(Root) EXCEPT !.tag = "far plain"], [Dir(Root) EXCEPT !.tag = "link"],
                 [File({Name(Root, 1)}, 1) EXCEPT !.form = "broken"], File({Name(4, 1)}, 1)>>),
  With(Pieces, {6}, <<[Ext(4, {}, NoData) EXCEPT !.tag = "far link"], Dir(Root),
                 [Empty EXCEPT !.form = "baad"], File({Name(Root, 1)}, 1)>>) }
One(set) == {CHOOSE x \in set : TRUE}

Begins ==
  /\ side \in {"extents", "table"}
  /\ volume \in (IF side = "extents" THEN Volumes ELSE One(Volumes))
  /\ privileged \in (IF side = "extents" THEN Privileged ELSE One(Privileged))
  /\ drive \in (IF side = "table" THEN Disks ELSE One(Disks))
  /\ VolumesInit /\ NtfsInit

\* A walk ends when everything is charged.
AtRest == side = "extents" /\ phase = "done" /\ UNCHANGED <<side, extents, ntfs>>

OneOfThem ==
  \/ side = "extents" /\ VolumesNext /\ UNCHANGED <<side, ntfs>>
  \/ side = "table" /\ NtfsNext /\ UNCHANGED <<side, extents>>
  \/ AtRest

EitherSpec == Begins /\ [][OneOfThem]_<<side, extents, ntfs>>
=============================================================================
