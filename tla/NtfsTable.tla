------------------------------ MODULE NtfsTable ------------------------------
(***************************************************************************)
(* Reading the table of a mounted NTFS volume instead of walking it:       *)
(* crates/scan-core/src/ntfs, and from_table in scan.rs.                   *)
(*                                                                         *)
(* The volume is in use.  The table is read record by record, from the     *)
(* first to the last, while files are made, moved, grown and removed, each *)
(* by writes of single records: what was read of one record may no longer  *)
(* be true when the next is read.  A record is                             *)
(*   [form, used, dir, seq, base, names, data, tag]                        *)
(* and an extension names in base the record and the sequence number of    *)
(* the file it belongs to.  A name is [as, parent, pseq, dos].             *)
(***************************************************************************)
EXTENDS Integers, Sequences, FiniteSets, FiniteSetsExt, SequencesExt

CONSTANTS
  Root, FIRST_USER_RECORD,
  Disks,       \* what is on the volume: [record, length, clusters, pieces, holds,
               \* unreadable, busy]
  MaxWrites,   \* how often the volume is written while it is read
  MayBeBad     \* too_many_bad: how many records may be unreadable

ASSUME NtfsAssumption == Root < FIRST_USER_RECORD /\ MaxWrites \in Nat /\ MayBeBad \in Nat

VARIABLES
  disk,        \* the records of the volume
  drive,       \* the rest of what is on it
  records,     \* how many the table had when it was opened
  next,        \* the record to read; and whether it was torn
  torn,
  slots, names, deferred, reparse, bad,   \* Builder
  listing,     \* the directories to enter, and the entries placed
  outcome,     \* "open", "reading", "listing", "table" or "walk"
  cancelled,
  past, touched, writes  \* the disks there have been, and the records written

builder == <<slots, names, deferred, reparse, bad>>
reader == <<drive, records, next, torn, builder, listing, outcome>>
history == <<past, touched, writes>>
ntfs == <<disk, reader, cancelled, history>>

NoBase == [id |-> 0, seq |-> 0]
NoData == 0
NoSlot == [used |-> FALSE, dir |-> FALSE, seq |-> 0, link |-> FALSE, size |-> 0, alloc |-> 0, links |-> 0]
Records == DOMAIN disk

(***************************************************************************)
(* The volume in use.                                                      *)
(***************************************************************************)
IsBase(r) == disk[r].used /\ disk[r].base = NoBase
Users == {r \in Records : r >= FIRST_USER_RECORD}
In(r, p) == \E n \in disk[r].names : n.parent = p
Current(b) == disk[b.id].used /\ disk[b.id].seq = b.seq
Live(r) == disk[r].used /\ (IF disk[r].base = NoBase THEN TRUE ELSE Current(disk[r].base))
RECURSIVE Below(_, _)
Below(r, p) == r = p \/ (p # Root /\ \E n \in disk[p].names : Below(r, n.parent))

Writes(r, value, of) ==
  /\ writes < MaxWrites /\ outcome = "reading" /\ ~cancelled
  /\ disk' = [disk EXCEPT ![r] = value]
  /\ writes' = writes + 1
  /\ touched' = touched \cup {r, of}
  /\ past' = past \cup {disk'}
  /\ UNCHANGED <<reader, cancelled>>

Make(r, p, isDir) ==
  /\ ~disk[r].used /\ IsBase(p) /\ disk[p].dir
  /\ Writes(r, [disk[r] EXCEPT !.form = "file", !.used = TRUE, !.dir = isDir, !.base = NoBase,
                  !.names = {[as |-> "new", parent |-> p, pseq |-> disk[p].seq, dos |-> FALSE]},
                  !.data = IF isDir THEN NoData ELSE 1, !.tag = "none"], r)

\* A record that is freed keeps what it says, under another sequence number.
Free(r) ==
  /\ r \in Users /\ IsBase(r) /\ ~\E c \in Records \ {r} : Live(c) /\ In(c, r)
  /\ Writes(r, [disk[r] EXCEPT !.used = FALSE, !.seq = @ + 1], r)
FreeExtension(e) ==
  /\ disk[e].used /\ ~Live(e)
  /\ Writes(e, [disk[e] EXCEPT !.used = FALSE, !.seq = @ + 1], disk[e].base.id)

Move(r, p) ==
  /\ r \in Users /\ IsBase(r) /\ IsBase(p) /\ disk[p].dir /\ ~Below(r, p) /\ ~In(r, p)
  /\ \E n \in disk[r].names :
        Writes(r, [disk[r] EXCEPT !.names = (@ \ {n}) \cup
                     {[n EXCEPT !.parent = p, !.pseq = disk[p].seq]}], r)

Grow(r) ==
  /\ r \in Users /\ Live(r) /\ disk[r].data # NoData
  /\ Writes(r, [disk[r] EXCEPT !.data = @ + 1],
            IF disk[r].base = NoBase THEN r ELSE disk[r].base.id)

\* A record that is full: what it says of the data goes to an extension first.
Spill(r, e) ==
  /\ r \in Users /\ IsBase(r) /\ ~disk[e].used /\ disk[r].data # NoData
  /\ Writes(e, [disk[e] EXCEPT !.form = "file", !.used = TRUE, !.dir = FALSE, !.names = {}, !.tag = "none",
                  !.base = [id |-> r, seq |-> disk[r].seq], !.data = disk[r].data], r)
DropData(r, e) ==
  /\ IsBase(r) /\ disk[r].data # NoData
  /\ disk[e].used /\ disk[e].base = [id |-> r, seq |-> disk[r].seq] /\ disk[e].data # NoData
  /\ Writes(r, [disk[r] EXCEPT !.data = NoData], r)

\* Nothing but drive.busy is written; once cancelled, it does not matter.
InUse == \E r \in drive.busy :
  \/ Free(r) \/ FreeExtension(r) \/ Grow(r)
  \/ \E p \in Records : Move(r, p) \/ (\E isDir \in BOOLEAN : Make(r, p, isDir))
  \/ \E e \in drive.busy : Spill(r, e) \/ DropData(r, e)

(***************************************************************************)
(* Where the records are.  The table's own runs are mapping pairs: a       *)
(* length, and how far from the last run's cluster the next one starts, or *)
(* a hole.  They are in one or more of its records, each with the cluster  *)
(* of the table its pairs start at.                                        *)
(***************************************************************************)
Hole == 99
decode_runs(piece) ==
  LET Before(i) == FoldLeft(LAMBDA sum, pair : sum + pair.len, piece.first, SubSeq(piece.pairs, 1, i - 1))
      Lcn(i) == FoldLeft(LAMBDA lcn, pair : IF pair.delta = Hole THEN lcn ELSE lcn + pair.delta,
                         0, SubSeq(piece.pairs, 1, i))
  IN [i \in DOMAIN piece.pairs |->
        [vcn |-> Before(i), len |-> piece.pairs[i].len,
         lcn |-> IF piece.pairs[i].delta = Hole THEN Hole ELSE Lcn(i)]]
data_runs == FlattenSeq([i \in DOMAIN drive.pieces |-> decode_runs(drive.pieces[i])])
MappedClusters == FoldLeft(LAMBDA sum, run : sum + run.len, 0, data_runs)

Malformed == \E i \in DOMAIN data_runs : data_runs[i].lcn < 0

\* Stream::read of one cluster; a record is as many as drive.clusters.
Reach(vcn) ==
  LET runs == {run \in ToSet(data_runs) : vcn >= run.vcn /\ vcn < run.vcn + run.len}
  IN IF runs = {} THEN Hole
     ELSE LET run == CHOOSE run \in runs : TRUE
          IN IF run.lcn = Hole THEN Hole ELSE run.lcn + (vcn - run.vcn)
Clusters(r) == {drive.clusters * (r - 1) + half : half \in 0..(drive.clusters - 1)}
\* A record is what its clusters hold; any others hold nothing of a record.
Stored(r) == IF \A vcn \in Clusters(r) : drive.holds[Reach(vcn)] = vcn THEN disk[r]
             ELSE [disk[r] EXCEPT !.form = "other"]

(***************************************************************************)
(* Opening it: volume::read and mft_stream.                                *)
(***************************************************************************)
Opens ==
  /\ outcome = "open" /\ ~cancelled
  /\ \/ outcome' = "walk" \* no administrator, no NTFS, a $MFT that cannot be read
     \/ outcome' = IF Malformed \/ MappedClusters < drive.length * drive.clusters THEN "walk" ELSE "reading"
  /\ UNCHANGED <<disk, drive, records, next, torn, builder, listing, cancelled, history>>

Cancel == ~cancelled /\ outcome # "table" /\ cancelled' = TRUE /\ UNCHANGED <<disk, reader, history>>
\* The read ends in a walk, which is cancelled too; the listing where it is.
CancelSeen ==
  /\ cancelled
  /\ \/ outcome \in {"open", "reading"} /\ outcome' = "walk"
     \/ outcome = "listing" /\ outcome' = "table"
  /\ UNCHANGED <<disk, drive, records, next, torn, builder, listing, cancelled, history>>

(***************************************************************************)
(* Reading a record: Builder::record.                                      *)
(***************************************************************************)
OwnerOf(r, rec) == IF rec.base = NoBase THEN [id |-> r, seq |-> rec.seq] ELSE rec.base
InUseIs(slot, seq) == slot.used
is(slot, seq) == slot.used /\ slot.seq = seq

apply(slot, fact) ==
  CASE fact.of = "data" -> [slot EXCEPT !.size = fact.size, !.alloc = @ + fact.size]
    [] fact.of = "surrogate" -> [slot EXCEPT !.link = TRUE]

data_fact(rec) == IF rec.data = NoData THEN {} ELSE {[of |-> "data", size |-> rec.data]}
reparse_fact(rec) == IF rec.tag = "link" THEN {[of |-> "surrogate"]} ELSE {}
Facts(rec) == data_fact(rec) \cup reparse_fact(rec)
Applied(slot, facts) == FoldSet(LAMBDA f, s : apply(s, f), slot, facts)

\* The root lists itself, and DOS aliases are not names of their own.
NamesIn(r, rec) ==
  LET owner == OwnerOf(r, rec)
  IN {[as |-> n.as, record |-> owner.id, seq |-> owner.seq, parent |-> n.parent, pseq |-> n.pseq, from |-> r] :
        n \in {n \in rec.names : ~n.dos /\ n.parent # owner.id}}

\* What fixups and the chain of attributes tell: a write in flight, a record
\* that breaks off.
Torn(r) == r \in touched
Broken(rec) == rec.form = "broken"

\* What the record adds; one that breaks off adds what came before, and a file
\* whose own record does is out of use.
Attributes(r, rec) ==
  LET owner == OwnerOf(r, rec)
      based == [NoSlot EXCEPT !.used = TRUE, !.seq = rec.seq, !.dir = rec.dir]
  IN /\ slots' = IF rec.base # NoBase THEN slots
                 ELSE [slots EXCEPT ![r] = IF Broken(rec) THEN NoSlot ELSE Applied(based, Facts(rec))]
     /\ names' = names \cup NamesIn(r, rec)
     /\ deferred' = IF rec.base = NoBase THEN deferred
                    ELSE deferred \cup {[owner |-> owner, fact |-> fact, from |-> r] : fact \in Facts(rec)}
     /\ reparse' = IF rec.tag \in {"far link", "far plain"}
                   THEN reparse \cup {[owner |-> owner, tag |-> rec.tag]} ELSE reparse
     /\ bad' = IF Broken(rec) THEN bad \cup {r} ELSE bad

Skips(rec) == rec.form = "other" \/ (rec.form # "baad" /\ ~rec.used)
Unread(r, rec) == rec.form = "baad" \/ (rec.base # NoBase /\ rec.base.id > records)

\* A read that is cancelled goes on to the end of its chunk, for nothing.
ReadRecord ==
  /\ outcome = "reading" /\ next <= records /\ ~cancelled
  /\ LET rec == Stored(next)
     IN IF Skips(rec) THEN UNCHANGED builder
        ELSE IF Unread(next, rec)
        THEN bad' = bad \cup {next} /\ UNCHANGED <<slots, names, deferred, reparse>>
        ELSE Attributes(next, rec)
  /\ next' = next + 1 /\ torn' = FALSE
  /\ UNCHANGED <<disk, drive, records, listing, outcome, cancelled, history>>

\* A write in flight: the record is read once more, alone.
ReadTorn ==
  /\ outcome = "reading" /\ next <= records /\ Torn(next) /\ ~cancelled
  /\ ~Skips(Stored(next)) /\ Stored(next).form # "baad"
  /\ IF torn THEN bad' = bad \cup {next} /\ next' = next + 1 /\ torn' = FALSE
     ELSE torn' = TRUE /\ UNCHANGED <<bad, next>>
  /\ UNCHANGED <<disk, drive, records, slots, names, deferred, reparse, listing, outcome, cancelled, history>>

(***************************************************************************)
(* Settling what was read: resolve_reparse, Builder::finish and            *)
(* too_many_bad.                                                           *)
(***************************************************************************)
Untold(item) == item.owner.id \in drive.unreadable
resolve_reparse == deferred \cup
  {[owner |-> item.owner, fact |-> [of |-> "surrogate"], from |-> 0] :
     item \in {item \in reparse : Untold(item) \/ item.tag = "far link"}}
BadTags == {item.owner.id : item \in {item \in reparse : Untold(item) /\ is(slots[item.owner.id], item.owner.seq)}}

Settled == [r \in 1..records |->
  FoldSet(LAMBDA d, slot : apply(slot, d.fact), slots[r],
          {d \in resolve_reparse : d.owner.id = r /\ is(slots[r], d.owner.seq)})]
Kept == {n \in names : is(slots[n.record], n.seq)}
Links(r) == Cardinality({n \in Kept : n.record = r})
Entries == {n \in Kept : /\ n.record >= FIRST_USER_RECORD /\ n.parent <= records
                         /\ is(slots[n.parent], n.pseq) /\ slots[n.parent].dir}

is_directory(r) == slots[r].used /\ slots[r].dir

\* volume::read's last look; the links and the settled slots stay as they are.
Finish ==
  /\ outcome = "reading" /\ next > records /\ ~cancelled
  /\ bad' = bad \cup BadTags
  /\ IF Cardinality(bad') > MayBeBad \/ ~is_directory(Root)
     THEN outcome' = "walk" /\ UNCHANGED <<slots, names, listing>>
     ELSE /\ outcome' = "listing"
          /\ slots' = [r \in 1..records |-> [Settled[r] EXCEPT !.links = Links(r)]]
          /\ names' = Entries
          /\ listing' = [stack |-> <<Root>>, placed |-> {}]
  /\ deferred' = {} /\ reparse' = {}
  /\ UNCHANGED <<disk, drive, records, next, torn, cancelled, history>>

(***************************************************************************)
(* The tree made of it: Table::children and from_table.                    *)
(***************************************************************************)
Kind(slot) == IF slot.link THEN "symlink" ELSE IF slot.dir THEN "dir" ELSE "file"
children(d) ==
  {LET slot == slots[n.record]
   IN [dir |-> d, dseq |-> slots[d].seq, as |-> n.as, record |-> n.record, seq |-> slot.seq, kind |-> Kind(slot), from |-> n.from,
       size |-> IF slot.dir THEN 0 ELSE slot.size, alloc |-> slot.alloc, links |-> slot.links] :
   n \in {n \in names : n.parent = d}}

from_table ==
  /\ outcome = "listing" /\ ~cancelled
  /\ IF listing.stack = <<>> THEN outcome' = "table" /\ UNCHANGED listing
     ELSE LET dir == Last(listing.stack)
              subdirs == {child.record : child \in {child \in children(dir) : child.kind = "dir"}}
          IN /\ listing' = [stack |-> Front(listing.stack) \o SetToSortSeq(subdirs, <),
                            placed |-> listing.placed \cup children(dir)]
             /\ UNCHANGED outcome
  /\ UNCHANGED <<disk, drive, records, next, torn, builder, cancelled, history>>

Rests == outcome \in {"table", "walk"} /\ UNCHANGED ntfs

NtfsInit ==
  /\ \E v \in Disks : drive = v /\ disk = v.record /\ records = v.length
  /\ next = 1 /\ torn = FALSE
  /\ slots = [r \in 1..records |-> NoSlot]
  /\ names = {} /\ deferred = {} /\ reparse = {} /\ bad = {}
  /\ listing = [stack |-> <<>>, placed |-> {}]
  /\ outcome = "open" /\ cancelled = FALSE
  /\ past = {disk} /\ touched = {} /\ writes = 0

NtfsNext == InUse \/ Opens \/ Cancel \/ CancelSeen \/ ReadRecord \/ ReadTorn \/ Finish \/ from_table \/ Rests
NtfsSpec == NtfsInit /\ [][NtfsNext]_ntfs

(***************************************************************************)
(* Properties.                                                             *)
(***************************************************************************)
Read == outcome = "table"
Whole == Read /\ ~cancelled
Extensions(d, r) == {e \in DOMAIN d : d[e].used /\ d[e].base = [id |-> r, seq |-> d[r].seq]}
NamesOf(d, r) == UNION {d[e].names : e \in {r} \cup Extensions(d, r)}
SizeOf(d, r) == FoldSet(LAMBDA e, sum : sum + d[e].data, 0, {r} \cup Extensions(d, r))
First == drive.record

\* A file that nobody wrote to, in a record and in extensions that can be read.
Legible(r) == First[r].form = "file" /\ First[r].used /\ First[r].base = NoBase
              /\ r \notin touched /\ ({r} \cup Extensions(First, r)) \cap (bad \ drive.unreadable) = {}
              /\ \A e \in Extensions(First, r) : First[e].form = "file"
RECURSIVE Reachable(_)
Reachable(r) == r = Root \/ (Legible(r) /\ First[r].dir /\ First[r].tag = "none"
                           /\ \E n \in First[r].names : Reachable(n.parent))

Tag(r) == {First[e].tag : e \in {r} \cup Extensions(First, r)}
IsLink(r) == Tag(r) \cap {"link", "far link"} # {} \/ ("far plain" \in Tag(r) /\ r \in drive.unreadable)

\* What stood still while the table was read is in the tree as it is on the
\* disk: under each of its names once, DOS aliases left out, with its size, its
\* links and its kind, wherever its records are and in whatever order they
\* came; a reparse point whose tag could not be read is a link, and told of.
StillIsListed ==
  Whole => \A r \in Users \cap 1..drive.length : Legible(r) =>
    /\ \A n \in NamesOf(First, r) : ~n.dos /\ Reachable(n.parent) =>
         \E e \in listing.placed :
           /\ {other \in listing.placed : other.dir = n.parent /\ other.record = r /\ other.as = n.as} = {e}
           /\ e.size = (IF First[r].dir THEN 0 ELSE SizeOf(First, r)) /\ e.alloc = SizeOf(First, r)
           /\ e.links = Cardinality({other \in NamesOf(First, r) : ~other.dos})
           /\ e.kind = (IF IsLink(r) THEN "symlink" ELSE IF First[r].dir THEN "dir" ELSE "file")
    /\ \A e \in listing.placed : e.record = r => \E n \in NamesOf(First, r) : ~n.dos /\ n.as = e.as
    /\ r \in drive.unreadable /\ Tag(r) \cap {"far link", "far plain"} # {} => r \in bad

\* Nothing in the tree was put together from two files: what is listed had that
\* name in that directory at some moment of the read, and its size is one the
\* same file had, or none.
NothingMixed ==
  Read => \A e \in listing.placed :
    /\ \E d \in past : d[e.record].used /\ d[e.record].seq = e.seq
         /\ \E n \in NamesOf(d, e.record) : n.as = e.as /\ n.parent = e.dir /\ n.pseq = e.dseq
    /\ \E d \in past : d[e.dir].used /\ d[e.dir].dir /\ d[e.dir].seq = e.dseq
    /\ e.size = 0 \/ \E d \in past : \E x \in {e.record} \cup Extensions(d, e.record) :
                       d[e.record].seq = e.seq /\ d[x].data = e.size

\* Only what could not be read is told of as unreadable: what chkdsk or a broken
\* attribute spoiled, what was being written, what was added past the table's
\* end, and tags that are nowhere.
BadIsBad ==
  Read => bad \subseteq touched \cup drive.unreadable \cup
            {r \in Users : First[r].form \in {"baad", "broken"}}

\* The table read from a live volume is a table of that volume: ntfs/mod.rs:6.
TableIsTheDisk == StillIsListed /\ NothingMixed /\ BadIsBad
=============================================================================
