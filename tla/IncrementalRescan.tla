------------------------- MODULE IncrementalRescan -------------------------
(***************************************************************************)
(* Scans of one root, each built on the snapshot of the one before and on  *)
(* what the journal reports since (crates/scan-core/src/rescan.rs, and     *)
(* scan_recording, walk and place of scan.rs), and the snapshot stored.    *)
(*                                                                         *)
(* The disk changes at any moment, between two scans and while one asks    *)
(* the journal or walks.  A directory is listed at one moment, any other   *)
(* directory at another.                                                   *)
(*                                                                         *)
(* Left out: options, which stay what they are (another choice is one more *)
(* reason for ReadAll); clones, which share blocks as links do; a name     *)
(* that decodes or folds as another does; a root that is replaced.         *)
(***************************************************************************)
EXTENDS JournaledDisk

CONSTANTS
  Disks,            \* what the root may hold at first
  MaxScans,            \* how many scans are made
  MountsWhileScanning  \* a volume may be mounted while a scan runs

ASSUME RescanAssumption ==
  /\ Disks \subseteq [own : [Inside -> Inodes \cup {Absent}], outside : SUBSET FileInodes,
                     mounted : SUBSET MountPoints]
  /\ \A d \in Disks :
       /\ \A n \in Inside : d.own[n] # Absent /\ Parent[n] # Root => d.own[Parent[n]] # Absent
       /\ \A m \in d.mounted : d.own[m] # Absent
  /\ MaxScans \in Nat
  /\ MountsWhileScanning \in BOOLEAN

VARIABLES
  stored,     \* the latest snapshot, or NoSnapshot
  phase,      \* how far the scan is
  cursor,     \* Cursor: the journal's identity and position, taken before all else
  table,      \* the mount table as the scan read it
  barrier,    \* Journal::barrier: how many records were there
  dirty,      \* Dirty: what the journal reported, or NotDirty for a full scan
  at,         \* how each directory is read, or what became of it
  tree,       \* the entries of the tree being built
  charged,    \* the names charged the bytes of their file
  points,     \* directories flagged MOUNT_POINT
  errored,    \* directories flagged ERRORS
  counted,    \* ScanProgress::files and dirs together
  errors,     \* ScanProgress::errors
  scans,      \* how many there were
  recent      \* what each name has been since the barrier

built == <<tree, charged, points, errored, counted, errors>>
scan  == <<phase, cursor, table, barrier, dirty, at, built>>
vars  == <<diskVars, stored, scan, scans, recent>>

NoSnapshot == [cursor |-> [journal |-> 0, position |-> 0], tree |-> [n \in Inside |-> Missing],
               charged |-> {}, points |-> {}, errored |-> {}]

NotDirty == [marked |-> {}, recursive |-> {}, gone |-> {}, unplaced |-> {}]

Idle == phase = "Idle"

Init ==
  /\ \E d \in Disks : own = d.own /\ outside = d.outside /\ mounted = d.mounted
  /\ version = [i \in Inodes |-> 0]
  /\ DiskInit
  /\ stored = NoSnapshot
  /\ phase = "Idle"
  /\ cursor = NoSnapshot.cursor
  /\ table = {}
  /\ barrier = 0
  /\ dirty = NotDirty
  /\ at = [d \in Dirs |-> "Unknown"]
  /\ tree = NoSnapshot.tree
  /\ charged = {} /\ points = {} /\ errored = {} /\ counted = 0 /\ errors = 0
  /\ scans = 0
  /\ recent = [n \in Inside |-> {}]

(***************************************************************************)
(* The disk changes, from the first snapshot on; `recent` follows it.  The *)
(* journal is discarded only between two scans.                            *)
(***************************************************************************)
ChangeNow ==
  \/ Change
  \/ (Idle \/ MountsWhileScanning) /\ \E m \in MountPoints : Mount(m)
  \/ Idle /\ Discard

Since == [n \in Inside |-> {Entry(n)}]

DiskChanges ==
  /\ changes < MaxChanges
  /\ stored # NoSnapshot /\ (Idle => scans < MaxScans)
  /\ ChangeNow
  /\ recent' = IF phase \in {"Marked", "Walking"}
               THEN [n \in Inside |-> recent[n] \cup {Entry(n)'}] ELSE recent
  /\ UNCHANGED <<stored, scan, scans>>

(***************************************************************************)
(* A scan reads the mount table and takes its cursor; the journal has      *)
(* numbered its records up to some position.                               *)
(***************************************************************************)
Take ==
  /\ Idle /\ scans < MaxScans
  /\ scans' = scans + 1
  /\ table' = mounted
  /\ \E p \in numbered..Len(log) :
       /\ numbered' = p
       /\ cursor' = [journal |-> journal, position |-> p]
  /\ phase' = "Taken"
  /\ UNCHANGED <<disk, log, journal, changes, stored, barrier, dirty, at, built, recent>>

\* try_plan: the stored cursor is one of this journal, from its past.
Usable(c) ==
  /\ stored # NoSnapshot
  /\ stored.cursor.journal = c.journal
  /\ stored.cursor.position <= c.position

Mark ==
  /\ phase = "Taken" /\ Usable(cursor)
  /\ barrier' = Len(log)
  /\ phase' = "Marked"
  /\ recent' = Since
  /\ UNCHANGED <<diskVars, stored, cursor, table, dirty, at, built, scans>>

(***************************************************************************)
(* The records of a replay as paths to read again (Dirty::from_changes,    *)
(* mark_mounted).  A record's path is placed down to the first component   *)
(* that is spelled otherwise; the name under that spelling is `unplaced`   *)
(* in the directory above, unless it was said to be gone.                  *)
(***************************************************************************)
Moved(r) == r.kind \in {"Created", "Removed", "Renamed"}
Gone(r)  == r.kind \in {"Removed", "Renamed"}
DirMoved(r) == r.name \in Dirs /\ Moved(r)

Placed(r)  == r.odd = None
Reached(r) == IF Placed(r) THEN Path[r.name] ELSE Path[r.odd] \ {r.odd}

\* Directories and what is below are read again.
Recursive(r) == Placed(r) /\ (DirMoved(r) \/ r.kind = "SubtreeUnknown")

Excused(o, records) == \E r \in records : r.odd = o /\ r.name = o /\ Gone(r)

Strangers(records) ==
  {r.odd : r \in {q \in records : ~Placed(q) /\ ~Excused(q.odd, records)}}

Unplaced(records) == {Parent[o] : o \in Strangers(records)}

FromChanges(records) ==
  [marked    |-> UNION ({Reached(r) : r \in records} \cup {Path[m] : m \in table}),
   recursive |-> {r.name : r \in {q \in records : Recursive(q)}} \cup table,
   gone      |-> {r.name : r \in {q \in records : Placed(q) /\ Gone(q)}},
   unplaced  |-> Unplaced(records)]

\* What makes the records useless.
Refused(records) ==
  \E r \in records : \/ r.kind = "Lost"
                     \/ r.name = Root /\ (DirMoved(r) \/ r.kind = "SubtreeUnknown")

\* Mutant: the replay does not wait for the mark.
Unawaited == stored.cursor.position..Len(log)

\* How far the answer of a replay may reach: at least to the mark.
Answers == barrier..Len(log)

Replays(upto) ==
  LET from == stored.cursor.position + 1
      forms == [from..upto -> UNION {Reports(log[p]) : p \in from..upto}]
  IN {{f[p] : p \in from..upto} : f \in {g \in forms : \A p \in from..upto : g[p] \in Reports(log[p])}}

StartWalk(d, how) ==
  /\ dirty' = d
  /\ at' = [n \in Dirs |-> IF n = Root THEN how ELSE "Unknown"]
  /\ tree' = NoSnapshot.tree
  /\ charged' = {} /\ points' = {} /\ errored' = {}
  /\ counted' = 1 /\ errors' = 0
  /\ table' = {} /\ barrier' = 0
  /\ phase' = "Walking"

Replay ==
  /\ phase = "Marked"
  /\ \E upto \in Answers :
       /\ numbered' = upto
       /\ \E records \in Replays(upto) :
            ~Refused(records) /\ StartWalk(FromChanges(records), "Changed")
  /\ UNCHANGED <<disk, log, journal, changes, stored, cursor, scans, recent>>

\* A full scan: there is no base, or no answer for any of many reasons.
ReadAll ==
  /\ phase \in {"Taken", "Marked"}
  /\ StartWalk(NotDirty, "Whole")
  /\ recent' = Since
  /\ UNCHANGED <<diskVars, stored, cursor, scans>>

(***************************************************************************)
(* One directory is listed, and what becomes of its subdirectories decided *)
(* (Splice::plan, DirPlan::next).  A directory is read "Whole" with all    *)
(* below it, or as one the journal reported something below ("Changed") or *)
(* did not ("Unchanged"), or its contents are taken over ("Copied").       *)
(***************************************************************************)
\* Mutant: the flags of what is below are not rolled up.
FlaggedItself(d) == d \in stored.points \cup stored.errored

Flagged(d) ==
  \E n \in {d} \cup Below[d] : n \in stored.points \cup stored.errored \/ stored.tree[n].links > 1

HeldBelow(d) == {n \in Below[d] : stored.tree[n] # Missing}

Reported(d) == IF at[d] = "Changed" THEN dirty.marked \cap Children[d] ELSE {}

Listing(d) == {c \in Children[d] : Entry(c) # Missing}
Subdirs(d) == Listing(d) \cap Dirs

\* Subdirectories on another device than the one the listing above showed
\* for this directory.
Boundaries(d) ==
  {c \in Subdirs(d) : (Entry(c).of = Foreign) # (d # Root /\ tree[d].of = Foreign)}

\* The journal named something here that the listing does not hold.
LostTrack(d) ==
  /\ at[d] = "Changed"
  /\ d \in dirty.unplaced \/ ~(Reported(d) \ dirty.gone \subseteq Listing(d))

ReadWhole(d) ==
  {c \in Subdirs(d) : \/ at[d] = "Whole" \/ LostTrack(d)
                      \/ c \in Boundaries(d) \/ c \in stored.points
                      \/ c \in Reported(d) /\ c \in dirty.recursive
                      \/ c \notin Reported(d) /\ stored.tree[c] = Missing}

Copies(d) ==
  {c \in Subdirs(d) \ ReadWhole(d) :
     c \notin Reported(d) /\ ~Flagged(c) /\ HeldBelow(c) # {}}

How(d, c) ==
  IF c \in ReadWhole(d) THEN "Whole"
  ELSE IF c \in Copies(d) THEN "Copied"
  ELSE IF c \in Reported(d) THEN "Changed" ELSE "Unchanged"

\* Of the names of files with more than one, one for each file not charged yet.
Claims(d) ==
  LET linked  == {n \in Listing(d) \cap Files : Entry(n).links > 1}
      claimed == {tree[n].of : n \in {m \in charged : tree[m].links > 1}}
  IN {CHOOSE n \in linked : Entry(n).of = i : i \in {Entry(n).of : n \in linked} \ claimed}

CopiedCount(d) == Cardinality(UNION {HeldBelow(c) : c \in Copies(d)})

Reading(d) == phase = "Walking" /\ at[d] \in {"Whole", "Changed", "Unchanged"}

There(d) == d # Root => Entry(d) # Missing

List(d) ==
  /\ Reading(d) /\ There(d)
  /\ at' = [c \in Dirs |-> IF c = d THEN "Listed"
                           ELSE IF c \in Subdirs(d) THEN How(d, c) ELSE at[c]]
  /\ tree' = [n \in Inside |-> IF n \in Listing(d) THEN Entry(n) ELSE tree[n]]
  /\ charged' = charged \cup Claims(d) \cup {n \in Listing(d) \cap Files : Entry(n).links = 1}
  /\ points' = points \cup Boundaries(d)
  /\ counted' = counted + Cardinality(Listing(d)) + CopiedCount(d)
  /\ UNCHANGED <<diskVars, stored, phase, cursor, table, barrier, dirty, errored, errors,
                 scans, recent>>

\* A directory that is gone by now, or cannot be read this time.
Unreadable(d) ==
  /\ Reading(d)
  /\ \/ ~There(d) /\ UNCHANGED changes
     \/ There(d) /\ changes < MaxChanges /\ changes' = changes + 1
  /\ at' = [at EXCEPT ![d] = "Listed"]
  /\ errored' = errored \cup {d}
  /\ errors' = errors + 1
  /\ UNCHANGED <<disk, log, numbered, journal, stored, phase, cursor, table, barrier, dirty,
                 tree, charged, points, counted, scans, recent>>

(***************************************************************************)
(* The walk is over: the subtrees taken over are copied (copy_into), and   *)
(* the snapshot is stored, or the scan was given up and leaves nothing.    *)
(***************************************************************************)
Filled == {n \in Inside : \E d \in Dirs : at[d] = "Copied" /\ n \in Below[d]}

Finish ==
  /\ phase = "Walking"
  /\ \A d \in Dirs : ~Reading(d)
  /\ tree' = [n \in Inside |-> IF n \in Filled THEN stored.tree[n] ELSE tree[n]]
  /\ charged' = charged \cup (stored.charged \cap Filled)
  /\ points' = points \cup (stored.points \cap Filled)
  /\ errored' = errored \cup (stored.errored \cap Filled)
  /\ phase' = "Finished"
  /\ UNCHANGED <<diskVars, stored, cursor, table, barrier, dirty, at, counted, errors,
                 scans, recent>>

Forget ==
  /\ phase' = "Idle"
  /\ cursor' = NoSnapshot.cursor
  /\ table' = {} /\ barrier' = 0 /\ dirty' = NotDirty
  /\ at' = [d \in Dirs |-> "Unknown"]
  /\ tree' = NoSnapshot.tree
  /\ charged' = {} /\ points' = {} /\ errored' = {} /\ counted' = 0 /\ errors' = 0
  /\ recent' = [n \in Inside |-> {}]
  /\ UNCHANGED <<diskVars, scans>>

Save ==
  /\ phase = "Finished"
  /\ stored' = [cursor |-> cursor, tree |-> tree, charged |-> charged,
                points |-> points, errored |-> errored]
  /\ Forget

GiveUp ==
  /\ ~Idle
  /\ UNCHANGED stored
  /\ Forget

Scan ==
  \/ Take \/ Mark \/ Replay \/ ReadAll
  \/ \E d \in Dirs : List(d) \/ Unreadable(d)
  \/ Finish \/ Save \/ GiveUp

Next == DiskChanges \/ Scan

Spec == Init /\ [][Next]_vars

(***************************************************************************)
(* Properties.                                                             *)
(***************************************************************************)
Snapshots ==
  [cursor : [journal : {0, 1}, position : 0..(2 * MaxChanges)],
   tree : [Inside -> Entries], charged : SUBSET Files, points : SUBSET Dirs,
   errored : SUBSET Dirs]

TypeOK ==
  /\ DiskTypeOK
  /\ phase \in {"Idle", "Taken", "Marked", "Walking", "Finished"}
  /\ at \in [Dirs -> {"Unknown", "Whole", "Changed", "Unchanged", "Copied", "Listed"}]
  /\ table \subseteq MountPoints
  /\ barrier \in 0..(2 * MaxChanges)
  /\ dirty \in [marked : SUBSET Inside, recursive : SUBSET Names, gone : SUBSET Inside,
                unplaced : SUBSET Dirs]
  /\ stored \in Snapshots
  /\ tree \in [Inside -> Entries]
  /\ charged \subseteq Files /\ points \subseteq Dirs /\ errored \subseteq Dirs
  /\ counted \in Nat /\ errors \in Nat
  /\ scans \in 0..MaxScans
  /\ \A n \in Inside : recent[n] \subseteq Entries

\* A directory above a name could not be read.
Unseen(n) == ({Root} \cup Path[n]) \cap errored # {}

\* A finished tree shows every name as it was at some moment since the scan
\* marked the journal, whether it was read or copied, unless a directory
\* above it could not be read.  With a quiet disk it is what a full scan reads.
EachIsRecent ==
  phase = "Finished" => \A n \in Inside : Unseen(n) \/ tree[n] \in recent[n]

\* Where nothing changed since the scan marked the journal, each file is
\* charged at one of its names, though some names may be copied, others read.
ChargedOnce ==
  phase = "Finished" /\ (\A n \in Inside : recent[n] = {Entry(n)}) =>
    \A i \in FileInodes :
      LET names == {n \in Files : tree[n].of = i}
      IN names # {} => Cardinality(names \cap charged) = 1

\* What a scan counted is what is in its tree, copied or read: the entries,
\* and the directories flagged for an error.
CountersAgree ==
  phase = "Finished" =>
    /\ counted = 1 + Cardinality({n \in Inside : tree[n] # Missing})
    /\ errors = Cardinality(errored)

\* What is copied beside what is read is neither charged nor counted twice.
ChargedAndCounted == ChargedOnce /\ CountersAgree

=============================================================================
