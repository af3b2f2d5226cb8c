--------------------------- MODULE JournaledDisk ---------------------------
(***************************************************************************)
(* What an incremental rescan (crates/scan-core/src/rescan.rs) is built    *)
(* on: a disk that changes while it is scanned, and the journal of its     *)
(* changes (journal.rs, fsevents.rs).                                      *)
(*                                                                         *)
(* A name is a path; what a path can hold, a directory or a file, never    *)
(* changes.  A file may have several names, some outside the root.  A      *)
(* volume may be mounted over some directories: what is on it changes      *)
(* without a record in the journal.                                        *)
(*                                                                         *)
(* The journal keeps the records of changes in the order the changes were  *)
(* made.  A replay may report one with less detail than it has, or under   *)
(* another spelling of its path.                                           *)
(***************************************************************************)
EXTENDS Integers, FiniteSets, Sequences

CONSTANTS
  Root, Dirs, Files,       \* names
  Parent,                  \* the directory each name but the root is in
  MountPoints,             \* directories a volume may be mounted over
  DirInodes, FileInodes, Absent,
  Foreign,                 \* whatever is on a volume mounted
  OtherSpelling,           \* kinds of records that may spell a name otherwise
  MaxChanges               \* how often the disk changes, or a directory of it cannot be read

Names  == Dirs \cup Files
Inside == Names \ {Root}
Inodes == DirInodes \cup FileInodes
None   == Absent

Children == [d \in Dirs |-> {n \in Inside : Parent[n] = d}]

\* With a name, the directories it is in.
Upward(S) == \A n \in S \ {Root} : Parent[n] \in S

\* The names from the root's entry down to a name, itself included.
Path == [n \in Names |-> {m \in Inside : \A S \in SUBSET Names : n \in S /\ Upward(S) => m \in S}]

Below == [d \in Names |-> {n \in Inside : n # d /\ (d = Root \/ d \in Path[n])}]

ASSUME DiskAssumption ==
  /\ IsFiniteSet(Names) /\ Dirs \cap Files = {} /\ Root \in Dirs
  /\ Parent \in [Inside -> Dirs]
  /\ \A S \in SUBSET Names : S # {} /\ Upward(S) => Root \in S
  /\ DirInodes \cap FileInodes = {} /\ Absent \notin Inodes \cup Names
  /\ Foreign \notin Inodes \cup {Absent}
  /\ MountPoints \subseteq Dirs \ {Root}
  /\ \A m, n \in MountPoints : m \notin Below[n]
  /\ MaxChanges \in Nat

VARIABLES
  own,      \* what each name of the root's volume is: an inode, or Absent
  version,  \* the contents and the metadata of each inode
  outside,  \* inodes that have a name outside the root
  mounted,  \* mount points a volume covers
  volume,   \* the contents of the files on that volume
  log,      \* the journal: its records so far
  numbered, \* how many of them are known to have their number
  journal,  \* the journal's identity
  changes   \* how often the disk has changed

disk == <<own, version, outside, mounted, volume>>
diskVars == <<disk, log, numbered, journal, changes>>

(***************************************************************************)
(* What a listing shows of a name.                                         *)
(***************************************************************************)
NamesOf(i) == {n \in Inside : own[n] = i}
Links(i)   == Cardinality(NamesOf(i)) + (IF i \in outside THEN 1 ELSE 0)

Covered(n) == \E m \in mounted : n \in Below[m]

Missing == [of |-> Absent, version |-> 0, links |-> 0]

Entry(n) ==
  IF Covered(n) THEN [of |-> Foreign, version |-> volume, links |-> 1]
  ELSE IF n \in mounted THEN [of |-> Foreign, version |-> 0, links |-> 1]
  ELSE IF own[n] = Absent THEN Missing
  ELSE [of |-> own[n], version |-> version[own[n]], links |-> Links(own[n])]

Entries ==
  [of : Inodes \cup {Absent, Foreign}, version : {0, 1},
   links : 0..(Cardinality(Names) + 1)]

\* The directory above a name is there, and the root's volume shows it.
Reachable(n) == (Parent[n] # Root => own[Parent[n]] # Absent) /\ ~Covered(n)

(***************************************************************************)
(* Records, and what a replay makes of one.  `odd` is the first component  *)
(* of the path that is spelled otherwise than a listing spells it, None    *)
(* where there is none.                                                    *)
(***************************************************************************)
Rec(n, k) == [name |-> n, kind |-> k]

Records == [name : Names, kind : {"Modified", "Created", "Renamed", "Removed"}]

Report(n, k, o) == [name |-> n, kind |-> k, odd |-> o]

\* A record is reported in full, under another spelling, as something that
\* changed in the directory its name is in, or not at all but as lost.
Reports(r) ==
  {Report(r.name, r.kind, None), Report(Root, "Lost", None)}
    \cup {Report(r.name, r.kind, o) : o \in IF r.kind \in OtherSpelling THEN Path[r.name] ELSE {}}
    \cup (IF r.name = Root THEN {} ELSE {Report(Parent[r.name], "SubtreeUnknown", None)})

DiskInit ==
  /\ volume = 0
  /\ log = <<>>
  /\ numbered = 0
  /\ journal = 0
  /\ changes = 0

Changed(records) ==
  /\ changes' = changes + 1
  /\ log' = log \o records
  /\ UNCHANGED <<numbered, journal>>

Recorded(n, k) == Changed(<<Rec(n, k)>>)

Unrecorded == Changed(<<>>)

(***************************************************************************)
(* Changes.                                                                *)
(***************************************************************************)

\* A file is written through one of its names, or a directory's own metadata
\* changes.
Write(n) ==
  /\ own[n] # Absent /\ ~Covered(n) /\ n \notin mounted
  /\ version' = [version EXCEPT ![own[n]] = 1 - @]
  /\ Recorded(n, "Modified")
  /\ UNCHANGED <<own, outside, mounted, volume>>

\* A file is written through a name outside the root, which the journal does
\* not report to a replay of the root.
WriteOutside(i) ==
  /\ i \in outside /\ NamesOf(i) # {}
  /\ version' = [version EXCEPT ![i] = 1 - @]
  /\ Unrecorded
  /\ UNCHANGED <<own, outside, mounted, volume>>

Unused == {i \in Inodes : NamesOf(i) = {} /\ i \notin outside}

Create(n) ==
  /\ own[n] = Absent /\ Reachable(n) /\ n \notin mounted
  /\ \E i \in Unused \cap (IF n \in Dirs THEN DirInodes ELSE FileInodes) :
       own' = [own EXCEPT ![n] = i]
  /\ Recorded(n, "Created")
  /\ UNCHANGED <<version, outside, mounted, volume>>

Remove(n) ==
  /\ own[n] # Absent /\ ~Covered(n) /\ n \notin mounted
  /\ \A m \in Below[n] : own[m] = Absent
  /\ own' = [own EXCEPT ![n] = Absent]
  /\ Recorded(n, "Removed")
  /\ UNCHANGED <<version, outside, mounted, volume>>

\* A name and all below it leave the root; nothing below it is recorded.
MoveOut(n) ==
  LET gone == {n} \cup Below[n] IN
  /\ own[n] # Absent /\ ~Covered(n) /\ gone \cap mounted = {}
  /\ {own[m] : m \in gone} \cap outside = {}
  /\ own' = [m \in Inside |-> IF m \in gone THEN Absent ELSE own[m]]
  /\ outside' = outside \cup ({own[m] : m \in gone} \ {Absent})
  /\ Recorded(n, "Renamed")
  /\ UNCHANGED <<version, mounted, volume>>

\* A name arrives with all below it, some of it files that have other names.
Arrivals(n) ==
  LET brought == {n} \cup Below[n] IN
  {f \in [brought -> outside \cup {Absent}] :
     /\ \A m \in brought : f[m] \in (IF m \in Dirs THEN DirInodes ELSE FileInodes) \cup {Absent}
     /\ f[n] # Absent
     /\ \A m \in brought \ {n} : f[m] # Absent => f[Parent[m]] # Absent
     /\ \A m, k \in brought : m # k /\ f[m] # Absent => f[m] # f[k]}

MoveIn(n) ==
  /\ outside # {} /\ own[n] = Absent /\ Reachable(n) /\ n \notin mounted
  /\ \E f \in Arrivals(n) :
       /\ own' = [m \in Inside |-> IF m \in DOMAIN f THEN f[m] ELSE own[m]]
       /\ outside' = outside \ {f[m] : m \in DOMAIN f}
  /\ Recorded(n, "Renamed")
  /\ UNCHANGED <<version, mounted, volume>>

\* A second name for a file: its directory is recorded as created, besides
\* the new name.
Link(n, m) ==
  /\ own[n] # Absent /\ ~Covered(n)
  /\ own[m] = Absent /\ Reachable(m)
  /\ own' = [own EXCEPT ![m] = own[n]]
  /\ Changed(<<Rec(m, "Created"), Rec(Parent[n], "Created")>>)
  /\ UNCHANGED <<version, outside, mounted, volume>>

\* The same, where the second name is outside the root.
LinkOutside(n) ==
  /\ own[n] # Absent /\ ~Covered(n) /\ own[n] \notin outside
  /\ outside' = outside \cup {own[n]}
  /\ Recorded(Parent[n], "Created")
  /\ UNCHANGED <<own, version, mounted, volume>>

UnlinkOutside(i) ==
  /\ i \in outside /\ NamesOf(i) # {}
  /\ outside' = outside \ {i}
  /\ Unrecorded
  /\ UNCHANGED <<own, version, mounted, volume>>

\* A volume is mounted, written to and unmounted without a record.
Mount(m) ==
  /\ m \notin mounted /\ own[m] # Absent
  /\ mounted' = mounted \cup {m}
  /\ Unrecorded
  /\ UNCHANGED <<own, version, outside, volume>>

Unmount(m) ==
  /\ m \in mounted
  /\ mounted' = mounted \ {m}
  /\ Unrecorded
  /\ UNCHANGED <<own, version, outside, volume>>

WriteVolume ==
  /\ mounted # {}
  /\ volume' = 1 - volume
  /\ Unrecorded
  /\ UNCHANGED <<own, version, outside, mounted>>

\* The journal is thrown away and begun again under another identity; once.
Discard ==
  /\ journal = 0
  /\ journal' = 1
  /\ changes' = changes + 1
  /\ log' = <<>> /\ numbered' = 0
  /\ UNCHANGED disk

\* Every change but a mount and a discarded journal.
Change ==
  \/ \E n \in Inside : Write(n) \/ Create(n) \/ Remove(n) \/ MoveOut(n) \/ MoveIn(n)
  \/ \E n, m \in Files : Link(n, m)
  \/ \E n \in Files : LinkOutside(n)
  \/ \E i \in FileInodes : WriteOutside(i) \/ UnlinkOutside(i)
  \/ \E m \in MountPoints : Unmount(m)
  \/ WriteVolume

DiskTypeOK ==
  /\ own \in [Inside -> Inodes \cup {Absent}]
  /\ version \in [Inodes -> {0, 1}]
  /\ outside \subseteq Inodes
  /\ mounted \subseteq MountPoints
  /\ volume \in {0, 1}
  /\ log \in Seq(Records)
  /\ numbered \in 0..Len(log)
  /\ journal \in {0, 1}
  /\ changes \in 0..MaxChanges
=============================================================================
