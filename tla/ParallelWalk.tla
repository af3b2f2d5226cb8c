---------------------------- MODULE ParallelWalk ----------------------------
(***************************************************************************)
(* The walk of a full scan (crates/scan-core/src/scan.rs), with the claims *)
(* on hard links, clone families and shared extents (clones.rs,            *)
(* extents.rs), the errors it meets, and a cancel.                         *)
(*                                                                         *)
(* Directories are listed in parallel, one walker each; the pool's size is *)
(* not bounded, so every interleaving of any pool is a behaviour.  A       *)
(* name is its place in the order by (depth, path), the one PathOrder      *)
(* compares (tree.rs); what a name is charged is the set of blocks of the  *)
(* disk that are counted at it, not their number.                          *)
(*                                                                         *)
(* The disk does not change while it is scanned, and both deduplications   *)
(* are on, as by default.                                                  *)
(***************************************************************************)
EXTENDS Integers, FiniteSets

CONSTANTS
  Root, Dirs, Files,  \* names, as their place in (depth, path) order
  Parent,             \* the directory each name but the root is in
  Inodes, Families, NoFamily, Blocks,
  MaxWalkDepth,       \* MAX_WALK_DEPTH
  Disks               \* the disks considered: records of DiskRecords

Names == Dirs \cup Files

\* How many directories lie above a name; `walk` counts them from one.
Depth[n \in Names] == IF n = Root THEN 0 ELSE Depth[Parent[n]] + 1

(***************************************************************************)
(* What a scan finds: the file each name is of, the files with more than   *)
(* one name (some perhaps outside the root), the clone family and the      *)
(* blocks of each file, the blocks the file system reports as shared, the  *)
(* names that cannot be read, the files whose extents cannot be, and the   *)
(* directories the options leave out.  A file is in a clone family (macOS) *)
(* or has shared extents (Linux), never both.                              *)
(***************************************************************************)
DiskRecords ==
  [ino : [Files -> Inodes], linked : SUBSET Inodes,
   family : [Inodes -> Families \cup {NoFamily}],
   blocks : [Inodes -> SUBSET Blocks], shared : SUBSET Blocks,
   broken : SUBSET (Names \ {Root}), unmapped : SUBSET Files,
   skipped : SUBSET Dirs]

Consistent(d) ==
  /\ \A m, n \in Files : m # n /\ d.ino[m] = d.ino[n] => d.ino[m] \in d.linked
  /\ \A i, j \in Inodes : i # j =>
       \/ d.blocks[i] \cap d.blocks[j] \subseteq d.shared
       \/ d.family[i] = d.family[j] /\ d.family[i] # NoFamily
  /\ \A i \in Inodes : d.family[i] # NoFamily => d.blocks[i] \cap d.shared = {}

ASSUME WalkAssumption ==
  /\ Names \subseteq Nat /\ IsFiniteSet(Names) /\ Dirs \cap Files = {}
  /\ Root \in Dirs
  /\ Parent \in [Names \ {Root} -> Dirs]
  /\ \A n \in Names \ {Root} : Parent[n] < n
  /\ NoFamily \notin Families
  /\ IsFiniteSet(Blocks)
  /\ MaxWalkDepth \in Nat
  /\ Disks \subseteq DiskRecords
  /\ \A d \in Disks : Consistent(d)

VARIABLES
  disk,          \* one of Disks, never changed
  cancelled,     \* ScanProgress::cancelled
  at,            \* each directory: how far its walker is
  charge,        \* each file: the Charge its directory's walker decided
  seenInodes,    \* Ctx::seen_inodes
  sharedBlocks,  \* Ctx::shared_blocks: families already charged
  arena,         \* each name's alloc in the arena, as blocks
  errored,       \* Ctx::errored
  bytes,         \* ScanProgress::bytes
  deduped,       \* Ctx::shared_bytes_deduped
  phase          \* how far scan_recording is

claims == <<seenInodes, sharedBlocks>>
counters == <<bytes, deduped>>
vars == <<disk, cancelled, at, charge, claims, arena, errored, counters, phase>>

(***************************************************************************)
(* The entries of a directory.                                             *)
(***************************************************************************)
Children(d) == {n \in Names \ {Root} : Parent[n] = d}
Listing(d)  == Children(d) \ disk.broken
FilesIn(d)  == Listing(d) \cap Files

Ino(n)          == disk.ino[n]
Family(n)       == disk.family[Ino(n)]
Held(n)         == disk.blocks[Ino(n)]
IsHardlinked(n) == Ino(n) \in disk.linked

\* map_file and `interesting`: an entry that could be mapped and shares
\* something.
Shared(n) == Held(n) \cap disk.shared
Mapped(n) == n \notin disk.unmapped /\ Shared(n) # {}

\* The number of bytes `f` gives the names in S.
Total(S, f) == Cardinality({p \in S \X Blocks : p[2] \in f[p[1]]})

\* The names that are in the arena.
Placed == {Root} \cup {n \in Names \ {Root} : at[Parent[n]] = "Placed" /\ n \notin disk.broken}

Init ==
  /\ disk \in Disks
  /\ cancelled = FALSE
  /\ at = [d \in Dirs |-> IF d = Root THEN "Queued" ELSE "Unknown"]
  /\ charge = [n \in Files |-> "Undecided"]
  /\ seenInodes = {}
  /\ sharedBlocks = {}
  /\ arena = [n \in Names |-> {}]
  /\ errored = {}
  /\ bytes = 0
  /\ deduped = 0
  /\ phase = "Walking"

\* The user gives up, at any time.
Cancel ==
  /\ ~cancelled /\ phase # "Done" /\ phase # "Cancelled"
  /\ cancelled' = TRUE
  /\ UNCHANGED <<disk, at, charge, claims, arena, errored, counters, phase>>

(***************************************************************************)
(* One directory's walker.                                                 *)
(***************************************************************************)
Walker(d, from, to) ==
  /\ at[d] = from
  /\ at' = [at EXCEPT ![d] = to]
  /\ UNCHANGED <<disk, cancelled, phase>>

\* `walk` of a cancelled scan returns before it reads anything.
Skip(d) ==
  /\ cancelled
  /\ Walker(d, "Queued", "Skipped")
  /\ UNCHANGED <<charge, claims, arena, errored, counters>>

\* note_error, for the entries that could not be read.
ListErrors(d) == IF Children(d) \cap disk.broken = {} THEN {} ELSE {d}

\* The directory is read. A directory that cannot be opened is one all of
\* whose entries are lost.
List(d) ==
  /\ ~cancelled
  /\ Walker(d, "Queued", "Listed")
  /\ errored' = errored \cup ListErrors(d)
  /\ UNCHANGED <<charge, claims, arena, counters>>

\* The files whose extents a cancel kept map_file from reading: it may come
\* anywhere in the listing.
Missed(d) == IF cancelled THEN {n \in FilesIn(d) : Mapped(n)} ELSE {}

LinkedIn(d) == {n \in FilesIn(d) : IsHardlinked(n)}

\* Mutant: every name of a hard link that its directory has first.
FirstInDirectory(kept, names) ==
  /\ kept \subseteq names
  /\ \A i \in {Ino(n) : n \in names} : \E n \in kept : Ino(n) = i
  /\ \A m, n \in kept : Ino(m) = Ino(n) => m = n

\* `seen.insert`, entry after entry in the order they were listed in, which is
\* any: `kept` has one name of each inode nobody has claimed.
FirstLinks(kept, names) ==
  /\ kept \subseteq {n \in names : Ino(n) \notin seenInodes}
  /\ \A i \in {Ino(n) : n \in names} \ seenInodes : \E n \in kept : Ino(n) = i
  /\ \A m, n \in kept : Ino(m) = Ino(n) => m = n

\* `claim`, under the lock of seen_inodes, when all of the directory has been
\* listed and mapped. "Unmapped" is Full of a file that was not.
ClaimLinks(d) ==
  /\ Walker(d, "Listed", "Linked")
  /\ \E kept \in SUBSET LinkedIn(d), missed \in SUBSET Missed(d) :
       /\ FirstLinks(kept, LinkedIn(d))
       /\ charge' = [n \in Files |->
            IF n \in LinkedIn(d) \ kept THEN "Nothing"
            ELSE IF n \in missed THEN "Unmapped"
            ELSE IF n \in FilesIn(d) THEN "Full" ELSE charge[n]]
  /\ seenInodes' = seenInodes \cup {Ino(n) : n \in LinkedIn(d)}
  /\ UNCHANGED <<sharedBlocks, arena, errored, counters>>

\* Mutant: a repeat hard link consumes its family's claim.
ClonesAndRepeats(d) == {n \in FilesIn(d) : Family(n) # NoFamily}

\* The entries with a family, less the repeat hard links.
ClonesIn(d) == {n \in FilesIn(d) : charge[n] = "Full" /\ Family(n) # NoFamily}

FirstClones(kept, names) ==
  /\ kept \subseteq {n \in names : Family(n) \notin sharedBlocks}
  /\ \A f \in {Family(n) : n \in names} \ sharedBlocks : \E n \in kept : Family(n) = f
  /\ \A m, n \in kept : Family(m) = Family(n) => m = n

HeldBy == [n \in Files |-> Held(n)]

\* The bytes of the clones that are not charged.
CloneBytes(names) == Total(names, HeldBy)

\* `claim`, under the lock of shared_blocks.
ClaimClones(d) ==
  /\ Walker(d, "Linked", "Claimed")
  /\ \E kept \in SUBSET ClonesIn(d) :
       /\ FirstClones(kept, ClonesIn(d))
       /\ charge' = [n \in Files |-> IF n \in ClonesIn(d) \ kept THEN "Cloned" ELSE charge[n]]
       /\ deduped' = deduped + CloneBytes(ClonesIn(d) \ kept)
  /\ sharedBlocks' = sharedBlocks \cup {Family(n) : n \in ClonesIn(d)}
  /\ UNCHANGED <<seenInodes, arena, errored, bytes>>

\* charge_own_extents: a mapped file that is charged at all.
OwnExtents(d) ==
  [n \in Files |-> IF n \in FilesIn(d) /\ charge[n] = "Full" /\ Mapped(n)
                   THEN "Alloc" ELSE charge[n]]

\* What an entry's charge makes of its blocks.
Amount(n, c) ==
  CASE c \in {"Full", "Unmapped"} -> Held(n)
    [] c = "Alloc" -> Held(n) \ Shared(n)
    [] OTHER       -> {}

\* Directories in `d` are nested too deep to be entered.
TooDeep(d) == Depth[d] + 1 >= MaxWalkDepth

\* They are an error of the directory they are in.
DepthErrors(d) == IF Listing(d) \cap Dirs # {} /\ TooDeep(d) THEN {d} ELSE {}

Descends(d, n) == n \in Listing(d) \cap Dirs /\ ~TooDeep(d) /\ n \notin disk.skipped

\* The directories handed back to be entered, each by a walker of its own.
Entering(d) ==
  [e \in Dirs |-> IF e = d THEN "Placed" ELSE IF Descends(d, e) THEN "Queued" ELSE at[e]]

\* `place`: charges, counters, one block of the arena, and the directories to
\* enter. What it appends to `families` and `deferred`, under locks of their
\* own after the block, is read when every walker is done: Members, Waiting.
Place(d) ==
  /\ at[d] = "Claimed"
  /\ at' = Entering(d)
  /\ charge' = OwnExtents(d)
  /\ arena' = [n \in Names |-> IF n \in FilesIn(d) THEN Amount(n, OwnExtents(d)[n])
                               ELSE arena[n]]
  /\ bytes' = bytes + Total(FilesIn(d), arena')
  /\ errored' = errored \cup DepthErrors(d)
  /\ UNCHANGED <<disk, cancelled, claims, deduped, phase>>

(***************************************************************************)
(* The thread that called `scan`, once every walker has returned.          *)
(***************************************************************************)
PlacedFiles == Placed \cap Files

\* What Deferred and Families hold after the walk.
Waiting    == {n \in PlacedFiles : charge[n] = "Alloc"}
Members(f) == {n \in PlacedFiles : Family(n) = f /\ charge[n] \in {"Full", "Cloned"}}

WalkersDone == \A d \in Dirs : at[d] \in {"Unknown", "Placed", "Skipped"}

\* Mutant: the flag is not looked at again after the walk.
NotAskedAgain == FALSE

\* The check between the walk and what finishes it.
MustBail == cancelled

Collect ==
  /\ phase = "Walking" /\ WalkersDone
  /\ phase' = IF MustBail THEN "Cancelled" ELSE "Sharing"
  /\ UNCHANGED <<disk, cancelled, at, charge, claims, arena, errored, counters>>

\* A pass over files looks at the flag now and then.
Bail ==
  /\ phase \in {"Sharing", "Moving"} /\ cancelled
  /\ phase' = "Cancelled"
  /\ UNCHANGED <<disk, cancelled, at, charge, claims, arena, errored, counters>>

\* Claims::charge, when `n`'s turn comes in (depth, path) order: what no file
\* before it holds.
Fresh(n) == Shared(n) \ UNION {Shared(m) : m \in {m \in Waiting : m < n}}

SettleShared ==
  /\ phase = "Sharing"
  /\ arena' = [n \in Names |-> IF n \in Waiting THEN arena[n] \cup Fresh(n) ELSE arena[n]]
  /\ bytes' = bytes + Total(Waiting, [n \in Files |-> Fresh(n)])
  /\ deduped' = deduped + Total(Waiting, [n \in Files |-> Shared(n) \ Fresh(n)])
  /\ phase' = "Moving"
  /\ UNCHANGED <<disk, cancelled, at, charge, claims, errored>>

\* Mutant: the charge stays where the walk put it.
Stays(n) == Family(n) # NoFamily /\ charge[n] = "Full"

\* The member of a family that carries its blocks in the end.
Wins(n) ==
  /\ Family(n) # NoFamily
  /\ n \in Members(Family(n))
  /\ \A m \in Members(Family(n)) : n <= m

\* A member that was charged and is not the first.
Loses(n) ==
  /\ Family(n) # NoFamily
  /\ n \in Members(Family(n)) /\ charge[n] = "Full" /\ ~Wins(n)

\* Only a family with two members or more is settled at all.
Winners == {n \in PlacedFiles :
              Wins(n) /\ charge[n] # "Full" /\ Members(Family(n)) # {n}}
Losers  == {n \in PlacedFiles : Loses(n)}

\* Moved::shared_bytes.
MovedBytes == Total(Losers, HeldBy) - Total(Winners, HeldBy)

SettleClones ==
  /\ phase = "Moving"
  /\ arena' = [n \in Names |-> IF n \in Winners THEN Held(n)
                               ELSE IF n \in Losers THEN {} ELSE arena[n]]
  /\ deduped' = deduped + MovedBytes
  /\ bytes' = bytes - MovedBytes
  /\ phase' = "Done"
  /\ UNCHANGED <<disk, cancelled, at, charge, claims, errored>>

\* The scan has returned.
Finished ==
  /\ phase \in {"Done", "Cancelled"}
  /\ UNCHANGED vars

Next ==
  \/ Cancel
  \/ \E d \in Dirs : \/ Skip(d) \/ List(d)
                     \/ ClaimLinks(d) \/ ClaimClones(d) \/ Place(d)
  \/ Collect \/ Bail \/ SettleShared \/ SettleClones
  \/ Finished

Spec == Init /\ [][Next]_vars

(***************************************************************************)
(* Properties.                                                             *)
(***************************************************************************)
Places == {"Unknown", "Queued", "Listed", "Linked", "Claimed", "Placed", "Skipped"}
Charges == {"Undecided", "Full", "Unmapped", "Nothing", "Cloned", "Alloc"}

\* Every variable has its type. The counters are unsigned in the code
\* (fetch_add, fetch_sub): they never pass below zero, however clone families
\* of unequal members are settled.
TypeOK ==
  /\ disk \in Disks
  /\ cancelled \in BOOLEAN
  /\ at \in [Dirs -> Places]
  /\ charge \in [Files -> Charges]
  /\ seenInodes \subseteq Inodes
  /\ sharedBlocks \subseteq Families
  /\ arena \in [Names -> SUBSET Blocks]
  /\ errored \subseteq Dirs
  /\ bytes \in Nat
  /\ deduped \in Nat
  /\ phase \in {"Walking", "Sharing", "Moving", "Done", "Cancelled"}

\* A block is counted at one name only, at every moment a reader of the
\* running scan or of the finished tree can look, in whatever order walkers
\* met the names of hard links, clones and shared extents (invariants 1 and 3
\* of the code). A file whose extents could not be read, or were not because of
\* a cancel, is counted in full and is the only exception.
InFull == disk.unmapped \cup {n \in Files : charge[n] = "Unmapped"}

CountedOnce ==
  \A m, n \in Names : m # n => arena[m] \cap arena[n] \subseteq UNION {Held(k) : k \in InFull}

\* The files of the tree that the name `n` could be counted at: its own other
\* names, and its clones.
Alike(n) ==
  {m \in PlacedFiles : Ino(m) = Ino(n) \/ (Family(n) # NoFamily /\ Family(m) = Family(n))}

\* In a finished tree nothing is lost either: every block of a file is counted
\* at some name, or, for a clone, the whole of one member of its family is. A
\* repeat hard link that consumed its family's claim would lose it.
CountedSomewhere ==
  phase = "Done" => \A n \in PlacedFiles :
    \/ Held(n) \subseteq UNION {arena[m] : m \in Names}
    \/ \E m \in Alike(n) : arena[m] = Held(m)

\* In a finished tree the name that carries what several files share is the
\* first in (depth, path) order, whatever the walkers' order was, so that two
\* scans of the same disk agree. It is so where none of those files is
\* hard-linked: which name of a hard link is counted is left open (invariant
\* 3), and with it where its clones' blocks are.
SameNameCarries ==
  phase = "Done" => \A n \in PlacedFiles :
    /\ LET family == {m \in PlacedFiles : Family(m) = Family(n)}
       IN (/\ Family(n) # NoFamily
           /\ \A m \in family : ~IsHardlinked(m) /\ n <= m) => arena[n] = Held(n)
    /\ \A b \in Shared(n) :
         LET holders == {m \in PlacedFiles : b \in Held(m)}
         IN (\A m \in holders : ~IsHardlinked(m) /\ Mapped(m) /\ n <= m) => b \in arena[n]

\* The directories above a name: those no set can leave out that has its parent
\* and, with a directory, that directory's parent.
Above(n) ==
  {a \in Dirs : \A S \in SUBSET Dirs :
     Parent[n] \in S /\ (\A d \in S \ {Root} : Parent[d] \in S) => a \in S}

\* A finished tree hides nothing: a name that is on the disk and not in the
\* tree lies below a directory that is flagged for an error or that the
\* options left out. A cancelled walk that was taken for a whole one would
\* break it (invariants 5 and 7).
NothingMissing ==
  phase = "Done" => \A n \in Names \ Placed :
    \E a \in Above(n) : a \in Placed /\ a \in errored \cup disk.skipped

\* In a finished scan the live counter of bytes is the tree's total, and with
\* what was deduplicated it is what `du` would count: every file once, each
\* with all its blocks.
CountersAgree ==
  phase = "Done" =>
    LET listed == {Ino(n) : n \in PlacedFiles}
    IN /\ bytes = Total(Names, arena)
       /\ bytes + deduped = Total(listed, disk.blocks)

\* A finished scan loses nothing that it has read, in the tree and in what it
\* says of itself.
NothingLost == CountedSomewhere /\ CountersAgree
=============================================================================
