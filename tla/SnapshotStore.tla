---------------------------- MODULE SnapshotStore ----------------------------
(***************************************************************************)
(* The snapshot database (crates/store): several processes, each with a    *)
(* connection of its own, save scans, prune them, load one as the base of  *)
(* a rescan, export one to a file and import files that arrived.           *)
(*                                                                         *)
(* A write transaction takes the lock at BEGIN, so it is one action; so is *)
(* a statement outside of one, which sees the database as it is when it    *)
(* begins.  What happens between two statements is the others' business.   *)
(*                                                                         *)
(* A scan is its row, its entries, the digest of both and, where this      *)
(* build walked it, the state a rescan may start from.  Whoever made the   *)
(* scan, what was written at once has one stamp.                           *)
(***************************************************************************)
EXTENDS Integers, FiniteSets, Sequences

CONSTANTS
  Processes,
  Keep,       \* how many scans of the target retention keeps
  Foreign,    \* stamps of scans that other machines export
  OldColumns, \* how many columns of Declared the file may have been made with
  MaxScans,   \* bound: rows
  MaxTime,    \* bound: the clock
  MaxDamage,  \* bound: values that rot on a disk or on their way
  MaxFiles    \* bound: files exported or sent

ASSUME StoreAssumption ==
  /\ Keep \in Nat \ {0} /\ {MaxScans, MaxTime, MaxDamage, MaxFiles} \subseteq Nat
  /\ \A stamp \in Foreign : stamp \in Nat /\ stamp > MaxScans
  /\ OldColumns \subseteq {0, 1, 3, 4}

\* create_tables: the columns that were added since, in the order they were.
Declared == <<"row", "fs_total", "fs_available", "content_hash">>

Absent  == 0    \* NULL, or no row
Bad     == -1   \* a value that rotted in the database
Garbled == -2   \* one that rotted in a file
Late    == -3   \* one that rotted in a file after an import had checked it

VARIABLES
  now,      \* the wall clock
  scans,    \* the rows of the database, by id
  nextId,   \* AUTOINCREMENT
  columns,  \* the columns of its table of scans
  version,  \* user_version
  process,  \* each process: where it is
  files,    \* what was exported or sent: the scans in each file
  rotten,   \* how many values have rotted
  exported  \* history: the ids of the scans exported to each file

database == <<scans, nextId, columns, version>>
outside  == <<now, rotten>>
history  == <<exported>>
vars == <<outside, database, process, files, history>>

(***************************************************************************)
(* Scans.                                                                  *)
(***************************************************************************)
\* digest.rs: of the values of a row and its entries.
Digest(meta, entries) == <<meta, entries>>
NoDigest == <<>>

\* rescan_state; its digest is bound to that of the scan.
NoState == [journal |-> Absent, flags |-> Absent, digest |-> <<>>]
State(stamp) ==
  [journal |-> stamp, flags |-> stamp, digest |-> <<Digest(stamp, stamp), stamp, stamp>>]

Scan(stamp, at, origin) ==
  [started |-> at, origin |-> origin, by |-> "save", meta |-> stamp, entries |-> stamp,
   hash |-> Digest(stamp, stamp),
   state |-> IF origin = "Scanned" THEN State(stamp) ELSE NoState]

Ids == DOMAIN scans

Newer(i, j) ==
  \/ scans[i].started > scans[j].started
  \/ scans[i].started = scans[j].started /\ i > j

\* Newest first, from 1.
Rank(i) == 1 + Cardinality({j \in Ids : Newer(j, i)})

Holds(started) == \E i \in Ids : scans[i].started = started

(***************************************************************************)
(* The initial state: a file of this build or of an older one.             *)
(***************************************************************************)
Idle == [at |-> "Idle", id |-> 0, column |-> 0, hash |-> NoDigest, meta |-> Absent,
         entries |-> Absent, state |-> NoState, copy |-> <<>>]

\* A scan from before there were digests and states.
OldScan == [Scan(1, 1, "Imported") EXCEPT !.hash = NoDigest]

Init ==
  /\ now = 1 /\ rotten = 0
  /\ \E n \in OldColumns :
       /\ columns = SubSeq(Declared, 1, n)
       /\ version = IF n < 3 THEN n ELSE n - 1
       /\ scans = [i \in IF n \in {1, 3} THEN {1} ELSE {} |-> OldScan]
  /\ nextId = 2
  /\ process = [p \in Processes |-> Idle]
  /\ files = <<>> /\ exported = <<>>

At(p, at) == process[p].at = at
Goes(p, state) == process' = [process EXCEPT ![p] = state]
Go(p, at) == Goes(p, [process[p] EXCEPT !.at = at])
End(p)    == Goes(p, Idle)

(***************************************************************************)
(* Outside: the clock, rot, files from other machines, a process killed.   *)
(***************************************************************************)
\* The clock may be set back.
Tick ==
  /\ \E t \in 1..MaxTime : t # now /\ now' = t
  /\ UNCHANGED <<rotten, database, process, files, history>>

Rots(scan, bad) ==
  {[scan EXCEPT !.meta = bad], [scan EXCEPT !.entries = bad], [scan EXCEPT !.hash = <<bad>>],
   [scan EXCEPT !.state.journal = bad], [scan EXCEPT !.state.flags = bad]}

\* Nothing else writes a file that is being imported, but it may rot.
Imported(f) == \E p \in Processes : At(p, "Checked") /\ process[p].id = f

Rot ==
  /\ rotten < MaxDamage
  /\ rotten' = rotten + 1
  /\ \/ \E i \in Ids : \E scan \in Rots(scans[i], Bad) :
          scans' = [scans EXCEPT ![i] = scan] /\ UNCHANGED files
     \/ \E f \in DOMAIN files : \E i \in DOMAIN files[f] :
          \E scan \in Rots(files[f][i], IF Imported(f) THEN Late ELSE Garbled) :
            files' = [files EXCEPT ![f][i] = scan] /\ UNCHANGED scans
  /\ UNCHANGED <<now, nextId, columns, version, process, history>>

\* Another machine's export; its clock may be ahead.
Arrive ==
  /\ Len(files) < MaxFiles
  /\ \E stamp \in Foreign, at \in 1..(MaxTime + 1) :
       files' = Append(files, <<[Scan(stamp, at, "Scanned") EXCEPT !.state = NoState]>>)
  /\ exported' = Append(exported, {})
  /\ UNCHANGED <<outside, database, process>>

\* A process dies, or waited for a lock for too long; SQLite undoes what it
\* has not committed.
Kill(p) ==
  /\ ~At(p, "Idle")
  /\ End(p)
  /\ UNCHANGED <<outside, database, files, history>>

(***************************************************************************)
(* Opening: migrate, each of its statements on its own.  One that finds the *)
(* database busy starts again.                                             *)
(***************************************************************************)
Open(p) ==
  /\ At(p, "Idle") /\ version < 3
  /\ Goes(p, [process[p] EXCEPT !.at = "Column", !.column = 2])
  /\ columns' = IF columns = <<>> THEN Declared ELSE columns
  /\ UNCHANGED <<outside, scans, nextId, version, files, history>>

\* Mutant: the columns are added from the last to the first.
FromTheLast(p) == Declared[6 - process[p].column]

Column(p) == Declared[process[p].column]

Added(c) == \E k \in DOMAIN columns : columns[k] = c

NextColumn(p) ==
  Goes(p, [process[p] EXCEPT !.at = IF process[p].column = Len(Declared) THEN "Stamp" ELSE "Column",
                             !.column = @ + 1])

HasColumn(p) ==
  /\ At(p, "Column")
  /\ IF Added(Column(p)) THEN NextColumn(p) ELSE Go(p, "Alter")
  /\ UNCHANGED <<outside, database, files, history>>

\* ALTER TABLE fails where another process added the column since.
AddColumn(p) ==
  /\ At(p, "Alter")
  /\ IF Added(Column(p)) THEN End(p) /\ UNCHANGED columns
     ELSE columns' = Append(columns, Column(p)) /\ NextColumn(p)
  /\ UNCHANGED <<outside, scans, nextId, version, files, history>>

Stamp(p) ==
  /\ At(p, "Stamp")
  /\ version' = 3
  /\ End(p)
  /\ UNCHANGED <<outside, scans, nextId, columns, files, history>>

\* initialise finds the version current: nothing is written or locked.
Ready(p) == At(p, "Idle") /\ version = 3

Opening(p) == Open(p) \/ HasColumn(p) \/ AddColumn(p) \/ Stamp(p)

(***************************************************************************)
(* Writing: save, retention, delete.                                       *)
(***************************************************************************)
Insert(scan) ==
  /\ nextId <= MaxScans
  /\ scans' = [i \in Ids \cup {nextId} |-> IF i = nextId THEN scan ELSE scans[i]]
  /\ nextId' = nextId + 1

\* save_as.
Save(p) ==
  /\ Ready(p)
  /\ \E origin \in {"Scanned", "Imported"} : Insert(Scan(nextId, now, origin))
  /\ UNCHANGED <<outside, columns, version, process, files, history>>

Without(gone) == scans' = [i \in Ids \ gone |-> scans[i]]

Prune(p) ==
  /\ Ready(p)
  /\ Without({i \in Ids : Rank(i) > Keep})
  /\ UNCHANGED <<outside, nextId, columns, version, process, files, history>>

Delete(p) ==
  /\ Ready(p)
  /\ \E i \in Ids : Without({i})
  /\ UNCHANGED <<outside, nextId, columns, version, process, files, history>>

(***************************************************************************)
(* Loading a scan as the base of a rescan: rescan_base reads the newest    *)
(* scan and its state, load_base its values as they are hashed.            *)
(***************************************************************************)
Intact(scan) ==
  \/ scan.state = NoState
  \/ scan.hash = NoDigest
  \/ scan.state.digest = <<scan.hash, scan.state.journal, scan.state.flags>>

Latest(p) ==
  /\ Ready(p)
  /\ \E i \in Ids : Rank(i) = 1 /\ Goes(p, [process[p] EXCEPT !.at = "Base", !.id = i])
  /\ UNCHANGED <<outside, database, files, history>>

Offered(scan) ==
  scan.origin = "Scanned" /\ scan.started <= now /\ Intact(scan) /\ scan.state.journal # Absent

ReadState(p) ==
  /\ At(p, "Base")
  /\ LET i == process[p].id
     IN IF i \in Ids /\ Offered(scans[i])
        THEN Goes(p, [process[p] EXCEPT !.at = "Offered", !.hash = scans[i].hash, !.state = scans[i].state])
        ELSE End(p)
  /\ UNCHANGED <<outside, database, files, history>>

ReadMeta(p, from, to) ==
  /\ At(p, from)
  /\ IF process[p].id \in Ids
     THEN Goes(p, [process[p] EXCEPT !.at = to, !.meta = scans[process[p].id].meta])
     ELSE End(p)
  /\ UNCHANGED <<outside, database, files, history>>

Entries(id) == IF id \in Ids THEN scans[id].entries ELSE Absent

\* Mutant: what was read is not compared with the digest.
TakeEntries(p, from, to) ==
  /\ At(p, from)
  /\ Goes(p, [process[p] EXCEPT !.at = to, !.entries = Entries(process[p].id)])
  /\ UNCHANGED <<outside, database, files, history>>

ReadEntries(p, from, to) ==
  /\ At(p, from)
  /\ LET entries == Entries(process[p].id)
     IN IF Digest(process[p].meta, entries) = process[p].hash
        THEN Goes(p, [process[p] EXCEPT !.at = to, !.entries = entries])
        ELSE End(p)
  /\ UNCHANGED <<outside, database, files, history>>

LoadBase(p) == ReadMeta(p, "Offered", "Assemble") \/ ReadEntries(p, "Assemble", "Based")

\* The rescan is done with it.
Rescanned(p) == At(p, "Based") /\ End(p) /\ UNCHANGED <<outside, database, files, history>>

Rescan(p) == Latest(p) \/ ReadState(p) \/ LoadBase(p) \/ Rescanned(p)

(***************************************************************************)
(* export_snapshot: verify, then copy the row and the entries.             *)
(***************************************************************************)
Export(p) ==
  /\ Ready(p) /\ Len(files) < MaxFiles
  /\ \E i \in Ids :
       Goes(p, [process[p] EXCEPT !.at = IF scans[i].hash = NoDigest THEN "Copy" ELSE "Verify",
                                  !.id = i, !.hash = scans[i].hash])
  /\ UNCHANGED <<outside, database, files, history>>

Verify(p) == ReadMeta(p, "Verify", "Compare") \/ ReadEntries(p, "Compare", "Copy")

\* INSERT ... SELECT of what there is, by position: create_tables declares
\* the columns of the file's table.
CopyRow(p) ==
  /\ At(p, "Copy")
  /\ LET i == process[p].id
         row == IF i \notin Ids THEN <<>>
                ELSE <<[scans[i] EXCEPT !.state = NoState,
                                        !.meta = IF columns = Declared THEN @ ELSE Bad]>>
     IN Goes(p, [process[p] EXCEPT !.at = "CopyEntries", !.copy = row])
  /\ UNCHANGED <<outside, database, files, history>>

CopyEntries(p) ==
  /\ At(p, "CopyEntries") /\ Len(files) < MaxFiles
  /\ files' = Append(files, [k \in DOMAIN process[p].copy |->
                               [process[p].copy[k] EXCEPT !.entries = Entries(process[p].id)]])
  /\ exported' = Append(exported, {process[p].id})
  /\ End(p)
  /\ UNCHANGED <<outside, database>>

Exporting(p) == Export(p) \/ Verify(p) \/ CopyRow(p) \/ CopyEntries(p)

(***************************************************************************)
(* import_snapshot: check the file, then read it again and copy it, under  *)
(* the lock.                                                               *)
(***************************************************************************)
MaxAhead == 1   \* MAX_CLOCK_AHEAD_SECS

\* Mutant: only the structure is looked at.
LooksLikeATree(scan) == scan.started - now <= MaxAhead /\ scan.entries # Absent

Sound(scan) ==
  /\ scan.started - now <= MaxAhead
  /\ scan.hash # NoDigest => Digest(scan.meta, scan.entries) = scan.hash
  /\ scan.entries # Absent

\* A file holds one scan at most.  One that is refused or is there already
\* changes nothing.
CheckFile(p) ==
  /\ Ready(p)
  /\ \E f \in DOMAIN files :
       /\ files[f] # <<>> /\ ~Holds(files[f][1].started) /\ Sound(files[f][1])
       /\ Goes(p, [process[p] EXCEPT !.at = "Checked", !.id = f])
  /\ UNCHANGED <<outside, database, files, history>>

Take(scan) == Insert([scan EXCEPT !.by = "import"])

\* Mutant: what the check found is not asked again under the lock.
ImportWhatWasChecked(p) ==
  /\ At(p, "Checked")
  /\ Take(files[process[p].id][1])
  /\ End(p)
  /\ UNCHANGED <<outside, columns, version, files, history>>

Import(p) ==
  /\ At(p, "Checked")
  /\ LET scan == files[process[p].id][1]
     IN IF Holds(scan.started) THEN UNCHANGED <<scans, nextId>> ELSE Take(scan)
  /\ End(p)
  /\ UNCHANGED <<outside, columns, version, files, history>>

Importing(p) == CheckFile(p) \/ Import(p)

(***************************************************************************)
(* The specification.                                                      *)
(***************************************************************************)
Step(p) ==
  Opening(p) \/ Save(p) \/ Prune(p) \/ Delete(p) \/ Rescan(p) \/ Exporting(p) \/ Importing(p)

Next == Tick \/ Rot \/ Arrive \/ \E p \in Processes : Kill(p) \/ Step(p)

Spec == Init /\ [][Next]_vars

(***************************************************************************)
(* Properties.                                                             *)
(***************************************************************************)
\* A file stamped with this build's version has the columns of create_tables
\* in its order, whichever build made it, however many processes opened it
\* at once and wherever one of them died (schema.rs:142): the export copies
\* rows by position.
ReadyIsComplete == version = 3 => columns = Declared

\* However often and from however many processes the same snapshot is
\* pushed, it is imported once, and a scan that is there already is not
\* imported beside it (lib.rs:670, "re-pushing is harmless").
ImportedOnce ==
  \A i, j \in Ids : i < j /\ scans[i].started = scans[j].started => scans[j].by = "save"

\* A snapshot with a digest that rotted on its way, or in the file it was
\* exported to, never reaches the database; one that rots while it is copied,
\* after it was checked, does.
Sent(scan) ==
  scan.hash \notin {NoDigest, <<Bad>>, <<Late>>} => Garbled \notin {scan.meta, scan.entries}
ImportedIsSent == \A i \in Ids : scans[i].by = "import" => Sent(scans[i])

\* A snapshot that is sent arrives once, or not at all, and as it was sent.
ImportsAreSound == ImportedOnce /\ ImportedIsSent

\* What a rescan starts from, read in four statements beside everyone else's
\* writes, is one scan as this build saved it: its values, its journal
\* position and its flags belong together, and none of them rotted
\* (lib.rs:432: a damaged base would pass its damage on for ever).
BaseIsAsSaved ==
  \A p \in Processes :
    At(p, "Based") =>
      LET base == process[p]
      IN base.meta = base.id /\ {base.entries, base.state.journal, base.state.flags} = {base.id}

\* "Write one snapshot to its own SQLite file, metadata preserved exactly"
\* (lib.rs:619): a file that was exported holds the scan it was asked for,
\* whole.
ExportIsWhole ==
  \A f \in DOMAIN files : exported[f] # {} => Len(files[f]) = 1 /\ files[f][1].entries # Absent
=============================================================================
