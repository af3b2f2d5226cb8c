----------------------------- MODULE StoreProofs -----------------------------
(***************************************************************************)
(* Proofs about the snapshot database, for any number of processes, scans, *)
(* files and rotten values, and any clock.                                 *)
(***************************************************************************)
EXTENDS SnapshotStore, SequenceTheorems, TLAPS

(***************************************************************************)
(* The invariant.                                                          *)
(***************************************************************************)
Stamps == 1..MaxScans \cup Foreign
Hashes == {NoDigest, <<Bad>>, <<Garbled>>, <<Late>>} \cup {Digest(a, a) : a \in Stamps}
Digests == {<<>>} \cup {<<Digest(a, a), a, a>> : a \in Stamps}
States == [journal : Int, flags : Int, digest : Digests]

Scans ==
  [started : Int, origin : {"Scanned", "Imported"}, by : {"save", "import"}, meta : Int, entries : Int,
   hash : Hashes, state : States]

Places == {"Idle", "Column", "Alter", "Stamp", "Base", "Offered", "Assemble", "Based", "Verify", "Compare",
           "Copy", "CopyEntries", "Checked"}

Process ==
  [at : Places, id : Int, column : Int, hash : Hashes, meta : Int, entries : Int, state : States, copy : Seq(Scans)]

Names == {"row", "fs_total", "fs_available", "content_hash"}

StoreTypeOK ==
  /\ now \in Nat
  /\ nextId \in Nat \ {0}
  /\ scans \in [Ids -> Scans] /\ Ids \subseteq Nat /\ \A i \in Ids : i < nextId
  /\ columns \in Seq(Names) /\ version \in Nat
  /\ process \in [Processes -> Process]
  /\ files \in Seq(Seq(Scans))

\* The columns are added in the order of create_tables, whoever adds them.
InOrder == Len(columns) <= Len(Declared) /\ \A k \in 1..Len(columns) : columns[k] = Declared[k]

\* What a process that migrates has seen.
Migrating(s) ==
  /\ s.at \in {"Column", "Alter"} => s.column \in 2..4 /\ s.column <= Len(columns) + 1
  /\ s.at = "Stamp" => Len(columns) = 4

SchemaInv == InOrder /\ (version = 3 => Len(columns) = 4) /\ \A p \in Processes : Migrating(process[p])

\* A scan said to be walked here or elsewhere has a digest.
Digested(scan) == scan.origin = "Scanned" => scan.hash # NoDigest

\* The state a rescan may start from is a scan's own; none travels.
Own(i) == scans[i].state.digest \in {<<>>, <<Digest(i, i), i, i>>}
Stateless(scan) == scan.state.digest = <<>>

Matches(scan) == scan.hash # NoDigest => Digest(scan.meta, scan.entries) = scan.hash

\* What a process carries: of a file to be, what may be copied; of a base,
\* what was saved or will not match.
Carries(s) == \A k \in DOMAIN s.copy : Digested(s.copy[k]) /\ Stateless(s.copy[k])

BaseSoFar(s) ==
  /\ s.at \in {"Offered", "Assemble", "Based"} =>
       s.hash = Digest(s.id, s.id) /\ s.state.journal = s.id /\ s.state.flags = s.id
  /\ s.at = "Based" => Digest(s.meta, s.entries) = s.hash

FilesInv == \A f \in DOMAIN files : \A k \in DOMAIN files[f] : Digested(files[f][k]) /\ Stateless(files[f][k])

ScansInv ==
  /\ \A i \in Ids : Digested(scans[i]) /\ Own(i)
  /\ FilesInv
  /\ \A p \in Processes : Carries(process[p]) /\ BaseSoFar(process[p])

StoreInv == StoreTypeOK /\ SchemaInv /\ ScansInv /\ ImportsAreSound

\* What was checked stays as it was sent, until it is read again.
CheckedFile(f) == f \in DOMAIN files /\ files[f] # <<>> /\ Sent(files[f][1])
CheckedInv == \A p \in Processes : At(p, "Checked") => CheckedFile(process[p].id)

LEMMA StoreConstants ==
  /\ MaxScans \in Nat /\ MaxTime \in Nat /\ Stamps \subseteq Nat
  /\ Bad \in Int /\ Garbled \in Int /\ Late \in Int /\ Absent \in Int /\ Garbled \notin {Bad, Late}
  /\ Len(Declared) = 4
BY StoreAssumption DEF Stamps, Bad, Garbled, Late, Absent, Declared

LEMMA DeclaredNames == \A k \in 1..4 : Declared[k] \in Names
BY DEF Declared, Names

LEMMA DeclaredOnce == \A j, k \in 1..4 : Declared[j] = Declared[k] => j = k
<1>1. Declared[1] = "row" /\ Declared[2] = "fs_total" /\ Declared[3] = "fs_available" /\ Declared[4] = "content_hash"
  BY DEF Declared
<1>2. QED
  BY <1>1

LEMMA NoStates == NoState \in States /\ NoState.digest = <<>> /\ NoState.journal = Absent
BY StoreConstants DEF NoState, States, Digests

LEMMA IdleTyped == Idle \in Process /\ Idle.at = "Idle" /\ Idle.copy = <<>>
<1>1. <<>> \in Seq(Scans) /\ NoDigest \in Hashes /\ Absent \in Int /\ 0 \in Int /\ "Idle" \in Places
  BY StoreConstants DEF NoDigest, Hashes, Places
<1> DEFINE zero == 0
<1>2. zero \in Int
  OBVIOUS
<1> HIDE DEF zero
<1>3. [at |-> "Idle", id |-> zero, column |-> zero, hash |-> NoDigest, meta |-> Absent,
       entries |-> Absent, state |-> NoState, copy |-> <<>>] \in Process
  BY <1>1, <1>2, NoStates DEF Process
<1>4. QED
  BY <1>3 DEF Idle, zero

LEMMA IdleSane == Migrating(Idle) /\ Carries(Idle) /\ BaseSoFar(Idle)
BY IdleTyped DEF Migrating, Carries, BaseSoFar

\* Only the state of one process changes.
LEMMA ProcessMoves ==
  ASSUME StoreTypeOK, NEW p \in Processes, NEW s \in Process, Goes(p, s)
  PROVE  process' \in [Processes -> Process] /\ process'[p] = s /\ \A q \in Processes : q # p => process'[q] = process[q]
BY DEF Goes, StoreTypeOK

LEMMA ProcessOnly ==
  ASSUME StoreInv, NEW p \in Processes, NEW s \in Process, Goes(p, s), UNCHANGED <<outside, database, files>>,
         Migrating(s), Carries(s), BaseSoFar(s)
  PROVE  StoreInv'
<1> USE DEF outside, database
<1>1. process' \in [Processes -> Process] /\ process'[p] = s /\ \A q \in Processes : q # p => process'[q] = process[q]
  BY ProcessMoves DEF StoreInv
<1>2. StoreTypeOK'
  BY <1>1 DEF StoreInv, StoreTypeOK, Ids
<1>3. SchemaInv'
  BY <1>1 DEF StoreInv, SchemaInv, InOrder, Migrating
<1>4. ScansInv'
  BY <1>1 DEF StoreInv, ScansInv, FilesInv, Ids, Digested, Own, Stateless, Carries, Matches, BaseSoFar
<1>5. ImportsAreSound'
  BY DEF StoreInv, ImportsAreSound, ImportedOnce, ImportedIsSent, Sent, Ids
<1>6. QED
  BY <1>2, <1>3, <1>4, <1>5 DEF StoreInv

\* A process as it goes on.
LEMMA GoesOn ==
  ASSUME NEW s \in Process, NEW at \in Places
  PROVE  /\ [s EXCEPT !.at = at] \in Process
         /\ \A k \in Int : [s EXCEPT !.at = at, !.column = k] \in Process
         /\ \A i \in Int : [s EXCEPT !.at = at, !.id = i] \in Process
         /\ \A h \in Hashes, state \in States : [s EXCEPT !.at = at, !.hash = h, !.state = state] \in Process
         /\ \A m \in Int : [s EXCEPT !.at = at, !.meta = m] \in Process
         /\ \A e \in Int : [s EXCEPT !.at = at, !.entries = e] \in Process
         /\ \A i \in Int, h \in Hashes : [s EXCEPT !.at = at, !.id = i, !.hash = h] \in Process
         /\ \A c \in Seq(Scans) : [s EXCEPT !.at = at, !.copy = c] \in Process
BY DEF Process

LEMMA KillNext == ASSUME StoreInv, NEW p \in Processes, Kill(p) PROVE StoreInv'
<1>1. Goes(p, Idle) /\ UNCHANGED <<outside, database, files>>
  BY DEF Kill, End
<1>2. QED
  BY <1>1, ProcessOnly, IdleTyped, IdleSane

LEMMA HasColumnNext == ASSUME StoreInv, NEW p \in Processes, HasColumn(p) PROVE StoreInv'
<1>a. /\ process[p] \in Process /\ Migrating(process[p]) /\ Carries(process[p])
      /\ columns \in Seq(Names) /\ Len(columns) \in Nat /\ InOrder
  BY DEF StoreInv, StoreTypeOK, SchemaInv, ScansInv
<1>1. At(p, "Column") /\ UNCHANGED <<outside, database, files>>
  BY DEF HasColumn
<1> DEFINE k == process[p].column
<1>2. k \in 2..4 /\ k <= Len(columns) + 1 /\ Len(columns) <= 4
  BY <1>1, <1>a, StoreConstants DEF Migrating, At, InOrder
<1>3. CASE Added(Column(p))
  <2>1. k <= Len(columns)
    <3>1. PICK j \in DOMAIN columns : columns[j] = Declared[k]
      BY <1>3 DEF Added, Column
    <3>2. j \in 1..Len(columns) /\ columns[j] = Declared[j]
      BY <1>a, <3>1 DEF InOrder
    <3>3. j = k
      <4>1. j \in 1..4 /\ k \in 1..4 /\ Declared[j] = Declared[k]
        BY <1>2, <1>a, <3>1, <3>2
      <4> HIDE DEF k
      <4>2. QED
        BY <4>1, DeclaredOnce
    <3>4. QED
      BY <3>2, <3>3
  <2> DEFINE at == IF k = Len(Declared) THEN "Stamp" ELSE "Column"
             s  == [process[p] EXCEPT !.at = at, !.column = k + 1]
  <2>2. Goes(p, s)
    BY <1>3 DEF HasColumn, NextColumn
  <2>3. at \in Places /\ k + 1 \in Int
    BY <1>2 DEF Places
  <2>4. s \in Process
    <3> HIDE DEF at, k
    <3>1. QED
      BY <1>a, <2>3, GoesOn
  <2>5. s.at = at /\ s.column = k + 1 /\ s.copy = process[p].copy
    <3> HIDE DEF at, k
    <3>1. QED
      BY <1>a DEF Process
  <2>8. (at = "Stamp" /\ k = 4) \/ (at = "Column" /\ k # 4)
    BY StoreConstants
  <2>6. Migrating(s) /\ Carries(s) /\ BaseSoFar(s)
    <3> HIDE DEF s, k, at
    <3>1. Migrating(s)
      <4>1. CASE k = 4
        <5>1. Len(columns) = 4
          <6>1. Len(columns) \in Nat /\ 4 <= Len(columns) /\ Len(columns) <= 4
            BY <1>a, <1>2, <2>1, <4>1
          <6>2. \A n \in Nat : 4 <= n /\ n <= 4 => n = 4
            OBVIOUS
          <6>3. QED
            BY <6>1, <6>2
        <5>2. s.at = "Stamp"
          BY <2>5, <2>8, <4>1
        <5>3. QED
          BY <5>1, <5>2 DEF Migrating
      <4>2. CASE k # 4
        <5>1. k + 1 \in 2..4 /\ k + 1 <= Len(columns) + 1
          BY <1>2, <1>a, <2>1, <4>2
        <5>2. s.at = "Column" /\ s.column = k + 1
          BY <2>5, <2>8, <4>2
        <5>3. QED
          BY <5>1, <5>2 DEF Migrating
      <4>3. QED
        BY <4>1, <4>2
    <3>2. Carries(s)
      BY <1>a, <2>5, <2>8 DEF Carries
    <3>3. BaseSoFar(s)
      BY <2>5, <2>8 DEF BaseSoFar
    <3>4. QED
      BY <3>1, <3>2, <3>3
  <2>7. QED
    BY <1>1, <2>2, <2>4, <2>6, ProcessOnly
<1>4. CASE ~Added(Column(p))
  <2> DEFINE s == [process[p] EXCEPT !.at = "Alter"]
  <2>1. Goes(p, s)
    BY <1>4 DEF HasColumn, Go
  <2>2. s \in Process
    BY <1>a, GoesOn DEF Places
  <2>3. s.at = "Alter" /\ s.column = k /\ s.copy = process[p].copy
    BY <1>a DEF Process
  <2>4. Migrating(s) /\ Carries(s) /\ BaseSoFar(s)
    <3> HIDE DEF s, k
    <3>1. QED
      BY <1>2, <1>a, <2>3 DEF Migrating, Carries, BaseSoFar
  <2>5. QED
    BY <1>1, <2>1, <2>2, <2>4, ProcessOnly
<1>5. QED
  BY <1>3, <1>4

\* Loading a base.
LEMMA LatestNext == ASSUME StoreInv, NEW p \in Processes, Latest(p) PROVE StoreInv'
<1>a. process[p] \in Process /\ Carries(process[p])
  BY DEF StoreInv, StoreTypeOK, ScansInv
<1>1. PICK i \in Ids : Goes(p, [process[p] EXCEPT !.at = "Base", !.id = i])
  BY DEF Latest
<1>2. UNCHANGED <<outside, database, files>> /\ i \in Int
  BY DEF Latest, StoreInv, StoreTypeOK
<1> DEFINE s == [process[p] EXCEPT !.at = "Base", !.id = i]
<1>3. s \in Process
  BY <1>a, <1>2, GoesOn DEF Places
<1>4. s.at = "Base" /\ s.copy = process[p].copy
  BY <1>a DEF Process
<1>5. Migrating(s) /\ Carries(s) /\ BaseSoFar(s)
  BY <1>a, <1>4 DEF Migrating, Carries, BaseSoFar
<1>6. QED
  BY <1>1, <1>2, <1>3, <1>5, ProcessOnly

\* What is offered is a scan's own.
LEMMA OfferedIsOwn ==
  ASSUME StoreInv, NEW i \in Ids, Offered(scans[i])
  PROVE  scans[i].hash = Digest(i, i) /\ scans[i].state.journal = i /\ scans[i].state.flags = i
<1>1. scans[i].origin = "Scanned" /\ Intact(scans[i]) /\ scans[i].state.journal # Absent
  BY DEF Offered
<1>2. scans[i].hash # NoDigest /\ Own(i)
  BY <1>1 DEF StoreInv, ScansInv, Digested
<1>3. scans[i].state # NoState
  BY <1>1, NoStates
<1>4. scans[i].state.digest = <<scans[i].hash, scans[i].state.journal, scans[i].state.flags>>
  BY <1>1, <1>2, <1>3 DEF Intact
<1>5. scans[i].state.digest # <<>>
  BY <1>4
<1>6. <<scans[i].hash, scans[i].state.journal, scans[i].state.flags>> = <<Digest(i, i), i, i>>
  BY <1>2, <1>4, <1>5 DEF Own
<1>7. QED
  BY <1>6

LEMMA ReadStateNext == ASSUME StoreInv, NEW p \in Processes, ReadState(p) PROVE StoreInv'
<1>a. process[p] \in Process /\ Carries(process[p])
  BY DEF StoreInv, StoreTypeOK, ScansInv
<1> DEFINE i == process[p].id
           s == [process[p] EXCEPT !.at = "Offered", !.hash = scans[i].hash, !.state = scans[i].state]
<1>1. UNCHANGED <<outside, database, files>>
  BY DEF ReadState
<1>2. CASE i \in Ids /\ Offered(scans[i])
  <2>1. Goes(p, s)
    BY <1>2 DEF ReadState
  <2>2. scans[i] \in Scans /\ scans[i].hash \in Hashes /\ scans[i].state \in States
    BY <1>2 DEF StoreInv, StoreTypeOK, Scans
  <2>3. s \in Process
    BY <1>a, <2>2, GoesOn DEF Places
  <2>4. s.at = "Offered" /\ s.copy = process[p].copy /\ s.id = i /\ s.hash = scans[i].hash /\ s.state = scans[i].state
    BY <1>a DEF Process
  <2>5. BaseSoFar(s)
    <3> HIDE DEF s
    <3>1. QED
      BY <1>2, <2>4, OfferedIsOwn DEF BaseSoFar
  <2>6. Migrating(s) /\ Carries(s)
    <3> HIDE DEF s
    <3>1. QED
      BY <1>a, <2>4 DEF Migrating, Carries
  <2>7. QED
    BY <1>1, <2>1, <2>3, <2>5, <2>6, ProcessOnly
<1>3. CASE ~(i \in Ids /\ Offered(scans[i]))
  <2>1. Goes(p, Idle)
    BY <1>3 DEF ReadState, End
  <2>2. QED
    BY <1>1, <2>1, ProcessOnly, IdleTyped, IdleSane
<1>4. QED
  BY <1>2, <1>3

\* One of the reads that take a process from one place to the next.
LEMMA ReadMetaNext ==
  ASSUME StoreInv, NEW p \in Processes, NEW from, NEW to \in {"Assemble", "Compare"}, ReadMeta(p, from, to),
         to = "Assemble" => from = "Offered"
  PROVE  StoreInv'
<1>a. process[p] \in Process /\ Carries(process[p]) /\ BaseSoFar(process[p])
  BY DEF StoreInv, StoreTypeOK, ScansInv
<1>1. At(p, from) /\ UNCHANGED <<outside, database, files>>
  BY DEF ReadMeta
<1> DEFINE i == process[p].id
           s == [process[p] EXCEPT !.at = to, !.meta = scans[i].meta]
<1>2. CASE i \in Ids
  <2>1. Goes(p, s)
    BY <1>2 DEF ReadMeta
  <2>2. scans[i].meta \in Int
    BY <1>2 DEF StoreInv, StoreTypeOK, Scans
  <2>3. s \in Process
    BY <1>a, <2>2, GoesOn DEF Places
  <2>4. s.at = to /\ s.copy = process[p].copy /\ s.id = i /\ s.hash = process[p].hash /\ s.state = process[p].state
    BY <1>a DEF Process
  <2>5. Migrating(s) /\ Carries(s) /\ BaseSoFar(s)
    <3> HIDE DEF s
    <3>1. QED
      BY <1>a, <1>1, <2>4 DEF Migrating, Carries, BaseSoFar, At
  <2>6. QED
    BY <1>1, <2>1, <2>3, <2>5, ProcessOnly
<1>3. CASE i \notin Ids
  <2>1. Goes(p, Idle)
    BY <1>3 DEF ReadMeta, End
  <2>2. QED
    BY <1>1, <2>1, ProcessOnly, IdleTyped, IdleSane
<1>4. QED
  BY <1>2, <1>3

LEMMA EntriesTyped == ASSUME StoreTypeOK, NEW i \in Int PROVE Entries(i) \in Int
BY StoreConstants DEF Entries, StoreTypeOK, Scans

\* What was read matches the digest, or the process ends.
LEMMA ReadEntriesNext ==
  ASSUME StoreInv, NEW p \in Processes, NEW from, NEW to \in {"Based", "Copy"}, ReadEntries(p, from, to),
         to = "Based" => from = "Assemble"
  PROVE  StoreInv'
<1>a. process[p] \in Process /\ Carries(process[p]) /\ BaseSoFar(process[p])
  BY DEF StoreInv, StoreTypeOK, ScansInv
<1>1. At(p, from) /\ UNCHANGED <<outside, database, files>>
  BY DEF ReadEntries
<1> DEFINE e == Entries(process[p].id)
           s == [process[p] EXCEPT !.at = to, !.entries = e]
<1>2. CASE Digest(process[p].meta, e) = process[p].hash
  <2>1. Goes(p, s)
    BY <1>2 DEF ReadEntries
  <2>2. e \in Int
    BY <1>a, EntriesTyped DEF Process, StoreInv
  <2>3. s \in Process /\ s.entries = e
    <3> HIDE DEF e
    <3>1. s \in Process
      BY <1>a, <2>2, GoesOn DEF Places
    <3>2. QED
      BY <1>a, <3>1 DEF Process
  <2>4. s.at = to /\ s.copy = process[p].copy /\ s.id = process[p].id /\ s.hash = process[p].hash
        /\ s.state = process[p].state /\ s.meta = process[p].meta
    BY <1>a DEF Process
  <2>5. Migrating(s) /\ Carries(s) /\ BaseSoFar(s)
    <3> HIDE DEF s, e
    <3>1. QED
      BY <1>a, <1>1, <1>2, <2>3, <2>4 DEF Migrating, Carries, BaseSoFar, At
  <2>6. QED
    BY <1>1, <2>1, <2>3, <2>5, ProcessOnly
<1>3. CASE Digest(process[p].meta, e) # process[p].hash
  <2>1. Goes(p, Idle)
    BY <1>3 DEF ReadEntries, End
  <2>2. QED
    BY <1>1, <2>1, ProcessOnly, IdleTyped, IdleSane
<1>4. QED
  BY <1>2, <1>3

LEMMA RescannedNext == ASSUME StoreInv, NEW p \in Processes, Rescanned(p) PROVE StoreInv'
<1>1. Goes(p, Idle) /\ UNCHANGED <<outside, database, files>>
  BY DEF Rescanned, End
<1>2. QED
  BY <1>1, ProcessOnly, IdleTyped, IdleSane

LEMMA RescanNext == ASSUME StoreInv, NEW p \in Processes, Rescan(p) PROVE StoreInv'
<1>1. CASE ReadMeta(p, "Offered", "Assemble")
  BY <1>1, ReadMetaNext
<1>2. CASE ReadEntries(p, "Assemble", "Based")
  BY <1>2, ReadEntriesNext
<1>3. QED
  BY <1>1, <1>2, LatestNext, ReadStateNext, RescannedNext DEF Rescan, LoadBase

\* Exporting.
LEMMA ExportNext == ASSUME StoreInv, NEW p \in Processes, Export(p) PROVE StoreInv'
<1>a. process[p] \in Process /\ Carries(process[p])
  BY DEF StoreInv, StoreTypeOK, ScansInv
<1>1. PICK i \in Ids :
        Goes(p, [process[p] EXCEPT !.at = IF scans[i].hash = NoDigest THEN "Copy" ELSE "Verify",
                                   !.id = i, !.hash = scans[i].hash])
  BY DEF Export
<1>2. UNCHANGED <<outside, database, files>> /\ i \in Int /\ scans[i].hash \in Hashes
  BY DEF Export, StoreInv, StoreTypeOK, Scans
<1> DEFINE at == IF scans[i].hash = NoDigest THEN "Copy" ELSE "Verify"
           s  == [process[p] EXCEPT !.at = at, !.id = i, !.hash = scans[i].hash]
<1>3. at \in {"Copy", "Verify"}
  OBVIOUS
<1>4. s \in Process /\ s.at = at /\ s.copy = process[p].copy
  <2> HIDE DEF at
  <2>1. at \in Places
    BY <1>3 DEF Places
  <2>2. QED
    BY <1>a, <1>2, <2>1, GoesOn DEF Process
<1>5. Migrating(s) /\ Carries(s) /\ BaseSoFar(s)
  <2> HIDE DEF s, at
  <2>1. QED
    BY <1>a, <1>3, <1>4 DEF Migrating, Carries, BaseSoFar
<1>6. QED
  BY <1>1, <1>2, <1>4, <1>5, ProcessOnly

LEMMA CopyRowNext == ASSUME StoreInv, NEW p \in Processes, CopyRow(p) PROVE StoreInv'
<1>a. process[p] \in Process
  BY DEF StoreInv, StoreTypeOK
<1> DEFINE i    == process[p].id
           meta == IF columns = Declared THEN scans[i].meta ELSE Bad
           one  == [scans[i] EXCEPT !.state = NoState, !.meta = meta]
           row  == IF i \notin Ids THEN <<>> ELSE <<one>>
           s    == [process[p] EXCEPT !.at = "CopyEntries", !.copy = row]
<1>1. Goes(p, s) /\ UNCHANGED <<outside, database, files>>
  BY DEF CopyRow
<1>2. row \in Seq(Scans) /\ \A k \in DOMAIN row : Digested(row[k]) /\ Stateless(row[k])
  <2>1. CASE i \notin Ids
    BY <2>1
  <2>2. CASE i \in Ids
    <3>1. scans[i] \in Scans /\ Digested(scans[i])
      BY <2>2 DEF StoreInv, StoreTypeOK, ScansInv
    <3>2. meta \in Int
      BY <3>1, StoreConstants DEF Scans
    <3> HIDE DEF meta, i
    <3>3. one \in Scans /\ one.state = NoState /\ one.origin = scans[i].origin /\ one.hash = scans[i].hash
      BY <3>1, <3>2, NoStates DEF Scans
    <3> HIDE DEF one
    <3>4. row = <<one>>
      BY <2>2
    <3>5. QED
      BY <3>1, <3>3, <3>4, NoStates DEF Digested, Stateless
  <2>3. QED
    BY <2>1, <2>2
<1> HIDE DEF row
<1>3. s \in Process /\ s.at = "CopyEntries" /\ s.copy = row
  <2>1. s \in Process
    BY <1>a, <1>2, GoesOn DEF Places
  <2>2. QED
    BY <1>a, <2>1 DEF Process
<1>4. Migrating(s) /\ Carries(s) /\ BaseSoFar(s)
  <2> HIDE DEF s
  <2>1. QED
    BY <1>2, <1>3 DEF Migrating, Carries, BaseSoFar
<1>5. QED
  BY <1>1, <1>3, <1>4, ProcessOnly

\* Only the file is named.
LEMMA CheckFileNext == ASSUME StoreInv, NEW p \in Processes, CheckFile(p) PROVE StoreInv'
<1>a. process[p] \in Process /\ Carries(process[p]) /\ DOMAIN files \subseteq Int
  BY DEF StoreInv, StoreTypeOK, ScansInv
<1>1. UNCHANGED <<outside, database, files>>
  BY DEF CheckFile
<1>2. PICK f \in DOMAIN files : Goes(p, [process[p] EXCEPT !.at = "Checked", !.id = f])
  BY DEF CheckFile
<1> DEFINE s == [process[p] EXCEPT !.at = "Checked", !.id = f]
<1>3. s \in Process
  BY <1>a, GoesOn DEF Places
<1>4. s.at = "Checked" /\ s.copy = process[p].copy
  BY <1>a DEF Process
<1>5. Migrating(s) /\ Carries(s) /\ BaseSoFar(s)
  BY <1>a, <1>4 DEF Migrating, Carries, BaseSoFar
<1>6. QED
  BY <1>1, <1>2, <1>3, <1>5, ProcessOnly

(***************************************************************************)
(* The database and the rest, each on its own.                             *)
(***************************************************************************)
DatabaseOK ==
  /\ nextId \in Nat \ {0}
  /\ scans \in [Ids -> Scans] /\ Ids \subseteq Nat /\ \A i \in Ids : i < nextId
  /\ \A i \in Ids : Digested(scans[i]) /\ Own(i)
  /\ ImportsAreSound

OthersOK ==
  /\ now \in Nat
  /\ columns \in Seq(Names) /\ version \in Nat
  /\ process \in [Processes -> Process]
  /\ files \in Seq(Seq(Scans))
  /\ SchemaInv /\ FilesInv
  /\ \A p \in Processes : Carries(process[p]) /\ BaseSoFar(process[p])

LEMMA Parts == StoreInv <=> DatabaseOK /\ OthersOK
BY DEF StoreInv, StoreTypeOK, ScansInv, DatabaseOK, OthersOK

LEMMA PartsNext == DatabaseOK' /\ OthersOK' => StoreInv'
BY DEF StoreInv, StoreTypeOK, ScansInv, DatabaseOK, OthersOK

LEMMA DatabaseSame == ASSUME DatabaseOK, UNCHANGED <<scans, nextId>> PROVE DatabaseOK'
BY DEF DatabaseOK, Ids, Digested, Own, ImportsAreSound, ImportedOnce, ImportedIsSent, Sent

LEMMA OthersSame == ASSUME OthersOK, UNCHANGED <<now, columns, version, process, files>> PROVE OthersOK'
BY DEF OthersOK, SchemaInv, InOrder, Migrating, FilesInv, Digested, Stateless, Carries, Matches, BaseSoFar

LEMMA OthersEnd ==
  ASSUME OthersOK, NEW p \in Processes, Goes(p, Idle), UNCHANGED <<now, columns, version, files>>
  PROVE  OthersOK'
<1>1. process' \in [Processes -> Process]
  BY IdleTyped DEF OthersOK, Goes
<1>2. \A q \in Processes : process'[q] = process[q] \/ process'[q] = Idle
  BY DEF OthersOK, Goes
<1>3. \A q \in Processes : Migrating(process[q])' /\ Carries(process[q])' /\ BaseSoFar(process[q])'
  <2> SUFFICES ASSUME NEW q \in Processes
               PROVE  Migrating(process[q])' /\ Carries(process[q])' /\ BaseSoFar(process[q])'
    OBVIOUS
  <2>1. CASE process'[q] = Idle
    BY <2>1, IdleTyped DEF Migrating, Carries, BaseSoFar
  <2>2. CASE process'[q] = process[q]
    BY <2>2 DEF OthersOK, SchemaInv, Migrating, Carries, Digested, Stateless, BaseSoFar
  <2>3. QED
    BY <1>2, <2>1, <2>2
<1>4. QED
  BY <1>1, <1>3 DEF OthersOK, SchemaInv, InOrder, FilesInv, Digested, Stateless

\* A digest that matches is of values that did not rot on their way.
LEMMA MatchingIsSent == ASSUME NEW scan \in Scans, Matches(scan) PROVE Sent(scan)
<1> DEFINE m == scan.meta
           e == scan.entries
<1> SUFFICES ASSUME scan.hash # NoDigest PROVE Garbled \notin {m, e}
  BY DEF Sent
<1>1. Digest(m, e) = scan.hash /\ scan.hash \in Hashes /\ m \in Int /\ e \in Int
  BY DEF Matches, Scans
<1> HIDE DEF m, e
<1>2. Digest(m, e) \notin {NoDigest, <<Bad>>, <<Garbled>>, <<Late>>}
  BY <1>1, StoreConstants DEF Digest, NoDigest
<1>3. PICK a \in Stamps : Digest(m, e) = Digest(a, a)
  BY <1>1, <1>2 DEF Hashes
<1>4. m = a /\ e = a
  BY <1>3 DEF Digest
<1>5. a \in Nat /\ a # Garbled
  BY StoreConstants DEF Garbled
<1>6. QED
  BY <1>4, <1>5

\* A row is added after all there are.
LEMMA InsertKeeps ==
  ASSUME DatabaseOK, NEW scan \in Scans, Insert(scan), Digested(scan),
         scan.state.digest \in {<<>>, <<Digest(nextId, nextId), nextId, nextId>>},
         scan.by = "import" => Sent(scan) /\ ~Holds(scan.started)
  PROVE  DatabaseOK'
<1> USE DEF DatabaseOK
<1>1. /\ Ids' = Ids \cup {nextId} /\ nextId' = nextId + 1 /\ nextId \notin Ids
      /\ scans'[nextId] = scan /\ \A i \in Ids : scans'[i] = scans[i]
  BY DEF Insert, Ids
<1>2. scans' \in [Ids' -> Scans]
  BY <1>1 DEF Insert, Ids
<1>3. Ids' \subseteq Nat /\ nextId' \in Nat \ {0} /\ \A i \in Ids' : i < nextId'
  BY <1>1
<1>4. \A i \in Ids' : (Digested(scans[i]) /\ Own(i))'
  BY <1>1 DEF Digested, Own
<1>5. ImportedOnce'
  <2> SUFFICES ASSUME NEW i \in Ids', NEW j \in Ids', i < j, scans'[i].started = scans'[j].started
               PROVE  scans'[j].by = "save"
    BY DEF ImportedOnce
  <2>1. i \in Ids
    BY <1>1, <1>3
  <2>2. CASE j \in Ids
    BY <1>1, <2>1, <2>2 DEF ImportsAreSound, ImportedOnce
  <2>3. CASE j = nextId
    <3>1. Holds(scan.started)
      BY <1>1, <2>1, <2>3 DEF Holds
    <3>2. QED
      BY <1>1, <2>3, <3>1 DEF Scans
  <2>4. QED
    BY <1>1, <2>2, <2>3
<1>6. ImportedIsSent'
  <2> SUFFICES ASSUME NEW i \in Ids', scans'[i].by = "import" PROVE Sent(scans'[i])
    BY DEF ImportedIsSent, Sent
  <2>1. CASE i \in Ids
    BY <1>1, <2>1 DEF ImportsAreSound, ImportedIsSent
  <2>2. CASE i = nextId
    BY <1>1, <2>2
  <2>3. QED
    BY <1>1, <2>1, <2>2
<1>7. QED
  BY <1>2, <1>3, <1>4, <1>5, <1>6 DEF ImportsAreSound

LEMMA WithoutKeeps == ASSUME DatabaseOK, NEW gone, Without(gone), nextId' = nextId PROVE DatabaseOK'
<1> USE DEF DatabaseOK
<1>1. Ids' \subseteq Ids /\ (\A i \in Ids' : scans'[i] = scans[i]) /\ scans' \in [Ids' -> Scans]
  BY DEF Without, Ids
<1>2. \A i \in Ids' : (Digested(scans[i]) /\ Own(i))'
  BY <1>1 DEF Digested, Own
<1>3. ImportsAreSound'
  BY <1>1 DEF ImportsAreSound, ImportedOnce, ImportedIsSent, Sent
<1>4. QED
  BY <1>1, <1>2, <1>3

(***************************************************************************)
(* Writing.                                                                *)
(***************************************************************************)
LEMMA SaveNext == ASSUME StoreInv, NEW p \in Processes, Save(p) PROVE StoreInv'
<1>1. PICK origin \in {"Scanned", "Imported"} : Insert(Scan(nextId, now, origin))
  BY DEF Save
<1>2. DatabaseOK /\ OthersOK /\ UNCHANGED <<now, columns, version, process, files>>
  BY Parts DEF Save, outside
<1> DEFINE state == IF origin = "Scanned" THEN State(nextId) ELSE NoState
           scan  == [started |-> now, origin |-> origin, by |-> "save", meta |-> nextId, entries |-> nextId,
                     hash |-> Digest(nextId, nextId), state |-> state]
<1>3. nextId \in Stamps /\ nextId \in Int /\ now \in Int
  <2>1. nextId \in Nat \ {0} /\ nextId <= MaxScans /\ now \in Nat
    BY <1>1, <1>2 DEF Insert, DatabaseOK, OthersOK
  <2>2. QED
    BY <2>1, StoreConstants DEF Stamps
<1>4. state \in States /\ state.digest \in {<<>>, <<Digest(nextId, nextId), nextId, nextId>>}
  BY <1>3, NoStates DEF State, States, Digests
<1>5. Digest(nextId, nextId) \in Hashes /\ Digest(nextId, nextId) # NoDigest
  BY <1>3 DEF Hashes, Digest, NoDigest
<1> HIDE DEF state
<1>6. scan \in Scans
  BY <1>1, <1>3, <1>4, <1>5 DEF Scans
<1>7. Insert(scan)
  BY <1>1 DEF Scan, state
<1>8. Digested(scan) /\ scan.by # "import" /\ scan.state = state
  BY <1>5 DEF Digested
<1> HIDE DEF scan
<1>9. DatabaseOK'
  BY <1>2, <1>4, <1>6, <1>7, <1>8, InsertKeeps
<1>10. QED
  BY <1>2, <1>9, OthersSame, PartsNext

LEMMA RemovalNext == ASSUME StoreInv, NEW p \in Processes, Prune(p) \/ Delete(p) PROVE StoreInv'
<1>1. DatabaseOK /\ OthersOK /\ UNCHANGED <<now, columns, version, process, files, nextId>>
  BY Parts DEF Prune, Delete, outside
<1>2. DatabaseOK'
  BY <1>1, WithoutKeeps DEF Prune, Delete
<1>3. QED
  BY <1>1, <1>2, OthersSame, PartsNext

LEMMA ImportNext == ASSUME StoreInv, CheckedInv, NEW p \in Processes, Import(p) PROVE StoreInv'
<1>1. DatabaseOK /\ OthersOK /\ UNCHANGED <<now, columns, version, files>> /\ Goes(p, Idle)
  BY Parts DEF Import, End, outside
<1>2. OthersOK'
  BY <1>1, OthersEnd
<1> DEFINE f    == process[p].id
           sent == files[f][1]
           scan == [sent EXCEPT !.by = "import"]
<1>3. CASE ~Holds(sent.started)
  <2>1. sent \in Scans /\ Digested(sent) /\ Stateless(sent) /\ Sent(sent)
    <3>1. f \in DOMAIN files /\ files[f] # <<>> /\ Sent(files[f][1])
      BY DEF Import, CheckedInv, CheckedFile
    <3>2. files[f] \in Seq(Scans)
      BY <1>1, <3>1 DEF OthersOK
    <3> HIDE DEF f
    <3>3. 1 \in DOMAIN files[f] /\ files[f][1] \in Scans
      BY <3>1, <3>2
    <3>4. QED
      BY <1>1, <3>1, <3>3 DEF OthersOK, FilesInv
  <2>2. Insert(scan)
    BY <1>3 DEF Import, Take
  <2> HIDE DEF sent
  <2>3. /\ scan \in Scans /\ scan.started = sent.started /\ scan.hash = sent.hash /\ scan.meta = sent.meta
        /\ scan.entries = sent.entries /\ scan.state = sent.state /\ scan.origin = sent.origin
    BY <2>1 DEF Scans
  <2>4. Digested(scan) /\ Sent(scan) /\ scan.state.digest = <<>> /\ ~Holds(scan.started)
    BY <1>3, <2>1, <2>3 DEF Digested, Sent, Stateless
  <2> HIDE DEF scan
  <2>5. DatabaseOK'
    BY <1>1, <2>2, <2>3, <2>4, InsertKeeps
  <2>6. QED
    BY <1>2, <2>5, PartsNext
<1>4. CASE Holds(sent.started)
  <2>1. UNCHANGED <<scans, nextId>>
    BY <1>4 DEF Import
  <2>2. QED
    BY <1>1, <1>2, <2>1, DatabaseSame, PartsNext
<1>5. QED
  BY <1>3, <1>4

(***************************************************************************)
(* The files and what rots.                                                *)
(***************************************************************************)
LEMMA FileAdded ==
  ASSUME OthersOK, NEW file \in Seq(Scans), files' = Append(files, file),
         \A k \in DOMAIN file : Digested(file[k]) /\ Stateless(file[k])
  PROVE  files' \in Seq(Seq(Scans)) /\ FilesInv'
<1>1. files \in Seq(Seq(Scans)) /\ FilesInv
  BY DEF OthersOK
<1>2. files' \in Seq(Seq(Scans)) /\ Len(files') = Len(files) + 1 /\ files'[Len(files) + 1] = file
      /\ \A f \in 1..Len(files) : files'[f] = files[f]
  BY <1>1, AppendProperties
<1>3. FilesInv'
  <2> SUFFICES ASSUME NEW f \in DOMAIN files', NEW k \in DOMAIN files'[f]
               PROVE  Digested(files'[f][k]) /\ Stateless(files'[f][k])
    BY DEF FilesInv, Digested, Stateless
  <2>1. f \in 1..(Len(files) + 1)
    BY <1>2
  <2>2. CASE f = Len(files) + 1
    BY <1>2, <2>2
  <2>3. CASE f \in 1..Len(files)
    BY <1>1, <1>2, <2>3 DEF FilesInv
  <2>4. QED
    BY <1>1, <2>1, <2>2, <2>3
<1>4. QED
  BY <1>2, <1>3

LEMMA ArriveNext == StoreInv /\ Arrive => StoreInv'
<1> SUFFICES ASSUME StoreInv, Arrive PROVE StoreInv'
  OBVIOUS
<1>1. DatabaseOK /\ OthersOK /\ UNCHANGED <<now, columns, version, process, scans, nextId>>
  BY Parts DEF Arrive, outside, database
<1>2. PICK stamp \in Foreign, at \in 1..(MaxTime + 1) :
        files' = Append(files, <<[Scan(stamp, at, "Scanned") EXCEPT !.state = NoState]>>)
  BY DEF Arrive
<1> DEFINE scan == [Scan(stamp, at, "Scanned") EXCEPT !.state = NoState]
<1>3. stamp \in Stamps /\ stamp \in Int /\ at \in Int /\ Digest(stamp, stamp) \in Hashes
      /\ Digest(stamp, stamp) # NoDigest
  BY StoreAssumption, StoreConstants DEF Stamps, Hashes, Digest, NoDigest
<1>4. scan \in Scans /\ scan.hash = Digest(stamp, stamp) /\ scan.state = NoState
  BY <1>3, NoStates DEF Scan, Scans
<1> HIDE DEF scan
<1>5. <<scan>> \in Seq(Scans) /\ \A k \in DOMAIN <<scan>> : Digested(<<scan>>[k]) /\ Stateless(<<scan>>[k])
  BY <1>3, <1>4, NoStates DEF Digested, Stateless
<1>6. files' = Append(files, <<scan>>)
  BY <1>2 DEF scan
<1>7. files' \in Seq(Seq(Scans)) /\ FilesInv'
  BY <1>1, <1>5, <1>6, FileAdded
<1>8. OthersOK'
  BY <1>1, <1>7 DEF OthersOK, SchemaInv, InOrder, Migrating, Carries, Digested, Stateless, BaseSoFar
<1>9. QED
  BY <1>1, <1>8, DatabaseSame, PartsNext

LEMMA CopyEntriesNext == ASSUME StoreInv, NEW p \in Processes, CopyEntries(p) PROVE StoreInv'
<1>1. DatabaseOK /\ OthersOK /\ UNCHANGED <<now, columns, version, scans, nextId>> /\ Goes(p, Idle)
  BY Parts DEF CopyEntries, End, outside, database
<1> DEFINE copy == process[p].copy
           e    == Entries(process[p].id)
           file == [k \in DOMAIN copy |-> [copy[k] EXCEPT !.entries = e]]
<1>2. copy \in Seq(Scans) /\ e \in Int /\ \A k \in DOMAIN copy : Digested(copy[k]) /\ Stateless(copy[k])
  <2>1. process[p] \in Process /\ Carries(process[p]) /\ StoreTypeOK
    BY <1>1 DEF OthersOK, StoreInv
  <2>2. QED
    BY <2>1, EntriesTyped DEF Process, Carries
<1>3. files' = Append(files, file)
  BY DEF CopyEntries
<1> HIDE DEF copy, e
<1>4. ASSUME NEW k \in DOMAIN copy
      PROVE  file[k] \in Scans /\ Digested(file[k]) /\ Stateless(file[k])
  <2>1. copy[k] \in Scans
    BY <1>2, <1>4
  <2>2. QED
    BY <1>2, <2>1 DEF Scans, Digested, Stateless
<1>5. file \in Seq(Scans) /\ DOMAIN file = DOMAIN copy
  <2>1. DOMAIN copy = 1..Len(copy) /\ Len(copy) \in Nat
    BY <1>2
  <2>2. file \in [1..Len(copy) -> Scans]
    BY <1>4, <2>1
  <2>3. QED
    BY <2>1, <2>2, SeqDef
<1> HIDE DEF file
<1>6. files' \in Seq(Seq(Scans)) /\ FilesInv'
  BY <1>1, <1>3, <1>4, <1>5, FileAdded
<1>7. process' \in [Processes -> Process] /\ \A q \in Processes : process'[q] = process[q] \/ process'[q] = Idle
  BY <1>1, IdleTyped DEF OthersOK, Goes
<1>8. ASSUME NEW q \in Processes PROVE (Migrating(process[q]) /\ Carries(process[q]) /\ BaseSoFar(process[q]))'
  <2>1. CASE process'[q] = Idle
    BY <2>1, IdleTyped DEF Migrating, Carries, BaseSoFar
  <2>2. CASE process'[q] = process[q]
    BY <1>1, <2>2 DEF OthersOK, SchemaInv, Migrating, Carries, Digested, Stateless, BaseSoFar
  <2>3. QED
    BY <1>7, <2>1, <2>2
<1>9. OthersOK'
  BY <1>1, <1>6, <1>7, <1>8 DEF OthersOK, SchemaInv, InOrder
<1>10. QED
  BY <1>1, <1>9, DatabaseSame, PartsNext

\* What rots of a scan stays a scan's, and no digest rots into a good one.
LEMMA RotsKeep ==
  ASSUME NEW scan \in Scans, NEW bad \in {Bad, Garbled, Late}, NEW x \in Rots(scan, bad)
  PROVE  /\ x \in Scans /\ x.started = scan.started /\ x.by = scan.by
         /\ x.state.digest = scan.state.digest
         /\ x.meta \in {scan.meta, bad} /\ x.entries \in {scan.entries, bad} /\ x.hash \in {scan.hash, <<bad>>}
         /\ Digested(scan) => Digested(x)
<1>1. bad \in Int /\ <<bad>> \in Hashes /\ <<bad>> # NoDigest
  BY StoreConstants DEF Hashes, NoDigest
<1>2. CASE x = [scan EXCEPT !.meta = bad]
  BY <1>1, <1>2 DEF Scans, Digested
<1>3. CASE x = [scan EXCEPT !.entries = bad]
  BY <1>1, <1>3 DEF Scans, Digested
<1>4. CASE x = [scan EXCEPT !.hash = <<bad>>]
  BY <1>1, <1>4 DEF Scans, Digested
<1>5. CASE x = [scan EXCEPT !.state.journal = bad]
  <2> DEFINE state == [scan.state EXCEPT !.journal = bad]
  <2>1. state \in States /\ state.digest = scan.state.digest
    BY <1>1 DEF Scans, States
  <2>2. x = [scan EXCEPT !.state = state]
    BY <1>5 DEF Scans
  <2> HIDE DEF state
  <2>3. QED
    BY <2>1, <2>2 DEF Scans, Digested
<1>6. CASE x = [scan EXCEPT !.state.flags = bad]
  <2> DEFINE state == [scan.state EXCEPT !.flags = bad]
  <2>1. state \in States /\ state.digest = scan.state.digest
    BY <1>1 DEF Scans, States
  <2>2. x = [scan EXCEPT !.state = state]
    BY <1>6 DEF Scans
  <2> HIDE DEF state
  <2>3. QED
    BY <2>1, <2>2 DEF Scans, Digested
<1>7. QED
  BY <1>2, <1>3, <1>4, <1>5, <1>6 DEF Rots

LEMMA RotNext == StoreInv /\ Rot => StoreInv'
<1> SUFFICES ASSUME StoreInv, Rot PROVE StoreInv'
  OBVIOUS
<1>1. DatabaseOK /\ OthersOK /\ UNCHANGED <<now, columns, version, process, nextId>>
  BY Parts DEF Rot
<1>2. ASSUME NEW i \in Ids, NEW x \in Rots(scans[i], Bad), scans' = [scans EXCEPT ![i] = x], UNCHANGED files
      PROVE  StoreInv'
  <2>1. scans[i] \in Scans /\ scans \in [Ids -> Scans]
    BY <1>1 DEF DatabaseOK
  <2>2. /\ x \in Scans /\ x.started = scans[i].started /\ x.by = scans[i].by
        /\ x.state.digest = scans[i].state.digest
        /\ x.meta \in {scans[i].meta, Bad} /\ x.entries \in {scans[i].entries, Bad}
        /\ x.hash \in {scans[i].hash, <<Bad>>}
        /\ Digested(scans[i]) => Digested(x)
    BY <2>1, RotsKeep
  <2>3. Ids' = Ids /\ scans' \in [Ids -> Scans] /\ scans'[i] = x /\ \A j \in Ids : j # i => scans'[j] = scans[j]
    BY <1>2, <2>1, <2>2 DEF Ids
  <2>4. \A j \in Ids : (Digested(scans[j]) /\ Own(j))'
    BY <1>1, <2>2, <2>3 DEF DatabaseOK, Digested, Own
  <2>5. ImportedOnce'
    BY <1>1, <2>2, <2>3 DEF DatabaseOK, ImportsAreSound, ImportedOnce
  <2>6. ImportedIsSent'
    BY <1>1, <2>2, <2>3, StoreConstants DEF DatabaseOK, ImportsAreSound, ImportedIsSent, Sent
  <2>7. DatabaseOK'
    BY <1>1, <2>3, <2>4, <2>5, <2>6 DEF DatabaseOK, ImportsAreSound
  <2>8. QED
    BY <1>1, <1>2, <2>7, OthersSame, PartsNext
<1>3. ASSUME NEW f \in DOMAIN files, NEW i \in DOMAIN files[f], NEW bad \in {Garbled, Late},
             NEW x \in Rots(files[f][i], bad), files' = [files EXCEPT ![f][i] = x], UNCHANGED scans
      PROVE  StoreInv'
  <2>1. files \in Seq(Seq(Scans)) /\ files[f] \in Seq(Scans) /\ files[f][i] \in Scans
    BY <1>1 DEF OthersOK
  <2>2. x \in Scans /\ (Digested(files[f][i]) => Digested(x)) /\ (Stateless(files[f][i]) => Stateless(x))
    BY <2>1, RotsKeep DEF Stateless
  <2> DEFINE file == [files[f] EXCEPT ![i] = x]
  <2>3. file \in Seq(Scans) /\ DOMAIN file = DOMAIN files[f] /\ file[i] = x
        /\ \A k \in DOMAIN file : k # i => file[k] = files[f][k]
    BY <2>1, <2>2
  <2>4. files' = [files EXCEPT ![f] = file]
    BY <1>3
  <2> HIDE DEF file
  <2>5. files' \in Seq(Seq(Scans)) /\ DOMAIN files' = DOMAIN files /\ files'[f] = file
        /\ \A g \in DOMAIN files : g # f => files'[g] = files[g]
    BY <2>1, <2>3, <2>4
  <2>6. FilesInv'
    <3> SUFFICES ASSUME NEW g \in DOMAIN files', NEW k \in DOMAIN files'[g]
                 PROVE  Digested(files'[g][k]) /\ Stateless(files'[g][k])
      BY DEF FilesInv, Digested, Stateless
    <3>1. CASE g = f
      <4>1. \A l \in DOMAIN files[f] : Digested(files[f][l]) /\ Stateless(files[f][l])
        BY <1>1 DEF OthersOK, FilesInv
      <4>2. QED
        BY <2>2, <2>3, <2>5, <3>1, <4>1
    <3>2. CASE g # f
      BY <1>1, <2>5, <3>2 DEF OthersOK, FilesInv
    <3>3. QED
      BY <3>1, <3>2
  <2>7. OthersOK'
    BY <1>1, <2>5, <2>6 DEF OthersOK, SchemaInv, InOrder, Migrating, Carries, Digested, Stateless, BaseSoFar
  <2>8. QED
    BY <1>1, <1>3, <2>7, DatabaseSame, PartsNext
<1>4. QED
  BY <1>2, <1>3 DEF Rot

LEMMA TickNext == StoreInv /\ Tick => StoreInv'
<1> SUFFICES ASSUME StoreInv, Tick PROVE StoreInv'
  OBVIOUS
<1>1. DatabaseOK /\ OthersOK /\ UNCHANGED <<columns, version, process, files, scans, nextId>>
  BY Parts DEF Tick, database
<1>2. now' \in Nat
  BY StoreConstants DEF Tick
<1>3. OthersOK'
  BY <1>1, <1>2 DEF OthersOK, SchemaInv, InOrder, Migrating, FilesInv, Digested, Stateless, Carries, Matches, BaseSoFar
<1>4. QED
  BY <1>1, <1>3, DatabaseSame, PartsNext

(***************************************************************************)
(* Opening.                                                                *)
(***************************************************************************)
LEMMA AllColumns == ASSUME columns \in Seq(Names), InOrder, Len(columns) = 4 PROVE columns = Declared
<1>1. Declared \in Seq(Names) /\ Len(Declared) = 4
  BY DEF Declared, Names
<1>2. \A k \in 1..Len(columns) : columns[k] = Declared[k]
  BY DEF InOrder
<1>3. QED
  BY <1>1, <1>2, SeqEqual

\* The columns of the file and where one process is, while it is migrated.
LEMMA SchemaStep ==
  ASSUME StoreInv, NEW p \in Processes, NEW s \in Process, Goes(p, s), UNCHANGED <<now, scans, nextId, files>>,
         s.copy = process[p].copy \/ s.copy = <<>>, s.at \in {"Idle", "Column", "Stamp"},
         columns' \in Seq(Names), InOrder', Len(columns) <= Len(columns'),
         version' \in Nat, version' = 3 => Len(columns') = 4,
         s.at = "Column" => s.column \in 2..4 /\ s.column <= Len(columns') + 1,
         s.at = "Stamp" => Len(columns') = 4
  PROVE  StoreInv'
<1>1. DatabaseOK /\ OthersOK
  BY Parts
<1>2. process' \in [Processes -> Process] /\ process'[p] = s /\ \A q \in Processes : q # p => process'[q] = process[q]
  BY ProcessMoves DEF StoreInv
<1>3. Len(columns) \in Nat /\ Len(columns') \in Nat /\ Len(columns') <= 4 /\ Len(columns) <= 4
  BY <1>1, StoreConstants DEF OthersOK, SchemaInv, InOrder
<1>4. ASSUME NEW q \in Processes PROVE (Migrating(process[q]) /\ Carries(process[q]) /\ BaseSoFar(process[q]))'
  <2>1. CASE q = p
    BY <1>1, <1>2, <2>1 DEF OthersOK, Migrating, Carries, Digested, Stateless, BaseSoFar
  <2>2. CASE q # p
    <3>1. process'[q] = process[q] /\ Migrating(process[q]) /\ Carries(process[q]) /\ BaseSoFar(process[q])
      BY <1>1, <1>2, <2>2 DEF OthersOK, SchemaInv
    <3>2. process[q].column \in Int
      BY <1>1 DEF OthersOK, Process
    <3>3. Migrating(process[q])'
      <4>1. Len(columns) = 4 => Len(columns') = 4
        <5>1. \A m, n \in Nat : m <= n /\ n <= 4 /\ m = 4 => n = 4
          OBVIOUS
        <5>2. QED
          BY <1>3, <5>1
      <4>2. QED
        BY <1>3, <3>1, <3>2, <4>1 DEF Migrating
    <3>4. QED
      BY <3>1, <3>3 DEF Carries, Digested, Stateless, BaseSoFar
  <2>3. QED
    BY <2>1, <2>2
<1>5. OthersOK'
  BY <1>1, <1>2, <1>4 DEF OthersOK, SchemaInv, FilesInv, Digested, Stateless
<1>6. QED
  BY <1>1, <1>5, DatabaseSame, PartsNext

LEMMA DeclaredInOrder ==
  /\ Declared \in Seq(Names) /\ Len(Declared) = 4
  /\ \A n \in 0..4 : /\ SubSeq(Declared, 1, n) \in Seq(Names) /\ Len(SubSeq(Declared, 1, n)) = n
                     /\ \A k \in 1..n : SubSeq(Declared, 1, n)[k] = Declared[k]
<1>1. Declared \in Seq(Names) /\ Len(Declared) = 4
  BY DEF Declared, Names
<1>2. ASSUME NEW n \in 0..4
      PROVE  /\ SubSeq(Declared, 1, n) \in Seq(Names) /\ Len(SubSeq(Declared, 1, n)) = n
             /\ \A k \in 1..n : SubSeq(Declared, 1, n)[k] = Declared[k]
  <2>1. \A k \in 1..n : Declared[k] \in Names
    BY DeclaredNames
  <2>2. /\ SubSeq(Declared, 1, n) \in Seq(Names) /\ Len(SubSeq(Declared, 1, n)) = IF 1 <= n THEN n - 1 + 1 ELSE 0
        /\ \A k \in 1..(n - 1 + 1) : SubSeq(Declared, 1, n)[k] = Declared[1 + k - 1]
    BY <2>1, SubSeqProperties
  <2>3. QED
    BY <2>2
<1>3. QED
  BY <1>1, <1>2

LEMMA OpenNext == ASSUME StoreInv, NEW p \in Processes, Open(p) PROVE StoreInv'
<1>1. OthersOK /\ UNCHANGED <<now, scans, nextId, files, version>> /\ version # 3
  <2>1. OthersOK /\ version < 3 /\ UNCHANGED <<now, scans, nextId, files, version>>
    BY Parts DEF Open, outside
  <2>2. version \in Nat
    BY <2>1 DEF OthersOK
  <2>3. QED
    BY <2>1, <2>2
<1> DEFINE s == [process[p] EXCEPT !.at = "Column", !.column = 2]
<1>2. Goes(p, s)
  BY DEF Open
<1>3. s \in Process /\ s.at = "Column" /\ s.column = 2 /\ s.copy = process[p].copy
  <2>1. process[p] \in Process
    BY <1>1 DEF OthersOK
  <2> DEFINE two == 2
             t == [process[p] EXCEPT !.at = "Column", !.column = two]
  <2>2. two \in Int
    OBVIOUS
  <2> HIDE DEF two
  <2>3. t \in Process
    BY <2>1, <2>2, GoesOn DEF Places
  <2>4. t.at = "Column" /\ t.column = two /\ t.copy = process[p].copy
    BY <2>1 DEF Process
  <2>5. QED
    BY <2>3, <2>4 DEF two
<1>4. columns' \in Seq(Names) /\ InOrder' /\ Len(columns) <= Len(columns') /\ 2 <= Len(columns') + 1
  <2>1. columns \in Seq(Names) /\ Len(columns) \in Nat /\ InOrder
    BY <1>1 DEF OthersOK, SchemaInv
  <2>2. CASE columns = <<>>
    <3>1. columns' = Declared /\ Len(columns) = 0
      BY <2>2 DEF Open
    <3>2. QED
      BY <3>1, DeclaredInOrder DEF InOrder
  <2>3. CASE columns # <<>>
    <3>1. columns' = columns
      BY <2>3 DEF Open
    <3>2. Len(columns) # 0
      BY <2>1, <2>3
    <3>3. QED
      BY <2>1, <3>1, <3>2 DEF InOrder
  <2>4. QED
    BY <2>2, <2>3
<1> HIDE DEF s
<1>5. version' \in Nat /\ version' # 3
  BY <1>1 DEF OthersOK
<1>6. QED
  BY <1>1, <1>2, <1>3, <1>4, <1>5, SchemaStep

LEMMA AddColumnNext == ASSUME StoreInv, NEW p \in Processes, AddColumn(p) PROVE StoreInv'
<1>1. OthersOK /\ UNCHANGED <<now, scans, nextId, files, version>>
  BY Parts DEF AddColumn, outside
<1> DEFINE k == process[p].column
<1>2. /\ process[p] \in Process /\ columns \in Seq(Names) /\ Len(columns) \in Nat /\ InOrder /\ version \in Nat
      /\ k \in 2..4 /\ k <= Len(columns) + 1 /\ Len(columns) <= 4
      /\ version = 3 => Len(columns) = 4
  <2>1. At(p, "Alter") /\ Migrating(process[p])
    BY <1>1 DEF AddColumn, OthersOK, SchemaInv
  <2>2. QED
    BY <1>1, <2>1, StoreConstants DEF OthersOK, SchemaInv, InOrder, Migrating, At
<1>3. CASE Added(Column(p))
  <2>1. Goes(p, Idle) /\ columns' = columns
    BY <1>3 DEF AddColumn, End
  <2>2. DatabaseOK
    BY Parts
  <2>3. QED
    BY <1>1, <2>1, <2>2, OthersEnd, DatabaseSame, PartsNext
<1>4. CASE ~Added(Column(p))
  <2>1. Len(columns) = k - 1
    <3>1. CASE k <= Len(columns)
      <4>1. k \in DOMAIN columns /\ columns[k] = Declared[k]
        BY <1>2, <3>1 DEF InOrder
      <4>2. QED
        BY <1>4, <4>1 DEF Added, Column
    <3>2. CASE ~(k <= Len(columns))
      BY <1>2, <3>2
    <3>3. QED
      BY <3>1, <3>2
  <2>2. columns' = Append(columns, Declared[k])
    BY <1>4 DEF AddColumn, Column
  <2>3. Declared[k] \in Names
    BY <1>2, DeclaredNames
  <2> DEFINE at == IF k = Len(Declared) THEN "Stamp" ELSE "Column"
             s  == [process[p] EXCEPT !.at = at, !.column = k + 1]
  <2>4. Goes(p, s)
    BY <1>4 DEF AddColumn, NextColumn
  <2>5. at \in Places /\ k + 1 \in Int /\ at \in {"Column", "Stamp"}
    BY <1>2 DEF Places
  <2>6. (at = "Stamp" /\ k = 4) \/ (at = "Column" /\ k # 4)
    BY StoreConstants
  <2> HIDE DEF at, k
  <2>7. s \in Process
    BY <1>2, <2>5, GoesOn
  <2>8. s.at = at /\ s.column = k + 1 /\ s.copy = process[p].copy
    BY <1>2 DEF Process
  <2> HIDE DEF s
  <2>9. /\ columns' \in Seq(Names) /\ Len(columns') = Len(columns) + 1 /\ columns'[Len(columns) + 1] = Declared[k]
        /\ \A j \in 1..Len(columns) : columns'[j] = columns[j]
    BY <1>2, <2>2, <2>3, AppendProperties
  <2>10. Len(columns') = k
    BY <1>2, <2>1, <2>9
  <2>11. InOrder'
    <3>1. Len(columns') <= Len(Declared)
      BY <1>2, <2>10, StoreConstants
    <3>2. ASSUME NEW j \in 1..Len(columns') PROVE columns'[j] = Declared[j]
      <4>1. CASE j = k
        BY <1>2, <2>1, <2>9, <4>1
      <4>2. CASE j # k
        <5>1. j \in 1..Len(columns)
          BY <1>2, <2>1, <2>10, <4>2
        <5>2. QED
          BY <1>2, <2>9, <5>1 DEF InOrder
      <4>3. QED
        BY <4>1, <4>2
    <3>3. QED
      BY <3>1, <3>2 DEF InOrder
  <2>12. version' \in Nat /\ version' # 3
    BY <1>1, <1>2, <2>1
  <2>13. s.at = "Stamp" => Len(columns') = 4
    BY <2>6, <2>8, <2>10
  <2>14. s.at = "Column" => s.column \in 2..4 /\ s.column <= Len(columns') + 1
    <3>1. k # 4 => k + 1 \in 2..4 /\ k + 1 <= k + 1
      BY <1>2
    <3>2. QED
      BY <2>6, <2>8, <2>10, <3>1
  <2>15. Len(columns) <= Len(columns')
    BY <1>2, <2>9
  <2>16. s.at \in {"Idle", "Column", "Stamp"}
    BY <2>5, <2>8
  <2>17. QED
    BY <1>1, <2>4, <2>7, <2>8, <2>9, <2>11, <2>12, <2>13, <2>14, <2>15, <2>16, SchemaStep
<1>5. QED
  BY <1>3, <1>4

LEMMA StampNext == ASSUME StoreInv, NEW p \in Processes, Stamp(p) PROVE StoreInv'
<1>1. /\ OthersOK /\ UNCHANGED <<now, scans, nextId, files, columns>> /\ version' = 3 /\ Goes(p, Idle)
      /\ At(p, "Stamp")
  BY Parts DEF Stamp, End, outside
<1>2. Len(columns) = 4 /\ columns \in Seq(Names) /\ InOrder /\ Len(columns) \in Nat
  BY <1>1 DEF OthersOK, SchemaInv, Migrating, At
<1>3. InOrder' /\ Len(columns') = 4 /\ Len(columns) <= Len(columns') /\ columns' \in Seq(Names)
  BY <1>1, <1>2 DEF InOrder
<1>4. version' \in Nat
  BY <1>1
<1>5. QED
  BY <1>1, <1>3, <1>4, IdleTyped, SchemaStep

(***************************************************************************)
(* The theorems.                                                           *)
(***************************************************************************)
LEMMA StoreInvInit == Init => StoreInv
<1> SUFFICES ASSUME Init PROVE StoreInv
  OBVIOUS
<1>1. PICK n \in OldColumns :
        /\ columns = SubSeq(Declared, 1, n)
        /\ version = IF n < 3 THEN n ELSE n - 1
        /\ scans = [i \in IF n \in {1, 3} THEN {1} ELSE {} |-> OldScan]
  BY DEF Init
<1>2. n \in {0, 1, 3, 4}
  BY StoreAssumption
<1>3. SchemaInv
  <2>1. Len(columns) = n /\ columns \in Seq(Names) /\ InOrder
    BY <1>1, <1>2, DeclaredInOrder DEF InOrder
  <2>2. version = 3 => n = 4
    BY <1>1, <1>2
  <2>3. \A p \in Processes : process[p] = Idle
    BY DEF Init
  <2>4. QED
    BY <2>1, <2>2, <2>3, IdleSane DEF SchemaInv
<1>4. columns \in Seq(Names) /\ version \in Nat
  <2>1. columns \in Seq(Names)
    BY <1>1, <1>2, DeclaredInOrder
  <2>2. version \in Nat
    BY <1>1, <1>2
  <2>3. QED
    BY <2>1, <2>2
<1>5. OthersOK
  <2>1. process \in [Processes -> Process] /\ \A p \in Processes : process[p] = Idle
    BY IdleTyped DEF Init
  <2>2. files = <<>> /\ now = 1
    BY DEF Init
  <2>3. QED
    BY <1>3, <1>4, <2>1, <2>2, IdleSane DEF OthersOK, FilesInv
<1>6. OldScan \in Scans /\ OldScan.origin = "Imported" /\ OldScan.by = "save" /\ OldScan.state = NoState
  <2> DEFINE one == 1
  <2>1. one \in Int /\ NoDigest \in Hashes
    BY DEF Hashes
  <2> HIDE DEF one
  <2>2. [started |-> one, origin |-> "Imported", by |-> "save", meta |-> one, entries |-> one,
         hash |-> NoDigest, state |-> NoState] \in Scans
    BY <2>1, NoStates DEF Scans
  <2>3. OldScan = [started |-> one, origin |-> "Imported", by |-> "save", meta |-> one, entries |-> one,
                   hash |-> NoDigest, state |-> NoState]
    BY DEF OldScan, Scan, one
  <2>4. QED
    BY <2>2, <2>3
<1>7. Ids \subseteq {1} /\ scans \in [Ids -> Scans] /\ \A i \in Ids : scans[i] = OldScan
  BY <1>1, <1>6 DEF Ids
<1>8. DatabaseOK
  <2>1. nextId = 2
    BY DEF Init
  <2>2. ImportsAreSound
    BY <1>6, <1>7 DEF ImportsAreSound, ImportedOnce, ImportedIsSent, Sent
  <2>3. \A i \in Ids : Digested(scans[i]) /\ Own(i)
    BY <1>6, <1>7, NoStates DEF Digested, Own
  <2>4. QED
    BY <1>7, <2>1, <2>2, <2>3 DEF DatabaseOK
<1>9. QED
  BY <1>5, <1>8, Parts

LEMMA StoreInvNext == StoreInv /\ CheckedInv /\ [Next]_vars => StoreInv'
<1> SUFFICES ASSUME StoreInv, CheckedInv, [Next]_vars PROVE StoreInv'
  OBVIOUS
<1>1. CASE UNCHANGED vars
  <2>1. UNCHANGED <<now, columns, version, process, files, scans, nextId>>
    BY <1>1 DEF vars, outside, database
  <2>2. QED
    BY <2>1, Parts, DatabaseSame, OthersSame, PartsNext
<1>2. ASSUME NEW p \in Processes, Opening(p) PROVE StoreInv'
  BY <1>2, OpenNext, HasColumnNext, AddColumnNext, StampNext DEF Opening
<1>3. ASSUME NEW p \in Processes, Exporting(p) PROVE StoreInv'
  <2>1. CASE ReadMeta(p, "Verify", "Compare")
    BY <2>1, ReadMetaNext
  <2>2. CASE ReadEntries(p, "Compare", "Copy")
    BY <2>2, ReadEntriesNext
  <2>3. QED
    BY <1>3, <2>1, <2>2, ExportNext, CopyRowNext, CopyEntriesNext DEF Exporting, Verify
<1>4. ASSUME NEW p \in Processes, Importing(p) PROVE StoreInv'
  BY <1>4, CheckFileNext, ImportNext DEF Importing
<1>5. ASSUME NEW p \in Processes, Step(p) PROVE StoreInv'
  BY <1>2, <1>3, <1>4, <1>5, SaveNext, RemovalNext, RescanNext DEF Step
<1>6. QED
  BY <1>1, <1>5, KillNext, TickNext, RotNext, ArriveNext DEF Next

\* Nothing is written to a file that was checked, and what rots is not what
\* had rotted before.
LEMMA CheckedSame ==
  ASSUME StoreInv, CheckedInv, \A f \in DOMAIN files : f \in DOMAIN files' /\ files'[f] = files[f],
         \A q \in Processes : process'[q] = process[q] \/ process'[q].at # "Checked"
  PROVE  CheckedInv'
BY DEF CheckedInv, CheckedFile, At, Sent

LEMMA CheckedGoes ==
  ASSUME StoreInv, CheckedInv, NEW p \in Processes, NEW s, Goes(p, s), s.at # "Checked", files' = files
  PROVE  CheckedInv'
<1>1. process'[p] = s /\ \A q \in Processes : q # p => process'[q] = process[q]
  BY DEF StoreInv, StoreTypeOK, Goes
<1>2. QED
  BY <1>1, CheckedSame

LEMMA CheckFileChecks == ASSUME StoreInv, CheckedInv, NEW p \in Processes, CheckFile(p) PROVE CheckedInv'
<1>1. PICK f \in DOMAIN files :
        /\ files[f] # <<>> /\ Sound(files[f][1])
        /\ Goes(p, [process[p] EXCEPT !.at = "Checked", !.id = f])
  BY DEF CheckFile
<1>2. files' = files /\ process \in [Processes -> Process] /\ process[p] \in Process /\ files \in Seq(Seq(Scans))
  BY DEF CheckFile, StoreInv, StoreTypeOK
<1>3. process'[p].id = f /\ \A q \in Processes : q # p => process'[q] = process[q]
  BY <1>1, <1>2 DEF Goes, Process
<1>4. CheckedFile(f)
  <2>1. files[f][1] \in Scans
    <3>1. files[f] \in Seq(Scans)
      BY <1>2
    <3>2. QED
      BY <1>1, <3>1
  <2>2. Matches(files[f][1])
    BY <1>1 DEF Sound, Matches
  <2>3. QED
    BY <1>1, <2>1, <2>2, MatchingIsSent DEF CheckedFile
<1>5. ASSUME NEW q \in Processes, At(q, "Checked")' PROVE CheckedFile(process'[q].id)
  BY <1>3, <1>4, <1>5 DEF CheckedInv, At
<1>6. QED
  BY <1>2, <1>5 DEF CheckedInv, CheckedFile, Sent, At

LEMMA RotChecks == StoreInv /\ CheckedInv /\ Rot => CheckedInv'
<1> SUFFICES ASSUME StoreInv, CheckedInv, Rot PROVE CheckedInv'
  OBVIOUS
<1>1. process' = process
  BY DEF Rot
<1>2. CASE files' = files
  BY <1>1, <1>2, CheckedSame
<1>3. ASSUME NEW f \in DOMAIN files, NEW i \in DOMAIN files[f],
             NEW x \in Rots(files[f][i], IF Imported(f) THEN Late ELSE Garbled),
             files' = [files EXCEPT ![f][i] = x]
      PROVE  CheckedInv'
  <2> SUFFICES ASSUME NEW p \in Processes, At(p, "Checked") PROVE CheckedFile(process[p].id)'
    BY <1>1 DEF CheckedInv, At
  <2> DEFINE g == process[p].id
  <2>1. g \in DOMAIN files /\ files[g] # <<>> /\ Sent(files[g][1])
    BY DEF CheckedInv, CheckedFile
  <2> DEFINE file == [files[f] EXCEPT ![i] = x]
  <2>2. files[f] \in Seq(Scans) /\ files[g] \in Seq(Scans) /\ DOMAIN files' = DOMAIN files /\ files'[f] = file
        /\ \A h \in DOMAIN files : h # f => files'[h] = files[h]
    BY <1>3, <2>1 DEF StoreInv, StoreTypeOK
  <2>3. CASE g # f
    BY <1>1, <2>1, <2>2, <2>3 DEF CheckedFile, Sent
  <2>4. CASE g = f
    <3>1. Imported(f)
      BY <2>4 DEF Imported
    <3> HIDE DEF g
    <3>2. x \in Rots(files[f][i], Late) /\ files[f][i] \in Scans
      BY <1>3, <2>2, <3>1
    <3>3. x.meta \in {files[f][i].meta, Late} /\ x.entries \in {files[f][i].entries, Late}
          /\ x.hash \in {files[f][i].hash, <<Late>>}
      BY <3>2, RotsKeep
    <3>4. file # <<>> /\ (file[1] = files[f][1] \/ (i = 1 /\ file[1] = x))
      BY <2>1, <2>2, <2>4
    <3>5. Sent(files[f][1])
      BY <2>1, <2>4
    <3> HIDE DEF file
    <3>6. Sent(file[1])
      <4>1. CASE file[1] = files[f][1]
        BY <3>5, <4>1
      <4>2. CASE i = 1 /\ file[1] = x
        BY <3>3, <3>5, <4>2, StoreConstants DEF Sent
      <4>3. QED
        BY <3>4, <4>1, <4>2
    <3>7. process'[p].id = f
      BY <1>1, <2>4 DEF g
    <3>8. QED
      BY <2>1, <2>2, <2>4, <3>4, <3>6, <3>7 DEF CheckedFile, Sent
  <2>5. QED
    BY <2>3, <2>4
<1>4. QED
  BY <1>2, <1>3 DEF Rot

LEMMA FilesOnlyAdded ==
  ASSUME StoreInv, NEW file, files' = Append(files, file)
  PROVE  \A f \in DOMAIN files : f \in DOMAIN files' /\ files'[f] = files[f]
<1>1. files \in Seq(Seq(Scans))
  BY DEF StoreInv, StoreTypeOK
<1> DEFINE Any == Seq(Scans) \cup {file}
<1>2. files \in Seq(Any) /\ file \in Any
  BY <1>1, SeqDef
<1> HIDE DEF Any
<1>3. DOMAIN files = 1..Len(files) /\ DOMAIN files' = 1..(Len(files) + 1) /\ Len(files) \in Nat
      /\ \A f \in 1..Len(files) : files'[f] = files[f]
  BY <1>2, AppendProperties
<1>4. QED
  BY <1>3

\* A process is at "Checked" only where it checked a file.
LEMMA StepChecks == ASSUME StoreInv, CheckedInv, NEW p \in Processes, Step(p), ~CheckFile(p) PROVE CheckedInv'
<1>1. process[p] \in Process /\ Idle.at # "Checked"
  BY IdleTyped DEF StoreInv, StoreTypeOK
<1>2. CASE Save(p) \/ Prune(p) \/ Delete(p)
  <2>1. process' = process /\ files' = files
    BY <1>2 DEF Save, Prune, Delete
  <2>2. QED
    BY <2>1, CheckedSame
<1>3. CASE Import(p) \/ Rescanned(p) \/ Stamp(p)
  <2>1. Goes(p, Idle) /\ files' = files
    BY <1>3 DEF Import, Rescanned, Stamp, End
  <2>2. QED
    BY <1>1, <2>1, CheckedGoes
<1>4. CASE CopyEntries(p)
  <2>1. Goes(p, Idle) /\ \E file : files' = Append(files, file)
    BY <1>4 DEF CopyEntries, End
  <2>2. \A q \in Processes : process'[q] = process[q] \/ process'[q].at # "Checked"
    BY <1>1, <2>1 DEF Goes, StoreInv, StoreTypeOK
  <2>3. QED
    BY <2>1, <2>2, FilesOnlyAdded, CheckedSame
<1> DEFINE Moves(places) ==
             /\ files' = files /\ process'[p].at \in places
             /\ \A q \in Processes : q # p => process'[q] = process[q]
<1>5. ASSUME NEW places, "Checked" \notin places, Moves(places) PROVE CheckedInv'
  <2>1. \A q \in Processes : process'[q] = process[q] \/ process'[q].at # "Checked"
    BY <1>5
  <2>2. QED
    BY <1>5, <2>1, CheckedSame
<1>a. process \in [Processes -> Process]
  BY DEF StoreInv, StoreTypeOK
<1>6. ASSUME NEW to \in {"Assemble", "Compare", "Based", "Copy"}, NEW from,
             ReadMeta(p, from, to) \/ ReadEntries(p, from, to)
      PROVE  CheckedInv'
  <2>1. CASE ReadMeta(p, from, to)
    <3>1. Moves({"Idle", to})
      BY <1>1, <1>a, <2>1, IdleTyped DEF ReadMeta, End, Goes, Process
    <3>2. QED
      BY <1>5, <3>1
  <2>2. CASE ReadEntries(p, from, to)
    <3>1. Moves({"Idle", to})
      BY <1>1, <1>a, <2>2, IdleTyped DEF ReadEntries, End, Goes, Process
    <3>2. QED
      BY <1>5, <3>1
  <2>3. QED
    BY <1>6, <2>1, <2>2
<1>7. CASE Open(p) \/ HasColumn(p) \/ AddColumn(p)
  <2>1. CASE Open(p)
    <3>1. Moves({"Column"})
      BY <1>1, <1>a, <2>1 DEF Open, Goes, Process
    <3>2. QED
      BY <1>5, <3>1
  <2>2. ASSUME NextColumn(p), files' = files PROVE CheckedInv'
    <3>1. Moves({"Stamp", "Column"})
      BY <1>1, <1>a, <2>2 DEF NextColumn, Goes, Process
    <3>2. QED
      BY <1>5, <3>1
  <2>3. ASSUME Go(p, "Alter") \/ End(p), files' = files PROVE CheckedInv'
    <3>1. Moves({"Idle", "Alter"})
      BY <1>1, <1>a, <2>3, IdleTyped DEF Go, End, Goes, Process
    <3>2. QED
      BY <1>5, <3>1
  <2>4. QED
    BY <1>7, <2>1, <2>2, <2>3 DEF HasColumn, AddColumn
<1>8. CASE Latest(p) \/ ReadState(p) \/ Export(p) \/ CopyRow(p)
  <2>1. CASE Latest(p)
    <3>1. Moves({"Base"})
      BY <1>1, <1>a, <2>1 DEF Latest, Goes, Process
    <3>2. QED
      BY <1>5, <3>1
  <2>2. CASE ReadState(p)
    <3>1. Moves({"Idle", "Offered"})
      BY <1>1, <1>a, <2>2, IdleTyped DEF ReadState, End, Goes, Process
    <3>2. QED
      BY <1>5, <3>1
  <2>3. CASE Export(p)
    <3>1. Moves({"Copy", "Verify"})
      BY <1>1, <1>a, <2>3 DEF Export, Goes, Process
    <3>2. QED
      BY <1>5, <3>1
  <2>4. CASE CopyRow(p)
    <3>1. Moves({"CopyEntries"})
      BY <1>1, <1>a, <2>4 DEF CopyRow, Goes, Process
    <3>2. QED
      BY <1>5, <3>1
  <2>5. QED
    BY <1>8, <2>1, <2>2, <2>3, <2>4
<1>9. QED
  BY <1>2, <1>3, <1>4, <1>6, <1>7, <1>8
     DEF Step, Opening, Rescan, LoadBase, Exporting, Verify, Importing

LEMMA CheckedInvNext == StoreInv /\ CheckedInv /\ [Next]_vars => CheckedInv'
<1> SUFFICES ASSUME StoreInv, CheckedInv, [Next]_vars PROVE CheckedInv'
  OBVIOUS
<1>1. CASE UNCHANGED <<process, files>>
  BY <1>1, CheckedSame
<1>2. CASE Arrive
  <2>1. process' = process /\ \E file : files' = Append(files, file)
    BY <1>2 DEF Arrive
  <2>2. QED
    BY <2>1, FilesOnlyAdded, CheckedSame
<1>3. ASSUME NEW p \in Processes, Kill(p) PROVE CheckedInv'
  <2>1. Goes(p, Idle) /\ files' = files
    BY <1>3 DEF Kill, End
  <2>2. QED
    BY <2>1, IdleTyped, CheckedGoes
<1>4. QED
  BY <1>1, <1>2, <1>3, RotChecks, CheckFileChecks, StepChecks DEF Next, Tick, vars

LEMMA StoreInvAlways == Spec => []StoreInv
<1>1. Init => StoreInv /\ CheckedInv
  BY StoreInvInit, IdleTyped DEF Init, CheckedInv, At
<1>2. QED
  BY <1>1, StoreInvNext, CheckedInvNext, PTL DEF Spec

\* Whatever version a file was made with and however many processes migrate it
\* at once, dying anywhere: one of this build's version has its columns in order.
THEOREM ReadyHolds == Spec => []ReadyIsComplete
<1>1. StoreInv => ReadyIsComplete
  BY AllColumns DEF StoreInv, StoreTypeOK, SchemaInv, ReadyIsComplete
<1>2. QED
  BY StoreInvAlways, <1>1, PTL

\* Whatever is pushed, and rots on its way, from however many processes at
\* once: a snapshot is imported once, and as it was sent.
THEOREM ImportsHold == Spec => []ImportsAreSound
<1>1. StoreInv => ImportsAreSound
  BY DEF StoreInv
<1>2. QED
  BY StoreInvAlways, <1>1, PTL

\* Whoever writes between its four statements and whatever rots: the base a
\* rescan starts from is one scan as it was saved.
THEOREM BasesHold == Spec => []BaseIsAsSaved
<1>1. StoreInv => BaseIsAsSaved
  <2> SUFFICES ASSUME StoreInv, NEW p \in Processes, At(p, "Based")
               PROVE  /\ process[p].meta = process[p].id
                      /\ {process[p].entries, process[p].state.journal, process[p].state.flags} = {process[p].id}
    BY DEF BaseIsAsSaved
  <2>1. BaseSoFar(process[p])
    BY DEF StoreInv, ScansInv
  <2>2. Digest(process[p].meta, process[p].entries) = Digest(process[p].id, process[p].id)
        /\ process[p].state.journal = process[p].id /\ process[p].state.flags = process[p].id
    BY <2>1 DEF BaseSoFar, At
  <2>3. process[p].meta = process[p].id /\ process[p].entries = process[p].id
    BY <2>2 DEF Digest
  <2>4. QED
    BY <2>2, <2>3
<1>2. QED
  BY StoreInvAlways, <1>1, PTL
=============================================================================
