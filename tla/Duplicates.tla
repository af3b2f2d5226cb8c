------------------------------ MODULE Duplicates ------------------------------
(***************************************************************************)
(* spacetrace dupes: a folder is scanned, and of the files of one size     *)
(* those are found that hold the same bytes (crates/dupes/src/lib.rs).     *)
(* Each is looked at again, the names of one inode set apart, the rest     *)
(* told apart by a prefix and then by the whole, whose hash is remembered  *)
(* from run to run (crates/store/src/hash_cache.rs).                       *)
(*                                                                         *)
(* Files change at any moment, within one second as well.  A hash is the   *)
(* content it was made of.                                                 *)
(***************************************************************************)
EXTENDS Integers, FiniteSets, FiniteSetsExt

CONSTANTS
  Labels, FileIds, Contents,
  Size(_), Prefix(_),   \* of a content
  Large,                \* the sizes of more than two prefixes
  UseCache,             \* no --no-cache
  MaxTouches, MaxClock, MaxRuns

VARIABLES
  names,    \* the inode of a name, or NoFile
  file,     \* of an inode: its content and mtime
  second,   \* the time
  touches,
  cache,    \* SqliteHashCache: key to hash
  step,     \* Idle, Scanned, Look, Prefix, Whole, Done
  runs,
  scanned,  \* the scan: what is recorded of a name
  todo,     \* the files this stage has not dealt with yet
  survivors,  \* those it let through
  groups,
  unreadable,
  hashed,   \* how many were read whole
  quiet,    \* history: nothing changed since the scan
  same,     \* history: nothing changed since the last run's scan
  racy      \* history: a change that the key of a hash cannot show

files == <<names, file, second, touches>>
report == <<groups, unreadable, hashed>>
dupes == <<files, cache, step, runs, scanned, todo, survivors, report, quiet, same, racy>>

NoFile == 0
\* Names are in the order of their paths.
ASSUME DuplicatesAssumption ==
  /\ NoFile \notin FileIds
  /\ IsFiniteSet(Labels) /\ Labels \subseteq Nat
  /\ \A c \in Contents : Size(c) \in Nat

(***************************************************************************)
(* The disk.                                                               *)
(***************************************************************************)
Here == {n \in Labels : names[n] # NoFile}
ContentOf(n) == file[names[n]].content
LabelsOf(i) == {n \in Here : names[n] = i}

\* Between the look at a file and its hash, or within the second of the change
\* before.
Touch(at) ==
  /\ touches < MaxTouches /\ touches' = touches + 1
  /\ quiet' = FALSE /\ same' = FALSE
  /\ racy' = (racy \/ step \in {"Look", "Prefix", "Whole"} \/ at = second)
  /\ UNCHANGED <<second, cache, step, runs, scanned, todo, survivors, report>>

Rewrite(n, c) ==
  /\ names[n] # NoFile /\ Touch(file[names[n]].mtime)
  /\ file' = [file EXCEPT ![names[n]] = [content |-> c, mtime |-> second]]
  /\ UNCHANGED names

\* A file moves, to a name that is free or over another file.
Move(n, to) ==
  /\ names[n] # NoFile /\ n # to /\ Touch(NoFile)
  /\ names' = [names EXCEPT ![n] = NoFile, ![to] = names[n]]
  /\ UNCHANGED file

Unlink(n) ==
  /\ names[n] # NoFile /\ Touch(NoFile)
  /\ names' = [names EXCEPT ![n] = NoFile]
  /\ UNCHANGED file

\* A new file, in an inode that is free.
NewFile(n, i, c) ==
  /\ names[n] = NoFile /\ LabelsOf(i) = {} /\ Touch(file[i].mtime)
  /\ names' = [names EXCEPT ![n] = i]
  /\ file' = [file EXCEPT ![i] = [content |-> c, mtime |-> second]]

Wait ==
  /\ second < MaxClock /\ second' = second + 1
  /\ UNCHANGED <<names, file, touches, cache, step, runs, scanned, todo, survivors, report, quiet, same, racy>>

DiskStep ==
  \/ \E n \in Labels :
       \/ Unlink(n)
       \/ \E c \in Contents : Rewrite(n, c) \/ (\E i \in FileIds : NewFile(n, i, c))
       \/ \E to \in Labels : Move(n, to)
  \/ Wait

(***************************************************************************)
(* A run.                                                                  *)
(***************************************************************************)
\* The scan: of the names of one inode one carries the bytes.
ScanFolder ==
  /\ step \in {"Idle", "Done"} /\ runs < MaxRuns
  /\ runs' = runs + 1 /\ step' = "Scanned"
  /\ \E first \in [{names[n] : n \in Here} -> Here] :
       /\ \A i \in DOMAIN first : names[first[i]] = i
       /\ scanned' = [n \in Here |-> [size |-> IF first[names[n]] = n THEN Size(ContentOf(n)) ELSE 0,
                                   link |-> Cardinality(LabelsOf(names[n])) > 1]]
  /\ todo' = {} /\ survivors' = {} /\ groups' = {} /\ unreadable' = {} /\ hashed' = 0
  /\ quiet' = TRUE /\ same' = quiet
  /\ UNCHANGED <<files, cache, racy>>

\* effective_size: a link with nothing recorded is looked up on disk.
EffectiveSize(n) ==
  IF scanned[n].size > 0 \/ ~scanned[n].link THEN {scanned[n].size}
  ELSE IF names[n] = NoFile THEN {} ELSE {Size(ContentOf(n))}

SizeGroups(candidates) == {c \in candidates : \E d \in candidates : d.path # c.path /\ d.size = c.size}

BySize ==
  /\ step = "Scanned" /\ step' = "Look"
  /\ todo' = SizeGroups(UNION {{[path |-> n, size |-> s] : s \in EffectiveSize(n)} : n \in DOMAIN scanned})
  /\ UNCHANGED <<files, cache, runs, scanned, survivors, report, quiet, same, racy>>

Working(c) == todo' = todo \ {c} /\ UNCHANGED <<files, step, runs, scanned, quiet, same, racy>>
CannotRead(c) == unreadable' = unreadable \cup {c.path} /\ UNCHANGED <<cache, survivors, groups, hashed>>

\* look_again: what is not the file of that size any more is dropped.
LookAgain(c) ==
  /\ step = "Look" /\ c \in todo /\ Working(c)
  /\ IF names[c.path] = NoFile THEN CannotRead(c)
     ELSE /\ survivors' = IF Size(ContentOf(c.path)) # c.size THEN survivors
                       ELSE survivors \cup {[path |-> c.path, inode |-> names[c.path], size |-> c.size,
                                          mtime |-> file[names[c.path]].mtime]}
          /\ UNCHANGED <<cache, report>>

\* split_hardlinks: one name of each inode stands for it.
Representatives(live) ==
  {e \in live : \A o \in live : o.inode = e.inode => e.path <= o.path}

Linked(live) ==
  {[shared |-> "Hardlinked", size |-> e.size,
    copies |-> {o.path : o \in {l \in live : l.inode = e.inode}}] : e \in live}

\* The size group's files that have another to be compared with.
Apart(live) ==
  LET r == Representatives(live)
  IN {e \in r : \E o \in r : o # e /\ o.size = e.size}

Split ==
  /\ step = "Look" /\ todo = {} /\ step' = "Prefix"
  /\ groups' = {g \in Linked(survivors) : Cardinality(g.copies) > 1}
  /\ todo' = {e \in Apart(survivors) : e.size \in Large}
  /\ survivors' = {[file |-> e, prefix |-> NoFile] : e \in {a \in Apart(survivors) : a.size \notin Large}}
  /\ UNCHANGED <<files, cache, runs, scanned, unreadable, hashed, quiet, same, racy>>

\* hash_prefix, of what has the name now.
HashPrefix(e) ==
  /\ step = "Prefix" /\ e \in todo /\ Working(e)
  /\ IF names[e.path] = NoFile THEN CannotRead(e)
     ELSE /\ survivors' = survivors \cup {[file |-> e, prefix |-> Prefix(ContentOf(e.path))]}
          /\ UNCHANGED <<cache, report>>

Alike(a, b) == a # b /\ a.file.size = b.file.size /\ a.prefix = b.prefix

Buckets ==
  /\ step = "Prefix" /\ todo = {} /\ step' = "Whole"
  /\ todo' = {[path |-> a.file.path, file |-> a.file, prefix |-> a.prefix] :
               a \in {b \in survivors : \E o \in survivors : Alike(o, b)}}
  /\ survivors' = {}
  /\ UNCHANGED <<files, cache, runs, scanned, report, quiet, same, racy>>

\* Mutant: the key does not say when.
InodeKey(e) == <<e.inode, e.size>>

\* CacheKey.
Key(e) == <<e.inode, e.size, e.mtime>>
HashIs(e, hash) == survivors' = survivors \cup {[file |-> e.file, prefix |-> e.prefix, hash |-> hash]}

\* The hash is known, or made of what has the name now and remembered.
HashWhole(e) ==
  /\ step = "Whole" /\ e \in todo /\ Working(e)
  /\ IF Key(e.file) \in DOMAIN cache
     THEN /\ HashIs(e, cache[Key(e.file)])
          /\ UNCHANGED <<cache, report>>
     ELSE IF names[e.path] = NoFile THEN CannotRead(e)
     ELSE /\ HashIs(e, ContentOf(e.path))
          /\ hashed' = hashed + 1
          /\ cache' = IF UseCache
                      THEN [k \in DOMAIN cache \cup {Key(e.file)} |->
                              IF k = Key(e.file) THEN ContentOf(e.path) ELSE cache[k]]
                      ELSE cache
          /\ UNCHANGED <<groups, unreadable>>

Same(a) == {b \in survivors : b.file.size = a.file.size /\ b.prefix = a.prefix /\ b.hash = a.hash}

Tell ==
  /\ step = "Whole" /\ todo = {} /\ step' = "Done"
  /\ groups' = groups \cup
       {[shared |-> "Separate", size |-> a.file.size, copies |-> {b.file.path : b \in Same(a)}] :
          a \in {p \in survivors : Cardinality(Same(p)) > 1}}
  /\ UNCHANGED <<files, cache, runs, scanned, todo, survivors, unreadable, hashed, quiet, same, racy>>

Run ==
  \/ ScanFolder \/ BySize \/ Split \/ Buckets \/ Tell
  \/ \E e \in todo : LookAgain(e) \/ HashPrefix(e) \/ HashWhole(e)

\* What a free inode holds nobody reads.
DupesInit ==
  /\ names \in [Labels -> FileIds \cup {NoFile}]
  /\ file \in [FileIds -> [content : Contents, mtime : {1}]]
  /\ \A i \in FileIds : LabelsOf(i) = {} => file[i].content = CHOOSE c \in Contents : TRUE
  /\ second = 1 /\ touches = 0
  /\ cache = [k \in {} |-> NoFile]
  /\ step = "Idle" /\ runs = 0 /\ scanned = [n \in {} |-> NoFile]
  /\ todo = {} /\ survivors = {}
  /\ groups = {} /\ unreadable = {} /\ hashed = 0
  /\ quiet = FALSE /\ same = FALSE /\ racy = FALSE

DupesNext == Run \/ DiskStep

DuplicatesSpec == DupesInit /\ [][DupesNext]_dupes

(***************************************************************************)
(* Properties.                                                             *)
(***************************************************************************)
Told(shared) == {g \in groups : g.shared = shared}

\* The files that hold the bytes of `n`, a name for each.
CopiesOf(n) ==
  {m \in Here : ContentOf(m) = ContentOf(n) /\ \A o \in LabelsOf(names[m]) : m <= o}

\* What a run reports that nothing disturbed is the sets of separate files that
\* hold the same bytes, and apart from them the names of one file; whatever has
\* happened to the files between this run and those whose hashes it uses, unless
\* the key of a hash cannot show it.
ReportIsExact ==
  step = "Done" /\ quiet /\ ~racy =>
    /\ unreadable = {}
    /\ {g.copies : g \in Told("Separate")} = {s \in {CopiesOf(n) : n \in Here} : Cardinality(s) > 1}
    /\ {g.copies : g \in Told("Hardlinked")} =
         {s \in {LabelsOf(names[n]) : n \in Here} : Cardinality(s) > 1}

\* A second run over the same disk reads no file whole, if the first could
\* hash what it had looked at ("hashed nothing", dupes/src/lib.rs:26).
SecondRunIsFree == step = "Done" /\ quiet /\ same /\ UseCache /\ runs > 1 => hashed = 0

\* The hashes that are kept serve the next run, and mislead none.
HashesServe == ReportIsExact /\ SecondRunIsFree
=============================================================================
