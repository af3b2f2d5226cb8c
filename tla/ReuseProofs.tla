----------------------------- MODULE ReuseProofs -----------------------------
(***************************************************************************)
(* Proofs about what is kept between runs and used again: the hashes of    *)
(* module Duplicates, and the base of module IncrementalRescan, for any    *)
(* files, names, contents, disks and number of runs.                       *)
(***************************************************************************)
EXTENDS IncrementalRescan, Duplicates, FiniteSetTheorems, SequenceTheorems, TLAPS

(***************************************************************************)
(* What a run has to do on the disk as it is.                              *)
(***************************************************************************)
SizeNow(n)   == Size(ContentOf(n))
PrefixNow(n) == IF SizeNow(n) \in Large THEN Prefix(ContentOf(n)) ELSE NoFile

\* The names that share their size with another, of those the first of each
\* file, of those the ones with another to compare with, by size and by prefix.
Grouped  == {n \in Here : \E m \in Here : m # n /\ SizeNow(m) = SizeNow(n)}
Firsts   == {n \in Grouped : \A m \in LabelsOf(names[n]) : n <= m}
Compared == {n \in Firsts : \E m \in Firsts : m # n /\ SizeNow(m) = SizeNow(n)}
Close    == {n \in Compared : \E m \in Compared :
               m # n /\ SizeNow(m) = SizeNow(n) /\ PrefixNow(m) = PrefixNow(n)}

\* What each stage makes of a name.
Candidate(n) == [path |-> n, size |-> SizeNow(n)]
Live(n)      == [path |-> n, inode |-> names[n], size |-> SizeNow(n), mtime |-> file[names[n]].mtime]
Begun(n)     == [file |-> Live(n), prefix |-> PrefixNow(n)]
Whole(n)     == [path |-> n, file |-> Live(n), prefix |-> PrefixNow(n)]
Hashed(n)    == [file |-> Live(n), prefix |-> PrefixNow(n), hash |-> ContentOf(n)]
KeyNow(n)    == <<names[n], SizeNow(n), file[names[n]].mtime>>

LinkGroup(n) == [shared |-> "Hardlinked", size |-> SizeNow(n), copies |-> LabelsOf(names[n])]
CopyGroup(n) == [shared |-> "Separate", size |-> SizeNow(n), copies |-> CopiesOf(n)]
LinkGroups == {LinkGroup(n) : n \in {m \in Here : Cardinality(LabelsOf(names[m])) > 1}}
CopyGroups == {CopyGroup(n) : n \in {m \in Here : Cardinality(CopiesOf(m)) > 1}}

(***************************************************************************)
(* The invariant.                                                          *)
(***************************************************************************)
DupesTypeOK ==
  /\ names \in [Labels -> FileIds \cup {NoFile}]
  /\ file \in [FileIds -> [content : Contents, mtime : Nat]]
  /\ second \in Nat \ {0}
  /\ step \in {"Idle", "Scanned", "Look", "Prefix", "Whole", "Done"}
  /\ quiet \in BOOLEAN /\ same \in BOOLEAN /\ racy \in BOOLEAN

\* Nothing is of the future.
Past == \A i \in FileIds : file[i].mtime <= second

\* A hash under the key a file has now is of what the file holds.
CacheTrue ==
  ~racy => \A k \in DOMAIN cache :
    /\ k \in FileIds \X Nat \X Nat
    /\ k[3] <= file[k[1]].mtime
    /\ k[3] = file[k[1]].mtime /\ k[2] = Size(file[k[1]].content) => cache[k] = file[k[1]].content

\* A file that was looked at is the one that has its name.
AsLooked(f) ==
  /\ f.path \in Labels /\ f.inode \in FileIds /\ f.size \in Nat
  /\ names[f.path] = f.inode /\ f.mtime = file[f.inode].mtime

Looked ==
  /\ step = "Scanned" => DOMAIN scanned \subseteq Labels /\ survivors = {}
  /\ step = "Look" => \A c \in todo : c.path \in Labels
  /\ ~racy => /\ step = "Look" => \A f \in survivors : AsLooked(f)
              /\ step = "Prefix" => (\A f \in todo : AsLooked(f)) /\ \A s \in survivors : AsLooked(s.file)
              /\ step = "Whole" => \A e \in todo : AsLooked(e.file) /\ e.path = e.file.path

\* What a scan recorded is the size, or nothing for a link.
ScanTrue ==
  /\ DOMAIN scanned = Here
  /\ \A n \in Here : /\ scanned[n].size \in Nat
                     /\ scanned[n].size = SizeNow(n) \/ (scanned[n].size = 0 /\ scanned[n].link)

\* How far each stage is.
Lookings(left) ==
  /\ left \subseteq Grouped /\ groups = {}
  /\ todo = {Candidate(n) : n \in left} /\ survivors = {Live(n) : n \in Grouped \ left}

Prefixings(left) ==
  /\ left \subseteq Compared /\ groups = LinkGroups
  /\ \A n \in left : SizeNow(n) \in Large
  /\ todo = {Live(n) : n \in left} /\ survivors = {Begun(n) : n \in Compared \ left}

Wholes(left) ==
  /\ left \subseteq Close /\ groups = LinkGroups
  /\ todo = {Whole(n) : n \in left}
  /\ ~racy => survivors = {Hashed(n) : n \in Close \ left}
  /\ UseCache => \A n \in Close \ left : KeyNow(n) \in DOMAIN cache

\* A run that nothing disturbed is where it has to be.
OnTheWay ==
  /\ unreadable = {}
  /\ step = "Scanned" => ScanTrue /\ todo = {} /\ survivors = {} /\ groups = {}
  /\ step = "Look" => \E left \in SUBSET Labels : Lookings(left)
  /\ step = "Prefix" => \E left \in SUBSET Labels : Prefixings(left)
  /\ step = "Whole" => \E left \in SUBSET Labels : Wholes(left)
  /\ step = "Done" => /\ ~racy => groups = LinkGroups \cup CopyGroups
                      /\ UseCache => \A n \in Close : KeyNow(n) \in DOMAIN cache

\* What the last run hashed is still known to the next.
Remembered == UseCache /\ same => hashed = 0 /\ \A n \in Close : KeyNow(n) \in DOMAIN cache

DupesInv ==
  /\ DupesTypeOK /\ Past /\ CacheTrue /\ Looked
  /\ quiet => step # "Idle" /\ OnTheWay /\ Remembered

(***************************************************************************)
(* The disk.                                                               *)
(***************************************************************************)
LEMMA OnDisk ==
  ASSUME DupesTypeOK
  PROVE  /\ Here \subseteq Labels /\ IsFiniteSet(Here)
         /\ \A n \in Here : /\ names[n] \in FileIds /\ ContentOf(n) \in Contents
                            /\ SizeNow(n) \in Nat /\ file[names[n]].mtime \in Nat
                            /\ n \in Nat /\ n \in LabelsOf(names[n])
         /\ \A i : LabelsOf(i) \subseteq Here /\ IsFiniteSet(LabelsOf(i))
         /\ \A n : CopiesOf(n) \subseteq Here /\ IsFiniteSet(CopiesOf(n))
<1>1. Here \subseteq Labels
  BY DEF Here
<1>2. IsFiniteSet(Here)
  BY <1>1, DuplicatesAssumption, FS_Subset
<1>3. ASSUME NEW n \in Here
      PROVE  /\ names[n] \in FileIds /\ ContentOf(n) \in Contents
             /\ SizeNow(n) \in Nat /\ file[names[n]].mtime \in Nat
             /\ n \in Nat /\ n \in LabelsOf(names[n])
  <2>1. names[n] \in FileIds
    BY DEF Here, DupesTypeOK
  <2>2. file[names[n]] \in [content : Contents, mtime : Nat]
    BY <2>1 DEF DupesTypeOK
  <2>3. n \in Nat
    BY <1>1, DuplicatesAssumption
  <2>4. QED
    BY <2>1, <2>2, <2>3, DuplicatesAssumption DEF ContentOf, SizeNow, LabelsOf
<1>4. ASSUME NEW i PROVE LabelsOf(i) \subseteq Here /\ IsFiniteSet(LabelsOf(i))
  <2>1. LabelsOf(i) \subseteq Here
    BY DEF LabelsOf
  <2>2. QED
    BY <1>2, <2>1, FS_Subset
<1>5. ASSUME NEW n PROVE CopiesOf(n) \subseteq Here /\ IsFiniteSet(CopiesOf(n))
  <2>1. CopiesOf(n) \subseteq Here
    BY DEF CopiesOf
  <2>2. QED
    BY <1>2, <2>1, FS_Subset
<1>6. QED
  BY <1>1, <1>2, <1>3, <1>4, <1>5

\* More than one is two that differ.
LEMMA Several ==
  ASSUME NEW S, IsFiniteSet(S)
  PROVE  Cardinality(S) > 1 <=> \E x, y \in S : x # y
<1>1. Cardinality(S) \in Nat
  BY FS_CardinalityType
<1>2. ASSUME NEW x \in S, NEW y \in S, x # y PROVE Cardinality(S) > 1
  <2>1. IsFiniteSet({x, y}) /\ Cardinality({x, y}) = 2
    <3>1. IsFiniteSet({x}) /\ Cardinality({x}) = 1
      BY FS_Singleton
    <3>2. {x, y} = {x} \cup {y} /\ y \notin {x}
      BY <1>2
    <3>3. IsFiniteSet({x} \cup {y}) /\ Cardinality({x} \cup {y}) = 2
      BY <3>1, <3>2, FS_AddElement
    <3>4. QED
      BY <3>2, <3>3
  <2>2. {x, y} \subseteq S
    OBVIOUS
  <2>3. Cardinality({x, y}) <= Cardinality(S)
    BY <2>2, FS_Subset
  <2>4. QED
    BY <1>1, <2>1, <2>3
<1>3. ASSUME \A x, y \in S : x = y PROVE ~(Cardinality(S) > 1)
  <2>1. CASE S = {}
    BY <2>1, FS_EmptySet
  <2>2. CASE S # {}
    <3>1. PICK x \in S : TRUE
      BY <2>2
    <3>2. S = {x}
      BY <1>3, <3>1
    <3>3. Cardinality({x}) = 1
      BY FS_Singleton
    <3>4. QED
      BY <3>2, <3>3
  <2>3. QED
    BY <2>1, <2>2
<1>4. QED
  BY <1>2, <1>3

\* While no file changes, a run has to do what it had to.
LEMMA FilesSame ==
  ASSUME names' = names, file' = file
  PROVE  /\ Here' = Here /\ (\A n : (LabelsOf(n))' = LabelsOf(n))
         /\ \A n : SizeNow(n)' = SizeNow(n) /\ PrefixNow(n)' = PrefixNow(n)
                   /\ Live(n)' = Live(n) /\ ContentOf(n)' = ContentOf(n)
         /\ Grouped' = Grouped /\ Compared' = Compared /\ Close' = Close
         /\ LinkGroups' = LinkGroups /\ CopyGroups' = CopyGroups
<1>1. Here' = Here /\ \A n : ContentOf(n)' = ContentOf(n)
  BY DEF Here, ContentOf
<1>2. \A i : LabelsOf(i)' = LabelsOf(i)
  BY <1>1 DEF LabelsOf
<1>3. \A n : SizeNow(n)' = SizeNow(n) /\ PrefixNow(n)' = PrefixNow(n) /\ Live(n)' = Live(n)
  BY <1>1 DEF SizeNow, PrefixNow, Live
<1>4. Grouped' = Grouped
  BY <1>1, <1>3 DEF Grouped
<1>5. Firsts' = Firsts
  BY <1>2, <1>4 DEF Firsts
<1>6. Compared' = Compared
  BY <1>3, <1>5 DEF Compared
<1>7. Close' = Close
  BY <1>3, <1>6 DEF Close
<1>8. LinkGroups' = LinkGroups
  BY <1>1, <1>2, <1>3 DEF LinkGroups, LinkGroup
<1>9. \A n : CopiesOf(n)' = CopiesOf(n)
  BY <1>1, <1>2 DEF CopiesOf
<1>10. CopyGroups' = CopyGroups
  BY <1>1, <1>3, <1>9 DEF CopyGroups, CopyGroup
<1>11. QED
  BY <1>1, <1>2, <1>3, <1>4, <1>6, <1>7, <1>8, <1>10

\* A change: a run that is under way has been disturbed, and a hash is not
\* mistaken for one of what is there now, unless its key cannot show that.
LEMMA TouchKeeps ==
  ASSUME DupesInv, NEW stamp, Touch(stamp), names' \in [Labels -> FileIds \cup {NoFile}],
         \/ file' = file
         \/ \E i \in FileIds, c \in Contents :
              stamp = file[i].mtime /\ file' = [file EXCEPT ![i] = [content |-> c, mtime |-> second]]
  PROVE  DupesInv'
<1> USE DEF DupesInv
<1>1. /\ quiet' = FALSE /\ same' = FALSE /\ UNCHANGED <<second, cache, step, scanned, todo, survivors>>
      /\ ~racy' => ~racy /\ step \notin {"Look", "Prefix", "Whole"} /\ stamp # second
      /\ racy' \in BOOLEAN
  BY DEF Touch, DupesTypeOK
<1>2. second \in Nat /\ \A i \in FileIds : file[i].mtime \in Nat /\ file[i].mtime <= second
  BY DEF DupesTypeOK, Past
<1>3. /\ file' \in [FileIds -> [content : Contents, mtime : Nat]]
      /\ \A i \in FileIds : \/ file'[i] = file[i]
                            \/ stamp = file[i].mtime /\ file'[i].mtime = second
  <2>1. CASE file' = file
    BY <2>1 DEF DupesTypeOK
  <2>2. CASE file' # file
    <3>1. PICK j \in FileIds, c \in Contents :
            stamp = file[j].mtime /\ file' = [file EXCEPT ![j] = [content |-> c, mtime |-> second]]
      BY <2>2
    <3>2. [content |-> c, mtime |-> second] \in [content : Contents, mtime : Nat]
      BY <1>2
    <3>3. QED
      BY <3>1, <3>2 DEF DupesTypeOK
  <2>3. QED
    BY <2>1, <2>2
<1>4. DupesTypeOK'
  BY <1>1, <1>3 DEF DupesTypeOK
<1>5. Past'
  BY <1>1, <1>2, <1>3 DEF Past
<1>6. CacheTrue'
  <2> SUFFICES ASSUME ~racy', NEW k \in DOMAIN cache
      PROVE  /\ k \in FileIds \X Nat \X Nat
             /\ k[3] <= file'[k[1]].mtime
             /\ k[3] = file'[k[1]].mtime /\ k[2] = Size(file'[k[1]].content) => cache[k] = file'[k[1]].content
    BY <1>1 DEF CacheTrue
  <2>1. /\ k \in FileIds \X Nat \X Nat
        /\ k[3] <= file[k[1]].mtime
        /\ k[3] = file[k[1]].mtime /\ k[2] = Size(file[k[1]].content) => cache[k] = file[k[1]].content
    BY <1>1 DEF CacheTrue
  <2>2. k[1] \in FileIds /\ k[3] \in Nat
    BY <2>1
  <2>3. CASE file'[k[1]] = file[k[1]]
    BY <2>1, <2>3
  <2>4. CASE file'[k[1]] # file[k[1]]
    <3>1. file[k[1]].mtime < second /\ file'[k[1]].mtime = second
      BY <1>1, <1>2, <1>3, <2>2, <2>4
    <3>2. k[3] <= file'[k[1]].mtime /\ k[3] # file'[k[1]].mtime
      BY <1>2, <2>1, <2>2, <3>1
    <3>3. QED
      BY <2>1, <3>2
  <2>5. QED
    BY <2>3, <2>4
<1>7. Looked'
  BY <1>1 DEF Looked
<1>8. QED
  BY <1>1, <1>4, <1>5, <1>6, <1>7

LEMMA DiskKeeps ==
  ASSUME DupesInv, DiskStep
  PROVE  DupesInv'
<1>a. DupesTypeOK
  BY DEF DupesInv
<1>1. CASE Wait
  <2>1. UNCHANGED <<names, file, cache, step, scanned, todo, survivors, groups, unreadable, hashed, quiet, same, racy>>
        /\ second' = second + 1
    BY <1>1 DEF Wait, report
  <2>2. DupesTypeOK'
    BY <1>a, <2>1 DEF DupesTypeOK
  <2>3. Past'
    <3>1. \A i \in FileIds : file[i].mtime \in Nat /\ file[i].mtime <= second /\ second \in Nat
      BY <1>a DEF DupesInv, DupesTypeOK, Past
    <3>2. QED
      BY <2>1, <3>1 DEF Past
  <2>4. CacheTrue' /\ Looked'
    BY <2>1 DEF DupesInv, CacheTrue, Looked, AsLooked
  <2>5. (quiet => step # "Idle" /\ OnTheWay /\ Remembered)'
    <3>1. SUFFICES ASSUME quiet PROVE (step # "Idle" /\ OnTheWay /\ Remembered)'
      BY <2>1
    <3>2. OnTheWay'
      BY <2>1, <3>1, FilesSame DEF DupesInv, OnTheWay, ScanTrue, Lookings, Prefixings, Wholes, Candidate, Begun, Whole, Hashed, KeyNow
    <3>3. Remembered'
      BY <2>1, <3>1, FilesSame DEF DupesInv, Remembered, KeyNow
    <3>4. QED
      BY <2>1, <3>1, <3>2, <3>3 DEF DupesInv
  <2>6. QED
    BY <2>2, <2>3, <2>4, <2>5 DEF DupesInv
<1>2. ASSUME NEW n \in Labels, Unlink(n) PROVE DupesInv'
  <2>1. Touch(NoFile) /\ file' = file /\ names' \in [Labels -> FileIds \cup {NoFile}]
    BY <1>a, <1>2 DEF Unlink, DupesTypeOK
  <2>2. QED
    BY <2>1, TouchKeeps
<1>3. ASSUME NEW n \in Labels, NEW c \in Contents, Rewrite(n, c) PROVE DupesInv'
  <2>1. names[n] \in FileIds /\ names' \in [Labels -> FileIds \cup {NoFile}]
    BY <1>a, <1>3 DEF Rewrite, DupesTypeOK
  <2>2. QED
    BY <1>3, <2>1, TouchKeeps DEF Rewrite
<1>4. ASSUME NEW n \in Labels, NEW c \in Contents, NEW i \in FileIds, NewFile(n, i, c) PROVE DupesInv'
  <2>1. names' \in [Labels -> FileIds \cup {NoFile}]
    BY <1>a, <1>4 DEF NewFile, DupesTypeOK
  <2>2. QED
    BY <1>4, <2>1, TouchKeeps DEF NewFile
<1>5. ASSUME NEW n \in Labels, NEW to \in Labels, Move(n, to) PROVE DupesInv'
  <2>1. Touch(NoFile) /\ file' = file /\ names' \in [Labels -> FileIds \cup {NoFile}]
    BY <1>a, <1>5 DEF Move, DupesTypeOK
  <2>2. QED
    BY <2>1, TouchKeeps
<1>6. QED
  BY <1>1, <1>2, <1>3, <1>4, <1>5 DEF DiskStep

(***************************************************************************)
(* The run.                                                                *)
(***************************************************************************)
\* A step of a run leaves the files and their types alone, and if it leaves the
\* hashes alone, those are as true as they were.
RunFrame == UNCHANGED <<names, file, second, racy>>

LEMMA RunFrames ==
  ASSUME DupesInv, RunFrame, quiet' \in BOOLEAN, same' \in BOOLEAN,
         step' \in {"Scanned", "Look", "Prefix", "Whole", "Done"}
  PROVE  DupesTypeOK' /\ Past' /\ (cache' = cache => CacheTrue')
<1>1. DupesTypeOK'
  BY DEF RunFrame, DupesInv, DupesTypeOK
<1>2. Past'
  BY DEF RunFrame, DupesInv, Past
<1>3. ASSUME cache' = cache PROVE CacheTrue'
  BY <1>3 DEF RunFrame, DupesInv, CacheTrue
<1>4. QED
  BY <1>1, <1>2, <1>3

\* What the next run asks of this one's hashes does not change with the step.
LEMMA RememberedStays ==
  ASSUME Remembered, RunFrame, same' = same, hashed' = hashed, cache' = cache
  PROVE  Remembered'
<1>1. Close' = Close /\ \A n : KeyNow(n)' = KeyNow(n)
  BY FilesSame DEF RunFrame, KeyNow
<1>2. QED
  BY <1>1 DEF Remembered

LEMMA ScanFolderKeeps ==
  ASSUME DupesInv, ScanFolder
  PROVE  DupesInv'
<1>a. /\ step \in {"Idle", "Done"} /\ step' = "Scanned" /\ todo' = {} /\ survivors' = {}
      /\ groups' = {} /\ unreadable' = {} /\ hashed' = 0 /\ quiet' = TRUE /\ same' = quiet /\ cache' = cache
      /\ RunFrame /\ quiet \in BOOLEAN /\ DupesTypeOK
  BY DEF ScanFolder, RunFrame, files, DupesInv, DupesTypeOK
<1>1. DupesTypeOK' /\ Past' /\ CacheTrue'
  BY <1>a, RunFrames
<1>2. PICK first \in [{names[n] : n \in Here} -> Here] :
        /\ \A i \in DOMAIN first : names[first[i]] = i
        /\ scanned' = [n \in Here |-> [size |-> IF first[names[n]] = n THEN Size(ContentOf(n)) ELSE 0,
                                    link |-> Cardinality(LabelsOf(names[n])) > 1]]
  BY DEF ScanFolder
<1>3. Here' = Here /\ \A n : SizeNow(n)' = SizeNow(n)
  BY <1>a, FilesSame DEF RunFrame
<1>4. ScanTrue'
  <2>1. DOMAIN scanned' = Here'
    BY <1>2, <1>3
  <2>2. ASSUME NEW n \in Here
        PROVE  /\ scanned'[n].size \in Nat
               /\ scanned'[n].size = SizeNow(n) \/ (scanned'[n].size = 0 /\ scanned'[n].link)
    <3>1. SizeNow(n) \in Nat /\ n \in LabelsOf(names[n]) /\ IsFiniteSet(LabelsOf(names[n]))
      BY <1>a, OnDisk
    <3>2. CASE first[names[n]] = n
      <4>1. scanned'[n].size = SizeNow(n)
        BY <1>2, <3>2 DEF SizeNow
      <4>2. QED
        BY <3>1, <4>1
    <3>3. CASE first[names[n]] # n
      <4>1. names[n] \in DOMAIN first /\ first[names[n]] \in Here /\ names[first[names[n]]] = names[n]
        BY <1>2
      <4>2. first[names[n]] \in LabelsOf(names[n])
        BY <4>1 DEF LabelsOf
      <4>3. Cardinality(LabelsOf(names[n])) > 1
        BY <3>1, <3>3, <4>2, Several
      <4>4. QED
        BY <1>2, <3>3, <4>3
    <3>4. QED
      BY <3>2, <3>3
  <2>3. QED
    BY <1>3, <2>1, <2>2 DEF ScanTrue
<1>5. Looked'
  <2>1. DOMAIN scanned' \subseteq Labels
    BY <1>2 DEF Here
  <2>2. QED
    BY <1>a, <2>1 DEF Looked
<1>6. OnTheWay'
  BY <1>a, <1>4 DEF OnTheWay
<1>7. Remembered'
  <2>1. Close' = Close /\ \A n : KeyNow(n)' = KeyNow(n)
    BY <1>a, FilesSame DEF RunFrame, KeyNow
  <2>2. ASSUME UseCache, quiet PROVE \A n \in Close : KeyNow(n) \in DOMAIN cache
    BY <1>a, <2>2 DEF DupesInv, OnTheWay
  <2>3. QED
    BY <1>a, <2>1, <2>2 DEF Remembered
<1>8. QED
  BY <1>a, <1>1, <1>5, <1>6, <1>7 DEF DupesInv

\* The files that share their size are the candidates.
LEMMA CandidatesAre ==
  ASSUME DupesTypeOK, ScanTrue
  PROVE  SizeGroups(UNION {{[path |-> n, size |-> s] : s \in EffectiveSize(n)} : n \in DOMAIN scanned})
           = {Candidate(n) : n \in Grouped}
<1>1. ASSUME NEW n \in Here PROVE EffectiveSize(n) = {SizeNow(n)}
  <2>1. /\ scanned[n].size \in Nat /\ names[n] # NoFile
        /\ scanned[n].size = SizeNow(n) \/ (scanned[n].size = 0 /\ scanned[n].link)
    BY DEF ScanTrue, Here
  <2>2. CASE scanned[n].size > 0 \/ ~scanned[n].link
    BY <2>1, <2>2 DEF EffectiveSize
  <2>3. CASE ~(scanned[n].size > 0 \/ ~scanned[n].link)
    BY <2>1, <2>3 DEF EffectiveSize, SizeNow
  <2>4. QED
    BY <2>2, <2>3
<1> DEFINE all == UNION {{[path |-> n, size |-> s] : s \in EffectiveSize(n)} : n \in DOMAIN scanned}
<1>2. all = {Candidate(n) : n \in Here}
  <2>1. DOMAIN scanned = Here
    BY DEF ScanTrue
  <2>2. ASSUME NEW n \in Here PROVE {[path |-> n, size |-> s] : s \in EffectiveSize(n)} = {Candidate(n)}
    BY <1>1 DEF Candidate
  <2>3. QED
    BY <2>1, <2>2
<1> HIDE DEF all
<1>3. \A m, n : (Candidate(m).path # Candidate(n).path <=> m # n)
                /\ (Candidate(m).size = Candidate(n).size <=> SizeNow(m) = SizeNow(n))
  BY DEF Candidate
<1>4. SizeGroups(all) = {Candidate(n) : n \in Grouped}
  BY <1>2, <1>3 DEF SizeGroups, Grouped
<1>5. QED
  BY <1>4 DEF all

LEMMA BySizeKeeps ==
  ASSUME DupesInv, BySize
  PROVE  DupesInv'
<1>a. /\ step = "Scanned" /\ step' = "Look" /\ UNCHANGED <<survivors, groups, unreadable, hashed, quiet, same, cache>>
      /\ RunFrame /\ DupesTypeOK /\ quiet \in BOOLEAN /\ same \in BOOLEAN
  BY DEF BySize, RunFrame, files, report, DupesInv, DupesTypeOK
<1>b. todo' = SizeGroups(UNION {{[path |-> n, size |-> s] : s \in EffectiveSize(n)} : n \in DOMAIN scanned})
  BY DEF BySize
<1>1. DupesTypeOK' /\ Past' /\ CacheTrue'
  BY <1>a, RunFrames
<1>2. Looked'
  <2>1. DOMAIN scanned \subseteq Labels /\ survivors = {}
    BY <1>a DEF DupesInv, Looked
  <2>2. \A c \in todo' : c.path \in Labels
    BY <1>b, <2>1 DEF SizeGroups
  <2>3. QED
    BY <1>a, <2>1, <2>2 DEF Looked
<1>3. ASSUME quiet PROVE OnTheWay' /\ Remembered'
  <2>1. unreadable = {} /\ ScanTrue /\ survivors = {} /\ groups = {} /\ Remembered
    BY <1>a, <1>3 DEF DupesInv, OnTheWay
  <2>2. todo' = {Candidate(n) : n \in Grouped}
    BY <1>a, <1>b, <2>1, CandidatesAre
  <2>3. Grouped' = Grouped /\ Grouped \in SUBSET Labels
    BY <1>a, FilesSame DEF RunFrame, Grouped, Here
  <2>4. \A n : Candidate(n)' = Candidate(n)
    BY <1>a, FilesSame DEF RunFrame, Candidate
  <2>5. Lookings(Grouped)'
    BY <1>a, <2>1, <2>2, <2>3, <2>4 DEF Lookings
  <2>6. OnTheWay'
    BY <1>a, <2>1, <2>3, <2>5 DEF OnTheWay
  <2>7. QED
    BY <1>a, <2>1, <2>6, RememberedStays
<1>4. QED
  BY <1>a, <1>1, <1>2, <1>3 DEF DupesInv

\* What a stage made of a name says which.
LEMMA NameOf ==
  \A m, n : /\ Candidate(m) = Candidate(n) => m = n
            /\ Live(m) = Live(n) => m = n
            /\ Whole(m) = Whole(n) => m = n
            /\ Hashed(m) = Hashed(n) => m = n
<1>1. \A m, n : Candidate(m) = Candidate(n) => m = n
  BY DEF Candidate
<1>2. \A m, n : Live(m) = Live(n) => m = n
  BY DEF Live
<1>3. \A m, n : Whole(m) = Whole(n) => m = n
  BY DEF Whole
<1>4. \A m, n : Hashed(m) = Hashed(n) => m = n
  BY <1>2 DEF Hashed
<1>5. QED
  BY <1>1, <1>2, <1>3, <1>4

LEMMA LookAgainKeeps ==
  ASSUME DupesInv, NEW c \in todo, LookAgain(c)
  PROVE  DupesInv'
<1>a. /\ step = "Look" /\ step' = step /\ todo' = todo \ {c} /\ RunFrame
      /\ UNCHANGED <<cache, quiet, same, groups, hashed>>
      /\ DupesTypeOK /\ quiet \in BOOLEAN /\ same \in BOOLEAN /\ c.path \in Labels
  BY DEF LookAgain, Working, CannotRead, RunFrame, files, report, DupesInv, DupesTypeOK, Looked
<1>1. DupesTypeOK' /\ Past' /\ CacheTrue'
  BY <1>a, RunFrames
<1>b. CASE names[c.path] = NoFile
  <2>1. survivors' = survivors
    BY <1>b DEF LookAgain, CannotRead
  <2>2. Looked'
    BY <1>a, <2>1 DEF DupesInv, Looked, AsLooked, RunFrame
  <2>3. ~quiet
    <3>1. SUFFICES ASSUME quiet PROVE FALSE
      OBVIOUS
    <3>2. PICK left \in SUBSET Labels : Lookings(left)
      BY <1>a, <3>1 DEF DupesInv, OnTheWay
    <3>3. PICK n \in left : c = Candidate(n)
      BY <3>2 DEF Lookings
    <3>4. c.path = n /\ n \in Here
      BY <3>2, <3>3 DEF Lookings, Candidate, Grouped
    <3>5. QED
      BY <1>b, <3>4 DEF Here
  <2>4. QED
    BY <1>a, <1>1, <2>2, <2>3 DEF DupesInv
<1>c. CASE names[c.path] # NoFile
  <2> DEFINE seen == [path |-> c.path, inode |-> names[c.path], size |-> c.size,
                      mtime |-> file[names[c.path]].mtime]
  <2>1. /\ survivors' = IF Size(ContentOf(c.path)) # c.size THEN survivors ELSE survivors \cup {seen}
        /\ unreadable' = unreadable
    BY <1>c DEF LookAgain, report
  <2>2. Looked'
    <3>1. c.path \in Here
      BY <1>a, <1>c DEF Here
    <3>2. names[c.path] \in FileIds /\ Size(ContentOf(c.path)) \in Nat
      BY <1>a, <3>1, OnDisk DEF SizeNow
    <3>3. ASSUME c.size = Size(ContentOf(c.path)) PROVE AsLooked(seen)
      BY <1>a, <3>2, <3>3 DEF AsLooked
    <3> HIDE DEF seen
    <3>4. \A f : AsLooked(f)' <=> AsLooked(f)
      BY <1>a DEF AsLooked, RunFrame
    <3>5. \A d \in todo' : d.path \in Labels
      BY <1>a DEF DupesInv, Looked
    <3>6. ASSUME ~racy PROVE \A f \in survivors' : AsLooked(f)
      <4>1. \A f \in survivors : AsLooked(f)
        BY <1>a, <3>6 DEF DupesInv, Looked
      <4>2. QED
        BY <2>1, <3>3, <4>1
    <3>7. racy' = racy
      BY <1>a DEF RunFrame
    <3>8. QED
      BY <1>a, <3>4, <3>5, <3>6, <3>7 DEF Looked
  <2>3. ASSUME quiet PROVE OnTheWay' /\ Remembered'
    <3>1. PICK left \in SUBSET Labels : Lookings(left)
      BY <1>a, <2>3 DEF DupesInv, OnTheWay
    <3>2. PICK n \in left : c = Candidate(n)
      BY <3>1 DEF Lookings
    <3>3. c.path = n /\ c.size = SizeNow(n) /\ n \in Grouped
      BY <3>1, <3>2 DEF Lookings, Candidate
    <3>4. seen = Live(n) /\ survivors' = survivors \cup {seen}
      BY <2>1, <3>3 DEF Live, SizeNow
    <3> HIDE DEF seen
    <3>5. survivors' = {Live(m) : m \in Grouped \ (left \ {n})}
      BY <3>1, <3>3, <3>4 DEF Lookings
    <3>6. todo' = {Candidate(m) : m \in left \ {n}}
      BY <1>a, <3>1, <3>2, NameOf DEF Lookings
    <3>7. Grouped' = Grouped /\ \A m : Candidate(m)' = Candidate(m) /\ Live(m)' = Live(m)
      BY <1>a, FilesSame DEF RunFrame, Candidate
    <3>8. Lookings(left \ {n})'
      BY <1>a, <3>1, <3>5, <3>6, <3>7 DEF Lookings
    <3>9. OnTheWay'
      BY <1>a, <2>1, <2>3, <3>8 DEF DupesInv, OnTheWay
    <3>10. QED
      BY <1>a, <2>3, <3>9, RememberedStays DEF DupesInv
  <2>4. QED
    BY <1>a, <1>1, <2>2, <2>3 DEF DupesInv
<1>2. QED
  BY <1>b, <1>c

\* What the stages make of the files is told apart and put together again.
LEMMA Firstly ==
  ASSUME DupesTypeOK
  PROVE  /\ Grouped \subseteq Here /\ Firsts \subseteq Grouped /\ Compared \subseteq Firsts
         /\ Close \subseteq Compared
         /\ \A n \in Grouped : LabelsOf(names[n]) \subseteq Grouped
<1>1. Grouped \subseteq Here /\ Firsts \subseteq Grouped /\ Compared \subseteq Firsts /\ Close \subseteq Compared
  BY DEF Grouped, Firsts, Compared, Close
<1>2. ASSUME NEW n \in Grouped, NEW m \in LabelsOf(names[n]) PROVE m \in Grouped
  <2>1. m \in Here /\ names[m] = names[n] /\ n \in Here
    BY <1>1 DEF LabelsOf
  <2>2. SizeNow(m) = SizeNow(n)
    BY <2>1 DEF SizeNow, ContentOf
  <2>3. CASE m = n
    BY <2>3
  <2>4. CASE m # n
    BY <2>1, <2>2, <2>4 DEF Grouped
  <2>5. QED
    BY <2>3, <2>4
<1>3. QED
  BY <1>1, <1>2

LEMMA ApartAre ==
  ASSUME DupesTypeOK, NEW live, live = {Live(n) : n \in Grouped}
  PROVE  /\ Apart(live) = {Live(n) : n \in Compared}
         /\ {g \in Linked(live) : Cardinality(g.copies) > 1} = LinkGroups
<1>1. \A n : Live(n).path = n /\ Live(n).inode = names[n] /\ Live(n).size = SizeNow(n)
  BY DEF Live
<1>2. \A n \in Grouped : \A m : m \in LabelsOf(names[n]) <=> m \in Grouped /\ names[m] = names[n]
  BY Firstly DEF LabelsOf
<1>3. Representatives(live) = {Live(n) : n \in Firsts}
  <2>1. Representatives(live) = {Live(n) : n \in {f \in Grouped : \A o \in live : o.inode = names[f] => f <= o.path}}
    BY <1>1 DEF Representatives
  <2>2. ASSUME NEW f \in Grouped
        PROVE  (\A o \in live : o.inode = names[f] => f <= o.path) <=> (\A m \in LabelsOf(names[f]) : f <= m)
    BY <1>1, <1>2
  <2>3. {f \in Grouped : \A o \in live : o.inode = names[f] => f <= o.path} = Firsts
    BY <2>2 DEF Firsts
  <2>4. QED
    BY <2>1, <2>3
<1>4. Apart(live) = {Live(n) : n \in Compared}
  <2> DEFINE r == Representatives(live)
  <2>1. \A m, n : Live(m) # Live(n) <=> m # n
    BY <1>1
  <2>2. Apart(live) = {e \in r : \E o \in r : o # e /\ o.size = e.size}
    BY DEF Apart
  <2> HIDE DEF r
  <2>3. r = {Live(n) : n \in Firsts}
    BY <1>3 DEF r
  <2>4. QED
    BY <1>1, <2>1, <2>2, <2>3 DEF Compared
<1>5. Linked(live) = {LinkGroup(n) : n \in Grouped}
  <2>1. ASSUME NEW n \in Grouped
        PROVE {o.path : o \in {l \in live : l.inode = names[n]}} = LabelsOf(names[n])
    BY <1>1, <1>2
  <2>2. ASSUME NEW n \in Grouped
        PROVE [shared |-> "Hardlinked", size |-> Live(n).size,
               copies |-> {o.path : o \in {l \in live : l.inode = Live(n).inode}}] = LinkGroup(n)
    BY <1>1, <2>1 DEF LinkGroup
  <2>3. QED
    BY <2>2 DEF Linked
<1>6. ASSUME NEW n \in Here, Cardinality(LabelsOf(names[n])) > 1 PROVE n \in Grouped
  <2>1. n \in LabelsOf(names[n]) /\ IsFiniteSet(LabelsOf(names[n]))
    BY OnDisk
  <2>2. PICK x, y \in LabelsOf(names[n]) : x # y
    BY <1>6, <2>1, Several
  <2>3. PICK m \in LabelsOf(names[n]) : m # n
    BY <2>2
  <2>4. m \in Here /\ SizeNow(m) = SizeNow(n)
    BY <2>3 DEF LabelsOf, SizeNow, ContentOf
  <2>5. QED
    BY <2>3, <2>4 DEF Grouped
<1>7. \A n : LinkGroup(n).copies = LabelsOf(names[n])
  BY DEF LinkGroup
<1>8. {g \in Linked(live) : Cardinality(g.copies) > 1} = LinkGroups
  <2>1. {g \in Linked(live) : Cardinality(g.copies) > 1}
          = {LinkGroup(n) : n \in {m \in Grouped : Cardinality(LabelsOf(names[m])) > 1}}
    BY <1>5, <1>7
  <2>2. {m \in Grouped : Cardinality(LabelsOf(names[m])) > 1} = {m \in Here : Cardinality(LabelsOf(names[m])) > 1}
    BY <1>6, Firstly
  <2>3. QED
    BY <2>1, <2>2 DEF LinkGroups
<1>9. QED
  BY <1>4, <1>8

LEMMA SplitKeeps ==
  ASSUME DupesInv, Split
  PROVE  DupesInv'
<1>a. /\ step = "Look" /\ step' = "Prefix" /\ todo = {} /\ RunFrame
      /\ UNCHANGED <<cache, quiet, same, unreadable, hashed>>
      /\ DupesTypeOK /\ quiet \in BOOLEAN /\ same \in BOOLEAN
  BY DEF Split, RunFrame, files, DupesInv, DupesTypeOK
<1>b. /\ groups' = {g \in Linked(survivors) : Cardinality(g.copies) > 1}
      /\ todo' = {e \in Apart(survivors) : e.size \in Large}
      /\ survivors' = {[file |-> e, prefix |-> NoFile] : e \in {a \in Apart(survivors) : a.size \notin Large}}
  BY DEF Split
<1>1. DupesTypeOK' /\ Past' /\ CacheTrue'
  BY <1>a, RunFrames
<1>2. Looked'
  <2>1. Apart(survivors) \subseteq survivors
    BY DEF Apart, Representatives
  <2>2. ASSUME ~racy PROVE (\A f \in todo' : AsLooked(f)) /\ \A s \in survivors' : AsLooked(s.file)
    <3>1. \A f \in survivors : AsLooked(f)
      BY <1>a, <2>2 DEF DupesInv, Looked
    <3>2. QED
      BY <1>b, <2>1, <3>1
  <2>3. \A f : AsLooked(f)' <=> AsLooked(f)
    BY <1>a DEF AsLooked, RunFrame
  <2>4. racy' = racy
    BY <1>a DEF RunFrame
  <2>5. QED
    BY <1>a, <2>2, <2>3, <2>4 DEF Looked
<1>3. ASSUME quiet PROVE OnTheWay' /\ Remembered'
  <2>1. PICK left \in SUBSET Labels : Lookings(left)
    BY <1>a, <1>3 DEF DupesInv, OnTheWay
  <2>2. left = {}
    BY <1>a, <2>1 DEF Lookings
  <2>3. survivors = {Live(n) : n \in Grouped}
    BY <2>1, <2>2 DEF Lookings
  <2>4. Apart(survivors) = {Live(n) : n \in Compared} /\ groups' = LinkGroups
    BY <1>a, <1>b, <2>3, ApartAre
  <2>l. {n \in Compared : SizeNow(n) \in Large} \in SUBSET Labels
    BY <1>a, Firstly, OnDisk
  <2>b. PICK big \in SUBSET Labels : big = {n \in Compared : SizeNow(n) \in Large}
    BY <2>l
  <2>5. \A n : Live(n).size = SizeNow(n)
    BY DEF Live
  <2>6. todo' = {Live(n) : n \in big}
    BY <1>b, <2>b, <2>4, <2>5
  <2>7. \A n \in Compared \ big : Begun(n) = [file |-> Live(n), prefix |-> NoFile]
    BY <2>b DEF Begun, PrefixNow
  <2>8. survivors' = {Begun(n) : n \in Compared \ big}
    <3>1. {a \in Apart(survivors) : a.size \notin Large} = {Live(n) : n \in Compared \ big}
      BY <2>b, <2>4, <2>5
    <3>2. QED
      BY <1>b, <2>7, <3>1
  <2>9. big \subseteq Compared /\ \A n \in big : SizeNow(n) \in Large
    BY <2>b
  <2>10. /\ Compared' = Compared /\ LinkGroups' = LinkGroups
         /\ \A m : Live(m)' = Live(m) /\ Begun(m)' = Begun(m) /\ SizeNow(m)' = SizeNow(m)
    BY <1>a, FilesSame DEF RunFrame, Begun
  <2>11. Prefixings(big)'
    BY <2>4, <2>6, <2>8, <2>9, <2>10 DEF Prefixings
  <2>12. OnTheWay'
    BY <1>a, <1>3, <2>9, <2>11 DEF DupesInv, OnTheWay
  <2>13. QED
    BY <1>a, <1>3, <2>12, RememberedStays DEF DupesInv
<1>4. QED
  BY <1>a, <1>1, <1>2, <1>3 DEF DupesInv

LEMMA HashPrefixKeeps ==
  ASSUME DupesInv, NEW e \in todo, HashPrefix(e)
  PROVE  DupesInv'
<1>a. /\ step = "Prefix" /\ step' = step /\ todo' = todo \ {e} /\ RunFrame
      /\ UNCHANGED <<cache, quiet, same, groups, hashed>>
      /\ DupesTypeOK /\ quiet \in BOOLEAN /\ same \in BOOLEAN
  BY DEF HashPrefix, Working, CannotRead, RunFrame, files, report, DupesInv, DupesTypeOK
<1> DEFINE begun == [file |-> e, prefix |-> Prefix(ContentOf(e.path))]
<1>b. /\ names[e.path] = NoFile => survivors' = survivors
      /\ names[e.path] # NoFile => survivors' = survivors \cup {begun} /\ unreadable' = unreadable
  BY DEF HashPrefix, CannotRead, report
<1>c. begun.file = e
  OBVIOUS
<1>1. DupesTypeOK' /\ Past' /\ CacheTrue'
  BY <1>a, RunFrames
<1>2. Looked'
  <2> HIDE DEF begun
  <2>1. \A f : AsLooked(f)' <=> AsLooked(f)
    BY <1>a DEF AsLooked, RunFrame
  <2>2. ASSUME ~racy PROVE (\A f \in todo' : AsLooked(f)) /\ \A s \in survivors' : AsLooked(s.file)
    <3>1. (\A f \in todo : AsLooked(f)) /\ \A s \in survivors : AsLooked(s.file)
      BY <1>a, <2>2 DEF DupesInv, Looked
    <3>2. QED
      BY <1>a, <1>b, <1>c, <3>1
  <2>3. racy' = racy
    BY <1>a DEF RunFrame
  <2>4. QED
    BY <1>a, <2>1, <2>2, <2>3 DEF Looked
<1>3. ASSUME quiet PROVE OnTheWay' /\ Remembered'
  <2>1. PICK left \in SUBSET Labels : Prefixings(left)
    BY <1>a, <1>3 DEF DupesInv, OnTheWay
  <2>2. PICK n \in left : e = Live(n)
    BY <2>1 DEF Prefixings
  <2>3. e.path = n /\ n \in Compared /\ SizeNow(n) \in Large
    BY <2>1, <2>2 DEF Prefixings, Live
  <2>4. names[e.path] # NoFile
    BY <1>a, <2>3, Firstly DEF Here
  <2>5. begun = Begun(n)
    BY <2>2, <2>3 DEF Begun, PrefixNow
  <2> HIDE DEF begun
  <2>6. survivors' = {Begun(m) : m \in Compared \ (left \ {n})}
    BY <1>b, <2>1, <2>3, <2>4, <2>5 DEF Prefixings
  <2>7. todo' = {Live(m) : m \in left \ {n}}
    BY <1>a, <2>1, <2>2, NameOf DEF Prefixings
  <2>8. /\ Compared' = Compared /\ LinkGroups' = LinkGroups
        /\ \A m : Live(m)' = Live(m) /\ Begun(m)' = Begun(m) /\ SizeNow(m)' = SizeNow(m)
    BY <1>a, FilesSame DEF RunFrame, Begun
  <2>9. Prefixings(left \ {n})'
    BY <1>a, <2>1, <2>6, <2>7, <2>8 DEF Prefixings
  <2>10. OnTheWay'
    BY <1>a, <1>b, <1>3, <2>4, <2>9 DEF DupesInv, OnTheWay
  <2>11. QED
    BY <1>a, <1>3, <2>10, RememberedStays DEF DupesInv
<1>4. QED
  BY <1>a, <1>1, <1>2, <1>3 DEF DupesInv

LEMMA BucketsKeeps ==
  ASSUME DupesInv, Buckets
  PROVE  DupesInv'
<1>a. /\ step = "Prefix" /\ step' = "Whole" /\ todo = {} /\ survivors' = {} /\ RunFrame
      /\ UNCHANGED <<cache, quiet, same, groups, unreadable, hashed>>
      /\ DupesTypeOK /\ quiet \in BOOLEAN /\ same \in BOOLEAN
  BY DEF Buckets, RunFrame, files, report, DupesInv, DupesTypeOK
<1> DEFINE made(s) == [path |-> s.file.path, file |-> s.file, prefix |-> s.prefix]
<1>b. todo' = {made(s) : s \in {b \in survivors : \E o \in survivors : Alike(o, b)}}
  BY DEF Buckets
<1>c. \A s : made(s).path = s.file.path /\ made(s).file = s.file
  OBVIOUS
<1>1. DupesTypeOK' /\ Past' /\ CacheTrue'
  BY <1>a, RunFrames
<1>2. Looked'
  <2> HIDE DEF made
  <2>1. \A f : AsLooked(f)' <=> AsLooked(f)
    BY <1>a DEF AsLooked, RunFrame
  <2>2. ASSUME ~racy PROVE \A e \in todo' : AsLooked(e.file) /\ e.path = e.file.path
    <3>1. \A s \in survivors : AsLooked(s.file)
      BY <1>a, <2>2 DEF DupesInv, Looked
    <3>2. QED
      BY <1>b, <1>c, <3>1
  <2>3. racy' = racy
    BY <1>a DEF RunFrame
  <2>4. QED
    BY <1>a, <2>1, <2>2, <2>3 DEF Looked
<1>3. ASSUME quiet PROVE OnTheWay' /\ Remembered'
  <2>1. PICK left \in SUBSET Labels : Prefixings(left)
    BY <1>a, <1>3 DEF DupesInv, OnTheWay
  <2>2. left = {}
    BY <1>a, <2>1 DEF Prefixings
  <2>3. survivors = {Begun(n) : n \in Compared} /\ groups = LinkGroups
    BY <2>1, <2>2 DEF Prefixings
  <2>4. /\ \A m, n : Alike(Begun(m), Begun(n))
                      <=> m # n /\ SizeNow(m) = SizeNow(n) /\ PrefixNow(m) = PrefixNow(n)
        /\ \A n : made(Begun(n)) = Whole(n)
    <3>1. \A n : /\ Begun(n).file = Live(n) /\ Begun(n).prefix = PrefixNow(n)
                 /\ Live(n).size = SizeNow(n) /\ Live(n).path = n
      BY DEF Begun, Live
    <3>2. \A m, n : Begun(m) # Begun(n) <=> m # n
      BY <3>1
    <3>3. \A n : made(Begun(n)) = Whole(n)
      BY <3>1 DEF Whole
    <3>4. QED
      BY <3>1, <3>2, <3>3 DEF Alike
  <2> HIDE DEF made
  <2>5. {b \in survivors : \E o \in survivors : Alike(o, b)} = {Begun(n) : n \in Close}
    BY <2>3, <2>4 DEF Close
  <2>6. todo' = {Whole(n) : n \in Close}
    BY <1>b, <2>4, <2>5
  <2>7. /\ Close' = Close /\ LinkGroups' = LinkGroups
        /\ \A m : Whole(m)' = Whole(m)
    BY <1>a, FilesSame DEF RunFrame, Whole
  <2>8. Wholes(Close)'
    <3>1. Close' \ Close = {}
      BY <2>7
    <3>2. QED
      BY <1>a, <2>3, <2>6, <2>7, <3>1 DEF Wholes
  <2>9. Close \in SUBSET Labels
    BY <1>a, Firstly, OnDisk
  <2>10. OnTheWay'
    BY <1>a, <1>3, <2>7, <2>8, <2>9 DEF DupesInv, OnTheWay
  <2>11. QED
    BY <1>a, <1>3, <2>10, RememberedStays DEF DupesInv
<1>4. QED
  BY <1>a, <1>1, <1>2, <1>3 DEF DupesInv

LEMMA HashWholeKeeps ==
  ASSUME DupesInv, NEW e \in todo, HashWhole(e)
  PROVE  DupesInv'
<1>a. /\ step = "Whole" /\ step' = step /\ todo' = todo \ {e} /\ RunFrame
      /\ UNCHANGED <<quiet, same, groups>>
      /\ DupesTypeOK /\ quiet \in BOOLEAN /\ same \in BOOLEAN
  BY DEF HashWhole, Working, CannotRead, RunFrame, files, report, DupesInv, DupesTypeOK
<1> DEFINE key == Key(e.file)
           told(h) == [file |-> e.file, prefix |-> e.prefix, hash |-> h]
           read == ContentOf(e.path)
<1>b. \/ /\ key \in DOMAIN cache /\ survivors' = survivors \cup {told(cache[key])}
         /\ UNCHANGED <<cache, unreadable, hashed>>
      \/ /\ names[e.path] = NoFile /\ UNCHANGED <<cache, survivors, hashed>> /\ key \notin DOMAIN cache
      \/ /\ key \notin DOMAIN cache /\ names[e.path] # NoFile
         /\ survivors' = survivors \cup {told(read)} /\ unreadable' = unreadable
         /\ IF UseCache THEN cache' = [k \in DOMAIN cache \cup {key} |-> IF k = key THEN read ELSE cache[k]]
                        ELSE cache' = cache
  BY DEF HashWhole, HashIs, CannotRead, report
<1>c. key = <<e.file.inode, e.file.size, e.file.mtime>>
  BY DEF Key
<1> HIDE DEF key, told, read
<1>1. DupesTypeOK' /\ Past' /\ (cache' = cache => CacheTrue')
  BY <1>a, RunFrames
<1>d. ASSUME ~racy
      PROVE  /\ AsLooked(e.file) /\ e.path = e.file.path
             /\ key \in FileIds \X Nat \X Nat
             /\ key[1] = names[e.path] /\ key[3] = file[key[1]].mtime
             /\ read = file[key[1]].content
  <2>1. AsLooked(e.file) /\ e.path = e.file.path
    BY <1>a, <1>d DEF DupesInv, Looked
  <2>2. /\ e.file.inode \in FileIds /\ e.file.size \in Nat /\ names[e.path] = e.file.inode
        /\ e.file.mtime = file[e.file.inode].mtime
    BY <2>1 DEF AsLooked
  <2>3. e.file.mtime \in Nat
    BY <1>a, <2>2 DEF DupesTypeOK
  <2>4. read = file[e.file.inode].content
    BY <2>2 DEF read, ContentOf
  <2>5. QED
    BY <1>c, <2>1, <2>2, <2>3, <2>4
<1>2. CacheTrue'
  <2>1. CASE cache' = cache
    BY <1>1, <2>1
  <2>2. CASE cache' # cache
    <3>1. cache' = [k \in DOMAIN cache \cup {key} |-> IF k = key THEN read ELSE cache[k]]
      BY <1>b, <2>2
    <3>2. SUFFICES ASSUME ~racy, NEW k \in DOMAIN cache \cup {key}
          PROVE  /\ k \in FileIds \X Nat \X Nat
                 /\ k[3] <= file[k[1]].mtime
                 /\ k[3] = file[k[1]].mtime /\ k[2] = Size(file[k[1]].content) => cache'[k] = file[k[1]].content
      BY <1>a, <3>1 DEF RunFrame, CacheTrue
    <3>3. CASE k = key
      <4>1. key[3] \in Nat
        BY <1>d, <3>2
      <4>2. cache'[k] = read
        BY <3>1, <3>3
      <4>3. QED
        BY <1>d, <3>2, <3>3, <4>1, <4>2
    <3>4. CASE k # key
      <4>1. k \in DOMAIN cache /\ cache'[k] = cache[k]
        BY <3>1, <3>4
      <4>2. QED
        BY <3>2, <4>1 DEF DupesInv, CacheTrue
    <3>5. QED
      BY <3>3, <3>4
  <2>3. QED
    BY <2>1, <2>2
<1>3. Looked'
  <2>1. \A f : AsLooked(f)' <=> AsLooked(f)
    BY <1>a DEF AsLooked, RunFrame
  <2>2. racy' = racy
    BY <1>a DEF RunFrame
  <2>3. QED
    BY <1>a, <2>1, <2>2 DEF DupesInv, Looked
<1>4. ASSUME quiet PROVE OnTheWay' /\ Remembered'
  <2>1. PICK left \in SUBSET Labels : Wholes(left)
    BY <1>a, <1>4 DEF DupesInv, OnTheWay
  <2>2. PICK n \in left : e = Whole(n)
    BY <2>1 DEF Wholes
  <2>3. /\ e.path = n /\ e.file = Live(n) /\ e.prefix = PrefixNow(n)
        /\ n \in Close /\ n \in Here /\ names[n] \in FileIds /\ n \in Labels
    BY <1>a, <2>1, <2>2, Firstly, OnDisk DEF Wholes, Whole
  <2>4. key = KeyNow(n) /\ read = ContentOf(n) /\ key[1] = names[n] /\ key[2] = Size(file[names[n]].content)
    <3>1. Live(n).inode = names[n] /\ Live(n).size = SizeNow(n) /\ Live(n).mtime = file[names[n]].mtime
      BY DEF Live
    <3>2. key = KeyNow(n)
      BY <1>c, <2>3, <3>1 DEF KeyNow
    <3>3. KeyNow(n)[1] = names[n] /\ KeyNow(n)[2] = Size(file[names[n]].content)
      BY DEF KeyNow, SizeNow, ContentOf
    <3>4. QED
      BY <2>3, <3>2, <3>3 DEF read
  <2>5. told(ContentOf(n)) = Hashed(n)
    BY <2>3 DEF told, Hashed
  <2>6. names[e.path] # NoFile
    BY <2>3 DEF Here
  <2>7. ASSUME ~racy PROVE survivors' = survivors \cup {Hashed(n)}
    <3>1. CASE key \in DOMAIN cache
      <4>1. cache[key] = ContentOf(n)
        <5>1. key[3] = file[key[1]].mtime
          BY <1>d, <2>7
        <5>2. cache[key] = file[key[1]].content
          BY <2>4, <2>7, <3>1, <5>1 DEF DupesInv, CacheTrue
        <5>3. QED
          BY <1>d, <2>4, <2>7, <5>2
      <4>2. QED
        BY <1>b, <2>5, <3>1, <4>1
    <3>2. CASE key \notin DOMAIN cache
      BY <1>b, <2>4, <2>5, <2>6, <3>2
    <3>3. QED
      BY <3>1, <3>2
  <2>8. DOMAIN cache \subseteq DOMAIN cache' /\ (UseCache => key \in DOMAIN cache') /\ unreadable' = unreadable
    BY <1>b, <2>6
  <2>9. /\ Close' = Close /\ LinkGroups' = LinkGroups /\ racy' = racy
        /\ \A m : Whole(m)' = Whole(m) /\ Hashed(m)' = Hashed(m) /\ KeyNow(m)' = KeyNow(m)
    BY <1>a, FilesSame DEF RunFrame, Whole, Hashed, KeyNow
  <2>10. todo' = {Whole(m) : m \in left \ {n}}
    BY <1>a, <2>1, <2>2, NameOf DEF Wholes
  <2>11. ~racy => survivors' = {Hashed(m) : m \in Close \ (left \ {n})}
    BY <2>1, <2>3, <2>7 DEF Wholes
  <2>12. UseCache => \A m \in Close \ (left \ {n}) : KeyNow(m) \in DOMAIN cache'
    BY <2>1, <2>4, <2>8 DEF Wholes
  <2>13. Wholes(left \ {n})'
    BY <1>a, <2>1, <2>9, <2>10, <2>11, <2>12 DEF Wholes
  <2>14. OnTheWay'
    BY <1>a, <1>4, <2>8, <2>13 DEF DupesInv, OnTheWay
  <2>15. ASSUME UseCache, same PROVE hashed' = 0 /\ \A m \in Close : KeyNow(m) \in DOMAIN cache'
    <3>1. hashed = 0 /\ \A m \in Close : KeyNow(m) \in DOMAIN cache
      BY <1>4, <2>15 DEF DupesInv, Remembered
    <3>2. key \in DOMAIN cache
      BY <2>3, <2>4, <3>1
    <3>3. QED
      BY <1>b, <2>8, <3>1, <3>2
  <2>16. Remembered'
    BY <1>a, <2>9, <2>15 DEF Remembered
  <2>17. QED
    BY <2>14, <2>16
<1>5. QED
  BY <1>a, <1>1, <1>2, <1>3, <1>4 DEF DupesInv

\* The files that came this far and hold the same are the copies of a file that
\* has any.
LEMMA CopiesAre ==
  ASSUME DupesTypeOK
  PROVE  /\ \A n \in Close : {m \in Close : ContentOf(m) = ContentOf(n)} \subseteq CopiesOf(n)
         /\ \A n : Cardinality(CopiesOf(n)) > 1 => CopiesOf(n) \subseteq Close
         /\ \A n, a : a \in CopiesOf(n) => ContentOf(a) = ContentOf(n) /\ CopiesOf(a) = CopiesOf(n)
<1>1. ASSUME NEW n \in Close, NEW m \in Close, ContentOf(m) = ContentOf(n) PROVE m \in CopiesOf(n)
  <2>1. m \in Firsts /\ m \in Here
    BY Firstly
  <2>2. QED
    BY <1>1, <2>1 DEF Firsts, CopiesOf
<1>2. ASSUME NEW n, Cardinality(CopiesOf(n)) > 1 PROVE CopiesOf(n) \subseteq Close
  <2>1. IsFiniteSet(CopiesOf(n)) /\ CopiesOf(n) \subseteq Here
    BY OnDisk
  <2>2. PICK x, y \in CopiesOf(n) : x # y
    BY <1>2, <2>1, Several
  <2>3. \A a, b \in CopiesOf(n) : SizeNow(a) = SizeNow(b) /\ PrefixNow(a) = PrefixNow(b)
    BY DEF CopiesOf, SizeNow, PrefixNow
  <2>4. \A a \in CopiesOf(n) : \E b \in CopiesOf(n) : b # a
    BY <2>2
  <2>5. CopiesOf(n) \subseteq Grouped
    BY <2>1, <2>3, <2>4 DEF Grouped
  <2>6. CopiesOf(n) \subseteq Firsts
    BY <2>5 DEF Firsts, CopiesOf
  <2>7. CopiesOf(n) \subseteq Compared
    BY <2>3, <2>4, <2>6 DEF Compared
  <2>8. QED
    BY <2>3, <2>4, <2>7 DEF Close
<1>3. ASSUME NEW n, NEW a \in CopiesOf(n) PROVE ContentOf(a) = ContentOf(n) /\ CopiesOf(a) = CopiesOf(n)
  BY DEF CopiesOf
<1>4. QED
  BY <1>1, <1>2, <1>3

LEMMA ToldAre ==
  ASSUME DupesTypeOK, survivors = {Hashed(n) : n \in Close}
  PROVE  {[shared |-> "Separate", size |-> a.file.size, copies |-> {b.file.path : b \in Same(a)}] :
            a \in {p \in survivors : Cardinality(Same(p)) > 1}} = CopyGroups
<1> DEFINE alike(n) == {m \in Close : ContentOf(m) = ContentOf(n)}
           group(a) == [shared |-> "Separate", size |-> a.file.size, copies |-> {b.file.path : b \in Same(a)}]
<1>1. \A n : /\ Hashed(n).file.size = SizeNow(n) /\ Hashed(n).file.path = n
             /\ Hashed(n).prefix = PrefixNow(n) /\ Hashed(n).hash = ContentOf(n)
  BY DEF Hashed, Live
<1>2. \A m, n : ContentOf(m) = ContentOf(n) => SizeNow(m) = SizeNow(n) /\ PrefixNow(m) = PrefixNow(n)
  BY DEF SizeNow, PrefixNow
<1>3. ASSUME NEW n \in Close PROVE Same(Hashed(n)) = {Hashed(m) : m \in alike(n)}
  BY <1>1, <1>2 DEF Same
<1>4. Close \subseteq Here
  BY Firstly
<1>5. ASSUME NEW n \in Close
      PROVE  /\ Cardinality(Same(Hashed(n))) > 1 <=> Cardinality(CopiesOf(n)) > 1
             /\ Cardinality(CopiesOf(n)) > 1 => group(Hashed(n)) = CopyGroup(n)
  <2>1. IsFiniteSet(alike(n)) /\ IsFiniteSet(CopiesOf(n)) /\ IsFiniteSet(Close)
    <3>1. IsFiniteSet(Here) /\ alike(n) \subseteq Here
      BY <1>4, OnDisk
    <3>2. QED
      BY <1>4, <3>1, OnDisk, FS_Subset
  <2>2. IsFiniteSet(Same(Hashed(n)))
    <3> DEFINE made == [x \in alike(n) |-> Hashed(x)]
    <3>1. made \in Surjection(alike(n), Same(Hashed(n)))
      BY <1>3 DEF Surjection
    <3>2. QED
      BY <2>1, <3>1, FS_Surjection
  <2>3. Cardinality(Same(Hashed(n))) > 1 <=> \E x, y \in Same(Hashed(n)) : x # y
    BY <2>2, Several
  <2>4. (\E x, y \in Same(Hashed(n)) : x # y) <=> (\E x, y \in alike(n) : x # y)
    BY <1>3, NameOf
  <2>5. Cardinality(CopiesOf(n)) > 1 <=> \E x, y \in CopiesOf(n) : x # y
    BY <2>1, Several
  <2>6. alike(n) \subseteq CopiesOf(n)
    BY CopiesAre
  <2>7. Cardinality(CopiesOf(n)) > 1 => CopiesOf(n) = alike(n)
    BY <2>6, CopiesAre
  <2>8. {b.file.path : b \in Same(Hashed(n))} = alike(n)
    BY <1>1, <1>3
  <2>9. CopiesOf(n) = alike(n) => group(Hashed(n)) = CopyGroup(n)
    BY <1>1, <2>8 DEF CopyGroup
  <2> HIDE DEF group, alike
  <2>10. QED
    BY <2>3, <2>4, <2>5, <2>6, <2>7, <2>9
<1>6. ASSUME NEW n \in Here, Cardinality(CopiesOf(n)) > 1
      PROVE  \E a \in Close : Cardinality(CopiesOf(a)) > 1 /\ CopyGroup(a) = CopyGroup(n)
  <2>1. IsFiniteSet(CopiesOf(n))
    BY OnDisk
  <2>2. PICK x, y \in CopiesOf(n) : x # y
    BY <1>6, <2>1, Several
  <2>3. x \in Close /\ ContentOf(x) = ContentOf(n) /\ CopiesOf(x) = CopiesOf(n)
    BY <1>6, CopiesAre
  <2>4. CopyGroup(x) = CopyGroup(n)
    BY <1>2, <2>3 DEF CopyGroup
  <2>5. QED
    BY <1>6, <2>3, <2>4
<1>7. {group(a) : a \in {p \in survivors : Cardinality(Same(p)) > 1}}
        = {group(Hashed(n)) : n \in {m \in Close : Cardinality(Same(Hashed(m))) > 1}}
  <2> HIDE DEF group
  <2>1. QED
    OBVIOUS
<1>8. {group(Hashed(n)) : n \in {m \in Close : Cardinality(Same(Hashed(m))) > 1}} = CopyGroups
  <2> HIDE DEF group
  <2>1. QED
    BY <1>4, <1>5, <1>6 DEF CopyGroups
<1>9. QED
  BY <1>7, <1>8

LEMMA TellKeeps ==
  ASSUME DupesInv, Tell
  PROVE  DupesInv'
<1>a. /\ step = "Whole" /\ step' = "Done" /\ todo = {} /\ RunFrame
      /\ UNCHANGED <<cache, survivors, quiet, same, unreadable, hashed>>
      /\ DupesTypeOK /\ quiet \in BOOLEAN /\ same \in BOOLEAN
  BY DEF Tell, RunFrame, files, DupesInv, DupesTypeOK
<1>1. DupesTypeOK' /\ Past' /\ CacheTrue'
  BY <1>a, RunFrames
<1>2. Looked'
  BY <1>a DEF Looked
<1>3. ASSUME quiet PROVE OnTheWay' /\ Remembered'
  <2>1. PICK left \in SUBSET Labels : Wholes(left)
    BY <1>a, <1>3 DEF DupesInv, OnTheWay
  <2>2. left = {} /\ groups = LinkGroups
    BY <1>a, <2>1 DEF Wholes
  <2>3. ~racy => survivors = {Hashed(n) : n \in Close}
    BY <2>1, <2>2 DEF Wholes
  <2>4. ~racy => groups' = LinkGroups \cup CopyGroups
    BY <1>a, <2>2, <2>3, ToldAre DEF Tell
  <2>5. UseCache => \A n \in Close : KeyNow(n) \in DOMAIN cache
    BY <2>1, <2>2 DEF Wholes
  <2>6. /\ Close' = Close /\ LinkGroups' = LinkGroups /\ CopyGroups' = CopyGroups /\ racy' = racy
        /\ \A m : KeyNow(m)' = KeyNow(m)
    BY <1>a, FilesSame DEF RunFrame, KeyNow
  <2>7. OnTheWay'
    BY <1>a, <1>3, <2>4, <2>5, <2>6 DEF DupesInv, OnTheWay
  <2>8. QED
    BY <1>a, <1>3, <2>7, RememberedStays DEF DupesInv
<1>4. QED
  BY <1>a, <1>1, <1>2, <1>3 DEF DupesInv

(***************************************************************************)
(* The theorem.                                                            *)
(***************************************************************************)
LEMMA DupesBegins ==
  ASSUME DupesInit
  PROVE  DupesInv
<1>1. DupesTypeOK /\ Past
  <2>1. /\ names \in [Labels -> FileIds \cup {NoFile}] /\ second = 1 /\ step = "Idle"
        /\ quiet = FALSE /\ same = FALSE /\ racy = FALSE
        /\ file \in [FileIds -> [content : Contents, mtime : {1}]]
    BY DEF DupesInit
  <2>2. file \in [FileIds -> [content : Contents, mtime : Nat]] /\ \A i \in FileIds : file[i].mtime = 1
    BY <2>1
  <2>3. Past
    BY <2>1, <2>2 DEF Past
  <2>4. second \in Nat \ {0}
    BY DEF DupesInit
  <2>5. quiet \in BOOLEAN /\ same \in BOOLEAN /\ racy \in BOOLEAN
    BY Zenon DEF DupesInit
  <2>6. step \in {"Idle", "Scanned", "Look", "Prefix", "Whole", "Done"}
    BY DEF DupesInit
  <2>7. DupesTypeOK
    BY <2>1, <2>2, <2>4, <2>5, <2>6 DEF DupesTypeOK
  <2>8. QED
    BY <2>3, <2>7
<1>2. QED
  BY <1>1 DEF DupesInit, DupesInv, CacheTrue, Looked

LEMMA DupesNextKeeps ==
  ASSUME DupesInv, [DupesNext]_dupes
  PROVE  DupesInv'
<1>1. CASE UNCHANGED dupes
  <2>1. UNCHANGED <<names, file, second, cache, step, scanned, todo, survivors, groups, unreadable, hashed, quiet, same, racy>>
    BY <1>1 DEF dupes, files, report
  <2>2. DupesTypeOK' /\ Past' /\ CacheTrue' /\ Looked'
    BY <2>1 DEF DupesInv, DupesTypeOK, Past, CacheTrue, Looked, AsLooked
  <2>3. ASSUME quiet PROVE OnTheWay'
    BY <2>1, <2>3, FilesSame
       DEF DupesInv, OnTheWay, ScanTrue, Lookings, Prefixings, Wholes, Candidate, Begun, Whole, Hashed, KeyNow
  <2>4. ASSUME quiet PROVE Remembered'
    BY <2>1, <2>4, RememberedStays DEF DupesInv, RunFrame
  <2>5. QED
    BY <2>1, <2>2, <2>3, <2>4 DEF DupesInv
<1>2. QED
  BY <1>1, DiskKeeps, ScanFolderKeeps, BySizeKeeps, LookAgainKeeps, SplitKeeps, HashPrefixKeeps,
     BucketsKeeps, HashWholeKeeps, TellKeeps DEF DupesNext, Run

LEMMA DupesInvServes ==
  ASSUME DupesInv
  PROVE  HashesServe
<1>1. ASSUME step = "Done", quiet, ~racy
      PROVE  /\ unreadable = {}
             /\ {g.copies : g \in Told("Separate")} = {s \in {CopiesOf(n) : n \in Here} : Cardinality(s) > 1}
             /\ {g.copies : g \in Told("Hardlinked")} =
                  {s \in {LabelsOf(names[n]) : n \in Here} : Cardinality(s) > 1}
  <2>1. unreadable = {} /\ groups = LinkGroups \cup CopyGroups
    BY <1>1 DEF DupesInv, OnTheWay
  <2>2. \A n : LinkGroup(n).shared = "Hardlinked" /\ LinkGroup(n).copies = LabelsOf(names[n])
    BY DEF LinkGroup
  <2>3. \A n : CopyGroup(n).shared = "Separate" /\ CopyGroup(n).copies = CopiesOf(n)
    BY DEF CopyGroup
  <2>4. "Hardlinked" # "Separate"
    OBVIOUS
  <2>5. Told("Separate") = CopyGroups
    BY <2>1, <2>2, <2>3, <2>4 DEF Told, LinkGroups, CopyGroups
  <2>6. Told("Hardlinked") = LinkGroups
    BY <2>1, <2>2, <2>3, <2>4 DEF Told, LinkGroups, CopyGroups
  <2>7. {g.copies : g \in CopyGroups} = {s \in {CopiesOf(n) : n \in Here} : Cardinality(s) > 1}
    BY <2>3 DEF CopyGroups
  <2>8. {g.copies : g \in LinkGroups} = {s \in {LabelsOf(names[n]) : n \in Here} : Cardinality(s) > 1}
    BY <2>2 DEF LinkGroups
  <2>9. QED
    BY <2>1, <2>5, <2>6, <2>7, <2>8
<1>2. ReportIsExact
  BY <1>1 DEF ReportIsExact
<1>3. SecondRunIsFree
  BY DEF SecondRunIsFree, DupesInv, Remembered
<1>4. QED
  BY <1>2, <1>3 DEF HashesServe

\* What a run reports that nothing disturbed is the sets of separate files that
\* hold the same bytes and, apart, the names of one file, whatever has happened
\* between this run and those whose hashes it uses, unless the key of a hash
\* cannot show it; and a second run over the same disk reads no file whole
\* (dupes/src/lib.rs, store/src/hash_cache.rs).
THEOREM ReportsAreExact == DuplicatesSpec => []HashesServe
<1>1. DuplicatesSpec => []DupesInv
  BY DupesBegins, DupesNextKeeps, PTL DEF DuplicatesSpec
<1>2. QED
  BY <1>1, DupesInvServes, PTL

(***************************************************************************)
(* What a name is, whatever is mounted, and what the journal says of it.   *)
(***************************************************************************)
OwnEntry(n) ==
  IF own[n] = Absent THEN Missing
  ELSE [of |-> own[n], version |-> version[own[n]], links |-> Links(own[n])]

\* The directories a name is in.
Over(n) == ({Root} \cup Path[n]) \ {n}

\* A record is about a name, or about a directory it is in that came or went.
Touches(r, n) == r.name = n \/ (Moved(r) /\ r.name \in Over(n))

TouchedIn(n, from, upto) == \E p \in DOMAIN log : from < p /\ p <= upto /\ Touches(log[p], n)
Touched(n, from)         == TouchedIn(n, from, Len(log))

\* What was taken for a name is what it is, or shows itself that it may not be,
\* or the journal has said so since.
Holds(e, n, from) == e = OwnEntry(n) \/ e.links > 1 \/ Touched(n, from)

(***************************************************************************)
(* Snapshots.                                                              *)
(***************************************************************************)
\* A name below a volume, below what could not be read, or with other names.
Mounted(s, n) == Path[n] \cap s.points # {}
Failed(s, n)  == ({Root} \cup Path[n]) \cap s.errored # {}
Unsure(s, n)  == s.tree[n].links > 1 \/ Mounted(s, n) \/ Failed(s, n)

Reliable(s, n) == Holds(s.tree[n], n, s.cursor.position) \/ Mounted(s, n) \/ Failed(s, n)

Emptied(s) == \A e \in s.errored : \A n \in Below[e] : s.tree[n] = Missing
Charges(s) ==
  \A n \in Files :
    /\ s.tree[n].links = 1 => n \in s.charged
    /\ n \in s.charged => s.tree[n] # Missing

Observed == [of : Inodes \cup {Absent, Foreign}, version : {0, 1}, links : Nat]

Snapshot ==
  [cursor : [journal : {0, 1}, position : Nat],
   tree : [Inside -> Observed],
   charged : SUBSET Files, points : SUBSET Dirs, errored : SUBSET Dirs]

\* A snapshot says of every name what it is, or what was to be read again.
Sound(s) ==
  /\ s \in Snapshot /\ Emptied(s) /\ Charges(s)
  /\ s.cursor.journal \in {0, journal}
  /\ s.cursor.journal = journal =>
       s.cursor.position \in 0..Len(log) /\ \A n \in Inside : Reliable(s, n)

Built == [cursor |-> cursor, tree |-> tree, charged |-> charged, points |-> points, errored |-> errored]

(***************************************************************************)
(* The disk.                                                               *)
(***************************************************************************)
DiskTyped ==
  /\ own \in [Inside -> Inodes \cup {Absent}]
  /\ version \in [Inodes -> {0, 1}]
  /\ outside \subseteq Inodes
  /\ mounted \subseteq MountPoints
  /\ volume \in {0, 1}
  /\ log \in Seq(Records)
  /\ numbered \in 0..Len(log)
  /\ journal \in {0, 1}

ScanTyped ==
  /\ phase \in {"Idle", "Taken", "Marked", "Walking", "Finished"}
  /\ table \subseteq MountPoints
  /\ at \in [Dirs -> {"Unknown", "Whole", "Changed", "Unchanged", "Copied", "Listed"}]
  /\ Built \in Snapshot
  /\ recent \in [Inside -> SUBSET Observed]

DiskIsATree ==
  /\ \A n \in Inside : own[n] # Absent /\ Parent[n] # Root => own[Parent[n]] # Absent
  /\ \A m \in mounted : own[m] # Absent

(***************************************************************************)
(* A scan up to its walk.                                                  *)
(***************************************************************************)
\* No journal is discarded while a scan runs, and no volume mounted.
UnderWay ==
  /\ phase # "Idle" => cursor.journal = journal /\ cursor.position <= Len(log)
  /\ phase \in {"Taken", "Marked"} => mounted \subseteq table

\* What the base says of a name is what it has been since the mark, unless that
\* name is read again.
AsMarked ==
  phase = "Marked" =>
    /\ Usable(cursor)
    /\ barrier \in cursor.position..Len(log)
    /\ \A n \in Inside :
         \/ stored.tree[n] \in recent[n] \/ Unsure(stored, n)
         \/ TouchedIn(n, stored.cursor.position, barrier) \/ Path[n] \cap table # {}

Current == phase \in {"Marked", "Walking"} => \A n \in Inside : Entry(n) \in recent[n]

(***************************************************************************)
(* The walk.                                                               *)
(***************************************************************************)
Dirtied(n) ==
  n \in dirty.marked \/ Path[n] \cap dirty.recursive # {} \/ Over(n) \cap dirty.unplaced # {}

\* What the journal said is enough.
BaseServes ==
  /\ Usable(cursor)
  /\ \A a \in dirty.marked : Path[a] \subseteq dirty.marked
  /\ dirty.recursive \subseteq dirty.marked /\ dirty.unplaced \subseteq dirty.marked \cup {Root}
  /\ \A n \in Inside :
       \/ Dirtied(n)
       \/ /\ stored.tree[n] \in recent[n] \/ Unsure(stored, n)
          /\ ~TouchedIn(n, stored.cursor.position, cursor.position)

Based(d) == at[d] \in {"Changed", "Unchanged", "Copied"}

\* A directory that is not read whole is in none that has to be.
Spared(d) ==
  /\ Path[d] \cap dirty.recursive = {} /\ Over(d) \cap dirty.unplaced = {}
  /\ Path[d] \cap stored.points = {}

Splices ==
  \A d \in Dirs :
    /\ Based(d) => BaseServes /\ Spared(d)
    /\ at[d] \in {"Unchanged", "Copied"} => d # Root /\ d \notin dirty.marked
    /\ at[d] = "Copied" => ~Flagged(d) /\ HeldBelow(d) # {}

\* The walk goes from the root down.
Descends ==
  /\ at[Root] \in {"Whole", "Changed", "Listed"}
  /\ \A d \in Dirs \ {Root} : at[d] # "Unknown" <=> tree[d] # Missing
  /\ \A n \in Inside : tree[n] # Missing => \A a \in Over(n) : at[a] = "Listed"
  /\ errored \subseteq {d \in Dirs : at[d] = "Listed"}
  /\ Emptied(Built)

\* What was read is what was there.
AsRead ==
  \A n \in Inside : tree[n] # Missing =>
    /\ tree[n] \in recent[n]
    /\ Holds(tree[n], n, cursor.position) \/ Mounted(Built, n)
    /\ tree[n].of = Foreign => Mounted(Built, n)
    /\ Covered(n) \/ n \in mounted => tree[n].of = Foreign

NotThere ==
  \A d \in Dirs : at[d] = "Listed" /\ d \notin errored =>
    \A c \in Children[d] : tree[c] = Missing =>
      \A n \in {c} \cup Below[c] : Missing \in recent[n] /\ Holds(Missing, n, cursor.position)

\* Of the files with several names one is charged, the others always.
SeveralNames(n) == n \in Files /\ tree[n].links > 1

ChargesOne ==
  /\ Charges(Built)
  /\ \A m, n \in charged : SeveralNames(m) /\ SeveralNames(n) /\ tree[m].of = tree[n].of => m = n
  /\ \A n \in Files : SeveralNames(n) => \E m \in charged : SeveralNames(m) /\ tree[m].of = tree[n].of

Present == {n \in Inside : tree[n] # Missing}
Counts ==
  /\ counted = 1 + Cardinality(Present) + Cardinality({n \in Filled : stored.tree[n] # Missing})
  /\ errors = Cardinality(errored)

Walks == phase = "Walking" => Splices /\ Descends /\ AsRead /\ NotThere /\ ChargesOne /\ Counts

Done ==
  phase = "Finished" =>
    /\ Sound(Built) /\ ChargesOne
    /\ \A n \in Inside : (tree[n] # Missing \/ ~Unseen(n)) => tree[n] \in recent[n]
    /\ counted = 1 + Cardinality(Present) /\ errors = Cardinality(errored)

RescanInv ==
  /\ DiskTyped /\ DiskIsATree /\ ScanTyped
  /\ stored # NoSnapshot => Sound(stored)
  /\ UnderWay /\ AsMarked /\ Current /\ Walks /\ Done

(***************************************************************************)
(* Paths.                                                                  *)
(***************************************************************************)
LEMMA ParentIs == \A n \in Inside : Parent[n] \in Dirs /\ n \in Names /\ Parent[n] \in Names
  BY DiskAssumption DEF Inside, Names

\* What holds of the root, and of a name when it holds of its directory, holds of
\* every name.
LEMMA Downward ==
  ASSUME NEW S \in SUBSET Names, Root \notin S, \A n \in S : Parent[n] \in S
  PROVE  S = {}
  BY DiskAssumption DEF Upward

\* A path is the name and the path of its directory.
LEMMA PathIs ==
  /\ Path[Root] = {}
  /\ \A n \in Names : Path[n] \subseteq Inside
  /\ \A n \in Inside : Path[n] = {n} \cup Path[Parent[n]]
<1>1. \A n \in Names : \A m : m \in Path[n] <=> m \in Inside /\ \A S \in SUBSET Names : n \in S /\ Upward(S) => m \in S
  BY DEF Path
<1>2. Path[Root] = {}
  <2>1. Root \in Names /\ {Root} \in SUBSET Names /\ Upward({Root})
    BY DiskAssumption DEF Names, Upward
  <2>2. QED
    BY <1>1, <2>1 DEF Inside
<1>3. ASSUME NEW n \in Inside PROVE Path[n] = {n} \cup Path[Parent[n]]
  <2>1. n \in Names /\ Parent[n] \in Names /\ n # Root
    BY ParentIs DEF Inside
  <2>2. ASSUME NEW m \in Path[Parent[n]] PROVE m \in Path[n]
    <3>1. \A S \in SUBSET Names : n \in S /\ Upward(S) => Parent[n] \in S
      BY <2>1 DEF Upward
    <3>2. QED
      BY <1>1, <2>1, <2>2, <3>1
  <2>3. n \in Path[n]
    BY <1>1, <2>1
  <2>4. ASSUME NEW m \in Path[n], m # n PROVE m \in Path[Parent[n]]
    <3>1. ASSUME NEW S \in SUBSET Names, Parent[n] \in S, Upward(S) PROVE m \in S
      <4>1. S \cup {n} \in SUBSET Names /\ Upward(S \cup {n})
        BY <2>1, <3>1 DEF Upward
      <4>2. m \in S \cup {n}
        BY <1>1, <2>1, <4>1
      <4>3. QED
        BY <2>4, <4>2
    <3>2. m \in Inside
      BY <1>1, <2>1
    <3>3. QED
      BY <1>1, <2>1, <3>1, <3>2
  <2>5. QED
    BY <2>2, <2>3, <2>4
<1>4. QED
  BY <1>1, <1>2, <1>3

\* A path is a chain of directories down to the name.
LEMMA Paths ==
  /\ \A n \in Names : \A a \in Path[n] : Path[a] \subseteq Path[n] /\ a \in Inside /\ (a # n => a \in Dirs)
  /\ \A n \in Names : \A a \in Path[n] : n \in Path[a] => a = n
  /\ \A n \in Names : \A a, b \in Path[n] : a \in Path[b] \/ b \in Path[a]
<1>1. \A n \in Names : \A m : m \in Path[n] <=> m \in Inside /\ \A S \in SUBSET Names : n \in S /\ Upward(S) => m \in S
  BY DEF Path
<1>2. ASSUME NEW n \in Names, NEW a \in Path[n] PROVE Path[a] \subseteq Path[n] /\ a \in Inside /\ (a # n => a \in Dirs)
  <2>1. a \in Inside /\ a \in Names
    BY <1>1 DEF Inside
  <2>2. Path[a] \subseteq Path[n]
    <3>1. ASSUME NEW m \in Path[a], NEW S \in SUBSET Names, n \in S, Upward(S) PROVE m \in S
      <4>1. a \in S
        BY <1>1, <1>2, <3>1
      <4>2. QED
        BY <1>1, <2>1, <3>1, <4>1
    <3>2. QED
      BY <1>1, <2>1, <3>1
  <2>3. ASSUME a # n PROVE a \in Dirs
    <3>1. {n} \cup Dirs \in SUBSET Names /\ Upward({n} \cup Dirs)
      BY ParentIs DEF Upward, Inside, Names
    <3>2. a \in {n} \cup Dirs
      BY <1>1, <1>2, <3>1
    <3>3. QED
      BY <2>3, <3>2
  <2>4. QED
    BY <2>1, <2>2, <2>3
<1>3. ASSUME NEW n \in Names, NEW a \in Path[n], n \in Path[a] PROVE a = n
  <2>1. SUFFICES ASSUME a # n PROVE FALSE
    OBVIOUS
  <2> DEFINE S == {k \in Path[n] : n \in Path[k]}
  <2>2. n \in Inside /\ a \in Names
    BY <1>1, <1>2, <1>3 DEF Inside
  <2>3. n \in S
    BY <2>2, PathIs
  <2>4. ASSUME NEW k \in S PROVE Parent[k] \in S
    <3>1. k \in Inside /\ Path[k] = {k} \cup Path[Parent[k]] /\ Path[k] \subseteq Path[n]
      BY <1>2, PathIs
    <3>2. n \in Path[Parent[k]]
      <4>1. CASE k # n
        BY <3>1, <4>1
      <4>2. CASE k = n
        <5>1. a \in Path[Parent[n]]
          BY <2>1, <3>1, <4>2
        <5>2. Path[a] \subseteq Path[Parent[n]]
          BY <1>2, <2>2, <5>1, ParentIs
        <5>3. QED
          BY <1>3, <4>2, <5>2
      <4>3. QED
        BY <4>1, <4>2
    <3>3. Parent[k] # Root /\ Parent[k] \in Names
      BY <3>1, <3>2, PathIs, ParentIs
    <3>4. Parent[k] \in Path[Parent[k]]
      BY <3>3, PathIs DEF Inside
    <3>5. QED
      BY <3>1, <3>2, <3>4
  <2>5. S \subseteq Names /\ Root \notin S
    BY <1>2 DEF Inside
  <2> HIDE DEF S
  <2>6. QED
    BY <2>3, <2>4, <2>5, Downward
<1>4. ASSUME NEW n \in Names, NEW a \in Path[n], NEW b \in Path[n] PROVE a \in Path[b] \/ b \in Path[a]
  <2> DEFINE S == {k \in {Root} \cup Path[n] : k \in {Root} \cup Path[b] \/ b \in Path[k]}
  <2>1. b \in Names /\ b \in Inside /\ n \in Inside
    BY <1>2, PathIs DEF Inside
  <2>2. n \in S
    BY <2>1, PathIs
  <2>3. S \subseteq Names
    BY <1>2, DiskAssumption DEF Inside, Names
  <2>4. ASSUME NEW k \in S \ {Root} PROVE Parent[k] \in S
    <3>1. k \in Inside /\ Path[k] = {k} \cup Path[Parent[k]] /\ Path[k] \subseteq Path[n]
      BY <1>2, PathIs
    <3>2. Parent[k] = Root \/ Parent[k] \in Path[Parent[k]]
      BY <3>1, ParentIs, PathIs DEF Inside
    <3>3. CASE k \in Path[b]
      <4>1. Path[k] \subseteq Path[b]
        BY <1>2, <2>1, <3>3
      <4>2. QED
        BY <3>1, <3>2, <4>1
    <3>4. CASE b \in Path[k] /\ k \notin Path[b]
      <4>1. b \in Path[Parent[k]]
        BY <2>1, <3>1, <3>4, PathIs
      <4>2. Parent[k] # Root
        BY <4>1, PathIs
      <4>3. QED
        BY <3>1, <3>2, <4>1, <4>2
    <3>5. QED
      BY <3>3, <3>4
  <2>5. Upward(S)
    BY <2>4 DEF Upward
  <2> HIDE DEF S
  <2>6. a \in S
    BY <1>1, <2>2, <2>3, <2>5
  <2>7. QED
    BY <1>2, <2>6 DEF S, Inside
<1>5. QED
  BY <1>2, <1>3, <1>4

\* Who is below a directory, and what is over a name.
LEMMA Belows ==
  /\ \A d \in Dirs : \A n \in Below[d] : n \in Inside /\ n # d /\ d \in Over(n) /\ (d # Root => d \in Path[n])
  /\ \A n \in Inside : \A a \in Over(n) : a \in Dirs /\ n \in Below[a]
  /\ \A n \in Inside : \A a \in Over(n) : Path[a] \subseteq Path[n] /\ Over(a) \subseteq Over(n)
  /\ \A d \in Dirs : \A c \in Children[d] : /\ c \in Inside /\ c # d /\ c \in Below[d] /\ Parent[c] = d
                                            /\ Path[c] = {c} \cup Path[d] /\ Over(c) = {d} \cup Over(d)
                                            /\ c \notin Path[d] /\ c \notin Over(d)
  /\ \A n \in Inside : Root \in Over(n) /\ n \in Path[n] /\ n \notin Over(n) /\ Parent[n] \in Over(n)
<1>1. Root \in Dirs /\ \A d \in Dirs : d \in Names
  BY DiskAssumption DEF Names
<1>2. \A d \in Names : \A n : n \in Below[d] <=> n \in Inside /\ n # d /\ (d = Root \/ d \in Path[n])
  BY DEF Below
<1>3. \A n \in Inside : n \in Names /\ n # Root /\ n \in Path[n] /\ Path[n] = {n} \cup Path[Parent[n]]
  BY PathIs DEF Inside
<1>4. ASSUME NEW d \in Dirs, NEW n \in Below[d]
      PROVE  n \in Inside /\ n # d /\ d \in Over(n) /\ (d # Root => d \in Path[n])
  BY <1>1, <1>2 DEF Over
<1>5. ASSUME NEW n \in Inside, NEW a \in Over(n) PROVE a \in Dirs /\ n \in Below[a]
  <2>1. a = Root \/ (a \in Path[n] /\ a # n)
    BY DEF Over
  <2>2. a \in Dirs
    BY <1>1, <1>3, <2>1, Paths
  <2>3. QED
    BY <1>1, <1>2, <1>3, <2>1, <2>2
<1>6. ASSUME NEW n \in Inside, NEW a \in Over(n) PROVE Path[a] \subseteq Path[n] /\ Over(a) \subseteq Over(n)
  <2>1. CASE a = Root
    BY <1>3, <2>1, PathIs DEF Over
  <2>2. CASE a # Root
    <3>1. a \in Path[n] /\ a # n
      BY <2>2 DEF Over
    <3>2. Path[a] \subseteq Path[n] /\ n \notin Path[a]
      BY <1>3, <3>1, Paths
    <3>3. QED
      BY <1>3, <3>2 DEF Over
  <2>3. QED
    BY <2>1, <2>2
<1>7. ASSUME NEW n \in Inside PROVE Root \in Over(n) /\ n \notin Over(n) /\ Parent[n] \in Over(n)
  <2>1. Parent[n] \in Names /\ Parent[n] \in Dirs
    BY ParentIs
  <2>2. Parent[n] # n
    <3>1. SUFFICES ASSUME Parent[n] = n PROVE FALSE
      OBVIOUS
    <3> DEFINE S == {n}
    <3>2. S \in SUBSET Names /\ Root \notin S /\ \A k \in S : Parent[k] \in S
      BY <1>3, <3>1
    <3>3. n \in S
      OBVIOUS
    <3> HIDE DEF S
    <3>4. QED
      BY <3>2, <3>3, Downward
  <2>3. Parent[n] = Root \/ Parent[n] \in Path[n]
    BY <1>3, <2>1, PathIs DEF Inside
  <2>4. QED
    BY <1>3, <2>2, <2>3 DEF Over
<1>8. ASSUME NEW d \in Dirs, NEW c \in Children[d]
      PROVE  /\ c \in Inside /\ c # d /\ c \in Below[d] /\ Parent[c] = d
             /\ Path[c] = {c} \cup Path[d] /\ Over(c) = {d} \cup Over(d)
             /\ c \notin Path[d] /\ c \notin Over(d)
  <2>1. c \in Inside /\ Parent[c] = d /\ d \in Over(c)
    BY <1>7 DEF Children
  <2>2. c # d /\ c \in Below[d] /\ Path[c] = {c} \cup Path[d]
    BY <1>3, <1>5, <1>7, <2>1
  <2>3. c \notin Path[d]
    <3>1. SUFFICES ASSUME c \in Path[d] PROVE FALSE
      OBVIOUS
    <3>2. d \in Inside
      BY <1>1, <3>1, PathIs DEF Inside
    <3>3. d \in Path[c]
      BY <1>3, <2>2, <3>2
    <3>4. QED
      BY <1>1, <2>2, <3>1, <3>3, Paths
  <2>4. d = Root \/ d \in Path[d]
    BY <1>1, <1>3 DEF Inside
  <2>5. c \notin Over(d)
    BY <1>3, <2>1, <2>3 DEF Over
  <2>6. Over(c) = {d} \cup Over(d)
    BY <1>3, <2>1, <2>2, <2>3, <2>4 DEF Over
  <2>7. QED
    BY <2>1, <2>2, <2>3, <2>5, <2>6
<1>9. QED
  BY <1>3, <1>4, <1>5, <1>6, <1>7, <1>8

(***************************************************************************)
(* The disk.                                                               *)
(***************************************************************************)
\* Where a directory is not there, nothing below it is.
LEMMA NothingBelow ==
  ASSUME DiskIsATree, NEW c \in Inside, own[c] = Absent, NEW n \in Below[c]
  PROVE  n \in Inside /\ own[n] = Absent
<1>1. c \in Path[n] /\ n \in Inside /\ n \in Names
  BY DEF Below, Inside
<1>2. SUFFICES ASSUME own[n] # Absent PROVE FALSE
  BY <1>1
<1> DEFINE S == {Root} \cup {k \in Inside : own[k] # Absent}
<1>3. S \in SUBSET Names /\ Upward(S)
  BY DiskAssumption, ParentIs DEF Upward, DiskIsATree, Inside, Names
<1>4. c \in S
  BY <1>1, <1>2, <1>3 DEF Path
<1>5. QED
  BY <1>4 DEF Inside

LEMMA MountsAre == \A m \in MountPoints : m \in Dirs /\ m \in Inside /\ m \in Names
  BY DiskAssumption DEF Inside, Names

\* Entries.
LEMMA Differ == Absent # Foreign /\ \A i \in Inodes : i # Absent /\ i # Foreign
  BY DiskAssumption

\* A file with a name outside, or with two names, shows more than one link.
LEMMA LinksAre ==
  ASSUME DiskTyped
  PROVE  /\ \A i : IsFiniteSet(NamesOf(i)) /\ Cardinality(NamesOf(i)) \in Nat /\ Links(i) \in Nat
         /\ \A i : NamesOf(i) # {} => Links(i) >= 1 /\ Links(i) # 0
         /\ \A i : NamesOf(i) # {} /\ i \in outside => Links(i) > 1
         /\ \A i : \A m, n \in NamesOf(i) : m # n => Links(i) > 1
<1>1. ASSUME NEW i PROVE IsFiniteSet(NamesOf(i)) /\ Cardinality(NamesOf(i)) \in Nat
  <2>1. NamesOf(i) \subseteq Names /\ IsFiniteSet(Names)
    BY DiskAssumption DEF NamesOf, Inside
  <2>2. IsFiniteSet(NamesOf(i))
    BY <2>1, FS_Subset
  <2>3. QED
    BY <2>2, FS_CardinalityType
<1>2. ASSUME NEW i, NamesOf(i) # {} PROVE Cardinality(NamesOf(i)) >= 1
  BY <1>1, <1>2, FS_EmptySet
<1>3. ASSUME NEW i, NEW m \in NamesOf(i), NEW n \in NamesOf(i), m # n PROVE Cardinality(NamesOf(i)) > 1
  <2>1. NamesOf(i) \ {m} # {} /\ IsFiniteSet(NamesOf(i) \ {m})
    BY <1>1, <1>3, FS_Subset
  <2>2. Cardinality(NamesOf(i) \ {m}) \in Nat /\ Cardinality(NamesOf(i) \ {m}) # 0
    BY <2>1, FS_CardinalityType, FS_EmptySet
  <2>3. Cardinality(NamesOf(i) \ {m}) = Cardinality(NamesOf(i)) - 1
    BY <1>1, FS_RemoveElement
  <2>4. QED
    BY <1>1, <2>2, <2>3
<1>4. QED
  BY <1>1, <1>2, <1>3 DEF Links

\* What an entry says: the name's own inode, unless a volume covers it.
LEMMA EntriesAre ==
  ASSUME DiskTyped
  PROVE  /\ Missing \in Observed /\ Missing.links = 0 /\ Missing.of = Absent
         /\ \A n \in Inside :
              /\ Entry(n) \in Observed /\ OwnEntry(n) \in Observed
              /\ Covered(n) \/ n \in mounted => Entry(n).of = Foreign
              /\ ~(Covered(n) \/ n \in mounted) => Entry(n) = OwnEntry(n) /\ Entry(n).of = own[n]
              /\ OwnEntry(n) = Missing <=> own[n] = Absent
              /\ own[n] # Absent => OwnEntry(n).of = own[n] /\ OwnEntry(n).links = Links(own[n])
                                    /\ n \in NamesOf(own[n]) /\ own[n] \in Inodes
              /\ Entry(n) # Missing => Entry(n).links # 0
              /\ Entry(n).of = Foreign => Covered(n) \/ n \in mounted
<1>1. Missing \in Observed /\ Missing.links = 0 /\ Missing.of = Absent
  BY DEF Missing, Observed
<1>2. ASSUME NEW n \in Inside, own[n] # Absent
      PROVE  /\ own[n] \in Inodes /\ n \in NamesOf(own[n]) /\ Links(own[n]) \in Nat /\ Links(own[n]) # 0
             /\ version[own[n]] \in {0, 1}
  <2>1. own[n] \in Inodes /\ n \in NamesOf(own[n])
    BY <1>2 DEF DiskTyped, NamesOf
  <2>2. QED
    BY <2>1, LinksAre DEF DiskTyped
<1>3. ASSUME NEW n \in Inside
      PROVE  /\ OwnEntry(n) \in Observed
             /\ OwnEntry(n) = Missing <=> own[n] = Absent
             /\ own[n] # Absent => OwnEntry(n).of = own[n] /\ OwnEntry(n).links = Links(own[n])
             /\ OwnEntry(n).of = own[n]
  <2>1. CASE own[n] = Absent
    BY <1>1, <2>1 DEF OwnEntry
  <2>2. CASE own[n] # Absent
    <3>1. OwnEntry(n) = [of |-> own[n], version |-> version[own[n]], links |-> Links(own[n])]
      BY <2>2 DEF OwnEntry
    <3>2. OwnEntry(n) \in Observed /\ OwnEntry(n).of = own[n] /\ OwnEntry(n).links = Links(own[n])
      BY <1>2, <2>2, <3>1 DEF Observed
    <3>3. QED
      BY <1>1, <2>2, <3>2
  <2>3. QED
    BY <2>1, <2>2
<1>4. ASSUME NEW n \in Inside, Covered(n) \/ n \in mounted
      PROVE  Entry(n).of = Foreign /\ Entry(n) \in Observed /\ Entry(n).links = 1
  <2>1. volume \in {0, 1}
    BY DEF DiskTyped
  <2>2. \/ Entry(n) = [of |-> Foreign, version |-> volume, links |-> 1]
        \/ Entry(n) = [of |-> Foreign, version |-> 0, links |-> 1]
    BY <1>4 DEF Entry
  <2>3. QED
    BY <2>1, <2>2 DEF Observed
<1>5. ASSUME NEW n \in Inside, ~(Covered(n) \/ n \in mounted) PROVE Entry(n) = OwnEntry(n)
  BY <1>5 DEF Entry, OwnEntry
<1>6. ASSUME NEW n \in Inside, Entry(n) # Missing PROVE Entry(n).links # 0
  BY <1>2, <1>3, <1>4, <1>5, <1>6
<1>7. ASSUME NEW n \in Inside, Entry(n).of = Foreign PROVE Covered(n) \/ n \in mounted
  <2>1. own[n] # Foreign
    BY Differ DEF DiskTyped
  <2>2. QED
    BY <1>3, <1>5, <1>7, <2>1
<1>8. QED
  BY <1>1, <1>2, <1>3, <1>4, <1>5, <1>6, <1>7

\* What a listing does not show is not there, and nothing below it is.
LEMMA MissingBelow ==
  ASSUME DiskTyped, DiskIsATree, NEW c \in Inside, Entry(c) = Missing, NEW n \in {c} \cup Below[c]
  PROVE  n \in Inside /\ Entry(n) = Missing /\ OwnEntry(n) = Missing
<1>1. ~Covered(c) /\ c \notin mounted /\ own[c] = Absent
  <2>1. ~(Covered(c) \/ c \in mounted)
    BY EntriesAre, Differ
  <2>2. QED
    BY <2>1, EntriesAre
<1>2. CASE n = c
  BY <1>1, <1>2, EntriesAre
<1>3. CASE n \in Below[c]
  <2>1. n \in Inside /\ own[n] = Absent /\ c \in Path[n] /\ n \in Names
    BY <1>1, <1>3, NothingBelow DEF Below, Inside
  <2>2. n \notin mounted
    BY <2>1 DEF DiskIsATree
  <2>3. ~Covered(n)
    <3>1. SUFFICES ASSUME NEW m \in mounted, n \in Below[m] PROVE FALSE
      BY DEF Covered
    <3>2. m \in Inside /\ m \in Path[n] /\ own[m] # Absent /\ m \in Names /\ c \in Names
      BY <3>1, MountsAre DEF DiskTyped, DiskIsATree, Below, Inside
    <3>3. CASE m \in Path[c]
      <4>1. m = c \/ c \in Below[m]
        BY <3>2, <3>3 DEF Below
      <4>2. QED
        BY <1>1, <3>1, <4>1 DEF Covered
    <3>4. CASE c \in Path[m]
      <4>1. m = c \/ m \in Below[c]
        BY <3>2, <3>4 DEF Below
      <4>2. QED
        BY <1>1, <3>1, <3>2, <4>1, NothingBelow
    <3>5. QED
      BY <2>1, <3>2, <3>3, <3>4, Paths
  <2>4. QED
    BY <2>1, <2>2, <2>3, EntriesAre
<1>4. QED
  BY <1>2, <1>3

(***************************************************************************)
(* A change of the disk.                                                   *)
(***************************************************************************)
\* A record of the change touches the name.
Struck(n) == \E p \in DOMAIN log' : Len(log) < p /\ Touches(log'[p], n)

\* What there is to know of a name is what it was.
Unmoved(n) ==
  \A i : i = own[n] =>
    /\ own'[n] = i
    /\ i # Absent =>
         /\ version'[i] = version[i]
         /\ i \in outside' <=> i \in outside
         /\ \A k \in Inside : own'[k] = i <=> own[k] = i

AllTold == \A n \in Inside : Struck(n) \/ OwnEntry(n).links > 1 \/ Unmoved(n)

\* The log and the journal apart.
Grows ==
  /\ log' \in Seq(Records) /\ Len(log) <= Len(log')
  /\ \A p \in DOMAIN log : p \in DOMAIN log' /\ log'[p] = log[p]
  /\ numbered' = numbered /\ journal' = journal

DiskKept ==
  /\ own' \in [Inside -> Inodes \cup {Absent}]
  /\ version' \in [Inodes -> {0, 1}]
  /\ outside' \subseteq Inodes
  /\ mounted' \subseteq MountPoints
  /\ volume' \in {0, 1}
  /\ DiskIsATree'

\* The log only grows, by the records of the change.
LEMMA Logged ==
  ASSUME DiskTyped, NEW records \in Seq(Records), Changed(records)
  PROVE  /\ Grows
         /\ \A q \in DOMAIN records : Len(log) + q \in DOMAIN log' /\ Len(log) + q > Len(log) /\ log'[Len(log) + q] = records[q]
<1>1. log \in Seq(Records) /\ log' = log \o records /\ numbered' = numbered /\ journal' = journal
  BY DEF DiskTyped, Changed
<1>2. Len(log) \in Nat /\ Len(records) \in Nat
  BY <1>1, LenProperties
<1>3. log \o records \in Seq(Records) /\ Len(log \o records) = Len(log) + Len(records)
  BY <1>1
<1>4. ASSUME NEW p \in DOMAIN log PROVE p \in DOMAIN log' /\ log'[p] = log[p]
  <2>1. p \in 1..Len(log)
    BY <1>1, <1>4, LenProperties
  <2>2. p \in 1..Len(log \o records)
    BY <1>2, <1>3, <2>1
  <2>3. QED
    BY <1>1, <1>2, <1>3, <2>1, <2>2, LenProperties
<1>5. ASSUME NEW q \in DOMAIN records
      PROVE  Len(log) + q \in DOMAIN log' /\ Len(log) + q > Len(log) /\ log'[Len(log) + q] = records[q]
  <2>1. q \in 1..Len(records)
    BY <1>5, LenProperties
  <2>2. Len(log) + q \in 1..Len(log \o records) /\ Len(log) + q > Len(log)
    BY <1>2, <1>3, <2>1
  <2>3. QED
    BY <1>1, <1>2, <1>3, <2>1, <2>2, LenProperties
<1>6. QED
  BY <1>1, <1>2, <1>3, <1>4, <1>5 DEF Grows

\* A record strikes its name and, if the name came or went, all below it.
LEMMA OneLogged ==
  ASSUME DiskTyped, NEW k \in Names, NEW kind \in {"Modified", "Created", "Renamed", "Removed"}, Recorded(k, kind)
  PROVE  /\ Grows
         /\ \A n : k = n \/ (kind # "Modified" /\ k \in Over(n)) => Struck(n)
<1> DEFINE r == Rec(k, kind)
           records == <<r>>
<1>1. r \in Records /\ r.name = k /\ r.kind = kind
  BY DEF Rec, Records
<1>2. records \in Seq(Records) /\ Changed(records)
  BY <1>1 DEF Recorded
<1>3. 1 \in DOMAIN records /\ records[1] = r
  OBVIOUS
<1> HIDE DEF records
<1>4. Grows /\ Len(log) + 1 \in DOMAIN log' /\ Len(log) + 1 > Len(log) /\ log'[Len(log) + 1] = r
  BY <1>2, <1>3, Logged
<1> HIDE DEF r
<1>5. PICK p : p \in DOMAIN log' /\ p > Len(log) /\ log'[p] = r
  BY <1>4
<1>6. ASSUME NEW n, k = n \/ (kind # "Modified" /\ k \in Over(n)) PROVE Struck(n)
  <2>1. Touches(r, n)
    BY <1>1, <1>6 DEF Touches, Moved
  <2>2. Len(log) \in Nat /\ p \in Nat
    <3>1. log' \in Seq(Records) /\ log \in Seq(Records)
      BY <1>4 DEF Grows, DiskTyped
    <3>2. QED
      BY <1>5, <3>1, LenProperties
  <2>3. Len(log) < p
    BY <1>5, <2>2
  <2>4. QED
    BY <1>5, <2>1, <2>3 DEF Struck
<1>7. QED
  BY <1>4, <1>6

LEMMA NoneLogged ==
  ASSUME DiskTyped, Unrecorded
  PROVE  Grows
<1> DEFINE records == <<>>
<1>1. records \in Seq(Records) /\ Changed(records)
  BY DEF Unrecorded
<1> HIDE DEF records
<1>2. QED
  BY <1>1, Logged

\* A name whose entry shows no other name is the only one of its inode.
LEMMA Alone ==
  ASSUME DiskTyped, NEW n \in Inside, own[n] # Absent, ~(OwnEntry(n).links > 1)
  PROVE  own[n] \in Inodes /\ own[n] \notin outside /\ \A k \in Inside : own[k] = own[n] => k = n
<1>1. OwnEntry(n).links = Links(own[n]) /\ n \in NamesOf(own[n]) /\ own[n] \in Inodes
  BY EntriesAre
<1>2. own[n] \notin outside
  BY <1>1, LinksAre
<1>3. ASSUME NEW k \in Inside, own[k] = own[n] PROVE k = n
  <2>1. k \in NamesOf(own[n])
    BY <1>3 DEF NamesOf
  <2>2. QED
    BY <1>1, <2>1, LinksAre
<1>4. QED
  BY <1>1, <1>2, <1>3

\* A name whose file was not touched keeps its entry.
LEMMA SameEntry ==
  ASSUME NEW n \in Inside, Unmoved(n)
  PROVE  OwnEntry(n)' = OwnEntry(n)
<1>1. PICK i : i = own[n]
  OBVIOUS
<1>2. own'[n] = i
  BY <1>1 DEF Unmoved
<1>3. CASE i = Absent
  BY <1>1, <1>2, <1>3 DEF OwnEntry
<1>4. CASE i # Absent
  <2>1. version'[i] = version[i] /\ (i \in outside' <=> i \in outside) /\ \A k \in Inside : own'[k] = i <=> own[k] = i
    BY <1>1, <1>4 DEF Unmoved
  <2>2. NamesOf(i)' = NamesOf(i)
    BY <2>1 DEF NamesOf
  <2>3. Links(i)' = Links(i)
    BY <2>1, <2>2 DEF Links
  <2>4. OwnEntry(n) = [of |-> i, version |-> version[i], links |-> Links(i)]
    BY <1>1, <1>4 DEF OwnEntry
  <2>5. OwnEntry(n)' = [of |-> i, version |-> version'[i], links |-> Links(i)']
    BY <1>2, <1>4 DEF OwnEntry
  <2>6. QED
    BY <2>1, <2>3, <2>4, <2>5
<1>5. QED
  BY <1>3, <1>4

\* Every change of the disk leaves it a tree, and tells of each name it changes:
\* a record strikes the name, or the name shows that its file has others.
LEMMA WriteTells ==
  ASSUME DiskTyped, DiskIsATree, NEW m \in Inside, Write(m)
  PROVE  Grows /\ DiskKept /\ AllTold /\ mounted' = mounted
<1>1. own[m] # Absent /\ version' = [version EXCEPT ![own[m]] = 1 - @] /\ Recorded(m, "Modified")
      /\ own' = own /\ outside' = outside /\ mounted' = mounted /\ volume' = volume
  BY DEF Write
<1>2. Grows /\ \A n : m = n => Struck(n)
  BY <1>1, OneLogged DEF Inside
<1>3. DiskKept
  BY <1>1 DEF DiskKept, DiskTyped, DiskIsATree
<1>4. ASSUME NEW n \in Inside, ~(OwnEntry(n).links > 1), n # m PROVE Unmoved(n)
  <2>1. CASE own[n] = Absent
    BY <1>1, <2>1 DEF Unmoved
  <2>2. CASE own[n] # Absent
    <3>1. own[n] # own[m] /\ own[n] \in Inodes
      BY <1>4, <2>2, Alone
    <3>2. version'[own[n]] = version[own[n]]
      BY <1>1, <3>1 DEF DiskTyped
    <3>3. QED
      BY <1>1, <3>2 DEF Unmoved
  <2>3. QED
    BY <2>1, <2>2
<1>5. QED
  BY <1>1, <1>2, <1>3, <1>4 DEF AllTold

LEMMA CreateTells ==
  ASSUME DiskTyped, DiskIsATree, NEW m \in Inside, Create(m)
  PROVE  Grows /\ DiskKept /\ AllTold /\ mounted' = mounted
<1>1. own[m] = Absent /\ Reachable(m) /\ m \notin mounted /\ Recorded(m, "Created")
      /\ version' = version /\ outside' = outside /\ mounted' = mounted /\ volume' = volume
  BY DEF Create
<1>2. PICK i \in Unused \cap (IF m \in Dirs THEN DirInodes ELSE FileInodes) : own' = [own EXCEPT ![m] = i]
  BY DEF Create
<1>3. i \in Inodes /\ i # Absent /\ i \notin outside /\ \A k \in Inside : own[k] # i
  BY <1>2, Differ DEF Unused, NamesOf
<1>4. own'[m] = i /\ \A k \in Inside : k # m => own'[k] = own[k]
  BY <1>2 DEF DiskTyped
<1>5. Grows /\ \A n : m = n => Struck(n)
  BY <1>1, OneLogged DEF Inside
<1>6. DiskIsATree'
  <2>1. ASSUME NEW n \in Inside, own'[n] # Absent, Parent[n] # Root PROVE own'[Parent[n]] # Absent
    <3>1. Parent[n] \in Inside
      BY <2>1, ParentIs DEF Inside
    <3>2. own[Parent[n]] # Absent
      BY <1>1, <1>4, <2>1 DEF DiskIsATree, Reachable
    <3>3. QED
      BY <1>3, <1>4, <3>1, <3>2
  <2>2. \A n \in mounted' : own'[n] # Absent
    BY <1>1, <1>4, MountsAre DEF DiskIsATree, DiskTyped
  <2>3. QED
    BY <2>1, <2>2 DEF DiskIsATree
<1>7. DiskKept
  BY <1>1, <1>2, <1>3, <1>6 DEF DiskKept, DiskTyped
<1>8. ASSUME NEW n \in Inside, n # m PROVE Unmoved(n)
  BY <1>1, <1>3, <1>4, <1>8 DEF Unmoved
<1>9. QED
  BY <1>1, <1>5, <1>7, <1>8 DEF AllTold

LEMMA RemoveTells ==
  ASSUME DiskTyped, DiskIsATree, NEW m \in Inside, Remove(m)
  PROVE  Grows /\ DiskKept /\ AllTold /\ mounted' = mounted
<1>1. own[m] # Absent /\ m \notin mounted /\ (\A k \in Below[m] : own[k] = Absent) /\ Recorded(m, "Removed")
      /\ own' = [own EXCEPT ![m] = Absent]
      /\ version' = version /\ outside' = outside /\ mounted' = mounted /\ volume' = volume
  BY DEF Remove
<1>2. own'[m] = Absent /\ \A k \in Inside : k # m => own'[k] = own[k]
  BY <1>1 DEF DiskTyped
<1>3. Grows /\ \A n : m = n => Struck(n)
  BY <1>1, OneLogged DEF Inside
<1>4. DiskIsATree'
  <2>1. ASSUME NEW n \in Inside, own'[n] # Absent, Parent[n] # Root PROVE own'[Parent[n]] # Absent
    <3>1. Parent[n] \in Inside /\ n # m /\ own[n] # Absent
      BY <1>2, <2>1, ParentIs DEF Inside
    <3>2. Parent[n] # m
      BY <1>1, <3>1, Belows
    <3>3. QED
      BY <1>2, <2>1, <3>1, <3>2 DEF DiskIsATree
  <2>2. \A n \in mounted' : own'[n] # Absent
    BY <1>1, <1>2, MountsAre DEF DiskIsATree, DiskTyped
  <2>3. QED
    BY <2>1, <2>2 DEF DiskIsATree
<1>5. DiskKept
  BY <1>1, <1>4 DEF DiskKept, DiskTyped
<1>6. ASSUME NEW n \in Inside, n # m, ~(OwnEntry(n).links > 1) PROVE Unmoved(n)
  <2>1. CASE own[n] = Absent
    BY <1>2, <1>6, <2>1 DEF Unmoved
  <2>2. CASE own[n] # Absent
    <3>1. own[n] # own[m]
      BY <1>6, <2>2, Alone
    <3>2. QED
      BY <1>1, <1>2, <1>6, <3>1 DEF Unmoved
  <2>3. QED
    BY <2>1, <2>2
<1>7. QED
  BY <1>1, <1>3, <1>5, <1>6 DEF AllTold

\* A name and what is below it.
LEMMA Subtree ==
  ASSUME NEW m \in Inside, NEW n \in Inside
  PROVE  /\ n \in Below[m] => m \in Over(n) /\ n # m /\ Parent[n] # Root /\ Parent[n] \in {m} \cup Below[m]
         /\ Parent[n] \in {m} \cup Below[m] => n \in Below[m] /\ n # m
         /\ Below[m] \subseteq Inside
<1>1. \A k : k \in Below[m] <=> k \in Inside /\ k # m /\ m \in Path[k]
  BY DEF Below, Inside
<1>2. Path[n] = {n} \cup Path[Parent[n]] /\ Path[m] = {m} \cup Path[Parent[m]] /\ Path[Root] = {}
  BY PathIs
<1>3. ASSUME n \in Below[m] PROVE m \in Over(n) /\ n # m /\ Parent[n] # Root /\ Parent[n] \in {m} \cup Below[m]
  <2>1. m \in Path[Parent[n]] /\ Parent[n] # Root
    BY <1>1, <1>2, <1>3
  <2>2. QED
    BY <1>1, <1>3, <2>1, ParentIs DEF Over, Inside
<1>4. ASSUME Parent[n] \in {m} \cup Below[m] PROVE n \in Below[m] /\ n # m
  <2>1. Parent[n] \in Inside /\ m \in Path[Parent[n]]
    BY <1>1, <1>2, <1>4
  <2>2. m \in Path[n]
    BY <1>2, <2>1
  <2>3. Path[Parent[n]] \subseteq Path[n] /\ Parent[n] \in Over(n) /\ n \notin Over(n) /\ n \in Names
    BY <1>2, Belows DEF Inside
  <2>4. n # m
    <3>1. SUFFICES ASSUME n = m PROVE FALSE
      OBVIOUS
    <3>2. Parent[n] \in Path[n]
      BY <2>1, <2>3, PathIs
    <3>3. Parent[n] = n
      BY <2>1, <2>3, <3>1, <3>2, Paths
    <3>4. QED
      BY <2>3, <3>3
  <2>5. QED
    BY <1>1, <2>2, <2>4
<1>5. QED
  BY <1>1, <1>3, <1>4

LEMMA MoveOutTells ==
  ASSUME DiskTyped, DiskIsATree, NEW m \in Inside, MoveOut(m)
  PROVE  Grows /\ DiskKept /\ AllTold /\ mounted' = mounted
<1> DEFINE gone == {m} \cup Below[m]
<1>1. /\ own[m] # Absent /\ gone \cap mounted = {} /\ {own[k] : k \in gone} \cap outside = {}
      /\ own' = [k \in Inside |-> IF k \in gone THEN Absent ELSE own[k]]
      /\ outside' = outside \cup ({own[k] : k \in gone} \ {Absent})
      /\ Recorded(m, "Renamed") /\ version' = version /\ mounted' = mounted /\ volume' = volume
  BY DEF MoveOut
<1>2. gone \subseteq Inside /\ \A n \in Inside : /\ n \in gone => m = n \/ m \in Over(n)
                                                 /\ Parent[n] \in gone => n \in gone
  BY Subtree
<1>3. \A k \in Inside : own'[k] = IF k \in gone THEN Absent ELSE own[k]
  BY <1>1
<1>4. Grows /\ \A n : m = n \/ m \in Over(n) => Struck(n)
  BY <1>1, OneLogged DEF Inside
<1>5. DiskIsATree'
  <2>1. ASSUME NEW n \in Inside, own'[n] # Absent, Parent[n] # Root PROVE own'[Parent[n]] # Absent
    <3>1. Parent[n] \in Inside /\ n \notin gone /\ own[n] # Absent
      BY <1>3, <2>1, ParentIs DEF Inside
    <3>2. QED
      BY <1>2, <1>3, <2>1, <3>1 DEF DiskIsATree
  <2>2. \A n \in mounted' : own'[n] # Absent
    BY <1>1, <1>3, MountsAre DEF DiskIsATree, DiskTyped
  <2>3. QED
    BY <2>1, <2>2 DEF DiskIsATree
<1>6. DiskKept
  <2>1. own' \in [Inside -> Inodes \cup {Absent}]
    BY <1>1 DEF DiskTyped
  <2>2. outside' \subseteq Inodes
    BY <1>1, <1>2 DEF DiskTyped
  <2>3. QED
    BY <1>1, <1>5, <2>1, <2>2 DEF DiskKept, DiskTyped
<1>7. ASSUME NEW n \in Inside, n \notin gone, ~(OwnEntry(n).links > 1) PROVE Unmoved(n)
  <2>1. CASE own[n] = Absent
    BY <1>3, <1>7, <2>1 DEF Unmoved
  <2>2. CASE own[n] # Absent
    <3>1. \A k \in Inside : own[k] = own[n] => k = n
      BY <1>7, <2>2, Alone
    <3>2. own[n] \in outside' <=> own[n] \in outside
      BY <1>1, <1>2, <1>7, <3>1
    <3>3. \A k \in Inside : own'[k] = own[n] <=> own[k] = own[n]
      BY <1>3, <1>7, <2>2, <3>1
    <3>4. QED
      BY <1>1, <1>3, <1>7, <3>2, <3>3 DEF Unmoved
  <2>3. QED
    BY <2>1, <2>2
<1>8. QED
  BY <1>1, <1>2, <1>4, <1>6, <1>7 DEF AllTold

LEMMA MoveInTells ==
  ASSUME DiskTyped, DiskIsATree, NEW m \in Inside, MoveIn(m)
  PROVE  Grows /\ DiskKept /\ AllTold /\ mounted' = mounted
<1> DEFINE brought == {m} \cup Below[m]
<1>1. /\ own[m] = Absent /\ Reachable(m) /\ m \notin mounted
      /\ Recorded(m, "Renamed") /\ version' = version /\ mounted' = mounted /\ volume' = volume
  BY DEF MoveIn
<1>2. PICK f \in Arrivals(m) : /\ own' = [k \in Inside |-> IF k \in DOMAIN f THEN f[k] ELSE own[k]]
                               /\ outside' = outside \ {f[k] : k \in DOMAIN f}
  BY DEF MoveIn
<1>3. /\ f \in [brought -> outside \cup {Absent}]
      /\ \A k \in brought : f[k] \in (IF k \in Dirs THEN DirInodes ELSE FileInodes) \cup {Absent}
      /\ f[m] # Absent
      /\ \A k \in brought \ {m} : f[k] # Absent => f[Parent[k]] # Absent
  BY <1>2 DEF Arrivals
<1>4. brought \subseteq Inside /\ \A n \in Inside : /\ n \in brought => m = n \/ (m \in Over(n) /\ Parent[n] \in brought)
                                                    /\ Parent[n] \in brought => n \in brought /\ n # m
  BY Subtree
<1>5. \A k \in brought : own[k] = Absent
  BY <1>1, NothingBelow
<1> HIDE DEF brought
<1>6. \A k \in Inside : own'[k] = IF k \in brought THEN f[k] ELSE own[k]
  BY <1>2, <1>3
<1>7. Grows /\ \A n : m = n \/ m \in Over(n) => Struck(n)
  BY <1>1, OneLogged DEF Inside
<1>8. DiskIsATree'
  <2>1. ASSUME NEW n \in Inside, own'[n] # Absent, Parent[n] # Root PROVE own'[Parent[n]] # Absent
    <3>1. Parent[n] \in Inside
      BY <2>1, ParentIs DEF Inside
    <3>2. CASE n \in brought /\ n # m
      BY <1>3, <1>4, <1>6, <2>1, <3>1, <3>2
    <3>3. CASE n = m
      <4>1. own[Parent[m]] # Absent /\ Parent[m] \notin brought
        BY <1>1, <1>4, <2>1, <3>3 DEF Reachable
      <4>2. QED
        BY <1>6, <3>1, <3>3, <4>1
    <3>4. CASE n \notin brought
      BY <1>4, <1>6, <2>1, <3>1, <3>4 DEF DiskIsATree
    <3>5. QED
      BY <3>2, <3>3, <3>4
  <2>2. \A n \in mounted' : own'[n] # Absent
    BY <1>1, <1>5, <1>6, MountsAre DEF DiskIsATree, DiskTyped
  <2>3. QED
    BY <2>1, <2>2 DEF DiskIsATree
<1>9. DiskKept
  <2>1. own' \in [Inside -> Inodes \cup {Absent}]
    <3>1. \A k \in Inside : own'[k] \in Inodes \cup {Absent}
      BY <1>3, <1>6 DEF DiskTyped, Inodes
    <3>2. QED
      BY <1>2, <1>6, <3>1
  <2>2. QED
    BY <1>1, <1>2, <1>8, <2>1 DEF DiskKept, DiskTyped
<1>10. ASSUME NEW n \in Inside, n \notin brought, ~(OwnEntry(n).links > 1) PROVE Unmoved(n)
  <2>1. CASE own[n] = Absent
    BY <1>6, <1>10, <2>1 DEF Unmoved
  <2>2. CASE own[n] # Absent
    <3>1. own[n] \notin outside /\ \A k \in Inside : own[k] = own[n] => k = n
      BY <1>10, <2>2, Alone
    <3>2. \A k \in brought : f[k] # own[n]
      BY <1>3, <2>2, <3>1
    <3>3. own[n] \in outside' <=> own[n] \in outside
      BY <1>2, <3>1
    <3>4. \A k \in Inside : own'[k] = own[n] <=> own[k] = own[n]
      BY <1>5, <1>6, <1>10, <2>2, <3>2
    <3>5. QED
      BY <1>1, <1>6, <1>10, <3>3, <3>4 DEF Unmoved
  <2>3. QED
    BY <2>1, <2>2
<1>11. QED
  BY <1>1, <1>4, <1>7, <1>9, <1>10 DEF AllTold

LEMMA LinkTells ==
  ASSUME DiskTyped, DiskIsATree, NEW k \in Inside, NEW m \in Inside, Link(k, m)
  PROVE  Grows /\ DiskKept /\ AllTold /\ mounted' = mounted
<1> DEFINE a == Rec(m, "Created")
           b == Rec(Parent[k], "Created")
           records == <<a, b>>
<1>1. /\ own[k] # Absent /\ own[m] = Absent /\ Reachable(m)
      /\ own' = [own EXCEPT ![m] = own[k]] /\ Changed(records)
      /\ version' = version /\ outside' = outside /\ mounted' = mounted /\ volume' = volume
  BY DEF Link
<1>2. own'[m] = own[k] /\ \A n \in Inside : n # m => own'[n] = own[n]
  BY <1>1 DEF DiskTyped
<1>3. Grows /\ Struck(m) /\ Struck(k)
  <2>1. a \in Records /\ b \in Records
    BY ParentIs DEF Rec, Records
  <2>2. Touches(a, m) /\ Touches(b, k)
    BY Belows DEF Rec, Touches, Moved
  <2> HIDE DEF a, b
  <2>3. records \in Seq(Records)
    BY <2>1
  <2>4. 1 \in DOMAIN records /\ 2 \in DOMAIN records /\ records[1] = a /\ records[2] = b
    OBVIOUS
  <2> HIDE DEF records
  <2>5. /\ Grows /\ Len(log) + 1 \in DOMAIN log' /\ Len(log) + 1 > Len(log) /\ log'[Len(log) + 1] = a
        /\ Len(log) + 2 \in DOMAIN log' /\ Len(log) + 2 > Len(log) /\ log'[Len(log) + 2] = b
    BY <1>1, <2>3, <2>4, Logged
  <2>6. Len(log) \in Nat
    BY LenProperties DEF DiskTyped
  <2>7. Len(log) < Len(log) + 1 /\ Len(log) < Len(log) + 2
    BY <2>6
  <2>8. QED
    BY <2>2, <2>5, <2>7 DEF Struck
<1>4. DiskIsATree'
  <2>1. ASSUME NEW n \in Inside, own'[n] # Absent, Parent[n] # Root PROVE own'[Parent[n]] # Absent
    <3>1. Parent[n] \in Inside
      BY <2>1, ParentIs DEF Inside
    <3>2. own[Parent[n]] # Absent
      BY <1>1, <1>2, <2>1 DEF DiskIsATree, Reachable
    <3>3. QED
      BY <1>1, <1>2, <3>1, <3>2
  <2>2. \A n \in mounted' : own'[n] # Absent
    BY <1>1, <1>2, MountsAre DEF DiskIsATree, DiskTyped
  <2>3. QED
    BY <2>1, <2>2 DEF DiskIsATree
<1>5. DiskKept
  BY <1>1, <1>4 DEF DiskKept, DiskTyped
<1>6. ASSUME NEW n \in Inside, n # m, n # k, ~(OwnEntry(n).links > 1) PROVE Unmoved(n)
  <2>1. CASE own[n] = Absent
    BY <1>1, <1>2, <1>6, <2>1 DEF Unmoved
  <2>2. CASE own[n] # Absent
    <3>1. own[n] # own[k]
      BY <1>6, <2>2, Alone
    <3>2. QED
      BY <1>1, <1>2, <1>6, <2>2, <3>1 DEF Unmoved
  <2>3. QED
    BY <2>1, <2>2
<1>7. QED
  BY <1>1, <1>3, <1>5, <1>6 DEF AllTold

LEMMA LinkOutsideTells ==
  ASSUME DiskTyped, DiskIsATree, NEW k \in Inside, LinkOutside(k)
  PROVE  Grows /\ DiskKept /\ AllTold /\ mounted' = mounted
<1>1. /\ own[k] # Absent /\ outside' = outside \cup {own[k]} /\ Recorded(Parent[k], "Created")
      /\ own' = own /\ version' = version /\ mounted' = mounted /\ volume' = volume
  BY DEF LinkOutside
<1>2. Parent[k] \in Names /\ Parent[k] \in Over(k)
  BY ParentIs, Belows
<1>3. Grows /\ Struck(k)
  BY <1>1, <1>2, OneLogged
<1>4. DiskKept
  BY <1>1 DEF DiskKept, DiskTyped, DiskIsATree
<1>5. ASSUME NEW n \in Inside, n # k, ~(OwnEntry(n).links > 1) PROVE Unmoved(n)
  <2>1. CASE own[n] = Absent
    BY <1>1, <2>1 DEF Unmoved
  <2>2. CASE own[n] # Absent
    <3>1. own[n] # own[k]
      BY <1>5, <2>2, Alone
    <3>2. QED
      BY <1>1, <2>2, <3>1 DEF Unmoved
  <2>3. QED
    BY <2>1, <2>2
<1>6. QED
  BY <1>1, <1>3, <1>4, <1>5 DEF AllTold

\* A write, or a link removed, outside the root makes no record at all: the names
\* it changes show their links.
LEMMA OutsideTells ==
  ASSUME DiskTyped, DiskIsATree, NEW i \in FileInodes, WriteOutside(i) \/ UnlinkOutside(i)
  PROVE  Grows /\ DiskKept /\ AllTold /\ mounted' = mounted
<1>1. /\ i \in outside /\ Unrecorded /\ own' = own /\ mounted' = mounted /\ volume' = volume
      /\ \/ version' = [version EXCEPT ![i] = 1 - @] /\ outside' = outside
         \/ version' = version /\ outside' = outside \ {i}
  BY DEF WriteOutside, UnlinkOutside
<1>2. Grows
  BY <1>1, NoneLogged
<1>3. \A k \in Inodes : k # i => version'[k] = version[k] /\ (k \in outside' <=> k \in outside)
  BY <1>1 DEF DiskTyped
<1>4. DiskKept
  <2>1. version' \in [Inodes -> {0, 1}]
    BY <1>1 DEF DiskTyped
  <2>2. QED
    BY <1>1, <2>1 DEF DiskKept, DiskTyped, DiskIsATree
<1>5. ASSUME NEW n \in Inside, ~(OwnEntry(n).links > 1) PROVE Unmoved(n)
  <2>1. CASE own[n] = Absent
    BY <1>1, <2>1 DEF Unmoved
  <2>2. CASE own[n] # Absent
    <3>1. own[n] # i /\ own[n] \in Inodes
      BY <1>1, <1>5, <2>2, Alone
    <3>2. QED
      BY <1>1, <1>3, <3>1 DEF Unmoved
  <2>3. QED
    BY <2>1, <2>2
<1>6. QED
  BY <1>1, <1>2, <1>4, <1>5 DEF AllTold

\* Mounts and what happens on a volume change no name's own entry.
LEMMA VolumeTells ==
  ASSUME DiskTyped, DiskIsATree, (\E m \in MountPoints : Mount(m) \/ Unmount(m)) \/ WriteVolume
  PROVE  Grows /\ DiskKept /\ AllTold /\ (~(\E m \in MountPoints : Mount(m)) => mounted' \subseteq mounted)
<1>1. Unrecorded /\ own' = own /\ version' = version /\ outside' = outside
  BY DEF Mount, Unmount, WriteVolume
<1>2. Grows
  BY <1>1, NoneLogged
<1>3. AllTold
  BY <1>1 DEF AllTold, Unmoved
<1>4. CASE WriteVolume
  <2>1. mounted' = mounted /\ volume' = 1 - volume
    BY <1>4 DEF WriteVolume
  <2>2. volume' \in {0, 1}
    BY <2>1 DEF DiskTyped
  <2>3. QED
    BY <1>1, <1>2, <1>3, <2>1, <2>2 DEF DiskKept, DiskTyped, DiskIsATree
<1>5. ASSUME NEW m \in MountPoints, Mount(m) \/ Unmount(m)
      PROVE  DiskKept /\ (Unmount(m) => mounted' \subseteq mounted)
  BY <1>1, <1>5 DEF Mount, Unmount, DiskKept, DiskTyped, DiskIsATree
<1>6. QED
  BY <1>2, <1>3, <1>4, <1>5

\* All of them.
LEMMA ChangeTells ==
  ASSUME DiskTyped, DiskIsATree, Change \/ \E m \in MountPoints : Mount(m)
  PROVE  Grows /\ DiskKept /\ AllTold /\ (~(\E m \in MountPoints : Mount(m)) => mounted' \subseteq mounted)
<1>1. Files \subseteq Inside
  BY DiskAssumption DEF Inside, Names
<1>2. ASSUME NEW n \in Inside, Write(n) \/ Create(n) \/ Remove(n) \/ MoveOut(n) \/ MoveIn(n)
      PROVE  Grows /\ DiskKept /\ AllTold /\ mounted' = mounted
  BY <1>2, WriteTells, CreateTells, RemoveTells, MoveOutTells, MoveInTells
<1>3. ASSUME NEW n \in Files, NEW m \in Files, Link(n, m) PROVE Grows /\ DiskKept /\ AllTold /\ mounted' = mounted
  BY <1>1, <1>3, LinkTells
<1>4. ASSUME NEW n \in Files, LinkOutside(n) PROVE Grows /\ DiskKept /\ AllTold /\ mounted' = mounted
  BY <1>1, <1>4, LinkOutsideTells
<1>5. ASSUME NEW i \in FileInodes, WriteOutside(i) \/ UnlinkOutside(i)
      PROVE  Grows /\ DiskKept /\ AllTold /\ mounted' = mounted
  BY <1>5, OutsideTells
<1>6. QED
  BY <1>2, <1>3, <1>4, <1>5, VolumeTells DEF Change

(***************************************************************************)
(* What was so stays so while the disk changes.                            *)
(***************************************************************************)
Moves == Grows /\ DiskKept /\ AllTold

LEMMA TypedAfter ==
  ASSUME DiskTyped, Moves
  PROVE  DiskTyped' /\ Len(log) \in Nat /\ Len(log') \in Nat
<1>1. Len(log) \in Nat /\ Len(log') \in Nat
  BY LenProperties DEF DiskTyped, Moves, Grows
<1>2. numbered \in 0..Len(log') /\ numbered' = numbered /\ journal' = journal /\ log' \in Seq(Records)
  BY <1>1 DEF DiskTyped, Moves, Grows
<1>3. QED
  BY <1>1, <1>2 DEF DiskTyped, Moves, DiskKept

\* What the journal held it still holds.
LEMMA TouchedAfter ==
  ASSUME DiskTyped, Moves
  PROVE  \A n, from, upto : upto \in 0..Len(log) => (TouchedIn(n, from, upto)' <=> TouchedIn(n, from, upto))
<1>1. Len(log) \in Nat /\ Len(log') \in Nat /\ DOMAIN log = 1..Len(log) /\ DOMAIN log' = 1..Len(log')
  BY LenProperties DEF DiskTyped, Moves, Grows
<1>2. \A p \in DOMAIN log : p \in DOMAIN log' /\ log'[p] = log[p]
  BY DEF Moves, Grows
<1>3. TAKE n, from, upto
<1>4. HAVE upto \in 0..Len(log)
<1>5. \A p \in DOMAIN log' : p <= upto => p \in DOMAIN log
  BY <1>1, <1>4
<1>6. QED
  BY <1>2, <1>5 DEF TouchedIn

\* What was so, or might not be, or was reported, is that still.
LEMMA HoldsAfter ==
  ASSUME DiskTyped, DiskIsATree, Moves
  PROVE  \A n \in Inside : \A e, from : from \in 0..Len(log) /\ Holds(e, n, from) => Holds(e, n, from)'
<1>1. TAKE n \in Inside
<1>2. TAKE e, from
<1>3. HAVE from \in 0..Len(log) /\ Holds(e, n, from)
<1>4. Len(log) \in Nat /\ Len(log') \in Nat /\ Len(log) <= Len(log') /\ DOMAIN log = 1..Len(log) /\ DOMAIN log' = 1..Len(log')
  BY LenProperties DEF DiskTyped, Moves, Grows
<1>5. CASE e.links > 1
  BY <1>5 DEF Holds
<1>6. CASE Touched(n, from)
  <2>1. PICK p \in DOMAIN log : from < p /\ p <= Len(log) /\ Touches(log[p], n)
    BY <1>6 DEF Touched, TouchedIn
  <2>2. p \in DOMAIN log' /\ log'[p] = log[p] /\ p <= Len(log')
    BY <1>4, <2>1 DEF Moves, Grows
  <2>3. Touched(n, from)'
    BY <2>1, <2>2 DEF Touched, TouchedIn
  <2>4. QED
    BY <2>3 DEF Holds
<1>7. CASE e = OwnEntry(n) /\ Struck(n)
  <2>1. PICK p \in DOMAIN log' : Len(log) < p /\ Touches(log'[p], n)
    BY <1>7 DEF Struck
  <2>2. from < p /\ p <= Len(log')
    BY <1>3, <1>4, <2>1
  <2>3. Touched(n, from)'
    BY <2>1, <2>2 DEF Touched, TouchedIn
  <2>4. QED
    BY <2>3 DEF Holds
<1>8. CASE e = OwnEntry(n) /\ Unmoved(n)
  <2>1. e = OwnEntry(n)'
    BY <1>8, SameEntry
  <2>2. QED
    BY <2>1 DEF Holds
<1>9. CASE e = OwnEntry(n) /\ OwnEntry(n).links > 1
  BY <1>5, <1>9
<1>10. QED
  BY <1>3, <1>5, <1>6, <1>7, <1>8, <1>9 DEF Holds, Moves, AllTold

\* A snapshot stays sound whatever the disk does.
LEMMA SoundAfter ==
  ASSUME DiskTyped, DiskIsATree, Moves
  PROVE  \A s : Sound(s) => Sound(s)'
<1>1. TAKE s
<1>2. HAVE Sound(s)
<1>3. Len(log) \in Nat /\ Len(log') \in Nat /\ Len(log) <= Len(log') /\ journal' = journal
  BY TypedAfter DEF Moves, Grows
<1>4. s \in Snapshot /\ Emptied(s) /\ Charges(s) /\ s.cursor.journal \in {0, journal}
  BY <1>2 DEF Sound
<1>5. ASSUME s.cursor.journal = journal
      PROVE  s.cursor.position \in 0..Len(log') /\ \A n \in Inside : Reliable(s, n)'
  <2>1. s.cursor.position \in 0..Len(log) /\ \A n \in Inside : Reliable(s, n)
    BY <1>2, <1>5 DEF Sound
  <2>2. s.cursor.position \in 0..Len(log')
    BY <1>3, <2>1
  <2>3. ASSUME NEW n \in Inside PROVE Reliable(s, n)'
    <3>1. CASE Holds(s.tree[n], n, s.cursor.position)
      <4>1. Holds(s.tree[n], n, s.cursor.position)'
        BY <2>1, <3>1, HoldsAfter
      <4>2. QED
        BY <4>1 DEF Reliable
    <3>2. CASE Mounted(s, n) \/ Failed(s, n)
      <4>1. (Mounted(s, n) \/ Failed(s, n))'
        BY <3>2 DEF Mounted, Failed
      <4>2. QED
        BY <4>1 DEF Reliable
    <3>3. QED
      BY <2>1, <3>1, <3>2 DEF Reliable
  <2>4. QED
    BY <2>2, <2>3
<1>6. Emptied(s)' /\ Charges(s)' /\ (s \in Snapshot)'
  BY <1>4 DEF Emptied, Charges, Snapshot
<1>7. QED
  BY <1>3, <1>4, <1>5, <1>6 DEF Sound

\* A journal begun again makes no snapshot of the one before it any use.
LEMMA SoundDiscarded ==
  ASSUME DiskTyped, Discard
  PROVE  (\A s : Sound(s) => Sound(s)') /\ DiskTyped' /\ (DiskIsATree => DiskIsATree')
<1>1. journal = 0 /\ journal' = 1 /\ log' = <<>> /\ numbered' = 0 /\ own' = own /\ version' = version
      /\ outside' = outside /\ mounted' = mounted /\ volume' = volume
  BY DEF Discard, disk
<1>2. ASSUME NEW s, Sound(s) PROVE Sound(s)'
  <2>1. s \in Snapshot /\ Emptied(s) /\ Charges(s) /\ s.cursor.journal = 0
    BY <1>1, <1>2 DEF Sound
  <2>2. Emptied(s)' /\ Charges(s)' /\ (s \in Snapshot)'
    BY <2>1 DEF Emptied, Charges, Snapshot
  <2>3. QED
    BY <1>1, <2>1, <2>2 DEF Sound
<1>3. DiskTyped'
  BY <1>1 DEF DiskTyped
<1>4. DiskIsATree => DiskIsATree'
  BY <1>1 DEF DiskIsATree
<1>5. QED
  BY <1>2, <1>3, <1>4

LEMMA EntriesObserved ==
  DiskTyped => \A n \in Inside : Entry(n) \in Observed
  BY EntriesAre

ScanKept == UNCHANGED <<stored, phase, cursor, table, barrier, dirty, at, tree, charged, points, errored,
                        counted, errors, scans>>

LEMMA DiskDoes ==
  ASSUME ~MountsWhileScanning, DiskTyped, DiskIsATree, DiskChanges
  PROVE  /\ ScanKept /\ stored # NoSnapshot
         /\ Moves \/ (Idle /\ Discard)
         /\ ~Idle => Moves /\ mounted' \subseteq mounted
         /\ recent' = IF phase \in {"Marked", "Walking"}
                      THEN [n \in Inside |-> recent[n] \cup {Entry(n)'}] ELSE recent
<1>1. ChangeNow /\ stored # NoSnapshot
      /\ recent' = IF phase \in {"Marked", "Walking"}
                   THEN [n \in Inside |-> recent[n] \cup {Entry(n)'}] ELSE recent
  BY DEF DiskChanges
<1>2. ScanKept
  BY DEF DiskChanges, ScanKept, scan, built
<1>3. CASE Change
  <2>1. CASE \E m \in MountPoints : Mount(m)
    <3>1. Moves
      BY <1>3, ChangeTells DEF Moves
    <3>2. mounted' \subseteq mounted
      <4>1. CASE (\E m \in MountPoints : Unmount(m)) \/ WriteVolume
        BY <4>1 DEF Unmount, WriteVolume
      <4>2. CASE \E n \in Inside : Write(n) \/ Create(n) \/ Remove(n) \/ MoveOut(n) \/ MoveIn(n)
        BY <4>2 DEF Write, Create, Remove, MoveOut, MoveIn
      <4>3. CASE \/ \E n, m \in Files : Link(n, m)
                 \/ \E n \in Files : LinkOutside(n)
                 \/ \E i \in FileInodes : WriteOutside(i) \/ UnlinkOutside(i)
        BY <4>3 DEF Link, LinkOutside, WriteOutside, UnlinkOutside
      <4>4. QED
        BY <1>3, <4>1, <4>2, <4>3 DEF Change
    <3>3. QED
      BY <1>1, <1>2, <3>1, <3>2
  <2>2. CASE ~\E m \in MountPoints : Mount(m)
    BY <1>1, <1>2, <1>3, <2>2, ChangeTells DEF Moves
  <2>3. QED
    BY <2>1, <2>2
<1>4. CASE Idle /\ \E m \in MountPoints : Mount(m)
  BY <1>1, <1>2, <1>4, ChangeTells DEF Moves
<1>5. CASE Idle /\ Discard
  BY <1>1, <1>2, <1>5
<1>6. QED
  BY <1>1, <1>3, <1>4, <1>5 DEF ChangeNow

\* What is asked of the disk while a scan runs.
Later ==
  /\ \A n \in Inside : \A e, from : from \in 0..Len(log) /\ Holds(e, n, from) => Holds(e, n, from)'
  /\ \A n, from, upto : upto \in 0..Len(log) => (TouchedIn(n, from, upto)' <=> TouchedIn(n, from, upto))
  /\ \A n : n \in Inside => recent[n] \subseteq recent'[n]
  /\ \A n : Covered(n)' \/ n \in mounted' => Covered(n) \/ n \in mounted
  /\ Len(log) \in Nat /\ Len(log') \in Nat /\ Len(log) <= Len(log') /\ journal' = journal

\* And a walk may go on: nothing is mounted while it does.
LEMMA WalksAfter ==
  ASSUME ScanTyped, UnderWay, Later, ScanKept, phase = "Walking", Walks
  PROVE  Walks'
<1>1. Splices /\ Descends /\ AsRead /\ NotThere /\ ChargesOne /\ Counts
  BY DEF Walks
<1>2. /\ stored' = stored /\ phase' = phase /\ cursor' = cursor /\ table' = table /\ barrier' = barrier
      /\ dirty' = dirty /\ at' = at /\ tree' = tree /\ charged' = charged /\ points' = points
      /\ errored' = errored /\ counted' = counted /\ errors' = errors
  BY DEF ScanKept
<1>3. cursor.position \in 0..Len(log)
  <2>1. cursor.position \in Nat /\ cursor.position <= Len(log)
    BY DEF ScanTyped, Built, Snapshot, UnderWay
  <2>2. QED
    BY <2>1 DEF Later
<1>4. Splices'
  <2>1. BaseServes => BaseServes'
    <3>1. SUFFICES ASSUME BaseServes PROVE BaseServes'
      OBVIOUS
    <3>2. Usable(cursor)'
      BY <1>2, <3>1 DEF BaseServes, Usable
    <3>3. (\A a \in dirty.marked : Path[a] \subseteq dirty.marked)'
      BY <1>2, <3>1 DEF BaseServes
    <3>4. (dirty.recursive \subseteq dirty.marked /\ dirty.unplaced \subseteq dirty.marked \cup {Root})'
      BY <1>2, <3>1 DEF BaseServes
    <3>5. ASSUME NEW n \in Inside
          PROVE  (\/ Dirtied(n)
                  \/ /\ stored.tree[n] \in recent[n] \/ Unsure(stored, n)
                     /\ ~TouchedIn(n, stored.cursor.position, cursor.position))'
      <4>1. CASE Dirtied(n)
        <5>1. Dirtied(n)'
          BY <1>2, <4>1 DEF Dirtied
        <5>2. QED
          BY <5>1
      <4>2. CASE /\ stored.tree[n] \in recent[n] \/ Unsure(stored, n)
                 /\ ~TouchedIn(n, stored.cursor.position, cursor.position)
        <5>1. PICK from, upto : from = stored.cursor.position /\ upto = cursor.position
          OBVIOUS
        <5>2. ~TouchedIn(n, from, upto)'
          BY <1>3, <4>2, <5>1 DEF Later
        <5>3. ~TouchedIn(n, stored.cursor.position, cursor.position)'
          BY <1>2, <5>1, <5>2
        <5>4. (stored.tree[n] \in recent[n] \/ Unsure(stored, n))'
          BY <1>2, <4>2 DEF Later, Unsure, Mounted, Failed
        <5>5. QED
          BY <5>3, <5>4
      <4>3. QED
        BY <3>1, <4>1, <4>2 DEF BaseServes
    <3>6. QED
      BY <3>2, <3>3, <3>4, <3>5 DEF BaseServes
  <2>2. ASSUME NEW d \in Dirs
        PROVE  /\ Based(d)' => BaseServes' /\ Spared(d)'
               /\ at'[d] \in {"Unchanged", "Copied"} => d # Root /\ d \notin dirty'.marked
               /\ at'[d] = "Copied" => ~Flagged(d)' /\ HeldBelow(d)' # {}
    BY <1>1, <1>2, <2>1 DEF Splices, Based, Spared, Flagged, HeldBelow
  <2>3. QED
    BY <2>2 DEF Splices
<1>5. Descends'
  BY <1>1, <1>2 DEF Descends, Emptied, Built
<1>6. AsRead'
  <2>1. ASSUME NEW n \in Inside, tree[n] # Missing
        PROVE  (/\ tree[n] \in recent[n]
                /\ Holds(tree[n], n, cursor.position) \/ Mounted(Built, n)
                /\ tree[n].of = Foreign => Mounted(Built, n)
                /\ Covered(n) \/ n \in mounted => tree[n].of = Foreign)'
    <3>1. /\ tree[n] \in recent[n]
          /\ Holds(tree[n], n, cursor.position) \/ Mounted(Built, n)
          /\ tree[n].of = Foreign => Mounted(Built, n)
          /\ Covered(n) \/ n \in mounted => tree[n].of = Foreign
      BY <1>1, <2>1 DEF AsRead
    <3>2. Mounted(Built, n)' <=> Mounted(Built, n)
      BY <1>2 DEF Mounted, Built
    <3>3. Holds(tree[n], n, cursor.position) => Holds(tree[n], n, cursor.position)'
      BY <1>2, <1>3 DEF Later
    <3>4. QED
      BY <1>2, <3>1, <3>2, <3>3 DEF Later
  <2>2. QED
    BY <1>2, <2>1 DEF AsRead
<1>7. NotThere'
  <2>1. ASSUME NEW d \in Dirs, at[d] = "Listed" /\ d \notin errored, NEW c \in Children[d], tree[c] = Missing,
               NEW n \in {c} \cup Below[c]
        PROVE  (Missing \in recent[n] /\ Holds(Missing, n, cursor.position))'
    <3>1. Missing \in recent[n] /\ Holds(Missing, n, cursor.position) /\ n \in Inside
      <4>1. c \in Inside
        BY <2>1, Belows
      <4>2. n \in Inside
        BY <2>1, <4>1, Subtree
      <4>3. QED
        BY <1>1, <2>1, <4>2 DEF NotThere
    <3>2. QED
      BY <1>2, <1>3, <3>1 DEF Later, Missing
  <2>2. QED
    BY <1>2, <2>1 DEF NotThere
<1>8. ChargesOne' /\ Counts'
  BY <1>1, <1>2 DEF ChargesOne, Charges, Built, SeveralNames, Counts, Present, Filled
<1>9. QED
  BY <1>4, <1>5, <1>6, <1>7, <1>8 DEF Walks

LEMMA RescanDiskKeeps ==
  ASSUME ~MountsWhileScanning, RescanInv, DiskChanges
  PROVE  RescanInv'
<1>1. /\ DiskTyped /\ DiskIsATree /\ ScanTyped /\ (stored # NoSnapshot => Sound(stored))
      /\ UnderWay /\ AsMarked /\ Current /\ Walks /\ Done
  BY DEF RescanInv
<1>2. /\ ScanKept /\ stored # NoSnapshot /\ (Moves \/ (Idle /\ Discard))
      /\ ~Idle => Moves /\ mounted' \subseteq mounted
      /\ recent' = IF phase \in {"Marked", "Walking"}
                   THEN [n \in Inside |-> recent[n] \cup {Entry(n)'}] ELSE recent
  BY <1>1, DiskDoes
<1>3. /\ stored' = stored /\ phase' = phase /\ cursor' = cursor /\ table' = table /\ barrier' = barrier
      /\ dirty' = dirty /\ at' = at /\ tree' = tree /\ charged' = charged /\ points' = points
      /\ errored' = errored /\ counted' = counted /\ errors' = errors
  BY <1>2 DEF ScanKept
<1>4. DiskTyped' /\ DiskIsATree' /\ \A s : Sound(s) => Sound(s)'
  <2>1. CASE Moves
    BY <1>1, <2>1, TypedAfter, SoundAfter DEF Moves, DiskKept
  <2>2. CASE Discard
    BY <1>1, <2>2, SoundDiscarded
  <2>3. QED
    BY <1>2, <2>1, <2>2
<1>5. \A n \in Inside : Entry(n)' \in Observed
  <2>1. (DiskTyped => \A n \in Inside : Entry(n) \in Observed)'
    BY EntriesObserved, PTL
  <2>2. QED
    BY <1>4, <2>1 DEF Observed
<1>6. ScanTyped'
  <2>1. recent' \in [Inside -> SUBSET Observed]
    BY <1>1, <1>2, <1>5 DEF ScanTyped
  <2>2. (Built \in Snapshot)'
    BY <1>1, <1>3 DEF ScanTyped, Built, Snapshot, Observed
  <2>3. (recent \in [Inside -> SUBSET Observed])'
    BY <2>1 DEF Observed
  <2>4. QED
    BY <1>1, <1>3, <2>2, <2>3 DEF ScanTyped
<1>7. (stored # NoSnapshot => Sound(stored))'
  BY <1>1, <1>2, <1>3, <1>4
<1>8. CASE Idle
  BY <1>3, <1>4, <1>6, <1>7, <1>8 DEF RescanInv, Idle, UnderWay, AsMarked, Current, Walks, Done
<1>9. CASE ~Idle
  <2>1. Moves /\ mounted' \subseteq mounted
    BY <1>2, <1>9
  <2>2. Later
    <3>1. Len(log) \in Nat /\ Len(log') \in Nat /\ Len(log) <= Len(log') /\ journal' = journal
      BY <1>1, <2>1, TypedAfter DEF Moves, Grows
    <3>2. \A n : n \in Inside => recent[n] \subseteq recent'[n]
      BY <1>2
    <3>3. \A n : Covered(n)' \/ n \in mounted' => Covered(n) \/ n \in mounted
      BY <2>1 DEF Covered
    <3>4. /\ \A n \in Inside : \A e, from : from \in 0..Len(log) /\ Holds(e, n, from) => Holds(e, n, from)'
          /\ \A n, from, upto : upto \in 0..Len(log) => (TouchedIn(n, from, upto)' <=> TouchedIn(n, from, upto))
      BY <1>1, <2>1, HoldsAfter, TouchedAfter
    <3>5. QED
      BY <3>1, <3>2, <3>3, <3>4 DEF Later
  <2>3. UnderWay'
    <3>1. cursor.position \in Nat
      BY <1>1 DEF ScanTyped, Built, Snapshot
    <3>2. cursor.journal = journal /\ cursor.position <= Len(log)
      BY <1>1, <1>9 DEF UnderWay, Idle
    <3>3. cursor.position <= Len(log')
      BY <2>2, <3>1, <3>2 DEF Later
    <3>4. QED
      BY <1>1, <1>3, <2>1, <2>2, <3>2, <3>3 DEF UnderWay, Later
  <2>4. AsMarked'
    <3>1. SUFFICES ASSUME phase = "Marked" PROVE AsMarked'
      BY <1>3 DEF AsMarked
    <3>2. Usable(cursor) /\ barrier \in cursor.position..Len(log) /\ cursor.position \in Nat
      BY <1>1, <3>1 DEF AsMarked, ScanTyped, Built, Snapshot
    <3>3. barrier \in 0..Len(log) /\ barrier \in cursor.position..Len(log')
      BY <2>2, <3>2 DEF Later
    <3>4. ASSUME NEW n \in Inside
          PROVE  (\/ stored.tree[n] \in recent[n] \/ Unsure(stored, n)
                  \/ TouchedIn(n, stored.cursor.position, barrier) \/ Path[n] \cap table # {})'
      <4>1. \/ stored.tree[n] \in recent[n] \/ Unsure(stored, n)
            \/ TouchedIn(n, stored.cursor.position, barrier) \/ Path[n] \cap table # {}
        BY <1>1, <3>1 DEF AsMarked
      <4>2. TouchedIn(n, stored.cursor.position, barrier) => TouchedIn(n, stored.cursor.position, barrier)'
        BY <1>3, <2>2, <3>3 DEF Later
      <4>3. Unsure(stored, n)' <=> Unsure(stored, n)
        BY <1>3 DEF Unsure, Mounted, Failed
      <4>4. QED
        BY <1>3, <2>2, <4>1, <4>2, <4>3 DEF Later
    <3>5. Usable(cursor)'
      BY <1>3, <3>2 DEF Usable
    <3>6. QED
      BY <1>3, <3>3, <3>4, <3>5 DEF AsMarked
  <2>5. Current'
    BY <1>2, <1>3 DEF Current
  <2>6. Walks'
    BY <1>1, <1>2, <1>3, <2>2, WalksAfter DEF Walks
  <2>7. Done'
    <3>1. SUFFICES ASSUME phase = "Finished" PROVE Done'
      BY <1>3 DEF Done
    <3>2. Sound(Built)'
      <4>1. Built' = Built
        BY <1>3 DEF Built
      <4>2. QED
        BY <1>1, <1>4, <3>1, <4>1 DEF Done
    <3>3. recent' = recent
      BY <1>2, <3>1
    <3>4. ChargesOne'
      BY <1>1, <1>3, <3>1 DEF Done, ChargesOne, Charges, Built, SeveralNames
    <3>5. QED
      BY <1>1, <1>3, <3>1, <3>2, <3>3, <3>4 DEF Done, Unseen, Present
  <2>8. QED
    BY <1>4, <1>6, <1>7, <2>3, <2>4, <2>5, <2>6, <2>7 DEF RescanInv
<1>10. QED
  BY <1>8, <1>9

(***************************************************************************)
(* A scan up to its walk.                                                  *)
(***************************************************************************)
\* The disk and its journal stay what they are.
Still ==
  /\ own' = own /\ version' = version /\ outside' = outside /\ mounted' = mounted /\ volume' = volume
  /\ log' = log /\ journal' = journal

LEMMA StillKeeps ==
  ASSUME Still
  PROVE  /\ \A n : OwnEntry(n)' = OwnEntry(n) /\ Entry(n)' = Entry(n) /\ (Covered(n)' <=> Covered(n))
         /\ \A n, from, upto : TouchedIn(n, from, upto)' <=> TouchedIn(n, from, upto)
         /\ \A e, n, from : Holds(e, n, from)' <=> Holds(e, n, from)
         /\ \A s : Sound(s)' <=> Sound(s)
         /\ DiskIsATree' <=> DiskIsATree
         /\ DiskTyped /\ numbered' \in 0..Len(log) => DiskTyped'
<1>0. own' = own /\ version' = version /\ outside' = outside /\ mounted' = mounted /\ volume' = volume
      /\ log' = log /\ journal' = journal
  BY DEF Still
<1>1. \A i : NamesOf(i)' = NamesOf(i)
  BY <1>0 DEF NamesOf
<1>2. \A i : Links(i)' = Links(i)
  BY <1>0, <1>1 DEF Links
<1>3. ASSUME NEW n PROVE OwnEntry(n)' = OwnEntry(n) /\ Entry(n)' = Entry(n) /\ (Covered(n)' <=> Covered(n))
  <2>1. Links(own[n])' = Links(own[n])
    BY <1>0, <1>2
  <2>2. QED
    BY <1>0, <2>1 DEF OwnEntry, Entry, Covered
<1>4. \A n, from, upto : TouchedIn(n, from, upto)' <=> TouchedIn(n, from, upto)
  BY <1>0 DEF TouchedIn
<1>5. ASSUME NEW e, NEW n, NEW from PROVE Holds(e, n, from)' <=> Holds(e, n, from)
  <2>1. Touched(n, from)' <=> Touched(n, from)
    BY <1>0, <1>4 DEF Touched
  <2>2. QED
    BY <1>3, <2>1 DEF Holds
<1>6. ASSUME NEW s PROVE Sound(s)' <=> Sound(s)
  <2>1. \A n : Reliable(s, n)' <=> Reliable(s, n)
    BY <1>5 DEF Reliable, Mounted, Failed
  <2>2. (Emptied(s)' <=> Emptied(s)) /\ (Charges(s)' <=> Charges(s))
    BY DEF Emptied, Charges
  <2>3. (s \in Snapshot)' <=> s \in Snapshot
    BY DEF Snapshot, Observed
  <2>4. QED
    BY <1>0, <2>1, <2>2, <2>3 DEF Sound
<1>7. DiskIsATree' <=> DiskIsATree
  BY <1>0 DEF DiskIsATree
<1>8. DiskTyped /\ numbered' \in 0..Len(log) => DiskTyped'
  BY <1>0 DEF DiskTyped
<1>9. QED
  BY <1>3, <1>4, <1>5, <1>6, <1>7, <1>8

LEMMA BuiltIs ==
  ASSUME ScanTyped
  PROVE  /\ cursor \in [journal : {0, 1}, position : Nat] /\ tree \in [Inside -> Observed]
         /\ charged \subseteq Files /\ points \subseteq Dirs /\ errored \subseteq Dirs
  BY DEF ScanTyped, Built, Snapshot

LEMMA BuiltOf ==
  ASSUME cursor' \in [journal : {0, 1}, position : Nat], tree' \in [Inside -> Observed],
         charged' \subseteq Files, points' \subseteq Dirs, errored' \subseteq Dirs
  PROVE  (Built \in Snapshot)'
  BY DEF Built, Snapshot, Observed

LEMMA NoneIs ==
  /\ NoSnapshot.cursor \in [journal : {0, 1}, position : Nat] /\ NoSnapshot.tree \in [Inside -> Observed]
  /\ \A n \in Inside : NoSnapshot.tree[n] = Missing
  /\ Missing \in Observed /\ Missing.links = 0
<1>1. Missing \in Observed /\ Missing.links = 0
  BY DEF Missing, Observed
<1>2. QED
  BY <1>1 DEF NoSnapshot

\* The cursor is taken before anything is asked or read.
LEMMA TakeKeeps ==
  ASSUME RescanInv, Take
  PROVE  RescanInv'
<1>1. DiskTyped /\ DiskIsATree /\ ScanTyped /\ (stored # NoSnapshot => Sound(stored))
  BY DEF RescanInv
<1>2. PICK p \in numbered..Len(log) : numbered' = p /\ cursor' = [journal |-> journal, position |-> p]
  BY DEF Take
<1>3. /\ table' = mounted /\ phase' = "Taken" /\ stored' = stored /\ at' = at /\ tree' = tree /\ charged' = charged
      /\ points' = points /\ errored' = errored /\ recent' = recent /\ Still
  BY DEF Take, disk, built, Still
<1>4. p \in Nat /\ p <= Len(log) /\ p \in 0..Len(log)
  <2>1. Len(log) \in Nat
    BY <1>1, LenProperties DEF DiskTyped
  <2>2. QED
    BY <1>1, <1>2, <2>1 DEF DiskTyped
<1>5. DiskTyped' /\ DiskIsATree' /\ \A s : Sound(s)' <=> Sound(s)
  BY <1>1, <1>2, <1>3, <1>4, StillKeeps
<1>6. cursor' \in [journal : {0, 1}, position : Nat] /\ cursor'.journal = journal /\ cursor'.position = p
  BY <1>1, <1>2, <1>4 DEF DiskTyped
<1>7. ScanTyped'
  <2>1. (Built \in Snapshot)'
    BY <1>1, <1>3, <1>6, BuiltIs, BuiltOf
  <2>2. (recent \in [Inside -> SUBSET Observed])'
    BY <1>1, <1>3 DEF ScanTyped, Observed
  <2>3. mounted \subseteq MountPoints
    BY <1>1 DEF DiskTyped
  <2>4. QED
    BY <1>1, <1>3, <2>1, <2>2, <2>3 DEF ScanTyped
<1>8. UnderWay'
  BY <1>3, <1>4, <1>6 DEF UnderWay, Still
<1>9. (stored # NoSnapshot => Sound(stored))'
  BY <1>1, <1>3, <1>5 DEF NoSnapshot, Missing
<1>10. QED
  BY <1>3, <1>5, <1>7, <1>8, <1>9 DEF RescanInv, AsMarked, Current, Walks, Done

\* The mount table and the barrier come after the cursor.
LEMMA MarkKeeps ==
  ASSUME RescanInv, Mark
  PROVE  RescanInv'
<1>1. DiskTyped /\ DiskIsATree /\ ScanTyped /\ (stored # NoSnapshot => Sound(stored)) /\ UnderWay
  BY DEF RescanInv
<1>2. /\ phase = "Taken" /\ Usable(cursor) /\ barrier' = Len(log) /\ phase' = "Marked" /\ recent' = Since
      /\ numbered' = numbered /\ stored' = stored /\ cursor' = cursor /\ table' = table /\ at' = at /\ tree' = tree
      /\ charged' = charged /\ points' = points /\ errored' = errored /\ Still
  BY DEF Mark, diskVars, disk, built, Still
<1>3. DiskTyped' /\ DiskIsATree' /\ (\A s : Sound(s)' <=> Sound(s)) /\ \A n : Entry(n)' = Entry(n)
  BY <1>1, <1>2, StillKeeps DEF DiskTyped
<1>4. \A n \in Inside : recent'[n] = {Entry(n)}
  BY <1>2 DEF Since
<1>5. ScanTyped'
  <2>1. (Built \in Snapshot)'
    BY <1>1, <1>2, BuiltIs, BuiltOf
  <2>2. (recent \in [Inside -> SUBSET Observed])'
    <3>1. Since \in [Inside -> SUBSET Observed]
      BY <1>1, EntriesAre DEF Since
    <3>2. QED
      BY <1>2, <3>1 DEF Observed
  <2>3. QED
    BY <1>1, <1>2, <2>1, <2>2 DEF ScanTyped
<1>6. UnderWay' /\ mounted \subseteq table
  BY <1>1, <1>2 DEF UnderWay, Still
<1>7. Current'
  BY <1>3, <1>4 DEF Current
<1>8. AsMarked'
  <2>1. stored.cursor.journal = journal /\ cursor.position \in Nat /\ cursor.position <= Len(log) /\ Len(log) \in Nat
    BY <1>1, <1>2, BuiltIs, LenProperties DEF Usable, UnderWay, DiskTyped
  <2>2. (barrier \in cursor.position..Len(log))'
    BY <1>2, <2>1 DEF Still
  <2>3. Usable(cursor)'
    BY <1>2 DEF Usable, NoSnapshot, Missing
  <2>4. ASSUME NEW n \in Inside
        PROVE  \/ stored.tree[n] = Entry(n) \/ Unsure(stored, n)
               \/ TouchedIn(n, stored.cursor.position, Len(log)) \/ Path[n] \cap table # {}
    <3>1. Reliable(stored, n)
      BY <1>1, <1>2, <2>1 DEF Sound, Usable
    <3>2. CASE stored.tree[n] = OwnEntry(n) /\ (Covered(n) \/ n \in mounted)
      <4>1. PICK m \in mounted : n = m \/ n \in Below[m]
        BY <3>2 DEF Covered
      <4>2. m \in Path[n] /\ m \in table
        <5>1. m \in Dirs /\ m \in Inside
          BY <1>1, <4>1, MountsAre DEF DiskTyped
        <5>2. QED
          BY <1>6, <4>1, <5>1, Belows DEF Inside
      <4>3. QED
        BY <4>2
    <3>3. CASE stored.tree[n] = OwnEntry(n) /\ ~(Covered(n) \/ n \in mounted)
      BY <1>1, <3>3, EntriesAre
    <3>4. QED
      BY <3>1, <3>2, <3>3 DEF Reliable, Holds, Unsure, Touched
  <2>5. ASSUME NEW n \in Inside
        PROVE  (\/ stored.tree[n] \in recent[n] \/ Unsure(stored, n)
                \/ TouchedIn(n, stored.cursor.position, barrier) \/ Path[n] \cap table # {})'
    <3>1. PICK from, upto : from = stored.cursor.position /\ upto = Len(log)
      OBVIOUS
    <3>2. TouchedIn(n, from, upto) => TouchedIn(n, from, upto)'
      BY <1>2, StillKeeps
    <3>3. TouchedIn(n, stored.cursor.position, Len(log)) => TouchedIn(n, stored.cursor.position, barrier)'
      BY <1>2, <3>1, <3>2
    <3>4. Unsure(stored, n) => Unsure(stored, n)'
      BY <1>2 DEF Unsure, Mounted, Failed
    <3>5. QED
      BY <1>2, <1>4, <2>4, <3>3, <3>4
  <2>6. QED
    BY <2>2, <2>3, <2>5 DEF AsMarked
<1>9. (stored # NoSnapshot => Sound(stored))'
  BY <1>1, <1>2, <1>3 DEF NoSnapshot, Missing
<1>10. QED
  BY <1>2, <1>3, <1>5, <1>6, <1>7, <1>8, <1>9 DEF RescanInv, Walks, Done

LEMMA ForgetKeeps ==
  ASSUME DiskTyped, DiskIsATree, ScanTyped, Forget, (stored # NoSnapshot => Sound(stored))'
  PROVE  RescanInv'
<1>1. /\ phase' = "Idle" /\ cursor' = NoSnapshot.cursor /\ table' = {} /\ at' = [d \in Dirs |-> "Unknown"]
      /\ tree' = NoSnapshot.tree /\ charged' = {} /\ points' = {} /\ errored' = {}
      /\ recent' = [n \in Inside |-> {}] /\ numbered' = numbered /\ Still
  BY DEF Forget, diskVars, disk, Still
<1>2. DiskTyped' /\ DiskIsATree'
  BY <1>1, StillKeeps DEF DiskTyped
<1>3. ScanTyped'
  <2>1. (Built \in Snapshot)'
    BY <1>1, NoneIs, BuiltOf
  <2>2. (recent \in [Inside -> SUBSET Observed])'
    BY <1>1
  <2>3. QED
    BY <1>1, <2>1, <2>2 DEF ScanTyped
<1>4. QED
  BY <1>1, <1>2, <1>3 DEF RescanInv, UnderWay, AsMarked, Current, Walks, Done

LEMMA EndKeeps ==
  ASSUME RescanInv, Save \/ GiveUp
  PROVE  RescanInv'
<1>1. DiskTyped /\ DiskIsATree /\ ScanTyped /\ (stored # NoSnapshot => Sound(stored)) /\ Done
  BY DEF RescanInv
<1>2. Forget /\ Still
  BY DEF Save, GiveUp, Forget, diskVars, disk, Still
<1>3. \A s : Sound(s)' <=> Sound(s)
  BY <1>2, StillKeeps
<1>4. (stored # NoSnapshot => Sound(stored))'
  <2>1. CASE Save
    <3>1. stored' = Built /\ Sound(Built)
      BY <1>1, <2>1 DEF Save, Built, Done
    <3>2. PICK s : s = Built
      OBVIOUS
    <3>3. Sound(s)'
      BY <1>3, <3>1, <3>2
    <3>4. QED
      BY <3>1, <3>2, <3>3
  <2>2. CASE GiveUp
    <3>1. stored' = stored
      BY <2>2 DEF GiveUp
    <3>2. QED
      BY <1>1, <1>3, <3>1 DEF NoSnapshot, Missing
  <2>3. QED
    BY <2>1, <2>2
<1>5. QED
  BY <1>1, <1>2, <1>4, ForgetKeeps

(***************************************************************************)
(* A walk begins.                                                          *)
(***************************************************************************)
LEMMA RootIs == Root \in Dirs /\ Root \notin Inside /\ Path[Root] = {} /\ Over(Root) = {}
  BY DiskAssumption, PathIs DEF Inside, Over

\* A walk begins with the root, and nothing read, charged or counted.
LEMMA WalkBegins ==
  ASSUME ScanTyped, NEW how \in {"Whole", "Changed"}, NEW d, StartWalk(d, how), how = "Changed" => BaseServes'
  PROVE  Walks' /\ at' \in [Dirs -> {"Unknown", "Whole", "Changed", "Unchanged", "Copied", "Listed"}]
         /\ phase' = "Walking" /\ table' = {} /\ tree' \in [Inside -> Observed]
         /\ charged' \subseteq Files /\ points' \subseteq Dirs /\ errored' \subseteq Dirs
<1>1. /\ at' = [n \in Dirs |-> IF n = Root THEN how ELSE "Unknown"] /\ tree' = NoSnapshot.tree
      /\ charged' = {} /\ points' = {} /\ errored' = {} /\ counted' = 1 /\ errors' = 0
      /\ table' = {} /\ phase' = "Walking"
  BY DEF StartWalk
<1>2. /\ \A n \in Inside : tree'[n] = Missing
      /\ at'[Root] = how /\ \A n \in Dirs : n # Root => at'[n] = "Unknown"
  BY <1>1, NoneIs, RootIs
<1>3. Splices'
  <2>1. Spared(Root)'
    BY RootIs DEF Spared
  <2>2. ASSUME NEW n \in Dirs
        PROVE  /\ Based(n)' => BaseServes' /\ Spared(n)'
               /\ at'[n] \in {"Unchanged", "Copied"} => n # Root /\ n \notin dirty'.marked
               /\ at'[n] = "Copied" => ~Flagged(n)' /\ HeldBelow(n)' # {}
    <3>1. CASE n = Root
      BY <1>2, <2>1, <3>1 DEF Based
    <3>2. CASE n # Root
      BY <1>2, <3>2 DEF Based
    <3>3. QED
      BY <3>1, <3>2
  <2>3. QED
    BY <2>2 DEF Splices
<1>4. Descends'
  <2>1. \A n \in Dirs \ {Root} : n \in Inside
    BY DEF Inside, Names
  <2>2. Emptied(Built)'
    BY <1>1 DEF Emptied, Built
  <2>3. Missing' = Missing
    BY DEF Missing
  <2>4. QED
    BY <1>1, <1>2, <2>1, <2>2, <2>3 DEF Descends
<1>5. AsRead'
  BY <1>2 DEF AsRead, Missing
<1>6. NotThere'
  BY <1>2, RootIs DEF NotThere
<1>7. ChargesOne'
  <2>1. \A n \in Files : n \in Inside
    BY DiskAssumption DEF Inside, Names
  <2>2. \A n \in Files : tree'[n].links = 0
    BY <1>2, <2>1, NoneIs
  <2>3. Charges(Built)'
    BY <1>1, <2>2 DEF Charges, Built
  <2>4. QED
    BY <1>1, <2>2, <2>3 DEF ChargesOne, SeveralNames
<1>8. Counts'
  <2>1. Present' = {}
    BY <1>2 DEF Present, Missing
  <2>2. Filled' = {}
    BY <1>2 DEF Filled
  <2>3. Cardinality({n \in Filled : stored.tree[n] # Missing})' = 0
    <3>1. {n \in Filled : stored.tree[n] # Missing}' = {}
      BY <2>2
    <3>2. QED
      BY <3>1, FS_EmptySet
  <2>4. Cardinality({}) = 0
    BY FS_EmptySet
  <2>5. Cardinality(Present)' = 0 /\ Cardinality(errored)' = 0
    BY <1>1, <2>1, <2>4
  <2>6. QED
    BY <1>1, <2>3, <2>5 DEF Counts
<1>9. QED
  BY <1>1, <1>3, <1>4, <1>5, <1>6, <1>7, <1>8, NoneIs DEF Walks

LEMMA ReadAllKeeps ==
  ASSUME RescanInv, ReadAll
  PROVE  RescanInv'
<1>1. DiskTyped /\ DiskIsATree /\ ScanTyped /\ (stored # NoSnapshot => Sound(stored)) /\ UnderWay
  BY DEF RescanInv
<1>2. /\ phase \in {"Taken", "Marked"} /\ StartWalk(NotDirty, "Whole") /\ recent' = Since
      /\ numbered' = numbered /\ stored' = stored /\ cursor' = cursor /\ Still
  BY DEF ReadAll, diskVars, disk, Still
<1>3. DiskTyped' /\ DiskIsATree' /\ (\A s : Sound(s)' <=> Sound(s)) /\ \A n : Entry(n)' = Entry(n)
  BY <1>1, <1>2, StillKeeps DEF DiskTyped
<1>4. Walks' /\ at' \in [Dirs -> {"Unknown", "Whole", "Changed", "Unchanged", "Copied", "Listed"}]
      /\ phase' = "Walking" /\ table' = {} /\ tree' \in [Inside -> Observed]
      /\ charged' \subseteq Files /\ points' \subseteq Dirs /\ errored' \subseteq Dirs
  <2> DEFINE how == "Whole"
  <2>1. how \in {"Whole", "Changed"} /\ (how = "Changed" => BaseServes') /\ StartWalk(NotDirty, how)
    BY <1>2
  <2> HIDE DEF how
  <2>2. QED
    BY <1>1, <2>1, WalkBegins
<1>5. ScanTyped'
  <2>1. (Built \in Snapshot)'
    BY <1>1, <1>2, <1>4, BuiltIs, BuiltOf
  <2>2. (recent \in [Inside -> SUBSET Observed])'
    <3>1. Since \in [Inside -> SUBSET Observed]
      BY <1>1, EntriesAre DEF Since
    <3>2. QED
      BY <1>2, <3>1 DEF Observed
  <2>3. QED
    BY <1>4, <2>1, <2>2 DEF ScanTyped
<1>6. UnderWay'
  BY <1>1, <1>2, <1>4 DEF UnderWay, Still
<1>7. Current'
  BY <1>2, <1>3 DEF Current, Since
<1>8. (stored # NoSnapshot => Sound(stored))'
  BY <1>1, <1>2, <1>3 DEF NoSnapshot, Missing
<1>9. QED
  BY <1>3, <1>4, <1>5, <1>6, <1>7, <1>8 DEF RescanInv, AsMarked, Done

(***************************************************************************)
(* What a replay makes of the records.                                     *)
(***************************************************************************)
LEMMA ReplaysAre ==
  ASSUME DiskTyped, stored.cursor.position \in Nat, NEW upto \in 0..Len(log), NEW records \in Replays(upto)
  PROVE  /\ \A q \in records : \E p \in DOMAIN log : q \in Reports(log[p])
         /\ \A p \in DOMAIN log : stored.cursor.position < p /\ p <= upto => \E q \in records : q \in Reports(log[p])
<1> DEFINE from == stored.cursor.position + 1
           forms == [from..upto -> UNION {Reports(log[p]) : p \in from..upto}]
<1>1. PICK g \in forms : (\A p \in from..upto : g[p] \in Reports(log[p])) /\ records = {g[p] : p \in from..upto}
  BY DEF Replays
<1>2. Len(log) \in Nat /\ DOMAIN log = 1..Len(log) /\ from \in Nat /\ from >= 1 /\ upto <= Len(log)
  BY LenProperties DEF DiskTyped
<1>3. ASSUME NEW p \in DOMAIN log, stored.cursor.position < p, p <= upto PROVE p \in from..upto
  BY <1>2, <1>3
<1> HIDE DEF from, forms
<1>4. ASSUME NEW p \in from..upto PROVE p \in DOMAIN log
  <2>1. upto \in Nat /\ p \in Nat /\ 1 <= p /\ p <= Len(log)
    BY <1>2
  <2>2. QED
    BY <1>2, <2>1
<1>5. QED
  BY <1>1, <1>3, <1>4

\* How a record may be reported: as it is, as lost, under another spelling, or as
\* a subtree of which nothing is known.
LEMMA ReportsAre ==
  ASSUME NEW r \in Records, NEW q \in Reports(r)
  PROVE  \/ q.name = r.name /\ q.kind = r.kind /\ q.odd = None
         \/ q.kind = "Lost" /\ q.odd = None
         \/ q.name = r.name /\ q.kind = r.kind /\ q.kind \in OtherSpelling /\ q.odd \in Path[r.name] /\ q.odd # None
         \/ r.name # Root /\ q.name = Parent[r.name] /\ q.kind = "SubtreeUnknown" /\ q.odd = None
<1>1. r.name \in Names
  BY DEF Records
<1>2. \A o \in Path[r.name] : o # None
  BY <1>1, PathIs, DiskAssumption DEF None, Inside
<1>3. \/ q = Report(r.name, r.kind, None)
      \/ q = Report(Root, "Lost", None)
      \/ \E o \in Path[r.name] : r.kind \in OtherSpelling /\ q = Report(r.name, r.kind, o)
      \/ r.name # Root /\ q = Report(Parent[r.name], "SubtreeUnknown", None)
  BY DEF Reports
<1>4. QED
  BY <1>2, <1>3 DEF Report

\* What the journal said of a name, or of a directory it is in that came or went,
\* makes the name one to read again.
LEMMA ReportDirties ==
  ASSUME OtherSpelling \subseteq {"Modified", "Created"}, NEW records, ~Refused(records),
         \A q \in records : \E r \in Records : q \in Reports(r),
         NEW n \in Inside, NEW r \in Records, Touches(r, n), NEW q \in records, q \in Reports(r),
         NEW dy, dy = FromChanges(records)
  PROVE  n \in dy.marked \/ Path[n] \cap dy.recursive # {} \/ Over(n) \cap dy.unplaced # {}
<1>1. /\ dy.marked = UNION ({Reached(w) : w \in records} \cup {Path[m] : m \in table})
      /\ dy.recursive = {w.name : w \in {v \in records : Recursive(v)}} \cup table
      /\ dy.unplaced = Unplaced(records)
  BY DEF FromChanges
<1>2. r.name = n \/ (Moved(r) /\ r.name \in Over(n))
  BY DEF Touches
<1>3. n \in Path[n] /\ n \in Names /\ r.name \in Names /\ Path[r.name] \subseteq Path[n]
  BY <1>2, Belows DEF Inside, Records
<1>4. ~(q.kind = "Lost") /\ ~(q.name = Root /\ (DirMoved(q) \/ q.kind = "SubtreeUnknown"))
  BY DEF Refused
<1>5. CASE q.name = r.name /\ q.kind = r.kind /\ q.odd = None
  <2>1. CASE r.name = n
    BY <1>1, <1>3, <1>5, <2>1 DEF Reached, Placed
  <2>2. CASE Moved(r) /\ r.name \in Over(n)
    <3>1. r.name \in Dirs
      BY <2>2, Belows
    <3>2. DirMoved(q) /\ Recursive(q)
      BY <1>5, <2>2, <3>1 DEF Recursive, Placed, DirMoved, Moved
    <3>3. r.name # Root
      BY <1>4, <1>5, <3>2
    <3>4. r.name \in Path[n]
      BY <2>2, <3>3 DEF Over
    <3>5. QED
      BY <1>1, <1>5, <3>2, <3>4
  <2>3. QED
    BY <1>2, <2>1, <2>2
<1>6. CASE q.kind \in OtherSpelling /\ q.odd \in Path[r.name] /\ q.odd # None
  <2>1. ~Excused(q.odd, records)
    <3>1. SUFFICES ASSUME NEW w \in records, w.odd = q.odd, Gone(w) PROVE FALSE
      BY DEF Excused
    <3>2. PICK v \in Records : w \in Reports(v)
      OBVIOUS
    <3>3. w.kind \in OtherSpelling
      BY <1>6, <3>1, <3>2, ReportsAre
    <3>4. QED
      BY <3>1, <3>3 DEF Gone
  <2>2. q.odd \in Strangers(records)
    BY <1>6, <2>1 DEF Strangers, Placed
  <2>3. Parent[q.odd] \in dy.unplaced
    BY <1>1, <2>2 DEF Unplaced
  <2>4. q.odd \in Path[n]
    BY <1>3, <1>6
  <2>5. q.odd \in Inside
    BY <1>3, <2>4, PathIs
  <2>6. q.odd = n \/ q.odd \in Over(n)
    BY <2>4 DEF Over
  <2>7. Parent[q.odd] \in Over(n)
    <3>1. Parent[q.odd] \in Over(q.odd)
      BY <2>5, Belows
    <3>2. QED
      BY <2>6, <3>1, Belows
  <2>8. QED
    BY <2>3, <2>7
<1>7. CASE r.name # Root /\ q.name = Parent[r.name] /\ q.kind = "SubtreeUnknown" /\ q.odd = None
  <2>1. r.name \in Inside /\ q.name # Root
    BY <1>3, <1>4, <1>7 DEF Inside
  <2>2. Recursive(q)
    BY <1>7 DEF Recursive, Placed
  <2>3. Parent[r.name] \in Path[r.name]
    <3>1. Parent[r.name] \in Over(r.name)
      BY <2>1, Belows
    <3>2. QED
      BY <1>7, <2>1, <3>1 DEF Over
  <2>4. Parent[r.name] \in Path[n]
    BY <1>3, <2>3
  <2>5. QED
    BY <1>1, <1>7, <2>2, <2>4
<1>8. QED
  BY <1>4, <1>5, <1>6, <1>7, ReportsAre

\* What is marked is marked up to the root, and what is recursive or unplaced is marked.
LEMMA DirtyIs ==
  ASSUME table \subseteq MountPoints, NEW records, ~Refused(records),
         \A q \in records : \E r \in Records : q \in Reports(r), NEW dy, dy = FromChanges(records)
  PROVE  /\ \A a \in dy.marked : Path[a] \subseteq dy.marked
         /\ dy.recursive \subseteq dy.marked
         /\ dy.unplaced \subseteq dy.marked \cup {Root}
<1>1. /\ \A a : a \in dy.marked <=> (\E w \in records : a \in Reached(w)) \/ \E m \in table : a \in Path[m]
      /\ \A a : a \in dy.recursive <=> (\E w \in records : Recursive(w) /\ a = w.name) \/ a \in table
      /\ dy.unplaced = Unplaced(records)
  <2>1. /\ dy.marked = UNION ({Reached(w) : w \in records} \cup {Path[m] : m \in table})
        /\ dy.recursive = {w.name : w \in {v \in records : Recursive(v)}} \cup table
        /\ dy.unplaced = Unplaced(records)
    BY DEF FromChanges
  <2>2. \A a : a \in dy.marked <=> (\E w \in records : a \in Reached(w)) \/ \E m \in table : a \in Path[m]
    BY <2>1
  <2>3. \A a : a \in dy.recursive <=> (\E w \in records : Recursive(w) /\ a = w.name) \/ a \in table
    <3>1. \A a : a \in {w.name : w \in {v \in records : Recursive(v)}} <=> \E w \in records : Recursive(w) /\ a = w.name
      OBVIOUS
    <3>2. QED
      BY <2>1, <3>1
  <2>4. QED
    BY <2>1, <2>2, <2>3
<1>2. ASSUME NEW q \in records
      PROVE  /\ q.kind # "Lost" => q.name \in Names
             /\ q.odd # None => q.odd \in Path[q.name] /\ q.odd \in Inside /\ q.name \in Names
  <2>1. PICK r \in Records : q \in Reports(r)
    OBVIOUS
  <2>2. r.name \in Names
    BY DEF Records
  <2>3. r.name # Root => Parent[r.name] \in Names
    BY <2>2, ParentIs DEF Inside
  <2>4. QED
    BY <2>1, <2>2, <2>3, ReportsAre, PathIs
<1>3. \A q \in records : q.kind # "Lost" /\ ~(q.name = Root /\ (DirMoved(q) \/ q.kind = "SubtreeUnknown"))
  BY DEF Refused
<1>4. \A m \in table : m \in Names /\ m \in Path[m]
  BY MountsAre, PathIs
<1>5. ASSUME NEW a \in dy.marked PROVE Path[a] \subseteq dy.marked
  <2>1. CASE \E m \in table : a \in Path[m]
    BY <1>1, <1>4, <2>1, Paths
  <2>2. ASSUME NEW q \in records, a \in Reached(q) PROVE Path[a] \subseteq Reached(q)
    <3>1. CASE Placed(q)
      BY <1>2, <1>3, <2>2, <3>1, Paths DEF Reached
    <3>2. CASE ~Placed(q)
      <4>1. q.odd \in Inside /\ q.odd \in Names /\ a \in Path[q.odd] /\ a # q.odd
        BY <1>2, <2>2, <3>2 DEF Placed, Reached, Inside
      <4>2. Path[a] \subseteq Path[q.odd] /\ q.odd \notin Path[a]
        BY <4>1, Paths
      <4>3. QED
        BY <3>2, <4>2 DEF Reached
    <3>3. QED
      BY <3>1, <3>2
  <2>3. QED
    BY <1>1, <2>1, <2>2
<1>6. dy.recursive \subseteq dy.marked
  <2>1. ASSUME NEW q \in records, Recursive(q) PROVE q.name \in dy.marked
    <3>1. q.name # Root /\ q.name \in Names /\ Placed(q)
      BY <1>2, <1>3, <2>1 DEF Recursive
    <3>2. q.name \in Path[q.name]
      BY <3>1, PathIs DEF Inside
    <3>3. QED
      BY <1>1, <3>1, <3>2 DEF Reached
  <2>2. QED
    BY <1>1, <1>4, <2>1
<1>7. ASSUME NEW u \in dy.unplaced PROVE u \in dy.marked \cup {Root}
  <2>1. PICK q \in records : ~Placed(q) /\ u = Parent[q.odd]
    BY <1>1, <1>7 DEF Unplaced, Strangers
  <2>2. q.odd \in Inside
    BY <1>2, <2>1 DEF Placed
  <2>3. u \in Over(q.odd)
    BY <2>1, <2>2, Belows
  <2>4. u = Root \/ u \in Reached(q)
    BY <2>1, <2>3 DEF Over, Reached
  <2>5. QED
    BY <1>1, <2>4
<1>8. QED
  BY <1>5, <1>6, <1>7

\* A replay that was not refused makes the base serve: what it does not mark has
\* been what the snapshot says since the barrier.
LEMMA ReplayServes ==
  ASSUME OtherSpelling \subseteq {"Modified", "Created"}, RescanInv, Replay
  PROVE  BaseServes' /\ \E records : StartWalk(FromChanges(records), "Changed")
<1>1. DiskTyped /\ ScanTyped /\ (stored # NoSnapshot => Sound(stored)) /\ UnderWay /\ AsMarked
  BY DEF RescanInv
<1>2. phase = "Marked" /\ numbered' \in Answers /\ Still /\ stored' = stored /\ cursor' = cursor /\ recent' = recent
  BY DEF Replay, disk, Still
<1>3a. PICK upto \in Answers :
         \E records \in Replays(upto) : ~Refused(records) /\ StartWalk(FromChanges(records), "Changed")
  BY DEF Replay
<1>3. PICK records \in Replays(upto) : ~Refused(records) /\ StartWalk(FromChanges(records), "Changed")
  BY <1>3a
<1>4. dirty' = FromChanges(records)
  BY <1>3 DEF StartWalk
<1>5. Usable(cursor) /\ Sound(stored) /\ stored.cursor.journal = journal
  BY <1>1, <1>2 DEF AsMarked, Usable, UnderWay
<1>6. /\ stored.cursor.position \in Nat /\ cursor.position \in Nat /\ stored.cursor.position <= cursor.position
      /\ barrier \in Nat /\ cursor.position <= barrier /\ barrier <= upto /\ upto \in 0..Len(log) /\ Len(log) \in Nat
  <2>1. stored.cursor.position \in Nat /\ cursor.position \in Nat /\ Len(log) \in Nat
    BY <1>1, <1>5, BuiltIs, LenProperties DEF Sound, Snapshot, DiskTyped
  <2>2. barrier \in cursor.position..Len(log) /\ upto \in barrier..Len(log)
    BY <1>1, <1>2, <1>3a DEF AsMarked, Answers
  <2>3. QED
    BY <1>5, <2>1, <2>2 DEF Usable
<1>7. /\ \A q \in records : \E p \in DOMAIN log : q \in Reports(log[p])
      /\ \A p \in DOMAIN log : stored.cursor.position < p /\ p <= upto => \E q \in records : q \in Reports(log[p])
  BY <1>1, <1>3, <1>6, ReplaysAre
<1>8. DOMAIN log = 1..Len(log) /\ \A p \in DOMAIN log : log[p] \in Records /\ p \in Nat
  BY <1>1, LenProperties DEF DiskTyped
<1>9. \A q \in records : \E r \in Records : q \in Reports(r)
  BY <1>7, <1>8
<1>10. ASSUME NEW n \in Inside, ~Dirtied(n)', NEW to, to \in Nat, to <= upto
       PROVE  ~TouchedIn(n, stored.cursor.position, to)
  <2>1. SUFFICES ASSUME NEW p \in DOMAIN log, stored.cursor.position < p, p <= to, Touches(log[p], n) PROVE FALSE
    BY DEF TouchedIn
  <2>2. p <= upto
    BY <1>6, <1>8, <1>10, <2>1
  <2>3. PICK q \in records : q \in Reports(log[p])
    BY <1>7, <2>1, <2>2
  <2>4. PICK r \in Records : r = log[p]
    BY <1>8
  <2>5. PICK dy : dy = FromChanges(records)
    OBVIOUS
  <2>6. n \in dy.marked \/ Path[n] \cap dy.recursive # {} \/ Over(n) \cap dy.unplaced # {}
    BY <1>3, <1>9, <2>1, <2>3, <2>4, <2>5, ReportDirties
  <2>7. QED
    BY <1>4, <1>10, <2>5, <2>6 DEF Dirtied
<1>11. PICK dy : dy = FromChanges(records)
  OBVIOUS
<1>12. /\ \A a \in dy.marked : Path[a] \subseteq dy.marked
       /\ dy.recursive \subseteq dy.marked
       /\ dy.unplaced \subseteq dy.marked \cup {Root}
  BY <1>1, <1>3, <1>9, <1>11, DirtyIs DEF ScanTyped
<1>13. table \subseteq dy.recursive
  BY <1>11 DEF FromChanges
<1>14. ASSUME NEW n \in Inside, ~Dirtied(n)'
       PROVE  /\ stored.tree[n] \in recent[n] \/ Unsure(stored, n)
              /\ ~TouchedIn(n, stored.cursor.position, cursor.position)
  <2>1. ~TouchedIn(n, stored.cursor.position, barrier) /\ ~TouchedIn(n, stored.cursor.position, cursor.position)
    <3>1. cursor.position <= upto
      BY <1>6
    <3>2. QED
      BY <1>6, <1>10, <1>14, <3>1
  <2>2. Path[n] \cap table = {}
    BY <1>4, <1>11, <1>13, <1>14 DEF Dirtied
  <2>3. QED
    BY <1>1, <1>2, <2>1, <2>2 DEF AsMarked
<1>15. ASSUME NEW n \in Inside
       PROVE  (\/ Dirtied(n)
               \/ /\ stored.tree[n] \in recent[n] \/ Unsure(stored, n)
                  /\ ~TouchedIn(n, stored.cursor.position, cursor.position))'
  <2>1. SUFFICES ASSUME ~Dirtied(n)'
                 PROVE  (/\ stored.tree[n] \in recent[n] \/ Unsure(stored, n)
                         /\ ~TouchedIn(n, stored.cursor.position, cursor.position))'
    OBVIOUS
  <2>2. PICK from, to : from = stored.cursor.position /\ to = cursor.position
    OBVIOUS
  <2>3. ~TouchedIn(n, from, to)'
    BY <1>2, <1>14, <2>1, <2>2, StillKeeps
  <2>4. ~TouchedIn(n, stored.cursor.position, cursor.position)'
    BY <1>2, <2>2, <2>3
  <2>5. (stored.tree[n] \in recent[n] \/ Unsure(stored, n))'
    BY <1>2, <1>14, <2>1 DEF Unsure, Mounted, Failed
  <2>6. QED
    BY <2>4, <2>5
<1>16. Usable(cursor)'
  BY <1>2, <1>5 DEF Usable, NoSnapshot, Missing
<1>17. BaseServes'
  BY <1>4, <1>11, <1>12, <1>15, <1>16 DEF BaseServes
<1>18. QED
  BY <1>3, <1>17

LEMMA ReplayKeeps ==
  ASSUME OtherSpelling \subseteq {"Modified", "Created"}, RescanInv, Replay
  PROVE  RescanInv'
<1>1. DiskTyped /\ DiskIsATree /\ ScanTyped /\ (stored # NoSnapshot => Sound(stored)) /\ UnderWay /\ AsMarked /\ Current
  BY DEF RescanInv
<1>2. phase = "Marked" /\ numbered' \in Answers /\ Still /\ stored' = stored /\ cursor' = cursor /\ recent' = recent
  BY DEF Replay, disk, Still
<1>3. BaseServes' /\ \E records : StartWalk(FromChanges(records), "Changed")
  BY ReplayServes
<1>4. Walks' /\ at' \in [Dirs -> {"Unknown", "Whole", "Changed", "Unchanged", "Copied", "Listed"}]
      /\ phase' = "Walking" /\ table' = {} /\ tree' \in [Inside -> Observed]
      /\ charged' \subseteq Files /\ points' \subseteq Dirs /\ errored' \subseteq Dirs
  <2>1. PICK records : StartWalk(FromChanges(records), "Changed")
    BY <1>3
  <2> DEFINE how == "Changed"
  <2>2. how \in {"Whole", "Changed"} /\ (how = "Changed" => BaseServes') /\ StartWalk(FromChanges(records), how)
    BY <1>3, <2>1
  <2> HIDE DEF how
  <2>3. QED
    BY <1>1, <2>2, WalkBegins
<1>5. DiskTyped' /\ DiskIsATree' /\ (\A s : Sound(s)' <=> Sound(s)) /\ \A n : Entry(n)' = Entry(n)
  <2>1. numbered' \in 0..Len(log)
    <3>1. cursor.position \in Nat /\ Len(log) \in Nat /\ barrier \in cursor.position..Len(log)
      BY <1>1, <1>2, BuiltIs, LenProperties DEF DiskTyped, AsMarked
    <3>2. QED
      BY <1>2, <3>1 DEF Answers
  <2>2. QED
    BY <1>1, <1>2, <2>1, StillKeeps
<1>6. ScanTyped'
  <2>1. (Built \in Snapshot)'
    BY <1>1, <1>2, <1>4, BuiltIs, BuiltOf
  <2>2. (recent \in [Inside -> SUBSET Observed])'
    BY <1>1, <1>2 DEF ScanTyped, Observed
  <2>3. QED
    BY <1>4, <2>1, <2>2 DEF ScanTyped
<1>7. UnderWay'
  BY <1>1, <1>2, <1>4 DEF UnderWay, Still
<1>8. Current'
  BY <1>1, <1>2, <1>5 DEF Current
<1>9. (stored # NoSnapshot => Sound(stored))'
  BY <1>1, <1>2, <1>5 DEF NoSnapshot, Missing
<1>10. QED
  BY <1>4, <1>5, <1>6, <1>7, <1>8, <1>9 DEF RescanInv, AsMarked, Done

(***************************************************************************)
(* The walk is over.                                                       *)
(***************************************************************************)
\* What is below a directory taken over: the snapshot had it, nothing there has
\* several names, a volume or an error, and the journal said nothing of it.
LEMMA CopiedServes ==
  ASSUME RescanInv, phase = "Walking", NEW d \in Dirs, at[d] = "Copied", NEW n \in Below[d]
  PROVE  /\ n \in Inside /\ d # Root /\ d \in Over(n) /\ tree[n] = Missing
         /\ n \notin stored.points /\ n \notin stored.errored /\ ~(stored.tree[n].links > 1)
         /\ stored.tree[n] \in recent[n]
         /\ Holds(stored.tree[n], n, cursor.position)
         /\ stored \in Snapshot /\ Charges(stored)
<1>1. DiskTyped /\ ScanTyped /\ (stored # NoSnapshot => Sound(stored)) /\ UnderWay /\ Splices /\ Descends
  BY DEF RescanInv, Walks
<1>2. BaseServes /\ Spared(d) /\ d # Root /\ d \notin dirty.marked /\ ~Flagged(d) /\ HeldBelow(d) # {}
  BY <1>1 DEF Splices, Based
<1>3. n \in Inside /\ n # d /\ d \in Over(n) /\ d \in Path[n] /\ n \in Names /\ d \in Inside
  BY <1>2, Belows DEF Inside, Names
<1>4. tree[n] = Missing
  BY <1>1, <1>3 DEF Descends
<1>5. \A k \in {d} \cup Below[d] : k \notin stored.points /\ k \notin stored.errored /\ ~(stored.tree[k].links > 1)
  BY <1>2 DEF Flagged
<1>6. \A a \in Path[n] : a \in Path[d] \/ (d \in Path[a] /\ a \in Inside /\ a \in {d} \cup Below[d])
  <2>1. TAKE a \in Path[n]
  <2>2. a \in Inside /\ (a \in Path[d] \/ d \in Path[a])
    BY <1>3, Paths
  <2>3. QED
    BY <1>3, <2>2 DEF Below, Inside
<1>7. Usable(cursor) /\ Sound(stored) /\ stored.cursor.journal = journal
  BY <1>1, <1>2 DEF BaseServes, Usable, UnderWay
<1>8. ~Mounted(stored, n)
  BY <1>2, <1>5, <1>6 DEF Mounted, Spared
<1>9. ~Failed(stored, n)
  <2>1. SUFFICES ASSUME NEW a \in {Root} \cup Path[n], a \in stored.errored PROVE FALSE
    BY DEF Failed
  <2>2. a \in Over(d)
    <3>1. a = Root \/ a \in Path[d]
      BY <1>5, <1>6, <2>1
    <3>2. a # d
      BY <1>5, <2>1
    <3>3. QED
      BY <3>1, <3>2 DEF Over
  <2>3. PICK k \in Below[d] : stored.tree[k] # Missing
    BY <1>2 DEF HeldBelow
  <2>4. k \in Inside /\ d \in Over(k)
    BY <2>3, Belows
  <2>5. a \in Over(k)
    BY <2>2, <2>4, Belows
  <2>6. k \in Below[a]
    BY <2>4, <2>5, Belows
  <2>7. QED
    BY <1>7, <2>1, <2>3, <2>6 DEF Sound, Emptied
<1>10. ~Unsure(stored, n)
  BY <1>5, <1>8, <1>9 DEF Unsure
<1>11. ~Dirtied(n)
  <2>1. (\A a \in dirty.marked : Path[a] \subseteq dirty.marked)
        /\ dirty.recursive \subseteq dirty.marked /\ dirty.unplaced \subseteq dirty.marked \cup {Root}
    BY <1>2 DEF BaseServes
  <2>2. n \notin dirty.marked
    BY <1>2, <1>3, <2>1
  <2>3. Path[n] \cap dirty.recursive = {}
    BY <1>2, <1>6, <2>1 DEF Spared
  <2>4. ASSUME NEW a \in Over(n), a \in dirty.unplaced PROVE FALSE
    <3>1. CASE a \in Over(d)
      BY <1>2, <2>4, <3>1 DEF Spared
    <3>2. CASE a \notin Over(d)
      <4>1. a # Root /\ a \in Path[n] /\ (a = d \/ a \notin Path[d])
        BY <1>2, <2>4, <3>2 DEF Over
      <4>2. d \in Path[a]
        BY <1>6, <1>3, <4>1, Belows
      <4>3. a \in dirty.marked
        BY <2>1, <2>4, <4>1
      <4>4. QED
        BY <1>2, <2>1, <4>2, <4>3
    <3>3. QED
      BY <3>1, <3>2
  <2>5. QED
    BY <2>2, <2>3, <2>4 DEF Dirtied
<1>12. stored.tree[n] \in recent[n] /\ ~TouchedIn(n, stored.cursor.position, cursor.position)
  BY <1>2, <1>3, <1>10, <1>11 DEF BaseServes
<1>13. Holds(stored.tree[n], n, cursor.position)
  <2>1. Holds(stored.tree[n], n, stored.cursor.position)
    BY <1>3, <1>7, <1>8, <1>9 DEF Sound, Reliable
  <2>2. Touched(n, stored.cursor.position) => Touched(n, cursor.position)
    <3>1. SUFFICES ASSUME NEW p \in DOMAIN log, stored.cursor.position < p, p <= Len(log), Touches(log[p], n)
                   PROVE  Touched(n, cursor.position)
      BY DEF Touched, TouchedIn
    <3>2. ~(p <= cursor.position)
      BY <1>12, <3>1 DEF TouchedIn
    <3>3. p \in Nat /\ cursor.position \in Nat
      BY <1>1, BuiltIs, LenProperties DEF DiskTyped
    <3>4. cursor.position < p
      BY <3>2, <3>3
    <3>5. QED
      BY <3>1, <3>4 DEF Touched, TouchedIn
  <2>3. QED
    BY <2>1, <2>2 DEF Holds
<1>14. QED
  BY <1>2, <1>3, <1>4, <1>5, <1>7, <1>12, <1>13 DEF Sound

\* A name that was neither read nor taken over is not there, or there is a directory
\* over it that could not be read.
LEMMA WhyMissing ==
  ASSUME RescanInv, phase = "Walking", \A d \in Dirs : ~Reading(d),
         NEW n \in Inside, tree[n] = Missing, n \notin Filled
  PROVE  Failed(Built, n) \/ (Missing \in recent[n] /\ Holds(Missing, n, cursor.position))
<1>1. ScanTyped /\ Descends /\ NotThere
  BY DEF RescanInv, Walks
<1> DEFINE S == {m \in Path[n] : tree[m] = Missing}
<1>2. n \in S /\ Root \notin S /\ S \subseteq Names /\ n \in Names
  BY PathIs, Paths DEF Inside
<1>3. PICK c \in S : Parent[c] \notin S
  <2> HIDE DEF S
  <2>1. QED
    BY <1>2, Downward
<1> DEFINE d == Parent[c]
<1>4. c \in Path[n] /\ tree[c] = Missing /\ c \in Inside /\ d \in Dirs /\ c \in Children[d] /\ Path[c] \subseteq Path[n]
  <2>1. c \in Path[n] /\ tree[c] = Missing /\ c \in Inside /\ Path[c] \subseteq Path[n]
    BY <1>2, <1>3, Paths
  <2>2. QED
    BY <2>1, ParentIs DEF Children
<1>5. d \in Over(c) /\ d \in Over(n)
  <2>1. d \in Over(c)
    BY <1>4, Belows
  <2>2. c = n \/ c \in Over(n)
    BY <1>4 DEF Over
  <2>3. QED
    BY <2>1, <2>2, Belows
<1>6. d = Root \/ tree[d] # Missing
  <2>1. d = Root \/ d \in Path[n]
    BY <1>5 DEF Over
  <2>2. QED
    BY <1>3, <2>1
<1> HIDE DEF d
<1>7. at[d] \notin {"Whole", "Changed", "Unchanged"} /\ at[d] \in {"Unknown", "Whole", "Changed", "Unchanged", "Copied", "Listed"}
  BY <1>1, <1>4 DEF Reading, ScanTyped
<1>8. at[d] # "Copied"
  BY <1>4, <1>5, Belows DEF Filled
<1>9. at[d] = "Listed"
  BY <1>1, <1>4, <1>6, <1>7, <1>8 DEF Descends
<1>10. CASE d \in errored
  <2>1. d \in {Root} \cup Path[n]
    BY <1>5 DEF Over
  <2>2. QED
    BY <1>10, <2>1 DEF Failed, Built
<1>11. CASE d \notin errored
  <2>1. n \in {c} \cup Below[c]
    BY <1>4 DEF Below, Inside
  <2>2. QED
    BY <1>1, <1>4, <1>9, <1>11, <2>1 DEF NotThere
<1>12. QED
  BY <1>10, <1>11

\* The splice: what the tree takes over from the base has been so since the barrier,
\* is charged once, and was counted when its directory was.
LEMMA FinishKeeps ==
  ASSUME RescanInv, Finish
  PROVE  RescanInv'
<1>1. /\ DiskTyped /\ DiskIsATree /\ ScanTyped /\ (stored # NoSnapshot => Sound(stored)) /\ UnderWay /\ Current
      /\ Splices /\ Descends /\ AsRead /\ NotThere /\ ChargesOne /\ Counts /\ phase = "Walking"
  BY DEF RescanInv, Walks, Finish
<1>2. /\ \A d \in Dirs : ~Reading(d)
      /\ tree' = [n \in Inside |-> IF n \in Filled THEN stored.tree[n] ELSE tree[n]]
      /\ charged' = charged \cup (stored.charged \cap Filled)
      /\ points' = points \cup (stored.points \cap Filled)
      /\ errored' = errored \cup (stored.errored \cap Filled)
      /\ phase' = "Finished" /\ numbered' = numbered /\ stored' = stored /\ cursor' = cursor /\ table' = table
      /\ at' = at /\ counted' = counted /\ errors' = errors /\ recent' = recent /\ Still
  BY DEF Finish, diskVars, disk, Still
<1>3. DiskTyped' /\ DiskIsATree' /\ (\A s : Sound(s)' <=> Sound(s)) /\ (\A e, n, from : Holds(e, n, from)' <=> Holds(e, n, from))
  BY <1>1, <1>2, StillKeeps DEF DiskTyped
<1>4. ASSUME NEW n \in Filled
      PROVE  /\ n \in Inside /\ tree[n] = Missing
             /\ n \notin stored.points /\ n \notin stored.errored /\ ~(stored.tree[n].links > 1)
             /\ stored.tree[n] \in recent[n] /\ Holds(stored.tree[n], n, cursor.position)
             /\ stored \in Snapshot /\ Charges(stored)
  <2>1. PICK d \in Dirs : at[d] = "Copied" /\ n \in Below[d]
    BY DEF Filled
  <2>2. QED
    BY <1>1, <2>1, CopiedServes
<1>5. errored' = errored /\ points' = points
  BY <1>2, <1>4
<1>6. /\ \A n \in Inside : n \in Filled => tree'[n] = stored.tree[n]
      /\ \A n \in Inside : n \notin Filled => tree'[n] = tree[n]
  BY <1>2
<1>7. Files \subseteq Inside
  BY DiskAssumption DEF Inside, Names
<1>8. tree' \in [Inside -> Observed]
  <2>1. \A n \in Inside : tree'[n] \in Observed
    BY <1>1, <1>4, <1>6, BuiltIs DEF Snapshot
  <2>2. QED
    BY <1>2, <1>6, <2>1
<1>9. (Built \in Snapshot)' /\ ScanTyped'
  <2>1. charged' \subseteq Files
    <3>1. \A n \in Filled : stored.charged \subseteq Files
      BY <1>4 DEF Snapshot
    <3>2. QED
      BY <1>1, <1>2, <3>1, BuiltIs
  <2>2. (Built \in Snapshot)'
    BY <1>1, <1>2, <1>5, <1>8, <2>1, BuiltIs, BuiltOf
  <2>3. (recent \in [Inside -> SUBSET Observed])'
    BY <1>1, <1>2 DEF ScanTyped, Observed
  <2>4. QED
    BY <1>1, <1>2, <2>2, <2>3 DEF ScanTyped
<1>10. ASSUME NEW n \in Inside
       PROVE  /\ tree'[n] \in recent[n] \/ Failed(Built, n)
              /\ tree'[n] # Missing => tree'[n] \in recent[n]
              /\ Holds(tree'[n], n, cursor.position) \/ Mounted(Built, n) \/ Failed(Built, n)
  <2>1. CASE n \in Filled
    BY <1>4, <1>6, <2>1
  <2>2. CASE n \notin Filled /\ tree[n] # Missing
    BY <1>1, <1>6, <2>2 DEF AsRead
  <2>3. CASE n \notin Filled /\ tree[n] = Missing
    BY <1>1, <1>2, <1>6, <2>3, WhyMissing
  <2>4. QED
    BY <2>1, <2>2, <2>3
<1>11. \A n : (Mounted(Built, n)' <=> Mounted(Built, n)) /\ (Failed(Built, n)' <=> Failed(Built, n))
               /\ (Unseen(n)' <=> Failed(Built, n))
  BY <1>5 DEF Mounted, Failed, Built, Unseen
<1>12. Emptied(Built)'
  <2>1. ASSUME NEW e \in errored, NEW n \in Below[e] PROVE tree'[n] = Missing
    <3>1. e \in Dirs /\ at[e] = "Listed" /\ tree[n] = Missing
      BY <1>1, <2>1 DEF Descends, Emptied, Built
    <3>2. n \in Inside /\ e \in Over(n)
      BY <2>1, <3>1, Belows
    <3>3. ASSUME NEW d \in Dirs, at[d] = "Copied", n \in Below[d] PROVE FALSE
      <4>1. d # Root /\ d \in Inside /\ d \in Path[n] /\ d \in Names
        BY <1>1, <3>3, Belows DEF Splices, Inside, Names
      <4>2. tree[d] # Missing
        BY <1>1, <3>3, <4>1 DEF Descends
      <4>3. d \notin Below[e]
        BY <1>1, <2>1, <4>2 DEF Descends, Emptied, Built
      <4>4. e # Root /\ e # d /\ e \in Inside /\ e \in Path[n] /\ e \notin Path[d]
        BY <3>1, <3>2, <3>3, <4>1, <4>3 DEF Below, Over, Inside, Names
      <4>5. d \in Path[e]
        BY <3>2, <4>1, <4>4, Paths DEF Inside
      <4>6. d \in Over(e) /\ tree[e] # Missing
        BY <1>1, <3>1, <4>4, <4>5 DEF Over, Descends
      <4>7. QED
        BY <1>1, <3>3, <4>4, <4>6 DEF Descends
    <3>4. n \notin Filled
      BY <3>3 DEF Filled
    <3>5. QED
      BY <1>6, <3>1, <3>2, <3>4
  <2>2. QED
    BY <1>5, <2>1 DEF Emptied, Built, Missing
<1>13. Charges(Built)'
  <2>1. ASSUME NEW n \in Files
        PROVE  /\ tree'[n].links = 1 => n \in charged'
               /\ n \in charged' => tree'[n] # Missing
    <3>1. CASE n \in Filled
      <4>1. tree[n] = Missing /\ n \notin charged
        BY <1>1, <1>4, <3>1 DEF ChargesOne, Charges, Built
      <4>2. tree'[n] = stored.tree[n] /\ (n \in charged' <=> n \in stored.charged)
        BY <1>2, <1>6, <1>7, <3>1, <4>1
      <4>3. (stored.tree[n].links = 1 => n \in stored.charged) /\ (n \in stored.charged => stored.tree[n] # Missing)
        BY <1>4, <3>1 DEF Charges
      <4>4. QED
        BY <4>2, <4>3
    <3>2. CASE n \notin Filled
      <4>1. tree'[n] = tree[n] /\ (n \in charged' <=> n \in charged)
        BY <1>2, <1>6, <1>7, <3>2
      <4>2. (tree[n].links = 1 => n \in charged) /\ (n \in charged => tree[n] # Missing)
        BY <1>1 DEF ChargesOne, Charges, Built
      <4>3. QED
        BY <4>1, <4>2
    <3>3. QED
      BY <3>1, <3>2
  <2>2. QED
    BY <2>1 DEF Charges, Built, Missing
<1>14. ChargesOne'
  <2>1. ASSUME NEW n PROVE SeveralNames(n)' => n \notin Filled /\ SeveralNames(n) /\ tree'[n] = tree[n]
    BY <1>4, <1>6, <1>7 DEF SeveralNames
  <2>2. ASSUME NEW n, SeveralNames(n) PROVE SeveralNames(n)' /\ tree'[n] = tree[n]
    <3>1. n \in Inside /\ tree[n] # Missing
      BY <1>7, <2>2, NoneIs DEF SeveralNames
    <3>2. n \notin Filled
      BY <1>4, <3>1
    <3>3. QED
      BY <1>6, <2>2, <3>1, <3>2 DEF SeveralNames
  <2>3. \A n \in charged' : SeveralNames(n)' => n \in charged
    BY <1>2, <2>1
  <2>4. ASSUME NEW m \in charged', NEW n \in charged', SeveralNames(m)', SeveralNames(n)', tree'[m].of = tree'[n].of PROVE m = n
    <3>1. m \in charged /\ n \in charged /\ SeveralNames(m) /\ SeveralNames(n) /\ tree[m].of = tree[n].of
      BY <2>1, <2>3, <2>4
    <3>2. QED
      BY <1>1, <3>1 DEF ChargesOne
  <2>5. ASSUME NEW n \in Files, SeveralNames(n)' PROVE \E m \in charged' : SeveralNames(m)' /\ tree'[m].of = tree'[n].of
    <3>1. PICK m \in charged : SeveralNames(m) /\ tree[m].of = tree[n].of
      BY <1>1, <2>1, <2>5 DEF ChargesOne
    <3>2. QED
      BY <1>2, <2>1, <2>2, <2>5, <3>1
  <2>6. QED
    BY <1>13, <2>4, <2>5 DEF ChargesOne
<1>15. counted' = 1 + Cardinality(Present)' /\ errors' = Cardinality(errored)'
  <2> DEFINE A == Present
             B == {n \in Filled : stored.tree[n] # Missing}
  <2>1. A \subseteq Names /\ B \subseteq Names /\ IsFiniteSet(Names)
    BY <1>4, DiskAssumption DEF Present, Inside
  <2>2. IsFiniteSet(A) /\ IsFiniteSet(B)
    BY <2>1, FS_Subset
  <2>3. A \cap B = {}
    BY <1>4 DEF Present
  <2>4. Present' = A \cup B
    <3>1. \A n \in Inside : tree'[n] # Missing <=> n \in A \/ n \in B
      BY <1>4, <1>6 DEF Present
    <3>2. Present' = {n \in Inside : tree'[n] # Missing}
      BY DEF Present, Missing
    <3>3. A \subseteq Inside /\ B \subseteq Inside
      BY <1>4 DEF Present
    <3> HIDE DEF A, B
    <3>4. QED
      BY <3>1, <3>2, <3>3
  <2>5. counted = 1 + Cardinality(A) + Cardinality(B) /\ errors = Cardinality(errored)
    BY <1>1 DEF Counts
  <2> HIDE DEF A, B
  <2>6. Cardinality(A \cup B) = Cardinality(A) + Cardinality(B) /\ Cardinality(A) \in Nat /\ Cardinality(B) \in Nat
    <3>1. Cardinality(A \cup B) = Cardinality(A) + Cardinality(B) - Cardinality(A \cap B)
      BY <2>2, FS_Union
    <3>2. Cardinality(A) \in Nat /\ Cardinality(B) \in Nat /\ Cardinality(A \cap B) = 0
      BY <2>2, <2>3, FS_CardinalityType, FS_EmptySet
    <3>3. QED
      BY <3>1, <3>2
  <2>7. Cardinality(Present)' = Cardinality(A) + Cardinality(B)
    BY <2>4, <2>6
  <2>8. Cardinality(errored)' = Cardinality(errored)
    BY <1>5
  <2>9. QED
    BY <1>2, <2>5, <2>6, <2>7, <2>8
<1>16. Sound(Built)'
  <2>1. cursor.journal = journal /\ cursor.position \in 0..Len(log)
    <3>1. cursor.position \in Nat /\ Len(log) \in Nat
      BY <1>1, BuiltIs, LenProperties DEF DiskTyped
    <3>2. QED
      BY <1>1, <3>1 DEF UnderWay
  <2>2. ASSUME NEW n \in Inside PROVE Reliable(Built, n)'
    <3>1. PICK e, from : e = tree'[n] /\ from = cursor.position
      OBVIOUS
    <3>2. Holds(e, n, from) => Holds(e, n, from)'
      BY <1>3
    <3>3. Holds(tree'[n], n, cursor.position) => Holds(tree[n], n, cursor.position)'
      BY <1>2, <3>1, <3>2
    <3>4. (Holds(tree[n], n, cursor.position) \/ Mounted(Built, n) \/ Failed(Built, n))'
      BY <1>10, <1>11, <3>3
    <3>5. QED
      BY <3>4 DEF Reliable, Built
  <2>3. Built'.cursor = cursor
    BY <1>2 DEF Built
  <2>4. QED
    BY <1>2, <1>9, <1>12, <1>13, <2>1, <2>2, <2>3 DEF Sound, Still
<1>17. Done'
  <2>1. ASSUME NEW n \in Inside, tree'[n] # Missing \/ ~Unseen(n)' PROVE tree'[n] \in recent'[n]
    BY <1>2, <1>10, <1>11, <2>1
  <2>2. (\A n \in Inside : (tree[n] # Missing \/ ~Unseen(n)) => tree[n] \in recent[n])'
    BY <2>1 DEF Missing
  <2>3. (counted = 1 + Cardinality(Present) /\ errors = Cardinality(errored))'
    BY <1>15
  <2>4. QED
    BY <1>14, <1>16, <2>2, <2>3 DEF Done
<1>18. UnderWay'
  BY <1>1, <1>2 DEF UnderWay, Still
<1>19. (stored # NoSnapshot => Sound(stored))'
  BY <1>1, <1>2, <1>3 DEF NoSnapshot, Missing
<1>20. QED
  BY <1>2, <1>3, <1>9, <1>17, <1>18, <1>19 DEF RescanInv, AsMarked, Current, Walks

(***************************************************************************)
(* A directory is listed, or cannot be.                                    *)
(***************************************************************************)
WalkGoesOn ==
  /\ stored' = stored /\ phase' = phase /\ cursor' = cursor /\ table' = table /\ barrier' = barrier
  /\ dirty' = dirty /\ recent' = recent /\ numbered' = numbered /\ Still

\* What a step of the walk leaves alone.
LEMMA WalkStays ==
  ASSUME WalkGoesOn
  PROVE  /\ BaseServes => BaseServes'
         /\ \A n : (Spared(n)' <=> Spared(n)) /\ (Flagged(n)' <=> Flagged(n)) /\ HeldBelow(n)' = HeldBelow(n)
         /\ \A n : Entry(n)' = Entry(n) /\ (Covered(n)' <=> Covered(n))
         /\ \A e, n : Holds(e, n, cursor.position) => Holds(e, n, cursor.position)'
         /\ (stored # NoSnapshot => Sound(stored)) => (stored # NoSnapshot => Sound(stored))'
         /\ DiskTyped => DiskTyped'
         /\ DiskIsATree => DiskIsATree'
         /\ (UnderWay => UnderWay') /\ (Current => Current')
<1>1. /\ stored' = stored /\ phase' = phase /\ cursor' = cursor /\ table' = table /\ barrier' = barrier
      /\ dirty' = dirty /\ recent' = recent /\ numbered' = numbered /\ Still
      /\ log' = log /\ journal' = journal /\ mounted' = mounted
  BY DEF WalkGoesOn, Still
<1>2. /\ \A n : OwnEntry(n)' = OwnEntry(n) /\ Entry(n)' = Entry(n) /\ (Covered(n)' <=> Covered(n))
      /\ \A n, from, upto : TouchedIn(n, from, upto)' <=> TouchedIn(n, from, upto)
      /\ \A e, n, from : Holds(e, n, from)' <=> Holds(e, n, from)
      /\ \A s : Sound(s)' <=> Sound(s)
      /\ DiskIsATree' <=> DiskIsATree
      /\ DiskTyped /\ numbered' \in 0..Len(log) => DiskTyped'
  BY <1>1, StillKeeps
<1>3. BaseServes => BaseServes'
  <2>1. SUFFICES ASSUME BaseServes PROVE BaseServes'
    OBVIOUS
  <2>2. Usable(cursor)' /\ (\A a \in dirty.marked : Path[a] \subseteq dirty.marked)'
        /\ (dirty.recursive \subseteq dirty.marked /\ dirty.unplaced \subseteq dirty.marked \cup {Root})'
    BY <1>1, <2>1 DEF BaseServes, Usable, NoSnapshot, Missing
  <2>3. ASSUME NEW n \in Inside
        PROVE  (\/ Dirtied(n)
                \/ /\ stored.tree[n] \in recent[n] \/ Unsure(stored, n)
                   /\ ~TouchedIn(n, stored.cursor.position, cursor.position))'
    <3>1. Dirtied(n)' <=> Dirtied(n)
      BY <1>1 DEF Dirtied
    <3>2. Unsure(stored, n)' <=> Unsure(stored, n)
      BY <1>1 DEF Unsure, Mounted, Failed
    <3>3. PICK from, upto : from = stored.cursor.position /\ upto = cursor.position
      OBVIOUS
    <3>4. TouchedIn(n, from, upto)' <=> TouchedIn(n, from, upto)
      BY <1>2
    <3>5. TouchedIn(n, stored.cursor.position, cursor.position)' <=> TouchedIn(n, stored.cursor.position, cursor.position)
      BY <1>1, <3>3, <3>4
    <3>6. \/ Dirtied(n)
          \/ /\ stored.tree[n] \in recent[n] \/ Unsure(stored, n)
             /\ ~TouchedIn(n, stored.cursor.position, cursor.position)
      BY <2>1 DEF BaseServes
    <3>7. QED
      BY <1>1, <3>1, <3>2, <3>5, <3>6
  <2>4. QED
    BY <2>2, <2>3 DEF BaseServes
<1>4. \A n : (Spared(n)' <=> Spared(n)) /\ (Flagged(n)' <=> Flagged(n)) /\ HeldBelow(n)' = HeldBelow(n)
  BY <1>1 DEF Spared, Flagged, HeldBelow, Missing
<1>5. ASSUME NEW e, NEW n, Holds(e, n, cursor.position) PROVE Holds(e, n, cursor.position)'
  <2>1. PICK from : from = cursor.position
    OBVIOUS
  <2>2. Holds(e, n, from)'
    BY <1>2, <1>5, <2>1
  <2>3. QED
    BY <1>1, <2>1, <2>2
<1>6. (stored # NoSnapshot => Sound(stored)) => (stored # NoSnapshot => Sound(stored))'
  BY <1>1, <1>2 DEF NoSnapshot, Missing
<1>7. DiskTyped => DiskTyped'
  BY <1>1, <1>2 DEF DiskTyped
<1>8. (UnderWay => UnderWay') /\ (Current => Current')
  BY <1>1, <1>2 DEF UnderWay, Current
<1>9. QED
  BY <1>2, <1>3, <1>4, <1>5, <1>6, <1>7, <1>8

\* A directory that cannot be read is an error, and nothing is said of what it holds.
LEMMA UnreadableKeeps ==
  ASSUME RescanInv, NEW d \in Dirs, Unreadable(d)
  PROVE  RescanInv'
<1>1. /\ DiskTyped /\ DiskIsATree /\ ScanTyped /\ (stored # NoSnapshot => Sound(stored)) /\ UnderWay /\ Current
      /\ phase = "Walking" /\ Splices /\ Descends /\ AsRead /\ NotThere /\ ChargesOne /\ Counts
  BY DEF RescanInv, Walks, Unreadable, Reading
<1>2. /\ at[d] \in {"Whole", "Changed", "Unchanged"} /\ at' = [at EXCEPT ![d] = "Listed"]
      /\ errored' = errored \cup {d} /\ errors' = errors + 1 /\ tree' = tree /\ charged' = charged
      /\ points' = points /\ counted' = counted /\ WalkGoesOn
  BY DEF Unreadable, Reading, WalkGoesOn, Still, disk
<1>3. WalkGoesOn /\ stored' = stored /\ phase' = phase /\ cursor' = cursor /\ table' = table /\ dirty' = dirty
      /\ recent' = recent /\ mounted' = mounted
  BY <1>2 DEF WalkGoesOn, Still
<1>4. at'[d] = "Listed" /\ \A n \in Dirs : n # d => at'[n] = at[n]
  BY <1>1, <1>2 DEF ScanTyped
<1>5. at[d] # "Listed" /\ at[d] # "Unknown" /\ at[d] # "Copied" /\ d \notin errored
  BY <1>1, <1>2 DEF Descends
<1>6. Splices'
  <2>1. ASSUME NEW n \in Dirs
        PROVE  /\ Based(n)' => BaseServes' /\ Spared(n)'
               /\ at'[n] \in {"Unchanged", "Copied"} => n # Root /\ n \notin dirty'.marked
               /\ at'[n] = "Copied" => ~Flagged(n)' /\ HeldBelow(n)' # {}
    <3>1. CASE n = d
      BY <1>4, <3>1 DEF Based
    <3>2. CASE n # d
      <4>1. /\ Based(n) => BaseServes /\ Spared(n)
            /\ at[n] \in {"Unchanged", "Copied"} => n # Root /\ n \notin dirty.marked
            /\ at[n] = "Copied" => ~Flagged(n) /\ HeldBelow(n) # {}
        BY <1>1 DEF Splices
      <4>2. at'[n] = at[n] /\ (Based(n)' <=> Based(n))
        BY <1>4, <3>2 DEF Based
      <4>3. QED
        BY <1>3, <4>1, <4>2, WalkStays
    <3>3. QED
      BY <3>1, <3>2
  <2>2. QED
    BY <2>1 DEF Splices
<1>7. Emptied(Built)'
  <2>1. ASSUME NEW n \in Below[d] PROVE tree[n] = Missing
    BY <1>1, <1>5, Belows DEF Descends
  <2>2. \A e \in errored : \A n \in Below[e] : tree[n] = Missing
    BY <1>1 DEF Descends, Emptied, Built
  <2>3. QED
    BY <1>2, <2>1, <2>2 DEF Emptied, Built, Missing
<1>8. Descends'
  <2>1. /\ at'[Root] \in {"Whole", "Changed", "Listed"}
        /\ \A n \in Dirs \ {Root} : at'[n] # "Unknown" <=> tree[n] # Missing
        /\ errored' \subseteq {n \in Dirs : at'[n] = "Listed"}
    BY <1>1, <1>2, <1>4, <1>5, RootIs DEF Descends
  <2>2. \A n \in Inside : tree[n] # Missing => \A a \in Over(n) : at'[a] = "Listed"
    BY <1>1, <1>4, Belows DEF Descends
  <2>3. QED
    BY <1>2, <1>7, <2>1, <2>2 DEF Descends, Missing
<1>9. AsRead'
  <2>1. \A n : Mounted(Built, n)' <=> Mounted(Built, n)
    BY <1>2 DEF Mounted, Built
  <2>2. ASSUME NEW n \in Inside, tree[n] # Missing
        PROVE  /\ tree[n] \in recent[n]
               /\ Holds(tree[n], n, cursor.position)' \/ Mounted(Built, n)'
               /\ tree[n].of = Foreign => Mounted(Built, n)'
               /\ Covered(n)' \/ n \in mounted => tree[n].of = Foreign
    <3>1. /\ tree[n] \in recent[n]
          /\ Holds(tree[n], n, cursor.position) \/ Mounted(Built, n)
          /\ tree[n].of = Foreign => Mounted(Built, n)
          /\ Covered(n) \/ n \in mounted => tree[n].of = Foreign
      BY <1>1, <2>2 DEF AsRead
    <3>2. Holds(tree[n], n, cursor.position) => Holds(tree[n], n, cursor.position)'
      BY <1>2, <1>3, WalkStays
    <3>3. QED
      BY <1>3, <2>1, <3>1, <3>2, WalkStays
  <2>3. QED
    BY <1>2, <1>3, <2>2 DEF AsRead, Missing
<1>10. NotThere'
  <2>1. ASSUME NEW x \in Dirs, at'[x] = "Listed", x \notin errored', NEW c \in Children[x], tree[c] = Missing,
               NEW n \in {c} \cup Below[c]
        PROVE  Missing \in recent[n] /\ Holds(Missing, n, cursor.position)'
    <3>1. at[x] = "Listed" /\ x \notin errored
      BY <1>2, <1>4, <2>1
    <3>2. Missing \in recent[n] /\ Holds(Missing, n, cursor.position)
      BY <1>1, <2>1, <3>1 DEF NotThere
    <3>3. PICK e : e = Missing
      OBVIOUS
    <3>4. Holds(e, n, cursor.position)'
      BY <1>3, <3>2, <3>3, WalkStays
    <3>5. QED
      BY <3>2, <3>3, <3>4 DEF Missing
  <2>2. QED
    BY <1>2, <1>3, <2>1 DEF NotThere, Missing
<1>11. ChargesOne'
  BY <1>1, <1>2 DEF ChargesOne, Charges, Built, SeveralNames, Missing
<1>12. Counts'
  <2>1. Filled' = Filled
    BY <1>4, <1>5 DEF Filled
  <2>2. Present' = Present /\ {n \in Filled : stored.tree[n] # Missing}' = {n \in Filled : stored.tree[n] # Missing}
    BY <1>2, <1>3, <2>1 DEF Present, Missing
  <2>3. IsFiniteSet(errored)
    <3>1. errored \subseteq Names /\ IsFiniteSet(Names)
      BY <1>1, BuiltIs, DiskAssumption DEF Names
    <3>2. QED
      BY <3>1, FS_Subset
  <2>4. Cardinality(errored)' = Cardinality(errored) + 1
    BY <1>2, <1>5, <2>3, FS_AddElement
  <2>5. Cardinality(Present)' = Cardinality(Present)
        /\ Cardinality({n \in Filled : stored.tree[n] # Missing})' = Cardinality({n \in Filled : stored.tree[n] # Missing})
    BY <2>2
  <2>6. QED
    BY <1>1, <1>2, <2>4, <2>5 DEF Counts
<1>13. ScanTyped'
  <2>1. (Built \in Snapshot)'
    BY <1>1, <1>2, <1>3, BuiltIs, BuiltOf
  <2>2. (recent \in [Inside -> SUBSET Observed])'
    BY <1>1, <1>3 DEF ScanTyped, Observed
  <2>3. QED
    BY <1>1, <1>2, <1>3, <2>1, <2>2 DEF ScanTyped
<1>14. (stored # NoSnapshot => Sound(stored))' /\ DiskTyped' /\ DiskIsATree' /\ UnderWay' /\ Current'
  BY <1>1, <1>3, WalkStays
<1>15. QED
  BY <1>1, <1>3, <1>6, <1>8, <1>9, <1>10, <1>11, <1>12, <1>13, <1>14 DEF RescanInv, Walks, AsMarked, Done

\* What is known when a directory is listed.
LEMMA ListDoes ==
  ASSUME RescanInv, NEW d \in Dirs, List(d)
  PROVE  /\ DiskTyped /\ DiskIsATree /\ ScanTyped /\ (stored # NoSnapshot => Sound(stored)) /\ UnderWay /\ Current
         /\ phase = "Walking" /\ Splices /\ Descends /\ AsRead /\ NotThere /\ ChargesOne /\ Counts
         /\ at[d] \in {"Whole", "Changed", "Unchanged"}
         /\ d # Root => tree[d] # Missing /\ \A a \in Over(d) : at[a] = "Listed"
         /\ \A c \in Children[d] : /\ c \in Inside /\ c # d /\ Parent[c] = d /\ tree[c] = Missing
                                   /\ Over(c) = {d} \cup Over(d) /\ Path[c] = {c} \cup Path[d]
         /\ \A c : c \in Listing(d) <=> c \in Children[d] /\ Entry(c) # Missing
         /\ \A c : c \in Subdirs(d) <=> c \in Listing(d) /\ c \in Dirs
         /\ \A c \in Subdirs(d) : at[c] = "Unknown" /\ at'[c] = How(d, c)
         /\ at'[d] = "Listed" /\ \A x \in Dirs : x # d /\ x \notin Subdirs(d) => at'[x] = at[x]
         /\ \A n \in Inside : tree'[n] = IF n \in Listing(d) THEN Entry(n) ELSE tree[n]
<1>1. /\ DiskTyped /\ DiskIsATree /\ ScanTyped /\ (stored # NoSnapshot => Sound(stored)) /\ UnderWay /\ Current
      /\ phase = "Walking" /\ Splices /\ Descends /\ AsRead /\ NotThere /\ ChargesOne /\ Counts
  BY DEF RescanInv, Walks, List, Reading
<1>2. at[d] \in {"Whole", "Changed", "Unchanged"}
      /\ at' = [c \in Dirs |-> IF c = d THEN "Listed" ELSE IF c \in Subdirs(d) THEN How(d, c) ELSE at[c]]
      /\ tree' = [n \in Inside |-> IF n \in Listing(d) THEN Entry(n) ELSE tree[n]]
  BY DEF List, Reading
<1>3. d # Root => tree[d] # Missing /\ \A a \in Over(d) : at[a] = "Listed"
  BY <1>1, <1>2 DEF Descends, Inside, Names
<1>4. ASSUME NEW c \in Children[d]
      PROVE  /\ c \in Inside /\ c # d /\ Parent[c] = d /\ tree[c] = Missing
             /\ Over(c) = {d} \cup Over(d) /\ Path[c] = {c} \cup Path[d]
  <2>1. c \in Inside /\ c # d /\ Parent[c] = d /\ Over(c) = {d} \cup Over(d) /\ Path[c] = {c} \cup Path[d]
    BY Belows
  <2>2. tree[c] = Missing
    BY <1>1, <1>2, <2>1 DEF Descends
  <2>3. QED
    BY <2>1, <2>2
<1>5. \A c : c \in Listing(d) <=> c \in Children[d] /\ Entry(c) # Missing
  BY DEF Listing
<1>6. \A c : c \in Subdirs(d) <=> c \in Listing(d) /\ c \in Dirs
  BY DEF Subdirs
<1>7. ASSUME NEW c \in Subdirs(d) PROVE at[c] = "Unknown" /\ at'[c] = How(d, c)
  <2>1. c \in Dirs \ {Root} /\ c # d /\ tree[c] = Missing
    BY <1>4, <1>5, <1>6 DEF Inside
  <2>2. QED
    BY <1>1, <1>2, <2>1 DEF Descends
<1>8. at'[d] = "Listed" /\ \A x \in Dirs : x # d /\ x \notin Subdirs(d) => at'[x] = at[x]
  BY <1>2
<1>9. \A n \in Inside : tree'[n] = IF n \in Listing(d) THEN Entry(n) ELSE tree[n]
  BY <1>2
<1>10. QED
  BY <1>1, <1>2, <1>3, <1>4, <1>5, <1>6, <1>7, <1>8, <1>9

LEMMA ListOthers ==
  ASSUME NEW d \in Dirs, List(d)
  PROVE  /\ WalkGoesOn /\ errored' = errored /\ errors' = errors
         /\ points' = points \cup Boundaries(d)
         /\ charged' = charged \cup Claims(d) \cup {n \in Listing(d) \cap Files : Entry(n).links = 1}
         /\ counted' = counted + Cardinality(Listing(d)) + CopiedCount(d)
  BY DEF List, WalkGoesOn, Still, diskVars, disk

\* How a subdirectory is read.
LEMMA HowIs ==
  ASSUME NEW d, NEW c \in Subdirs(d)
  PROVE  /\ How(d, c) \in {"Whole", "Copied", "Changed", "Unchanged"}
         /\ How(d, c) # "Whole" => c \notin ReadWhole(d)
         /\ How(d, c) = "Copied" <=> c \in Copies(d)
         /\ How(d, c) = "Unchanged" => c \notin Reported(d)
  BY DEF How, Copies

\* A subdirectory is taken over or compared only where the base serves.
LEMMA ListSplices ==
  ASSUME RescanInv, NEW d \in Dirs, List(d)
  PROVE  Splices'
<1>1. /\ Splices /\ Descends /\ at[d] \in {"Whole", "Changed", "Unchanged"}
      /\ \A c \in Children[d] : /\ c \in Inside /\ c # d
                                /\ Over(c) = {d} \cup Over(d) /\ Path[c] = {c} \cup Path[d]
      /\ \A c : c \in Subdirs(d) <=> c \in Listing(d) /\ c \in Dirs
      /\ \A c : c \in Listing(d) <=> c \in Children[d] /\ Entry(c) # Missing
      /\ \A c \in Subdirs(d) : at'[c] = How(d, c)
      /\ at'[d] = "Listed" /\ \A x \in Dirs : x # d /\ x \notin Subdirs(d) => at'[x] = at[x]
  BY ListDoes
<1>2. WalkGoesOn /\ dirty' = dirty
  BY ListOthers DEF WalkGoesOn
<1>3. ASSUME NEW c \in Subdirs(d), at'[c] # "Whole"
      PROVE  /\ BaseServes /\ Spared(c)
             /\ at'[c] \in {"Unchanged", "Copied"} => c # Root /\ c \notin dirty.marked
             /\ at'[c] = "Copied" => ~Flagged(c) /\ HeldBelow(c) # {}
  <2>1. c \notin ReadWhole(d) /\ c \in Children[d] /\ c \in Inside
    BY <1>1, <1>3, HowIs
  <2>2. /\ at[d] # "Whole" /\ ~LostTrack(d) /\ c \notin stored.points
        /\ ~(c \in Reported(d) /\ c \in dirty.recursive)
    BY <2>1 DEF ReadWhole
  <2>3. BaseServes /\ Spared(d) /\ (at[d] = "Unchanged" => d # Root /\ d \notin dirty.marked)
    BY <1>1, <2>2 DEF Splices, Based
  <2>4. (\A a \in dirty.marked : Path[a] \subseteq dirty.marked)
        /\ dirty.recursive \subseteq dirty.marked /\ dirty.unplaced \subseteq dirty.marked \cup {Root}
    BY <2>3 DEF BaseServes
  <2>5. ASSUME at[d] = "Unchanged" PROVE c \notin dirty.marked
    <3>1. d \in Path[d]
      BY <2>3, <2>5, PathIs DEF Inside, Names
    <3>2. QED
      BY <1>1, <2>1, <2>3, <2>4, <2>5, <3>1
  <2>6. ASSUME c \notin Reported(d) PROVE c \notin dirty.marked
    BY <1>1, <2>1, <2>2, <2>5, <2>6 DEF Reported
  <2>7. c \notin dirty.recursive
    BY <2>2, <2>4, <2>6
  <2>8. d \notin dirty.unplaced
    <3>1. CASE at[d] = "Changed"
      BY <2>2, <3>1 DEF LostTrack
    <3>2. CASE at[d] = "Unchanged"
      BY <2>3, <2>4, <3>2
    <3>3. QED
      BY <1>1, <2>2, <3>1, <3>2
  <2>9. Spared(c)
    BY <1>1, <2>1, <2>2, <2>3, <2>7, <2>8 DEF Spared
  <2>10. at'[c] \in {"Unchanged", "Copied"} => c # Root /\ c \notin dirty.marked
    <3>1. at'[c] \in {"Unchanged", "Copied"} => c \notin Reported(d)
      BY <1>1, HowIs DEF Copies
    <3>2. QED
      BY <2>1, <2>6, <3>1 DEF Inside
  <2>11. at'[c] = "Copied" => ~Flagged(c) /\ HeldBelow(c) # {}
    BY <1>1, HowIs DEF Copies
  <2>12. QED
    BY <2>3, <2>9, <2>10, <2>11
<1>4. ASSUME NEW n \in Dirs
      PROVE  /\ Based(n)' => BaseServes' /\ Spared(n)'
             /\ at'[n] \in {"Unchanged", "Copied"} => n # Root /\ n \notin dirty'.marked
             /\ at'[n] = "Copied" => ~Flagged(n)' /\ HeldBelow(n)' # {}
  <2>1. CASE n = d
    BY <1>1, <2>1 DEF Based
  <2>2. CASE n \in Subdirs(d)
    <3>1. CASE at'[n] = "Whole"
      BY <3>1 DEF Based
    <3>2. CASE at'[n] # "Whole"
      BY <1>2, <1>3, <2>2, <3>2, WalkStays
    <3>3. QED
      BY <3>1, <3>2
  <2>3. CASE n # d /\ n \notin Subdirs(d)
    <3>1. /\ Based(n) => BaseServes /\ Spared(n)
          /\ at[n] \in {"Unchanged", "Copied"} => n # Root /\ n \notin dirty.marked
          /\ at[n] = "Copied" => ~Flagged(n) /\ HeldBelow(n) # {}
      BY <1>1 DEF Splices
    <3>2. at'[n] = at[n] /\ (Based(n)' <=> Based(n))
      BY <1>1, <2>3 DEF Based
    <3>3. QED
      BY <1>2, <3>1, <3>2, WalkStays
  <2>4. QED
    BY <2>1, <2>2, <2>3
<1>5. QED
  BY <1>4 DEF Splices

\* A directory is listed once, after those it is in.
LEMMA ListDescends ==
  ASSUME RescanInv, NEW d \in Dirs, List(d)
  PROVE  Descends'
<1>1. /\ Descends /\ at[d] \in {"Whole", "Changed", "Unchanged"}
      /\ d # Root => tree[d] # Missing /\ \A a \in Over(d) : at[a] = "Listed"
      /\ \A c \in Children[d] : c \in Inside /\ c # d /\ Over(c) = {d} \cup Over(d)
      /\ \A c : c \in Subdirs(d) <=> c \in Listing(d) /\ c \in Dirs
      /\ \A c : c \in Listing(d) <=> c \in Children[d] /\ Entry(c) # Missing
      /\ \A c \in Subdirs(d) : at[c] = "Unknown" /\ at'[c] = How(d, c)
      /\ at'[d] = "Listed" /\ \A x \in Dirs : x # d /\ x \notin Subdirs(d) => at'[x] = at[x]
      /\ \A n \in Inside : tree'[n] = IF n \in Listing(d) THEN Entry(n) ELSE tree[n]
  BY ListDoes
<1>2. errored' = errored
  BY ListOthers
<1>3. \A a \in Dirs : at[a] = "Listed" => at'[a] = "Listed"
  BY <1>1
<1>4. at'[Root] \in {"Whole", "Changed", "Listed"}
  BY <1>1, RootIs DEF Descends
<1>5. ASSUME NEW n \in Dirs \ {Root} PROVE at'[n] # "Unknown" <=> tree'[n] # Missing
  <2>1. n \in Inside /\ (at[n] # "Unknown" <=> tree[n] # Missing)
    BY <1>1 DEF Descends, Inside, Names
  <2>2. CASE n \in Subdirs(d)
    BY <1>1, <2>1, <2>2, HowIs
  <2>3. CASE n = d
    BY <1>1, <2>1, <2>3
  <2>4. CASE n # d /\ n \notin Subdirs(d)
    BY <1>1, <2>1, <2>4
  <2>5. QED
    BY <2>2, <2>3, <2>4
<1>6. ASSUME NEW n \in Inside, tree'[n] # Missing, NEW a \in Over(n) PROVE at'[a] = "Listed"
  <2>1. a \in Dirs
    BY Belows
  <2>2. CASE n \in Listing(d)
    <3>1. a = d \/ a \in Over(d)
      BY <1>1, <1>6, <2>2
    <3>2. CASE a \in Over(d)
      BY <1>1, <1>3, <2>1, <3>2, RootIs
    <3>3. QED
      BY <1>1, <3>1, <3>2
  <2>3. CASE n \notin Listing(d)
    BY <1>1, <1>3, <1>6, <2>1, <2>3 DEF Descends
  <2>4. QED
    BY <2>2, <2>3
<1>7. ASSUME NEW e \in errored, NEW n \in Below[e] PROVE tree'[n] = Missing
  <2>1. e \in Dirs /\ at[e] = "Listed" /\ tree[n] = Missing /\ \A k \in Below[e] : tree[k] = Missing
    BY <1>1, <1>7 DEF Descends, Emptied, Built
  <2>2. n \in Inside /\ e \in Over(n)
    BY <1>7, <2>1, Belows
  <2>3. n \notin Listing(d)
    <3>1. SUFFICES ASSUME n \in Listing(d) PROVE FALSE
      OBVIOUS
    <3>2. e \in Over(d)
      BY <1>1, <2>1, <2>2, <3>1
    <3>3. d # Root /\ d \in Inside
      BY <3>2, RootIs DEF Inside, Names
    <3>4. d \in Below[e]
      BY <3>2, <3>3, Belows
    <3>5. QED
      BY <1>1, <2>1, <3>3, <3>4
  <2>4. QED
    BY <1>1, <2>1, <2>2, <2>3
<1>8. Emptied(Built)'
  BY <1>2, <1>7 DEF Emptied, Built, Missing
<1>9. errored \subseteq {x \in Dirs : at'[x] = "Listed"}
  BY <1>1, <1>3 DEF Descends
<1>10. QED
  BY <1>2, <1>4, <1>5, <1>6, <1>8, <1>9 DEF Descends, Missing

\* What a listing shows is there now.
LEMMA ListReads ==
  ASSUME RescanInv, NEW d \in Dirs, List(d)
  PROVE  AsRead'
<1>1. /\ DiskTyped /\ Current /\ AsRead /\ phase = "Walking"
      /\ d # Root => tree[d] # Missing
      /\ \A c \in Children[d] : c \in Inside /\ Over(c) = {d} \cup Over(d) /\ Path[c] = {c} \cup Path[d]
      /\ \A c : c \in Subdirs(d) <=> c \in Listing(d) /\ c \in Dirs
      /\ \A c : c \in Listing(d) <=> c \in Children[d] /\ Entry(c) # Missing
      /\ \A n \in Inside : tree'[n] = IF n \in Listing(d) THEN Entry(n) ELSE tree[n]
  BY ListDoes
<1>2. WalkGoesOn /\ recent' = recent /\ points' = points \cup Boundaries(d) /\ mounted' = mounted /\ cursor' = cursor
  BY ListOthers DEF WalkGoesOn, Still
<1>3. \A n : Mounted(Built, n) => Mounted(Built, n)'
  BY <1>2 DEF Mounted, Built
<1>4. \A e, n : Holds(e, n, cursor.position) => Holds(e, n, cursor.position)'
  BY <1>2, WalkStays
<1>5. ASSUME NEW n \in Listing(d), Entry(n).of = Foreign PROVE Mounted(Built, n)'
  <2>1. n \in Inside /\ n \in Children[d] /\ (Covered(n) \/ n \in mounted)
    BY <1>1, <1>5, EntriesAre
  <2>2. CASE d # Root /\ tree[d].of = Foreign
    <3>1. d \in Inside
      BY <2>2 DEF Inside, Names
    <3>2. Mounted(Built, d)
      BY <1>1, <2>2, <3>1 DEF AsRead
    <3>3. Path[d] \subseteq Path[n]
      BY <1>1, <2>1
    <3>4. QED
      BY <1>2, <3>2, <3>3 DEF Mounted, Built
  <2>3. CASE ~(d # Root /\ tree[d].of = Foreign)
    <3>1. ~Covered(n)
      <4>1. SUFFICES ASSUME NEW m \in mounted, n \in Below[m] PROVE FALSE
        BY DEF Covered
      <4>2. m \in Dirs /\ m \in Inside
        BY <1>1, MountsAre DEF DiskTyped
      <4>3. m \in Over(n)
        BY <4>1, <4>2, Belows
      <4>4. m = d \/ m \in Over(d)
        BY <1>1, <2>1, <4>3
      <4>5. d \in Inside
        BY <4>2, <4>4, RootIs DEF Inside, Names
      <4>6. d \in mounted \/ Covered(d)
        BY <4>1, <4>4, <4>5, Belows DEF Covered
      <4>7. QED
        BY <1>1, <2>3, <4>5, <4>6 DEF AsRead, Inside
    <3>2. n \in mounted /\ n \in Dirs
      BY <1>1, <2>1, <3>1, MountsAre DEF DiskTyped
    <3>3. n \in Boundaries(d)
      BY <1>1, <1>5, <2>3, <3>2 DEF Boundaries
    <3>4. n \in Path[n]
      BY <2>1, Belows
    <3>5. QED
      BY <1>2, <3>3, <3>4 DEF Mounted, Built
  <2>4. QED
    BY <2>2, <2>3
<1>6. ASSUME NEW n \in Inside, tree'[n] # Missing
      PROVE  /\ tree'[n] \in recent[n]
             /\ (Holds(tree[n], n, cursor.position) \/ Mounted(Built, n))'
             /\ tree'[n].of = Foreign => Mounted(Built, n)'
             /\ Covered(n) \/ n \in mounted => tree'[n].of = Foreign
  <2>1. CASE n \in Listing(d)
    <3>1. tree'[n] = Entry(n) /\ Entry(n) \in recent[n]
      BY <1>1, <2>1 DEF Current
    <3>2. CASE Covered(n) \/ n \in mounted
      BY <1>1, <1>5, <2>1, <3>1, <3>2, EntriesAre
    <3>3. CASE ~(Covered(n) \/ n \in mounted)
      <4>1. Entry(n) = OwnEntry(n) /\ Entry(n).of # Foreign
        BY <1>1, <3>3, EntriesAre
      <4>2. PICK e : e = Entry(n)
        OBVIOUS
      <4>3. Holds(e, n, cursor.position)'
        BY <1>4, <4>1, <4>2 DEF Holds
      <4>4. e = tree'[n]
        BY <3>1, <4>2
      <4>5. Holds(tree[n], n, cursor.position)'
        BY <4>3, <4>4
      <4>6. QED
        BY <3>1, <3>3, <4>1, <4>5
    <3>4. QED
      BY <3>2, <3>3
  <2>2. CASE n \notin Listing(d)
    <3>1. tree'[n] = tree[n]
      BY <1>1, <2>2
    <3>2. /\ tree[n] \in recent[n]
          /\ Holds(tree[n], n, cursor.position) \/ Mounted(Built, n)
          /\ tree[n].of = Foreign => Mounted(Built, n)
          /\ Covered(n) \/ n \in mounted => tree[n].of = Foreign
      BY <1>1, <1>6, <3>1 DEF AsRead
    <3>3. PICK e : e = tree[n]
      OBVIOUS
    <3>4. Holds(e, n, cursor.position) => Holds(e, n, cursor.position)'
      BY <1>4
    <3>5. Holds(tree[n], n, cursor.position) => Holds(tree[n], n, cursor.position)'
      BY <3>1, <3>3, <3>4
    <3>6. QED
      BY <1>3, <3>1, <3>2, <3>5
  <2>3. QED
    BY <2>1, <2>2
<1>7. \A n : Covered(n)' <=> Covered(n)
  BY <1>2, WalkStays
<1>8. ASSUME NEW n \in Inside, tree'[n] # Missing
      PROVE  (/\ tree[n] \in recent[n]
              /\ Holds(tree[n], n, cursor.position) \/ Mounted(Built, n)
              /\ tree[n].of = Foreign => Mounted(Built, n)
              /\ Covered(n) \/ n \in mounted => tree[n].of = Foreign)'
  BY <1>2, <1>6, <1>7, <1>8
<1>9. QED
  BY <1>8 DEF AsRead, Missing

\* What it does not show is not there, nor is anything below.
LEMMA ListShows ==
  ASSUME RescanInv, NEW d \in Dirs, List(d)
  PROVE  NotThere'
<1>1. /\ DiskTyped /\ DiskIsATree /\ Current /\ NotThere /\ phase = "Walking"
      /\ \A c \in Children[d] : c \in Inside /\ Parent[c] = d
      /\ \A c : c \in Subdirs(d) <=> c \in Listing(d) /\ c \in Dirs
      /\ \A c : c \in Listing(d) <=> c \in Children[d] /\ Entry(c) # Missing
      /\ \A c \in Subdirs(d) : at'[c] = How(d, c)
      /\ at'[d] = "Listed" /\ \A x \in Dirs : x # d /\ x \notin Subdirs(d) => at'[x] = at[x]
      /\ \A n \in Inside : tree'[n] = IF n \in Listing(d) THEN Entry(n) ELSE tree[n]
  BY ListDoes
<1>2. WalkGoesOn /\ recent' = recent /\ cursor' = cursor /\ errored' = errored
  BY ListOthers DEF WalkGoesOn
<1>3. \A e, n : Holds(e, n, cursor.position) => Holds(e, n, cursor.position)'
  BY <1>2, WalkStays
<1>4. ASSUME NEW x \in Dirs, at'[x] = "Listed", x \notin errored, NEW c \in Children[x], tree'[c] = Missing,
             NEW n \in {c} \cup Below[c]
      PROVE  Missing \in recent[n] /\ Holds(Missing, n, cursor.position)
  <2>1. c \in Inside /\ Parent[c] = x
    BY <1>4, Belows
  <2>2. CASE x = d
    <3>1. Entry(c) = Missing
      BY <1>1, <1>4, <2>1, <2>2
    <3>2. n \in Inside /\ Entry(n) = Missing /\ OwnEntry(n) = Missing
      BY <1>1, <1>4, <2>1, <3>1, MissingBelow
    <3>3. QED
      BY <1>1, <3>2 DEF Current, Holds
  <2>3. CASE x # d
    <3>1. x \notin Subdirs(d)
      BY <1>1, <1>4, HowIs
    <3>2. at[x] = "Listed"
      BY <1>1, <1>4, <2>3, <3>1
    <3>3. tree[c] = Missing
      BY <1>1, <1>4, <2>1, <2>3
    <3>4. QED
      BY <1>1, <1>4, <3>2, <3>3 DEF NotThere
  <2>4. QED
    BY <2>2, <2>3
<1>5. ASSUME NEW x \in Dirs, at'[x] = "Listed", x \notin errored', NEW c \in Children[x], tree'[c] = Missing,
             NEW n \in {c} \cup Below[c]
      PROVE  Missing \in recent'[n] /\ Holds(Missing, n, cursor.position)'
  <2>1. Missing \in recent[n] /\ Holds(Missing, n, cursor.position)
    BY <1>2, <1>4, <1>5
  <2>2. PICK e : e = Missing
    OBVIOUS
  <2>3. Holds(e, n, cursor.position)'
    BY <1>3, <2>1, <2>2
  <2>4. QED
    BY <1>2, <2>1, <2>2, <2>3 DEF Missing
<1>6. QED
  BY <1>5 DEF NotThere, Missing

\* A file whose other names are elsewhere is charged by the first to be read.
LEMMA ListCharges ==
  ASSUME RescanInv, NEW d \in Dirs, List(d)
  PROVE  ChargesOne'
<1> DEFINE linked  == {n \in Listing(d) \cap Files : Entry(n).links > 1}
           claimed == {tree[n].of : n \in {m \in charged : tree[m].links > 1}}
           open    == {Entry(n).of : n \in linked} \ claimed
           Of(i)   == CHOOSE n \in linked : Entry(n).of = i
           single  == {n \in Listing(d) \cap Files : Entry(n).links = 1}
<1>1. /\ ScanTyped /\ DiskTyped /\ ChargesOne
      /\ \A c \in Children[d] : c \in Inside /\ tree[c] = Missing
      /\ \A c : c \in Listing(d) <=> c \in Children[d] /\ Entry(c) # Missing
      /\ \A n \in Inside : tree'[n] = IF n \in Listing(d) THEN Entry(n) ELSE tree[n]
  BY ListDoes
<1>2. Claims(d) = {Of(i) : i \in open}
  BY DEF Claims
<1>3. charged' = charged \cup Claims(d) \cup single
  BY ListOthers
<1>4. ASSUME NEW i \in open PROVE Of(i) \in linked /\ Entry(Of(i)).of = i /\ i \notin claimed
  OBVIOUS
<1>5. \A n \in Files : n \in Inside
  BY DiskAssumption DEF Inside, Names
<1>6. charged \subseteq Files /\ \A n \in charged : tree[n] # Missing /\ n \notin Listing(d)
  BY <1>1, BuiltIs DEF ChargesOne, Charges, Built
<1>7. \A n \in linked : n \in Listing(d) /\ n \in Files /\ n \in Inside /\ Entry(n).links > 1 /\ tree'[n] = Entry(n)
  BY <1>1
<1>8. \A n \in single : n \in Listing(d) /\ n \in Files /\ n \in Inside /\ Entry(n).links = 1 /\ tree'[n] = Entry(n)
  BY <1>1
<1>9. \A n \in charged : tree'[n] = tree[n] /\ n \in Inside
  BY <1>1, <1>5, <1>6
<1>10. \A n \in charged : tree[n].links > 1 => tree[n].of \in claimed
  OBVIOUS
<1>11. \A i \in claimed : \E n \in charged : tree[n].links > 1 /\ tree[n].of = i
  OBVIOUS
<1>12. \A n \in linked : Entry(n).of \in claimed \/ Entry(n).of \in open
  OBVIOUS
<1>13. \A n \in Listing(d) \cap Files : Entry(n).links = 1 => n \in single
  OBVIOUS
<1>14. \A n \in Listing(d) \cap Files : Entry(n).links > 1 => n \in linked
  OBVIOUS
<1>15. \A n \in Claims(d) : \E i \in open : n = Of(i)
  BY <1>2
<1>16. \A i \in open : Of(i) \in Claims(d)
  BY <1>2
<1> HIDE DEF linked, claimed, open, Of, single
<1>17. Charges(Built)'
  <2>1. ASSUME NEW n \in Files PROVE (tree'[n].links = 1 => n \in charged') /\ (n \in charged' => tree'[n] # Missing)
    <3>1. (tree[n].links = 1 => n \in charged) /\ (n \in charged => tree[n] # Missing)
      BY <1>1 DEF ChargesOne, Charges, Built
    <3>2. tree'[n].links = 1 => n \in charged'
      BY <1>1, <1>3, <1>5, <1>13, <3>1
    <3>3. n \in Claims(d) => n \in linked
      BY <1>4, <1>15
    <3>4. n \in charged' => tree'[n] # Missing
      BY <1>1, <1>3, <1>7, <1>8, <1>9, <3>1, <3>3
    <3>5. QED
      BY <3>2, <3>4
  <2>2. QED
    BY <2>1 DEF Charges, Built, Missing
<1>18. ASSUME NEW m \in charged', SeveralNames(m)'
       PROVE  \/ m \in charged /\ SeveralNames(m) /\ tree'[m] = tree[m] /\ tree[m].of \in claimed
              \/ \E i \in open : m = Of(i) /\ tree'[m].of = i /\ i \notin claimed
  <2>1. m \in Files /\ tree'[m].links > 1
    BY <1>18 DEF SeveralNames
  <2>2. CASE m \in charged
    BY <1>9, <1>10, <2>1, <2>2 DEF SeveralNames
  <2>3. CASE m \in Claims(d)
    <3>1. PICK i \in open : m = Of(i)
      BY <1>15, <2>3
    <3>2. QED
      BY <1>4, <1>7, <3>1
  <2>4. CASE m \in single
    BY <1>8, <2>1, <2>4
  <2>5. QED
    BY <1>3, <1>18, <2>2, <2>3, <2>4
<1>19. ASSUME NEW m \in charged', NEW n \in charged', SeveralNames(m)', SeveralNames(n)', tree'[m].of = tree'[n].of PROVE m = n
  <2>1. CASE m \in charged /\ SeveralNames(m) /\ tree'[m] = tree[m] /\ tree[m].of \in claimed
    BY <1>1, <1>18, <1>19, <2>1 DEF ChargesOne
  <2>2. CASE \E i \in open : m = Of(i) /\ tree'[m].of = i /\ i \notin claimed
    BY <1>18, <1>19, <2>2
  <2>3. QED
    BY <1>18, <1>19, <2>1, <2>2
<1>20. ASSUME NEW i \in claimed PROVE \E m \in charged' : SeveralNames(m)' /\ tree'[m].of = i
  <2>1. PICK m \in charged : tree[m].links > 1 /\ tree[m].of = i
    BY <1>11
  <2>2. m \in charged' /\ tree'[m] = tree[m] /\ m \in Files
    BY <1>3, <1>6, <1>9, <2>1
  <2>3. QED
    BY <2>1, <2>2 DEF SeveralNames
<1>21. ASSUME NEW n \in Files, SeveralNames(n)' PROVE \E m \in charged' : SeveralNames(m)' /\ tree'[m].of = tree'[n].of
  <2>1. n \in Inside /\ tree'[n].links > 1
    BY <1>5, <1>21 DEF SeveralNames
  <2>2. CASE n \notin Listing(d)
    <3>1. tree'[n] = tree[n] /\ SeveralNames(n)
      BY <1>1, <1>21, <2>1, <2>2 DEF SeveralNames
    <3>2. PICK m \in charged : SeveralNames(m) /\ tree[m].of = tree[n].of
      BY <1>1, <1>21, <3>1 DEF ChargesOne
    <3>3. m \in charged' /\ SeveralNames(m)' /\ tree'[m] = tree[m]
      BY <1>3, <1>9, <3>2 DEF SeveralNames
    <3>4. QED
      BY <3>1, <3>2, <3>3
  <2>3. CASE n \in Listing(d)
    <3>1. tree'[n] = Entry(n) /\ n \in linked
      BY <1>1, <1>14, <1>21, <2>1, <2>3
    <3>2. CASE Entry(n).of \in claimed
      BY <1>20, <3>1, <3>2
    <3>3. CASE Entry(n).of \in open
      <4>1. PICK i \in open : i = Entry(n).of
        BY <3>3
      <4>2. Of(i) \in linked /\ Entry(Of(i)).of = i /\ Of(i) \in charged'
        BY <1>3, <1>4, <1>16
      <4>3. PICK m \in linked : m = Of(i)
        BY <4>2
      <4>4. m \in charged' /\ tree'[m].of = i /\ SeveralNames(m)'
        BY <1>7, <4>2, <4>3 DEF SeveralNames
      <4>5. QED
        BY <3>1, <4>1, <4>4
    <3>4. QED
      BY <1>12, <3>1, <3>2, <3>3
  <2>4. QED
    BY <2>2, <2>3
<1>22. QED
  BY <1>17, <1>19, <1>21 DEF ChargesOne

\* The counter takes the entries of the listing, and what is below each directory
\* taken over, which no later step reads.
LEMMA ListCounts ==
  ASSUME RescanInv, NEW d \in Dirs, List(d)
  PROVE  Counts'
<1> DEFINE A == Present
           B == {n \in Filled : stored.tree[n] # Missing}
           L == Listing(d)
           C == UNION {HeldBelow(c) : c \in Copies(d)}
<1>1. /\ Descends /\ Counts /\ at[d] \in {"Whole", "Changed", "Unchanged"}
      /\ d # Root => tree[d] # Missing /\ \A a \in Over(d) : at[a] = "Listed"
      /\ \A c \in Children[d] : c \in Inside /\ c # d /\ tree[c] = Missing /\ Over(c) = {d} \cup Over(d)
      /\ \A c : c \in Listing(d) <=> c \in Children[d] /\ Entry(c) # Missing
      /\ \A c : c \in Subdirs(d) <=> c \in Listing(d) /\ c \in Dirs
      /\ \A c \in Subdirs(d) : at[c] = "Unknown" /\ at'[c] = How(d, c)
      /\ at'[d] = "Listed" /\ \A x \in Dirs : x # d /\ x \notin Subdirs(d) => at'[x] = at[x]
      /\ \A n \in Inside : tree'[n] = IF n \in Listing(d) THEN Entry(n) ELSE tree[n]
  BY ListDoes
<1>2. /\ stored' = stored /\ errored' = errored /\ errors' = errors
      /\ counted' = counted + Cardinality(L) + Cardinality(C)
  BY ListOthers DEF WalkGoesOn, CopiedCount
<1>3. Copies(d) \subseteq Subdirs(d)
  BY DEF Copies
<1>4. \A n : n \in C <=> \E c \in Copies(d) : n \in Below[c] /\ stored.tree[n] # Missing
  BY DEF HeldBelow
<1>5. \A n : n \in B <=> \E x \in Dirs : at[x] = "Copied" /\ n \in Below[x] /\ n \in Inside /\ stored.tree[n] # Missing
  BY DEF Filled
<1>6. \A c \in Copies(d) : c \in Dirs /\ c \in Inside /\ c # Root
  BY <1>1, <1>3 DEF Inside
<1>7. A \subseteq Inside /\ B \subseteq Inside /\ L \subseteq Inside /\ C \subseteq Inside
  <2>1. A \subseteq Inside /\ B \subseteq Inside
    BY DEF Present, Filled
  <2>2. L \subseteq Inside
    BY <1>1
  <2>3. C \subseteq Inside
    BY <1>4, <1>6, Belows
  <2>4. QED
    BY <2>1, <2>2, <2>3
<1>8. IsFiniteSet(A) /\ IsFiniteSet(B) /\ IsFiniteSet(L) /\ IsFiniteSet(C)
  <2>1. Inside \subseteq Names /\ IsFiniteSet(Names)
    BY DiskAssumption DEF Inside
  <2>2. IsFiniteSet(Inside)
    BY <2>1, FS_Subset
  <2> HIDE DEF A, B, C, L
  <2>3. QED
    BY <1>7, <2>2, FS_Subset
<1>9. A \cap L = {}
  BY <1>1 DEF Present
<1>10. ASSUME NEW n \in B, n \in C PROVE FALSE
  <2>1. PICK x \in Dirs : at[x] = "Copied" /\ n \in Below[x] /\ n \in Inside
    BY <1>5, <1>10
  <2>2. PICK c \in Copies(d) : n \in Below[c]
    BY <1>4, <1>10
  <2>3. c \in Subdirs(d) /\ c \in Children[d] /\ at[c] = "Unknown" /\ tree[c] = Missing /\ c \in Inside /\ c \in Dirs /\ c # Root
    BY <1>1, <1>3, <1>6
  <2>4. x \in Over(n) /\ c \in Over(n) /\ x # c /\ c \in Path[n] /\ n \in Names
    BY <2>1, <2>2, <2>3, Belows DEF Inside
  <2>5. x # Root /\ x \in Inside /\ tree[x] # Missing
    BY <1>1, <2>1 DEF Descends, Inside, Names
  <2>6. x \in Path[n]
    BY <2>4, <2>5 DEF Over
  <2>7. x \in Over(c) \/ c \in Over(x)
    BY <2>4, <2>6, Paths DEF Over
  <2>8. CASE x \in Over(c)
    <3>1. x = d \/ x \in Over(d)
      BY <1>1, <2>3, <2>8
    <3>2. x \in Over(d)
      BY <1>1, <2>1, <3>1
    <3>3. d # Root
      BY <3>2, RootIs
    <3>4. QED
      BY <1>1, <2>1, <3>2, <3>3
  <2>9. CASE c \in Over(x)
    BY <1>1, <2>3, <2>5, <2>9 DEF Descends
  <2>10. QED
    BY <2>7, <2>8, <2>9
<1>11. B \cap C = {}
  BY <1>10
<1>12. Present' = A \cup L
  <2>1. \A n \in Inside : tree'[n] # Missing <=> n \in A \/ n \in L
    BY <1>1 DEF Present
  <2>2. Present' = {n \in Inside : tree'[n] # Missing}
    BY DEF Present, Missing
  <2> HIDE DEF A, L
  <2>3. QED
    BY <1>7, <2>1, <2>2
<1>13. {n \in Filled : stored.tree[n] # Missing}' = B \cup C
  <2>1. ASSUME NEW x \in Dirs PROVE at'[x] = "Copied" <=> at[x] = "Copied" \/ x \in Copies(d)
    <3>1. CASE x = d
      BY <1>1, <1>3, <3>1
    <3>2. CASE x \in Subdirs(d)
      BY <1>1, <3>2, HowIs
    <3>3. CASE x # d /\ x \notin Subdirs(d)
      BY <1>1, <1>3, <3>3
    <3>4. QED
      BY <3>1, <3>2, <3>3
  <2>2. ASSUME NEW n \in Inside
        PROVE  n \in Filled' /\ stored.tree[n] # Missing <=> n \in B \/ n \in C
    <3>1. n \in Filled' <=> \E x \in Dirs : at'[x] = "Copied" /\ n \in Below[x]
      BY DEF Filled
    <3>2. QED
      BY <1>4, <1>5, <1>6, <2>1, <3>1
  <2>3. {n \in Filled : stored.tree[n] # Missing}' = {n \in Inside : n \in Filled' /\ stored.tree[n] # Missing}
    BY <1>2 DEF Filled, Missing
  <2> HIDE DEF B, C
  <2>4. QED
    BY <1>7, <2>2, <2>3
<1>14. counted = 1 + Cardinality(A) + Cardinality(B) /\ errors = Cardinality(errored)
  BY <1>1 DEF Counts
<1> HIDE DEF A, B, C, L
<1>15. /\ Cardinality(A) \in Nat /\ Cardinality(B) \in Nat /\ Cardinality(C) \in Nat /\ Cardinality(L) \in Nat
       /\ Cardinality(A \cup L) = Cardinality(A) + Cardinality(L)
       /\ Cardinality(B \cup C) = Cardinality(B) + Cardinality(C)
  <2>1. /\ Cardinality(A \cup L) = Cardinality(A) + Cardinality(L) - Cardinality(A \cap L)
        /\ Cardinality(B \cup C) = Cardinality(B) + Cardinality(C) - Cardinality(B \cap C)
    BY <1>8, FS_Union
  <2>2. /\ Cardinality(A) \in Nat /\ Cardinality(B) \in Nat /\ Cardinality(C) \in Nat /\ Cardinality(L) \in Nat
        /\ Cardinality(A \cap L) = 0 /\ Cardinality(B \cap C) = 0
    BY <1>8, <1>9, <1>11, FS_CardinalityType, FS_EmptySet
  <2>3. QED
    BY <2>1, <2>2
<1>16. /\ Cardinality(Present)' = Cardinality(A \cup L)
       /\ Cardinality({n \in Filled : stored.tree[n] # Missing})' = Cardinality(B \cup C)
       /\ Cardinality(errored)' = Cardinality(errored)
  BY <1>2, <1>12, <1>13
<1>17. QED
  BY <1>2, <1>14, <1>15, <1>16 DEF Counts

LEMMA ListKeeps ==
  ASSUME RescanInv, NEW d \in Dirs, List(d)
  PROVE  RescanInv'
<1>1. /\ DiskTyped /\ DiskIsATree /\ ScanTyped /\ (stored # NoSnapshot => Sound(stored)) /\ UnderWay /\ Current
      /\ phase = "Walking"
      /\ \A c : c \in Subdirs(d) <=> c \in Listing(d) /\ c \in Dirs
      /\ \A c \in Subdirs(d) : at'[c] = How(d, c)
      /\ \A n \in Inside : tree'[n] = IF n \in Listing(d) THEN Entry(n) ELSE tree[n]
  BY ListDoes
<1>2. /\ WalkGoesOn /\ errored' = errored /\ points' = points \cup Boundaries(d)
      /\ charged' = charged \cup Claims(d) \cup {n \in Listing(d) \cap Files : Entry(n).links = 1}
  BY ListOthers
<1>3. phase' = phase /\ cursor' = cursor /\ table' = table /\ recent' = recent
  BY <1>2 DEF WalkGoesOn
<1>4. Splices' /\ Descends' /\ AsRead' /\ NotThere' /\ ChargesOne' /\ Counts'
  BY ListSplices, ListDescends, ListReads, ListShows, ListCharges, ListCounts
<1>5. ScanTyped'
  <2>1. tree' \in [Inside -> Observed]
    <3>1. \A n \in Inside : tree'[n] \in Observed
      BY <1>1, BuiltIs, EntriesAre
    <3>2. tree' = [n \in Inside |-> IF n \in Listing(d) THEN Entry(n) ELSE tree[n]]
      BY DEF List
    <3>3. QED
      BY <1>1, <3>1, <3>2
  <2>2. charged' \subseteq Files
    <3>1. Claims(d) \subseteq Files
      <4> DEFINE linked  == {n \in Listing(d) \cap Files : Entry(n).links > 1}
                 claimed == {tree[n].of : n \in {m \in charged : tree[m].links > 1}}
                 open    == {Entry(n).of : n \in linked} \ claimed
                 Of(i)   == CHOOSE n \in linked : Entry(n).of = i
      <4>1. Claims(d) = {Of(i) : i \in open}
        BY DEF Claims
      <4>2. \A i \in open : Of(i) \in linked
        OBVIOUS
      <4>3. linked \subseteq Files
        OBVIOUS
      <4> HIDE DEF linked, open, Of
      <4>4. QED
        BY <4>1, <4>2, <4>3
    <3>2. QED
      BY <1>1, <1>2, <3>1, BuiltIs
  <2>3. points' \subseteq Dirs
    BY <1>1, <1>2, BuiltIs DEF Boundaries
  <2>4. (Built \in Snapshot)'
    BY <1>1, <1>2, <1>3, <2>1, <2>2, <2>3, BuiltIs, BuiltOf
  <2>5. at' \in [Dirs -> {"Unknown", "Whole", "Changed", "Unchanged", "Copied", "Listed"}]
    <3>1. at' = [c \in Dirs |-> IF c = d THEN "Listed" ELSE IF c \in Subdirs(d) THEN How(d, c) ELSE at[c]]
      BY DEF List
    <3>2. \A c \in Subdirs(d) : How(d, c) \in {"Whole", "Copied", "Changed", "Unchanged"}
      BY HowIs
    <3>3. \A c \in Dirs : at[c] \in {"Unknown", "Whole", "Changed", "Unchanged", "Copied", "Listed"}
      BY <1>1 DEF ScanTyped
    <3>4. QED
      BY <3>1, <3>2, <3>3
  <2>6. (recent \in [Inside -> SUBSET Observed])'
    BY <1>1, <1>3 DEF ScanTyped, Observed
  <2>7. QED
    BY <1>1, <1>3, <2>4, <2>5, <2>6 DEF ScanTyped
<1>6. (stored # NoSnapshot => Sound(stored))' /\ DiskTyped' /\ DiskIsATree' /\ UnderWay' /\ Current'
  BY <1>1, <1>2, WalkStays
<1>7. QED
  BY <1>1, <1>3, <1>4, <1>5, <1>6 DEF RescanInv, Walks, AsMarked, Done

(***************************************************************************)
(* The rescan.                                                             *)
(***************************************************************************)
LEMMA RescanBegins ==
  Init => RescanInv
<1>1. SUFFICES ASSUME Init PROVE RescanInv
  OBVIOUS
<1>2. PICK d \in Disks : own = d.own /\ outside = d.outside /\ mounted = d.mounted
  BY <1>1 DEF Init
<1>3. /\ d \in [own : [Inside -> Inodes \cup {Absent}], outside : SUBSET FileInodes, mounted : SUBSET MountPoints]
      /\ \A n \in Inside : d.own[n] # Absent /\ Parent[n] # Root => d.own[Parent[n]] # Absent
      /\ \A m \in d.mounted : d.own[m] # Absent
  BY RescanAssumption
<1>4. /\ version = [i \in Inodes |-> 0] /\ volume = 0 /\ log = <<>> /\ numbered = 0 /\ journal = 0
      /\ stored = NoSnapshot /\ phase = "Idle" /\ cursor = NoSnapshot.cursor /\ table = {}
      /\ at = [n \in Dirs |-> "Unknown"] /\ tree = NoSnapshot.tree /\ charged = {} /\ points = {}
      /\ errored = {} /\ recent = [n \in Inside |-> {}]
  BY <1>1 DEF Init, DiskInit
<1>5. DiskTyped
  <2>1. own \in [Inside -> Inodes \cup {Absent}] /\ outside \subseteq Inodes /\ mounted \subseteq MountPoints
    BY <1>2, <1>3 DEF Inodes
  <2>2. log \in Seq(Records) /\ Len(log) = 0
    BY <1>4
  <2>3. QED
    BY <1>4, <2>1, <2>2 DEF DiskTyped
<1>6. DiskIsATree
  BY <1>2, <1>3 DEF DiskIsATree
<1>7. ScanTyped
  <2>1. Built \in Snapshot
    BY <1>4, NoneIs DEF Built, Snapshot
  <2>2. QED
    BY <1>4, <2>1 DEF ScanTyped
<1>8. QED
  BY <1>4, <1>5, <1>6, <1>7 DEF RescanInv, UnderWay, AsMarked, Current, Walks, Done

LEMMA RescanStays ==
  ASSUME RescanInv, UNCHANGED vars
  PROVE  RescanInv'
<1>1. /\ own' = own /\ version' = version /\ outside' = outside /\ mounted' = mounted /\ volume' = volume
      /\ log' = log /\ numbered' = numbered /\ journal' = journal /\ stored' = stored /\ phase' = phase
      /\ cursor' = cursor /\ table' = table /\ barrier' = barrier /\ dirty' = dirty /\ at' = at /\ tree' = tree
      /\ charged' = charged /\ points' = points /\ errored' = errored /\ counted' = counted /\ errors' = errors
      /\ recent' = recent
  BY DEF vars, diskVars, disk, scan, built
<1>2. QED
  <2>1. /\ DiskTyped' <=> DiskTyped
        /\ DiskIsATree' <=> DiskIsATree
        /\ Built' = Built
        /\ \A n : OwnEntry(n)' = OwnEntry(n)
    BY <1>1 DEF DiskTyped, DiskIsATree, Built, OwnEntry, Links, NamesOf
  <2>2. WalkGoesOn
    BY <1>1 DEF WalkGoesOn, Still
  <2>3. /\ DiskTyped /\ DiskIsATree /\ ScanTyped /\ (stored # NoSnapshot => Sound(stored)) /\ UnderWay /\ AsMarked
        /\ Current /\ Walks /\ Done
    BY DEF RescanInv
  <2>4. ScanTyped'
    <3>1. (Built \in Snapshot)'
      BY <2>1, <2>3 DEF ScanTyped, Snapshot, Observed
    <3>2. (recent \in [Inside -> SUBSET Observed])'
      BY <1>1, <2>3 DEF ScanTyped, Observed
    <3>3. QED
      BY <1>1, <2>3, <3>1, <3>2 DEF ScanTyped
  <2>5. AsMarked'
    <3>1. \A n, from, upto : TouchedIn(n, from, upto)' <=> TouchedIn(n, from, upto)
      BY <1>1 DEF TouchedIn
    <3>2. \A n : Unsure(stored, n)' <=> Unsure(stored, n)
      BY <1>1 DEF Unsure, Mounted, Failed
    <3>3. PICK from, upto : from = stored.cursor.position /\ upto = barrier
      OBVIOUS
    <3>4. \A n : TouchedIn(n, from, upto)' <=> TouchedIn(n, from, upto)
      BY <3>1
    <3>5. \A n : TouchedIn(n, stored.cursor.position, barrier)' <=> TouchedIn(n, stored.cursor.position, barrier)
      BY <1>1, <3>3, <3>4
    <3>6. Usable(cursor)' <=> Usable(cursor)
      BY <1>1 DEF Usable, NoSnapshot, Missing
    <3>7. QED
      BY <1>1, <2>3, <3>2, <3>5, <3>6 DEF AsMarked
  <2>6. Walks'
    <3>1. SUFFICES ASSUME phase = "Walking" PROVE Walks'
      BY <1>1 DEF Walks
    <3>2. Later
      <4>1. /\ \A n : Covered(n)' <=> Covered(n)
            /\ \A n, from, upto : TouchedIn(n, from, upto)' <=> TouchedIn(n, from, upto)
            /\ \A e, n, from : Holds(e, n, from)' <=> Holds(e, n, from)
        BY <2>2, StillKeeps DEF WalkGoesOn
      <4>2. Len(log) \in Nat
        BY <2>3, LenProperties DEF DiskTyped
      <4>3. QED
        BY <1>1, <4>1, <4>2 DEF Later
    <3>3. UNCHANGED scans
      BY DEF vars
    <3>4. ScanKept
      BY <1>1, <3>3 DEF ScanKept
    <3>5. QED
      BY <2>3, <3>1, <3>2, <3>4, WalksAfter
  <2>7. Done'
    <3>1. Sound(Built) => Sound(Built)'
      <4>1. PICK s : s = Built
        OBVIOUS
      <4>2. Sound(s)' <=> Sound(s)
        BY <2>2, StillKeeps DEF WalkGoesOn
      <4>3. QED
        BY <2>1, <4>1, <4>2
    <3>2. ChargesOne => ChargesOne'
      BY <1>1 DEF ChargesOne, Charges, Built, SeveralNames, Missing
    <3>3. QED
      BY <1>1, <2>3, <3>1, <3>2 DEF Done, Unseen, Present, Missing
  <2>8. QED
    BY <2>2, <2>3, <2>4, <2>5, <2>6, <2>7, WalkStays DEF RescanInv

\* Every step keeps the invariant.
LEMMA RescanNext ==
  ASSUME OtherSpelling \subseteq {"Modified", "Created"}, ~MountsWhileScanning
  PROVE  RescanInv /\ [Next]_vars => RescanInv'
<1>1. SUFFICES ASSUME RescanInv, [Next]_vars PROVE RescanInv'
  OBVIOUS
<1>2. CASE DiskChanges
  BY <1>1, <1>2, RescanDiskKeeps
<1>3. CASE Take
  BY <1>1, <1>3, TakeKeeps
<1>4. CASE Mark
  BY <1>1, <1>4, MarkKeeps
<1>5. CASE Replay
  BY <1>1, <1>5, ReplayKeeps
<1>6. CASE ReadAll
  BY <1>1, <1>6, ReadAllKeeps
<1>7. CASE \E d \in Dirs : List(d) \/ Unreadable(d)
  BY <1>1, <1>7, ListKeeps, UnreadableKeeps
<1>8. CASE Finish
  BY <1>1, <1>8, FinishKeeps
<1>9. CASE Save \/ GiveUp
  BY <1>1, <1>9, EndKeeps
<1>10. CASE UNCHANGED vars
  BY <1>1, <1>10, RescanStays
<1>11. QED
  BY <1>1, <1>2, <1>3, <1>4, <1>5, <1>6, <1>7, <1>8, <1>9, <1>10 DEF Next, Scan

\* The invariant says what a finished tree has to show.
LEMMA DoneIsRecent ==
  RescanInv => EachIsRecent
  BY DEF RescanInv, Done, EachIsRecent

\* And what its counters and its charges have to be.
LEMMA DoneIsCharged ==
  RescanInv => ChargedAndCounted
<1>1. SUFFICES ASSUME RescanInv PROVE ChargedAndCounted
  OBVIOUS
<1>2. CountersAgree
  BY <1>1 DEF RescanInv, Done, CountersAgree, Present
<1>3. ChargedOnce
  <2>1. SUFFICES ASSUME phase = "Finished", \A n \in Inside : recent[n] = {Entry(n)}, NEW i \in FileInodes,
                        NEW ns, ns = {n \in Files : tree[n].of = i}, ns # {}
                 PROVE  Cardinality(ns \cap charged) = 1
    BY DEF ChargedOnce
  <2>2. /\ DiskTyped /\ ScanTyped /\ ChargesOne
        /\ \A n \in Inside : tree[n] # Missing => tree[n] \in recent[n]
    BY <1>1, <2>1 DEF RescanInv, Done
  <2>3. i \in Inodes /\ i # Absent /\ i # Foreign /\ Files \subseteq Inside
    BY Differ, DiskAssumption DEF Inodes, Inside, Names
  <2>4. ASSUME NEW n \in ns
        PROVE  /\ n \in Files /\ n \in Inside /\ own[n] = i /\ n \in NamesOf(i) /\ tree[n].of = i
               /\ tree[n].links = Links(i) /\ tree[n].links # 0
    <3>1. n \in Files /\ n \in Inside /\ tree[n].of = i
      BY <2>1, <2>3
    <3>2. tree[n] # Missing
      BY <2>3, <3>1, NoneIs DEF Missing
    <3>3. tree[n] = Entry(n)
      BY <2>1, <2>2, <3>1, <3>2
    <3>4. Entry(n) = OwnEntry(n) /\ own[n] = i
      BY <2>2, <2>3, <3>1, <3>3, EntriesAre
    <3>5. QED
      BY <2>2, <2>3, <3>1, <3>2, <3>3, <3>4, EntriesAre
  <2>5. Links(i) \in Nat
    BY <2>2, LinksAre
  <2>6. PICK n \in ns : TRUE
    BY <2>1
  <2>7. \E m : ns \cap charged = {m}
    <3>1. CASE Links(i) = 1
      <4>1. \A m \in ns : m = n
        <5>1. TAKE m \in ns
        <5>2. m \in NamesOf(i) /\ n \in NamesOf(i) /\ ~(Links(i) > 1)
          BY <2>4, <3>1
        <5>3. QED
          BY <2>2, <5>2, LinksAre
      <4>2. n \in charged
        BY <2>2, <2>4, <3>1 DEF ChargesOne, Charges, Built
      <4>3. QED
        BY <4>1, <4>2
    <3>2. CASE Links(i) > 1
      <4>1. \A m \in ns : SeveralNames(m) /\ tree[m].of = i
        BY <2>4, <3>2 DEF SeveralNames
      <4>2. PICK m \in charged : SeveralNames(m) /\ tree[m].of = tree[n].of
        BY <2>2, <2>4, <4>1 DEF ChargesOne
      <4>3. m \in ns
        BY <2>1, <2>4, <4>2 DEF SeveralNames
      <4>4. \A k \in ns \cap charged : k = m
        BY <2>2, <4>1, <4>2, <4>3 DEF ChargesOne
      <4>5. QED
        BY <4>2, <4>3, <4>4
    <3>3. Links(i) = 1 \/ Links(i) > 1
      BY <2>4, <2>5
    <3>4. QED
      BY <3>1, <3>2, <3>3
  <2>8. QED
    BY <2>7, FS_Singleton
<1>4. QED
  BY <1>2, <1>3 DEF ChargedAndCounted

\* Everything the rescan keeps, between scans and within one, for any tree of names,
\* any disks and any number of scans: snapshots are sound, and a scan under way is
\* one step of its plan, its walk or its splice (scan-core/src/rescan.rs; scan_recording
\* and walk of scan.rs).  As in the runs, names reported under another spelling are of
\* changes to contents or of new names, and nothing is mounted while a scan runs: of
\* either, the README says what happens otherwise.
THEOREM RescanHolds ==
  ASSUME OtherSpelling \subseteq {"Modified", "Created"}, ~MountsWhileScanning
  PROVE  Spec => []RescanInv
<1>1. RescanInv /\ [Next]_vars => RescanInv'
  BY RescanNext
<1>2. QED
  BY RescanBegins, <1>1, PTL DEF Spec

\* A scan built on the snapshot before it and on the journal says of each name what it
\* has been at some moment since the scan began, as one that reads everything would:
\* nothing stale is taken over from the base, unless the entry itself shows that it
\* may be, by its links, a volume or an error (rescan.rs; scan.rs, Walker::place).
THEOREM RescansAreRecent ==
  ASSUME OtherSpelling \subseteq {"Modified", "Created"}, ~MountsWhileScanning
  PROVE  Spec => []EachIsRecent
<1>1. Spec => []RescanInv
  BY RescanHolds
<1>2. QED
  BY <1>1, DoneIsRecent, PTL

\* A finished tree counts every entry and every error once, those taken over included,
\* and on a disk that stood still charges every file with several names to exactly one
\* of them, whether they were read, taken over, or both (scan.rs, claims and counters).
THEOREM RescansCharge ==
  ASSUME OtherSpelling \subseteq {"Modified", "Created"}, ~MountsWhileScanning
  PROVE  Spec => []ChargedAndCounted
<1>1. Spec => []RescanInv
  BY RescanHolds
<1>2. QED
  BY <1>1, DoneIsCharged, PTL

==============================================================================
