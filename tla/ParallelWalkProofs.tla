------------------------- MODULE ParallelWalkProofs -------------------------
(***************************************************************************)
(* Proofs about ParallelWalk, for every disk, tree and pool: the types     *)
(* with the counters that never wrap; that no block is counted twice and   *)
(* none is lost, in whatever order walkers meet the names that share it;   *)
(* that which name counts does not depend on that order; and that what a   *)
(* finished tree lacks has left a trace.                                   *)
(***************************************************************************)
EXTENDS ParallelWalk, FiniteSetTheorems, WellFoundedInduction, TLAPS

(***************************************************************************)
(* Byte totals.                                                            *)
(***************************************************************************)
Pairs(S, f) == {p \in S \X Blocks : p[2] \in f[p[1]]}

\* A total is that of a finite set of pairs.
LEMMA PairsFinite ==
  ASSUME NEW S, S \subseteq Names, NEW f
  PROVE  IsFiniteSet(Pairs(S, f)) /\ Total(S, f) = Cardinality(Pairs(S, f))
                                  /\ Total(S, f) \in Nat
<1>1. IsFiniteSet(S)
  BY FS_Subset, WalkAssumption
<1>2. IsFiniteSet(S \X Blocks)
  BY <1>1, FS_Product, WalkAssumption
<1>3. Pairs(S, f) \subseteq S \X Blocks
  BY DEF Pairs
<1>4. IsFiniteSet(Pairs(S, f))
  BY <1>2, <1>3, FS_Subset
<1>5. Total(S, f) = Cardinality(Pairs(S, f))
  BY DEF Total, Pairs
<1> QED
  BY <1>4, <1>5, FS_CardinalityType

\* More names, or more blocks at each, are no fewer bytes.
LEMMA TotalMono ==
  ASSUME NEW S, NEW T, S \subseteq T, T \subseteq Names, NEW f, NEW g,
         \A n \in S : f[n] \cap Blocks \subseteq g[n]
  PROVE  Total(S, f) <= Total(T, g)
<1>1. Pairs(S, f) \subseteq Pairs(T, g)
  BY DEF Pairs
<1>2. IsFiniteSet(Pairs(T, g)) /\ Total(T, g) = Cardinality(Pairs(T, g))
  BY PairsFinite
<1>3. Total(S, f) = Cardinality(Pairs(S, f))
  BY PairsFinite
<1>4. Cardinality(Pairs(S, f)) <= Cardinality(Pairs(T, g))
  BY <1>1, <1>2, FS_Subset
<1> QED
  BY <1>2, <1>3, <1>4

\* What is added at names that had none of it is added to the total.
LEMMA TotalAdds ==
  ASSUME NEW S, S \subseteq Names, NEW T, T \subseteq Names,
         NEW U, U \subseteq Names, S \cup T \subseteq U,
         NEW f, NEW g, NEW h,
         \A n \in S : f[n] \subseteq h[n],
         \A n \in T : g[n] \subseteq h[n],
         \A n \in U : \A b \in h[n] : (n \in S /\ b \in f[n]) \/ (n \in T /\ b \in g[n]),
         \A n \in S \cap T : f[n] \cap g[n] = {}
  PROVE  Total(U, h) = Total(S, f) + Total(T, g)
<1>1. Pairs(U, h) = Pairs(S, f) \cup Pairs(T, g)
  <2>1. Pairs(U, h) \subseteq Pairs(S, f) \cup Pairs(T, g)
    BY DEF Pairs
  <2>2. Pairs(S, f) \subseteq Pairs(U, h)
    BY DEF Pairs
  <2>3. Pairs(T, g) \subseteq Pairs(U, h)
    BY DEF Pairs
  <2> QED
    BY <2>1, <2>2, <2>3
<1>2. Pairs(S, f) \cap Pairs(T, g) = {}
  BY DEF Pairs
<1>3. IsFiniteSet(Pairs(S, f)) /\ Total(S, f) = Cardinality(Pairs(S, f))
  BY PairsFinite
<1>4. IsFiniteSet(Pairs(T, g)) /\ Total(T, g) = Cardinality(Pairs(T, g))
  BY PairsFinite
<1>5. Total(U, h) = Cardinality(Pairs(U, h))
  BY PairsFinite
<1>6. Cardinality(Pairs(S, f) \cup Pairs(T, g)) =
        Cardinality(Pairs(S, f)) + Cardinality(Pairs(T, g))
        - Cardinality(Pairs(S, f) \cap Pairs(T, g))
  BY <1>3, <1>4, FS_Union
<1>7. Cardinality({}) = 0
  BY FS_EmptySet
<1>8. Cardinality(Pairs(S, f)) \in Nat /\ Cardinality(Pairs(T, g)) \in Nat
  BY <1>3, <1>4, FS_CardinalityType
<1>9. Cardinality(Pairs(S, f) \cup Pairs(T, g)) =
        Cardinality(Pairs(S, f)) + Cardinality(Pairs(T, g))
  <2>1. Cardinality(Pairs(S, f) \cap Pairs(T, g)) = 0
    BY <1>2, <1>7
  <2>2. \A i, j, k \in Int : k = i + j - 0 => k = i + j
    OBVIOUS
  <2>3. Cardinality(Pairs(S, f) \cup Pairs(T, g)) \in Nat
    BY <1>3, <1>4, FS_Union, FS_CardinalityType
  <2> HIDE DEF Pairs
  <2> QED
    BY <1>6, <1>8, <2>1, <2>2, <2>3
<1>10. Total(U, h) = Cardinality(Pairs(S, f) \cup Pairs(T, g))
  BY <1>1, <1>5
<1> QED
  BY <1>3, <1>4, <1>9, <1>10

(***************************************************************************)
(* The inductive invariant.                                                *)
(***************************************************************************)
\* A name with one of these is counted, now or after the walk.
Counting == {"Full", "Unmapped", "Cloned", "Alloc"}

\* How a file's charge follows its directory's walker.
ChargeInv ==
  \A n \in Files :
    /\ charge[n] # "Undecided" => /\ at[Parent[n]] \in {"Linked", "Claimed", "Placed"}
                                 /\ n \notin disk.broken
    /\ charge[n] = "Cloned" => /\ at[Parent[n]] \in {"Claimed", "Placed"}
                              /\ Family(n) # NoFamily
    /\ charge[n] = "Unmapped" => Mapped(n)
    /\ charge[n] = "Alloc" => at[Parent[n]] = "Placed" /\ Mapped(n)
    /\ charge[n] = "Full" /\ at[Parent[n]] = "Placed" => ~Mapped(n)

\* One name of each file is counted, and its claim is recorded.
LinkInv ==
  /\ \A n \in Files : charge[n] \in Counting /\ IsHardlinked(n) => Ino(n) \in seenInodes
  /\ \A m, n \in Files :
       m # n /\ Ino(m) = Ino(n) /\ charge[m] \in Counting => charge[n] \notin Counting

\* A clone that is charged for its family.
Holds(n) ==
  charge[n] = "Full" /\ at[Parent[n]] \in {"Claimed", "Placed"} /\ Family(n) # NoFamily

FamilyInv ==
  /\ \A n \in Files : Holds(n) => Family(n) \in sharedBlocks
  /\ \A m, n \in Files : m # n /\ Family(m) = Family(n) /\ Holds(m) => ~Holds(n)

Settling == phase \in {"Walking", "Sharing", "Moving"}

\* Until families are settled the arena shows what the charges say.
Showing(n) ==
  IF n \in PlacedFiles
  THEN IF phase = "Moving" /\ n \in Waiting
       THEN Amount(n, charge[n]) \cup Fresh(n) ELSE Amount(n, charge[n])
  ELSE {}

ArenaInv == Settling => \A n \in Names : arena[n] = Showing(n)

ClonedFiles == {n \in Files : charge[n] = "Cloned"}

CounterInv ==
  Settling => /\ bytes = Total(Names, arena)
              /\ deduped >= Total(ClonedFiles, HeldBy)

OverInv == phase # "Walking" => WalkersDone

\* A directory is entered when the one it is in has been placed.
AboveInv == \A e \in Dirs \ {Root} : at[e] # "Unknown" => at[Parent[e]] = "Placed"

\* When the arena is no longer what the charges say.
OnceInv == phase \in {"Done", "Cancelled"} => CountedOnce

ClaimInv == ChargeInv /\ LinkInv /\ FamilyInv
WalkInv == TypeOK /\ ClaimInv /\ ArenaInv /\ CounterInv /\ OverInv /\ OnceInv /\ AboveInv

\* What the assumptions say of the disk and the tree.
LEMMA DiskFacts ==
  ASSUME disk \in Disks
  PROVE  /\ disk \in DiskRecords
         /\ Consistent(disk)
         /\ disk.ino \in [Files -> Inodes] /\ disk.family \in [Inodes -> Families \cup {NoFamily}]
         /\ disk.blocks \in [Inodes -> SUBSET Blocks]
         /\ \A n \in Files : Ino(n) \in Inodes /\ Held(n) \subseteq Blocks
                           /\ Family(n) \in Families \cup {NoFamily}
         /\ \A n \in Files : n \in Names \ {Root} /\ Parent[n] \in Dirs /\ n \notin Dirs /\ n \in Nat
         /\ Root \in Names
<1>1. disk \in DiskRecords /\ Consistent(disk)
  BY WalkAssumption
<1>2. /\ disk.ino \in [Files -> Inodes]
      /\ disk.family \in [Inodes -> Families \cup {NoFamily}]
      /\ disk.blocks \in [Inodes -> SUBSET Blocks]
  BY <1>1 DEF DiskRecords
<1>3. \A n \in Files : n \in Names \ {Root} /\ Parent[n] \in Dirs /\ n \notin Dirs /\ n \in Nat
  BY WalkAssumption DEF Names
<1>4. \A n \in Files : Ino(n) \in Inodes /\ Held(n) \subseteq Blocks
                      /\ Family(n) \in Families \cup {NoFamily}
  BY <1>2 DEF Ino, Held, Family
<1>5. Root \in Names
  BY WalkAssumption DEF Names
<1> QED
  BY <1>1, <1>2, <1>3, <1>4, <1>5

\* Names of two files share blocks as clones of one family or as extents.
LEMMA WhatIsShared ==
  ASSUME disk \in Disks, NEW m \in Files, NEW n \in Files, Ino(m) # Ino(n),
         NEW b, b \in Held(m), b \in Held(n)
  PROVE  \/ b \in Shared(m) /\ b \in Shared(n)
         \/ Family(m) = Family(n) /\ Family(m) # NoFamily
<1>1. Consistent(disk) /\ Ino(m) \in Inodes /\ Ino(n) \in Inodes
  BY DiskFacts
<1> QED
  BY <1>1 DEF Consistent, Held, Shared, Family

\* A clone shares no extents.
LEMMA ClonesAreNotMapped ==
  ASSUME disk \in Disks, NEW n \in Files, Family(n) # NoFamily
  PROVE  Shared(n) = {} /\ ~Mapped(n)
<1>1. Consistent(disk) /\ Ino(n) \in Inodes
  BY DiskFacts
<1>2. Shared(n) = {}
  BY <1>1 DEF Consistent, Shared, Held, Family
<1> QED
  BY <1>2 DEF Mapped

LEMMA LinkedNames ==
  ASSUME disk \in Disks, NEW m \in Files, NEW n \in Files, m # n, Ino(m) = Ino(n)
  PROVE  IsHardlinked(m) /\ IsHardlinked(n)
  BY DiskFacts DEF Consistent, Ino, IsHardlinked

\* What the charges say counts nothing twice.
LEMMA ShownOnce ==
  ASSUME TypeOK, ClaimInv, ArenaInv, Settling
  PROVE  CountedOnce
<1>1. SUFFICES ASSUME NEW m \in Names, NEW n \in Names, m # n,
                      NEW b, b \in arena[m], b \in arena[n]
               PROVE  b \in UNION {Held(k) : k \in InFull}
  BY DEF CountedOnce
<1>2. disk \in Disks /\ disk.unmapped \subseteq Files
  BY DiskFacts DEF TypeOK, DiskRecords
<1>3. ASSUME NEW k \in {m, n}
      PROVE  /\ k \in PlacedFiles /\ k \in Files
             /\ charge[k] \in {"Full", "Unmapped", "Alloc"}
             /\ b \in Held(k)
             /\ charge[k] = "Alloc" /\ b \in Shared(k) => phase = "Moving" /\ k \in Waiting /\ b \in Fresh(k)
  <2>1. b \in Showing(k)
    BY <1>1 DEF ArenaInv
  <2>2. k \in PlacedFiles /\ k \in Files
    BY <2>1 DEF Showing, PlacedFiles
  <2>3. charge[k] \in {"Full", "Unmapped", "Alloc"}
    BY <2>1, <2>2 DEF Showing, Amount, Waiting
  <2>4. b \in Held(k)
    BY <2>1, <2>2, <2>3 DEF Showing, Amount, Fresh, Shared
  <2>5. charge[k] = "Alloc" /\ b \in Shared(k) => phase = "Moving" /\ k \in Waiting /\ b \in Fresh(k)
    BY <2>1, <2>2, <2>3 DEF Showing, Amount
  <2> QED
    BY <2>2, <2>3, <2>4, <2>5
<1>4. m \in Files /\ n \in Files /\ at[Parent[m]] = "Placed" /\ at[Parent[n]] = "Placed"
  BY <1>2, <1>3, DiskFacts DEF PlacedFiles, Placed
<1>5. Ino(m) # Ino(n)
  BY <1>1, <1>3, <1>4 DEF ClaimInv, LinkInv, Counting
<1>6. ~(Family(m) = Family(n) /\ Family(m) # NoFamily)
  <2>1. SUFFICES ASSUME Family(m) = Family(n), Family(m) # NoFamily
                 PROVE  FALSE
    OBVIOUS
  <2>2. ~Mapped(m) /\ ~Mapped(n)
    BY <1>2, <1>4, <2>1, ClonesAreNotMapped
  <2>3. charge[m] = "Full" /\ charge[n] = "Full"
    BY <1>3, <1>4, <2>2 DEF ClaimInv, ChargeInv
  <2>4. Holds(m) /\ Holds(n)
    BY <1>4, <2>1, <2>3 DEF Holds
  <2> QED
    BY <1>1, <1>4, <2>1, <2>4 DEF ClaimInv, FamilyInv
<1>7. b \in Shared(m) /\ b \in Shared(n)
  BY <1>2, <1>3, <1>4, <1>5, <1>6, WhatIsShared
<1>8. ASSUME NEW k \in {m, n}, charge[k] \in {"Full", "Unmapped"}
      PROVE  b \in UNION {Held(j) : j \in InFull}
  <2>1. charge[k] = "Full" => ~Mapped(k)
    BY <1>4 DEF ClaimInv, ChargeInv
  <2>2. k \in InFull
    BY <1>4, <1>7, <1>8, <2>1 DEF Mapped, InFull
  <2> QED
    BY <1>3, <2>2
<1>9. ASSUME charge[m] = "Alloc", charge[n] = "Alloc"
      PROVE  FALSE
  <2>1. /\ b \in Fresh(m) /\ b \in Fresh(n) /\ m \in Waiting /\ n \in Waiting
    BY <1>3, <1>7, <1>9
  <2>2. m \in Nat /\ n \in Nat
    BY <1>2, <1>4, DiskFacts
  <2>3. CASE m < n
    BY <1>7, <2>1, <2>3 DEF Fresh
  <2>4. CASE n < m
    BY <1>7, <2>1, <2>4 DEF Fresh
  <2> QED
    BY <1>1, <2>2, <2>3, <2>4
<1> QED
  BY <1>3, <1>8, <1>9

(***************************************************************************)
(* Steps.                                                                  *)
(***************************************************************************)
\* While the disk stays what it is, so does what is read of it.
LEMMA DiskStays ==
  ASSUME disk' = disk
  PROVE  /\ \A n : /\ Ino(n)' = Ino(n) /\ Family(n)' = Family(n) /\ Held(n)' = Held(n)
                  /\ Shared(n)' = Shared(n) /\ (Mapped(n)' <=> Mapped(n))
                  /\ (IsHardlinked(n)' <=> IsHardlinked(n))
         /\ HeldBy' = HeldBy
         /\ \A d : FilesIn(d)' = FilesIn(d)
  BY DEF Ino, Family, Held, Shared, Mapped, IsHardlinked, HeldBy, FilesIn, Listing, Children

\* A walker at work means the walk is not over.
LEMMA StillWalking ==
  ASSUME WalkInv, NEW d \in Dirs, at[d] \in {"Queued", "Listed", "Linked", "Claimed"}
  PROVE  phase = "Walking"
  BY DEF WalkInv, OverInv, WalkersDone

\* The files of a directory.
LEMMA FilesOf ==
  ASSUME disk \in Disks, NEW d \in Dirs
  PROVE  \A n \in FilesIn(d) : n \in Files /\ n \in Names \ {Root} /\ Parent[n] = d /\ n \notin disk.broken
  BY DiskFacts DEF FilesIn, Listing, Children

\* A directory that is read, or left out, changes nobody's charge.
LEMMA ListingStep ==
  ASSUME WalkInv, NEW d \in Dirs, Skip(d) \/ List(d)
  PROVE  WalkInv'
<1> USE DEF WalkInv
<1>1. /\ at[d] = "Queued" /\ disk' = disk /\ phase' = phase
      /\ UNCHANGED <<cancelled, charge, seenInodes, sharedBlocks, arena, bytes, deduped>>
  BY DEF Skip, List, Walker, claims, counters
<1>2. PICK to \in {"Skipped", "Listed"} : at' = [at EXCEPT ![d] = to]
  BY DEF Skip, List, Walker
<1>3. phase = "Walking"
  BY <1>1, StillWalking
<1>4. at \in [Dirs -> Places] /\ disk \in Disks /\ charge \in [Files -> Charges]
  BY DEF TypeOK
<1>5. \A e \in Dirs : e # d => at'[e] = at[e]
  BY <1>2, <1>4
<1>6. at'[d] = to
  BY <1>2, <1>4
<1>7. TypeOK'
  <2>1. at' \in [Dirs -> Places]
    BY <1>2, <1>4 DEF Places
  <2>2. errored' \subseteq Dirs
    BY DEF TypeOK, Skip, List, ListErrors
  <2> QED
    BY <1>1, <2>1, <2>2 DEF TypeOK
<1>8. Placed' = Placed
  <2>1. \A n \in Names \ {Root} : at'[Parent[n]] = "Placed" <=> at[Parent[n]] = "Placed"
    BY <1>1, <1>5, <1>6, WalkAssumption
  <2> QED
    BY <1>1, <2>1 DEF Placed
<1>9. ClaimInv'
  <2>1. \A n \in Files : Parent[n] \in Dirs
    BY <1>4, DiskFacts
  <2>2. ChargeInv'
    BY <1>1, <1>4, <1>5, <1>6, <2>1, DiskStays DEF ClaimInv, ChargeInv
  <2>3. LinkInv'
    BY <1>1, DiskStays DEF ClaimInv, LinkInv
  <2>4. \A n \in Files : Holds(n)' => Holds(n)
    BY <1>1, <1>5, <1>6, <2>1, DiskStays DEF Holds
  <2>5. FamilyInv'
    BY <1>1, <2>4, DiskStays DEF ClaimInv, FamilyInv
  <2> QED
    BY <2>2, <2>3, <2>5 DEF ClaimInv
<1>10. ArenaInv'
  <2>1. \A n \in Names : Showing(n)' = Showing(n)
    BY <1>1, <1>3, <1>8, DiskStays DEF Showing, PlacedFiles, Amount
  <2> QED
    BY <1>1, <2>1 DEF ArenaInv, Settling
<1>11. CounterInv'
  BY <1>1, DiskStays DEF CounterInv, Settling, ClonedFiles, Total
<1>12. OverInv' /\ OnceInv'
  BY <1>1, <1>3 DEF OverInv, OnceInv
<1>13. AboveInv'
  BY <1>1, <1>5, <1>6, WalkAssumption DEF AboveInv, Names
<1> QED
  BY <1>7, <1>9, <1>10, <1>11, <1>12, <1>13

\* Claims on hard links: a name is kept only for a file nobody has claimed.
LEMMA ClaimLinksStep ==
  ASSUME WalkInv, NEW d \in Dirs, ClaimLinks(d)
  PROVE  WalkInv'
<1> USE DEF WalkInv
<1>1. /\ at[d] = "Listed" /\ at' = [at EXCEPT ![d] = "Linked"]
      /\ disk' = disk /\ phase' = phase
      /\ UNCHANGED <<cancelled, sharedBlocks, arena, errored, bytes, deduped>>
      /\ seenInodes' = seenInodes \cup {Ino(n) : n \in LinkedIn(d)}
  BY DEF ClaimLinks, Walker, counters
<1>2. PICK kept \in SUBSET LinkedIn(d), missed \in SUBSET Missed(d) :
        /\ FirstLinks(kept, LinkedIn(d))
        /\ charge' = [n \in Files |->
             IF n \in LinkedIn(d) \ kept THEN "Nothing"
             ELSE IF n \in missed THEN "Unmapped"
             ELSE IF n \in FilesIn(d) THEN "Full" ELSE charge[n]]
  BY DEF ClaimLinks
<1>3. phase = "Walking"
  BY <1>1, StillWalking
<1>4. at \in [Dirs -> Places] /\ disk \in Disks /\ charge \in [Files -> Charges]
  BY DEF TypeOK
<1>5. /\ at'[d] = "Linked" /\ \A e \in Dirs : e # d => at'[e] = at[e]
      /\ \A n \in Files : Parent[n] \in Dirs
  BY <1>1, <1>4, DiskFacts
<1>6. \A n \in FilesIn(d) : n \in Files /\ n \in Names \ {Root} /\ Parent[n] = d /\ n \notin disk.broken
  BY <1>4, FilesOf
<1>7. \A n \in Files : Parent[n] = d => charge[n] = "Undecided"
  BY <1>1 DEF ClaimInv, ChargeInv
<1>8. \A n \in Files : n \notin FilesIn(d) => charge'[n] = charge[n]
  BY <1>2 DEF LinkedIn, Missed
<1>9. \A n \in FilesIn(d) : charge'[n] \in {"Full", "Unmapped", "Nothing"}
  BY <1>2, <1>6
<1>m. \A n \in FilesIn(d) : charge'[n] = "Unmapped" => Mapped(n)
  BY <1>2, <1>6 DEF Missed
<1>10. TypeOK'
  <2>1. at' \in [Dirs -> Places]
    BY <1>1, <1>4 DEF Places
  <2>2. charge' \in [Files -> Charges]
    BY <1>2, <1>4 DEF Charges
  <2>3. seenInodes' \subseteq Inodes
    BY <1>1, <1>4, <1>6, DiskFacts DEF TypeOK, LinkedIn
  <2> QED
    BY <1>1, <2>1, <2>2, <2>3 DEF TypeOK
<1>11. Placed' = Placed
  <2>1. \A n \in Names \ {Root} : at'[Parent[n]] = "Placed" <=> at[Parent[n]] = "Placed"
    BY <1>1, <1>5, WalkAssumption
  <2> QED
    BY <1>1, <2>1 DEF Placed
<1>12. ChargeInv'
  <2>1. ASSUME NEW n \in Files, n \in FilesIn(d)
        PROVE  /\ charge'[n] \in {"Full", "Unmapped", "Nothing"} /\ at'[Parent[n]] = "Linked"
               /\ charge'[n] = "Unmapped" => Mapped(n)
               /\ n \notin disk'.broken
    BY <1>1, <1>5, <1>6, <1>9, <1>m, <2>1
  <2>2. ASSUME NEW n \in Files, n \notin FilesIn(d)
        PROVE  /\ charge'[n] = charge[n]
               /\ Parent[n] = d => charge[n] = "Undecided"
               /\ Parent[n] # d => at'[Parent[n]] = at[Parent[n]]
    BY <1>5, <1>7, <1>8, <2>2
  <2> QED
    BY <1>1, <2>1, <2>2, DiskStays DEF ClaimInv, ChargeInv
<1>13. LinkInv'
  <2>1. ASSUME NEW n \in FilesIn(d), charge'[n] \in Counting, IsHardlinked(n)
        PROVE  n \in kept /\ Ino(n) \notin seenInodes /\ Ino(n) \in seenInodes'
    <3>1. n \in LinkedIn(d)
      BY <2>1 DEF LinkedIn
    <3>2. n \in kept
      BY <1>2, <1>6, <2>1, <3>1 DEF Counting
    <3> QED
      BY <1>1, <1>2, <3>1, <3>2 DEF FirstLinks
  <2>2. ASSUME NEW n \in Files, charge'[n] \in Counting, IsHardlinked(n)'
        PROVE  Ino(n)' \in seenInodes'
    BY <1>1, <1>8, <2>1, <2>2, DiskStays DEF ClaimInv, LinkInv
  <2>3. ASSUME NEW m \in Files, NEW n \in Files, m # n, Ino(m) = Ino(n),
               charge'[m] \in Counting, charge'[n] \in Counting
        PROVE  FALSE
    <3>1. IsHardlinked(m) /\ IsHardlinked(n)
      BY <1>4, <2>3, LinkedNames
    <3>2. CASE m \in FilesIn(d) /\ n \in FilesIn(d)
      BY <1>2, <2>1, <2>3, <3>1, <3>2 DEF FirstLinks
    <3>3. CASE m \in FilesIn(d) /\ n \notin FilesIn(d)
      BY <1>8, <2>1, <2>3, <3>1, <3>3 DEF ClaimInv, LinkInv
    <3>4. CASE m \notin FilesIn(d) /\ n \in FilesIn(d)
      BY <1>8, <2>1, <2>3, <3>1, <3>4 DEF ClaimInv, LinkInv
    <3>5. CASE m \notin FilesIn(d) /\ n \notin FilesIn(d)
      BY <1>8, <2>3, <3>5 DEF ClaimInv, LinkInv
    <3> QED
      BY <3>2, <3>3, <3>4, <3>5
  <2> QED
    BY <1>1, <2>2, <2>3, DiskStays DEF LinkInv
<1>14. FamilyInv'
  <2>1. ASSUME NEW n \in Files, Holds(n)'
        PROVE  Holds(n) /\ Family(n)' = Family(n)
    <3>1. Parent[n] # d
      BY <1>5, <2>1 DEF Holds
    <3>2. n \notin FilesIn(d)
      BY <1>6, <3>1
    <3> QED
      BY <1>1, <1>5, <1>8, <2>1, <3>1, <3>2, DiskStays DEF Holds
  <2> QED
    BY <1>1, <2>1, DiskStays DEF ClaimInv, FamilyInv
<1>15. ArenaInv'
  <2>1. \A n \in PlacedFiles : n \notin FilesIn(d)
    BY <1>1, <1>6 DEF PlacedFiles, Placed
  <2>2. \A n \in PlacedFiles : charge'[n] = charge[n] /\ n \in Files
    BY <1>8, <2>1 DEF PlacedFiles
  <2>3. \A n \in Names : Showing(n)' = Showing(n)
    BY <1>1, <1>3, <1>11, <2>2, DiskStays DEF Showing, PlacedFiles, Amount
  <2> QED
    BY <1>1, <2>3 DEF ArenaInv, Settling
<1>16. CounterInv'
  <2>1. ClonedFiles' = ClonedFiles
    BY <1>6, <1>7, <1>8, <1>9 DEF ClonedFiles
  <2> QED
    BY <1>1, <2>1, DiskStays DEF CounterInv, Settling, Total
<1>17. OverInv' /\ OnceInv'
  BY <1>1, <1>3 DEF OverInv, OnceInv
<1>18. AboveInv'
  BY <1>1, <1>5, WalkAssumption DEF AboveInv, Names
<1> QED
  BY <1>10, <1>12, <1>13, <1>14, <1>15, <1>16, <1>17, <1>18 DEF ClaimInv

\* Claims on clone families, of the names that are counted.
LEMMA ClaimClonesStep ==
  ASSUME WalkInv, NEW d \in Dirs, ClaimClones(d)
  PROVE  WalkInv'
<1> USE DEF WalkInv
<1>1. /\ at[d] = "Linked" /\ at' = [at EXCEPT ![d] = "Claimed"]
      /\ disk' = disk /\ phase' = phase
      /\ UNCHANGED <<cancelled, seenInodes, arena, errored, bytes>>
      /\ sharedBlocks' = sharedBlocks \cup {Family(n) : n \in ClonesIn(d)}
  BY DEF ClaimClones, Walker
<1>2. PICK kept \in SUBSET ClonesIn(d) :
        /\ FirstClones(kept, ClonesIn(d))
        /\ charge' = [n \in Files |-> IF n \in ClonesIn(d) \ kept THEN "Cloned" ELSE charge[n]]
        /\ deduped' = deduped + CloneBytes(ClonesIn(d) \ kept)
  BY DEF ClaimClones
<1>3. phase = "Walking"
  BY <1>1, StillWalking
<1>4. at \in [Dirs -> Places] /\ disk \in Disks /\ charge \in [Files -> Charges]
  BY DEF TypeOK
<1>5. /\ at'[d] = "Claimed" /\ \A e \in Dirs : e # d => at'[e] = at[e]
      /\ \A n \in Files : Parent[n] \in Dirs
  BY <1>1, <1>4, DiskFacts
<1>6. \A n \in FilesIn(d) : n \in Files /\ n \in Names \ {Root} /\ Parent[n] = d /\ n \notin disk.broken
  BY <1>4, FilesOf
<1>7. \A n \in Files : Parent[n] = d => charge[n] \in {"Undecided", "Full", "Unmapped", "Nothing"}
  BY <1>1, <1>4 DEF ClaimInv, ChargeInv, Charges
<1>8. \A n \in ClonesIn(d) : n \in FilesIn(d) /\ charge[n] = "Full" /\ Family(n) # NoFamily
  BY DEF ClonesIn
<1>9. \A n \in Files : n \notin FilesIn(d) => charge'[n] = charge[n]
  BY <1>2, <1>8
<1>10. \A n \in Files : charge'[n] \in Counting <=> charge[n] \in Counting
  BY <1>2, <1>8 DEF Counting
<1>11. CloneBytes(ClonesIn(d) \ kept) \in Nat
  <2>1. ClonesIn(d) \ kept \subseteq Names
    BY <1>6, <1>8
  <2> QED
    BY <2>1, PairsFinite DEF CloneBytes
<1>12. TypeOK'
  <2>1. at' \in [Dirs -> Places]
    BY <1>1, <1>4 DEF Places
  <2>2. charge' \in [Files -> Charges]
    BY <1>2, <1>4 DEF Charges
  <2>3. sharedBlocks' \subseteq Families
    BY <1>1, <1>4, <1>6, <1>8, DiskFacts DEF TypeOK
  <2>4. deduped' \in Nat
    BY <1>2, <1>11 DEF TypeOK
  <2> QED
    BY <1>1, <2>1, <2>2, <2>3, <2>4 DEF TypeOK
<1>13. Placed' = Placed
  <2>1. \A n \in Names \ {Root} : at'[Parent[n]] = "Placed" <=> at[Parent[n]] = "Placed"
    BY <1>1, <1>5, WalkAssumption
  <2> QED
    BY <1>1, <2>1 DEF Placed
<1>14. ChargeInv'
  <2>1. ASSUME NEW n \in Files, n \in ClonesIn(d) \ kept
        PROVE  /\ charge'[n] = "Cloned" /\ at'[Parent[n]] = "Claimed"
               /\ n \notin disk'.broken /\ Family(n) # NoFamily
    BY <1>1, <1>2, <1>5, <1>6, <1>8, <2>1
  <2>2. ASSUME NEW n \in Files, n \notin ClonesIn(d) \ kept
        PROVE  /\ charge'[n] = charge[n]
               /\ Parent[n] = d => charge[n] \in {"Undecided", "Full", "Unmapped", "Nothing"}
                                   /\ at'[Parent[n]] = "Claimed"
               /\ Parent[n] # d => at'[Parent[n]] = at[Parent[n]]
    BY <1>2, <1>5, <1>7, <2>2
  <2> QED
    BY <1>1, <2>1, <2>2, DiskStays DEF ClaimInv, ChargeInv
<1>15. LinkInv'
  BY <1>1, <1>10, DiskStays DEF ClaimInv, LinkInv
<1>16. FamilyInv'
  <2>1. ASSUME NEW n \in FilesIn(d), Holds(n)'
        PROVE  n \in kept /\ Family(n) \notin sharedBlocks /\ Family(n) \in sharedBlocks'
    <3>1. charge'[n] = "Full" /\ Family(n) # NoFamily
      BY <1>1, <2>1, DiskStays DEF Holds
    <3>2. charge[n] = "Full"
      BY <1>2, <1>6, <3>1
    <3>3. n \in ClonesIn(d)
      BY <3>1, <3>2 DEF ClonesIn
    <3>4. n \in kept
      BY <1>2, <1>6, <3>1, <3>3
    <3> QED
      BY <1>1, <1>2, <3>3, <3>4 DEF FirstClones
  <2>2. ASSUME NEW n \in Files, n \notin FilesIn(d), Holds(n)'
        PROVE  Holds(n)
    <3>1. CASE Parent[n] # d
      BY <1>1, <1>5, <1>9, <2>2, <3>1, DiskStays DEF Holds
    <3>2. CASE Parent[n] = d
      <4>1. n \in disk.broken
        BY <1>4, <2>2, <3>2, DiskFacts DEF FilesIn, Listing, Children
      <4> QED
        BY <1>9, <2>2, <4>1 DEF Holds, ClaimInv, ChargeInv
    <3> QED
      BY <3>1, <3>2
  <2>3. ASSUME NEW n \in Files, Holds(n)'
        PROVE  Family(n)' \in sharedBlocks'
    BY <1>1, <2>1, <2>2, <2>3, DiskStays DEF ClaimInv, FamilyInv
  <2>4. ASSUME NEW m \in Files, NEW n \in Files, m # n, Family(m) = Family(n),
               Holds(m)', Holds(n)'
        PROVE  FALSE
    <3>1. CASE m \in FilesIn(d) /\ n \in FilesIn(d)
      BY <1>2, <2>1, <2>4, <3>1 DEF FirstClones
    <3>2. CASE m \in FilesIn(d) /\ n \notin FilesIn(d)
      BY <2>1, <2>2, <2>4, <3>2 DEF ClaimInv, FamilyInv
    <3>3. CASE m \notin FilesIn(d) /\ n \in FilesIn(d)
      BY <2>1, <2>2, <2>4, <3>3 DEF ClaimInv, FamilyInv
    <3>4. CASE m \notin FilesIn(d) /\ n \notin FilesIn(d)
      BY <2>2, <2>4, <3>4 DEF ClaimInv, FamilyInv
    <3> QED
      BY <3>1, <3>2, <3>3, <3>4
  <2> QED
    BY <1>1, <2>3, <2>4, DiskStays DEF FamilyInv
<1>17. ArenaInv'
  <2>1. \A n \in PlacedFiles : n \notin FilesIn(d)
    BY <1>1, <1>6 DEF PlacedFiles, Placed
  <2>2. \A n \in PlacedFiles : charge'[n] = charge[n] /\ n \in Files
    BY <1>9, <2>1 DEF PlacedFiles
  <2>3. \A n \in Names : Showing(n)' = Showing(n)
    BY <1>1, <1>3, <1>13, <2>2, DiskStays DEF Showing, PlacedFiles, Amount
  <2> QED
    BY <1>1, <2>3 DEF ArenaInv, Settling
<1>18. CounterInv'
  <2>1. ClonedFiles' = ClonedFiles \cup (ClonesIn(d) \ kept)
    BY <1>2, <1>6, <1>8 DEF ClonedFiles
  <2>2. ClonedFiles \cap (ClonesIn(d) \ kept) = {}
    BY <1>8 DEF ClonedFiles
  <2>3. ClonedFiles \subseteq Names /\ ClonesIn(d) \ kept \subseteq Names /\ ClonedFiles' \subseteq Names
    BY <1>6, <1>8 DEF ClonedFiles, Names
  <2>4. Total(ClonedFiles', HeldBy) = Total(ClonedFiles, HeldBy) + Total(ClonesIn(d) \ kept, HeldBy)
    BY <2>1, <2>2, <2>3, TotalAdds
  <2>5. Total(ClonedFiles, HeldBy) \in Nat /\ Total(ClonesIn(d) \ kept, HeldBy) \in Nat
    BY <2>3, PairsFinite
  <2>6. deduped \in Nat /\ deduped >= Total(ClonedFiles, HeldBy) /\ bytes = Total(Names, arena)
    BY <1>3 DEF TypeOK, CounterInv, Settling
  <2>7. deduped' >= Total(ClonedFiles', HeldBy)
    BY <1>2, <2>4, <2>5, <2>6 DEF CloneBytes
  <2>8. Total(ClonedFiles, HeldBy)' = Total(ClonedFiles', HeldBy)
    BY <1>1, DiskStays DEF Total
  <2>9. Total(Names, arena)' = Total(Names, arena)
    BY <1>1 DEF Total
  <2> QED
    BY <1>1, <2>6, <2>7, <2>8, <2>9 DEF CounterInv
<1>19. OverInv' /\ OnceInv'
  BY <1>1, <1>3 DEF OverInv, OnceInv
<1>20. AboveInv'
  BY <1>1, <1>5, WalkAssumption DEF AboveInv, Names
<1> QED
  BY <1>12, <1>14, <1>15, <1>16, <1>17, <1>18, <1>19, <1>20 DEF ClaimInv

\* A block of the arena: what the charges of its files say, and the bytes.
LEMMA PlaceStep ==
  ASSUME WalkInv, NEW d \in Dirs, Place(d)
  PROVE  WalkInv'
<1> USE DEF WalkInv
<1>1. /\ at[d] = "Claimed" /\ at' = Entering(d) /\ charge' = OwnExtents(d)
      /\ disk' = disk /\ phase' = phase
      /\ UNCHANGED <<cancelled, seenInodes, sharedBlocks, deduped>>
      /\ arena' = [n \in Names |-> IF n \in FilesIn(d) THEN Amount(n, OwnExtents(d)[n])
                                  ELSE arena[n]]
      /\ bytes' = bytes + Total(FilesIn(d), arena')
  BY DEF Place, claims
<1>2. phase = "Walking"
  BY <1>1, StillWalking
<1>3. /\ at \in [Dirs -> Places] /\ disk \in Disks /\ charge \in [Files -> Charges]
      /\ arena \in [Names -> SUBSET Blocks]
  BY DEF TypeOK
<1>4. \A n \in Files : Parent[n] \in Dirs /\ n \in Names /\ n \notin Dirs /\ Held(n) \subseteq Blocks
  BY <1>3, DiskFacts
<1>5. \A n \in FilesIn(d) : n \in Files /\ n \in Names \ {Root} /\ Parent[n] = d /\ n \notin disk.broken
  BY <1>3, FilesOf
<1>6. /\ at'[d] = "Placed"
      /\ \A e \in Dirs : e # d => at'[e] = at[e] \/ (at[e] = "Unknown" /\ at'[e] = "Queued")
  <2>1. at'[d] = "Placed" /\ \A e \in Dirs : e # d => at'[e] = at[e] \/ (Descends(d, e) /\ at'[e] = "Queued")
    BY <1>1 DEF Entering
  <2>2. \A e \in Dirs : Descends(d, e) => e # Root /\ Parent[e] = d
    BY DEF Descends, Listing, Children
  <2>3. \A e \in Dirs : Descends(d, e) => at[e] = "Unknown"
    BY <1>1, <2>2 DEF AboveInv
  <2> QED
    BY <2>1, <2>3
<1>7. \A n \in Files :
        \/ charge'[n] = charge[n] /\ ~(n \in FilesIn(d) /\ charge[n] = "Full" /\ Mapped(n))
        \/ n \in FilesIn(d) /\ charge[n] = "Full" /\ Mapped(n) /\ charge'[n] = "Alloc"
  BY <1>1 DEF OwnExtents
<1>8. \A n \in Files : charge[n] # "Undecided" /\ Parent[n] = d => n \in FilesIn(d)
  <2>1. ASSUME NEW n \in Files, charge[n] # "Undecided", Parent[n] = d
        PROVE  n \in FilesIn(d)
    BY <1>3, <2>1, DiskFacts DEF ClaimInv, ChargeInv, FilesIn, Listing, Children
  <2> QED
    BY <2>1
<1>9. TypeOK'
  <2>1. at' \in [Dirs -> Places]
    BY <1>1, <1>3 DEF Entering, Places
  <2>2. charge' \in [Files -> Charges]
    BY <1>1, <1>3 DEF OwnExtents, Charges
  <2>3. \A n \in FilesIn(d) : Amount(n, OwnExtents(d)[n]) \in SUBSET Blocks
    BY <1>4, <1>5 DEF Amount
  <2>4. arena' \in [Names -> SUBSET Blocks]
    BY <1>1, <1>3, <2>3
  <2>5. errored' \subseteq Dirs
    BY DEF Place, TypeOK, DepthErrors
  <2>6. Total(FilesIn(d), arena') \in Nat
    BY <1>5, PairsFinite
  <2>7. bytes' \in Nat
    BY <1>1, <2>6 DEF TypeOK
  <2> QED
    BY <1>1, <2>1, <2>2, <2>4, <2>5, <2>7 DEF TypeOK
<1>10. \A n \in Files : n \in Placed' <=> n \in Placed \/ n \in FilesIn(d)
  <2>1. \A n \in Files : n \in FilesIn(d) <=> Parent[n] = d /\ n \notin disk.broken
    BY <1>3, <1>5, DiskFacts DEF FilesIn, Listing, Children
  <2>2. \A n \in Files : at'[Parent[n]] = "Placed" <=> at[Parent[n]] = "Placed" \/ Parent[n] = d
    BY <1>4, <1>6
  <2>3. \A n \in Files : n \in Placed <=> at[Parent[n]] = "Placed" /\ n \notin disk.broken
    BY <1>3, DiskFacts DEF Placed
  <2>4. \A n \in Files : n \in Placed' <=> at'[Parent[n]] = "Placed" /\ n \notin disk.broken
    BY <1>1, <1>3, DiskFacts DEF Placed
  <2> QED
    BY <2>1, <2>2, <2>3, <2>4
<1>11. ChargeInv'
  <2>1. ASSUME NEW n \in Files, Parent[n] = d
        PROVE  /\ at'[Parent[n]] = "Placed"
               /\ charge'[n] # "Undecided" => n \notin disk.broken
               /\ charge'[n] = "Cloned" => charge[n] = "Cloned"
               /\ charge'[n] \in {"Unmapped", "Alloc"} => Mapped(n)
               /\ charge'[n] = "Full" => ~Mapped(n)
    BY <1>1, <1>5, <1>6, <1>7, <1>8, <2>1 DEF ClaimInv, ChargeInv
  <2>2. ASSUME NEW n \in Files, Parent[n] # d
        PROVE  /\ charge'[n] = charge[n]
               /\ \/ at'[Parent[n]] = at[Parent[n]]
                  \/ at[Parent[n]] = "Unknown" /\ at'[Parent[n]] = "Queued"
    BY <1>4, <1>5, <1>6, <1>7, <2>2
  <2> QED
    BY <1>1, <2>1, <2>2, DiskStays DEF ClaimInv, ChargeInv
<1>12. LinkInv'
  <2>1. \A n \in Files : charge'[n] \in Counting <=> charge[n] \in Counting
    BY <1>7 DEF Counting
  <2> QED
    BY <1>1, <2>1, DiskStays DEF ClaimInv, LinkInv
<1>13. FamilyInv'
  <2>1. ASSUME NEW n \in Files, Holds(n)'
        PROVE  Holds(n)
    <3>1. charge[n] = "Full" /\ Family(n) # NoFamily
      BY <1>1, <1>7, <2>1, DiskStays DEF Holds
    <3>2. at[Parent[n]] \in {"Claimed", "Placed"}
      BY <1>1, <1>4, <1>6, <2>1 DEF Holds
    <3> QED
      BY <3>1, <3>2 DEF Holds
  <2> QED
    BY <1>1, <2>1, DiskStays DEF ClaimInv, FamilyInv
<1>14. ArenaInv'
  <2>1. ASSUME NEW n \in Names
        PROVE  arena'[n] = Showing(n)'
    <3>1. CASE n \in FilesIn(d)
      BY <1>1, <1>2, <1>5, <1>10, <3>1, DiskStays DEF Showing, PlacedFiles, Amount
    <3>2. CASE n \notin FilesIn(d)
      <4>1. arena'[n] = Showing(n)
        BY <1>1, <1>2, <3>2 DEF ArenaInv, Settling
      <4>2. n \in PlacedFiles' <=> n \in PlacedFiles
        BY <1>10, <3>2 DEF PlacedFiles
      <4>3. n \in Files => charge'[n] = charge[n]
        BY <1>7, <3>2
      <4> QED
        BY <1>1, <1>2, <4>1, <4>2, <4>3, DiskStays DEF Showing, PlacedFiles, Amount
    <3> QED
      BY <3>1, <3>2
  <2> QED
    BY <2>1 DEF ArenaInv
<1>15. CounterInv'
  <2>1. \A n \in FilesIn(d) : arena[n] = {}
    BY <1>1, <1>2, <1>5 DEF ArenaInv, Settling, Showing, PlacedFiles, Placed
  <2>2. FilesIn(d) \subseteq Names
    BY <1>5
  <2>3. /\ \A n \in Names : arena[n] \subseteq arena'[n]
        /\ \A n \in Names : \A b \in arena'[n] :
             b \in arena[n] \/ (n \in FilesIn(d) /\ b \in arena'[n])
        /\ \A n \in Names \cap FilesIn(d) : arena[n] \cap arena'[n] = {}
    BY <1>1, <2>1
  <2>4. Total(Names, arena') = Total(Names, arena) + Total(FilesIn(d), arena')
    BY <2>2, <2>3, TotalAdds
  <2>5. ClonedFiles' = ClonedFiles
    BY <1>7 DEF ClonedFiles
  <2>6. Total(Names, arena)' = Total(Names, arena')
    BY DEF Total
  <2>7. bytes' = Total(Names, arena')
    BY <1>1, <1>2, <2>4 DEF CounterInv, Settling
  <2>8. deduped' >= Total(ClonedFiles, HeldBy)'
    BY <1>1, <1>2, <2>5, DiskStays DEF CounterInv, Settling, Total
  <2> QED
    BY <2>6, <2>7, <2>8 DEF CounterInv
<1>16. OverInv' /\ OnceInv'
  BY <1>1, <1>2 DEF OverInv, OnceInv
<1>17. AboveInv'
  <2>1. ASSUME NEW e \in Dirs \ {Root}, at'[e] # "Unknown"
        PROVE  at'[Parent[e]] = "Placed"
    <3>1. e \in Names \ {Root} /\ Parent[e] \in Dirs
      BY WalkAssumption DEF Names
    <3>2. CASE at[e] # "Unknown"
      BY <1>6, <3>1, <3>2 DEF AboveInv
    <3>3. CASE at[e] = "Unknown"
      BY <1>1, <1>6, <2>1, <3>1, <3>3 DEF Entering, Descends, Listing, Children
    <3> QED
      BY <3>2, <3>3
  <2> QED
    BY <2>1 DEF AboveInv
<1> QED
  BY <1>9, <1>11, <1>12, <1>13, <1>14, <1>15, <1>16, <1>17 DEF ClaimInv

\* Nothing that a walker has decided changes.
Decided == <<disk, at, charge, seenInodes, sharedBlocks>>

LEMMA DecidedStays ==
  ASSUME Decided' = Decided
  PROVE  /\ ClaimInv' <=> ClaimInv
         /\ AboveInv' <=> AboveInv
         /\ WalkersDone' <=> WalkersDone
         /\ PlacedFiles' = PlacedFiles /\ Waiting' = Waiting /\ ClonedFiles' = ClonedFiles
         /\ \A n : Fresh(n)' = Fresh(n) /\ Amount(n, charge[n])' = Amount(n, charge[n])
<1>1. UNCHANGED <<disk, at, charge, seenInodes, sharedBlocks>>
  BY DEF Decided
<1>2. ChargeInv' <=> ChargeInv
  BY <1>1, DiskStays DEF ChargeInv
<1>3. LinkInv' <=> LinkInv
  BY <1>1, DiskStays DEF LinkInv
<1>4. \A n : Holds(n)' <=> Holds(n)
  BY <1>1, DiskStays DEF Holds
<1>5. FamilyInv' <=> FamilyInv
  BY <1>1, <1>4, DiskStays DEF FamilyInv
<1>6. AboveInv' <=> AboveInv
  BY <1>1 DEF AboveInv
<1>7. WalkersDone' <=> WalkersDone
  BY <1>1 DEF WalkersDone
<1>8. PlacedFiles' = PlacedFiles /\ ClonedFiles' = ClonedFiles
  BY <1>1 DEF PlacedFiles, Placed, ClonedFiles
<1>9. Waiting' = Waiting
  BY <1>1, <1>8 DEF Waiting
<1>10. \A n : Fresh(n)' = Fresh(n) /\ Amount(n, charge[n])' = Amount(n, charge[n])
  BY <1>1, <1>9, DiskStays DEF Fresh, Amount
<1> QED
  BY <1>2, <1>3, <1>5, <1>6, <1>7, <1>8, <1>9, <1>10 DEF ClaimInv

\* A cancel alone changes nothing that is counted, whenever it comes.
LEMMA CancelStep ==
  ASSUME WalkInv, Cancel
  PROVE  WalkInv'
<1>1. /\ cancelled' = TRUE
      /\ UNCHANGED <<disk, at, charge, seenInodes, sharedBlocks, arena, errored,
                     bytes, deduped, phase>>
  BY DEF Cancel, claims, counters
<1>2. TypeOK'
  BY <1>1 DEF WalkInv, TypeOK
<1>3. Decided' = Decided
  BY <1>1 DEF Decided
<1>4. ClaimInv' /\ OverInv' /\ AboveInv'
  BY <1>1, <1>3, DecidedStays DEF WalkInv, OverInv
<1>5. ArenaInv'
  <2>1. \A n : Showing(n)' = Showing(n)
    BY <1>1, <1>3, DecidedStays DEF Showing
  <2> QED
    BY <1>1, <2>1 DEF WalkInv, ArenaInv, Settling
<1>6. CounterInv'
  BY <1>1, <1>3, DiskStays, DecidedStays DEF WalkInv, CounterInv, Settling, Total
<1>7. OnceInv'
  BY <1>1, DiskStays DEF WalkInv, OnceInv, CountedOnce, InFull, Decided
<1> QED
  BY <1>2, <1>4, <1>5, <1>6, <1>7 DEF WalkInv

\* The end of the walk: the scan is given up, or goes on to what is shared.
LEMMA CollectStep ==
  ASSUME WalkInv, Collect \/ Bail
  PROVE  WalkInv'
<1>1. /\ UNCHANGED <<disk, cancelled, at, charge, seenInodes, sharedBlocks, arena,
                     errored, bytes, deduped>>
      /\ Settling /\ WalkersDone
      /\ phase' = "Cancelled" \/ (phase = "Walking" /\ phase' = "Sharing")
  BY DEF Collect, Bail, claims, counters, WalkInv, OverInv, Settling
<1>2. TypeOK'
  BY <1>1 DEF WalkInv, TypeOK
<1>3. Decided' = Decided
  BY <1>1 DEF Decided
<1>4. ClaimInv' /\ OverInv' /\ AboveInv'
  BY <1>1, <1>3, DecidedStays DEF WalkInv, OverInv
<1>5. ArenaInv' /\ CounterInv'
  <2>1. CASE phase' = "Cancelled"
    BY <2>1 DEF ArenaInv, CounterInv, Settling
  <2>2. CASE phase = "Walking" /\ phase' = "Sharing"
    <3>1. \A n : Showing(n)' = Showing(n)
      BY <1>1, <1>3, <2>2, DecidedStays DEF Showing
    <3>2. ArenaInv'
      BY <1>1, <3>1 DEF WalkInv, ArenaInv
    <3>3. CounterInv'
      BY <1>1, <1>3, DiskStays, DecidedStays DEF WalkInv, CounterInv, Total
    <3> QED
      BY <3>2, <3>3
  <2> QED
    BY <1>1, <2>1, <2>2
<1>6. OnceInv'
  <2>1. CountedOnce
    BY <1>1, ShownOnce DEF WalkInv
  <2> QED
    BY <1>1, <2>1, DiskStays DEF OnceInv, CountedOnce, InFull
<1> QED
  BY <1>2, <1>4, <1>5, <1>6 DEF WalkInv

\* Each shared extent goes to the first that holds it, and is counted there.
LEMMA SettleSharedStep ==
  ASSUME WalkInv, SettleShared
  PROVE  WalkInv'
<1> DEFINE F == [n \in Files |-> Fresh(n)]
           G == [n \in Files |-> Shared(n) \ Fresh(n)]
<1>1. /\ UNCHANGED <<disk, cancelled, at, charge, seenInodes, sharedBlocks, errored>>
      /\ arena' = [n \in Names |-> IF n \in Waiting THEN arena[n] \cup Fresh(n) ELSE arena[n]]
      /\ bytes' = bytes + Total(Waiting, F)
      /\ deduped' = deduped + Total(Waiting, G)
      /\ phase = "Sharing" /\ phase' = "Moving"
  BY DEF SettleShared, claims
<1>2. /\ disk \in Disks /\ arena \in [Names -> SUBSET Blocks]
      /\ bytes \in Nat /\ deduped \in Nat
  BY DEF WalkInv, TypeOK
<1>3. Waiting \subseteq Names /\ Waiting \subseteq Files /\ Waiting \subseteq PlacedFiles
  BY DEF Waiting, PlacedFiles, Names
<1>4. Total(Waiting, F) \in Nat /\ Total(Waiting, G) \in Nat
  BY <1>3, PairsFinite
<1>5. \A n \in Waiting : Fresh(n) \subseteq Shared(n) /\ Shared(n) \subseteq Blocks
  BY <1>2, <1>3, DiskFacts DEF Fresh, Shared
<1>6. TypeOK'
  <2>1. arena' \in [Names -> SUBSET Blocks]
    BY <1>1, <1>2, <1>5
  <2>2. bytes' \in Nat /\ deduped' \in Nat
    BY <1>1, <1>2, <1>4
  <2> QED
    BY <1>1, <2>1, <2>2 DEF WalkInv, TypeOK
<1>7. Decided' = Decided
  BY <1>1 DEF Decided
<1>8. ClaimInv' /\ OverInv' /\ AboveInv'
  BY <1>1, <1>7, DecidedStays DEF WalkInv, OverInv
<1>9. \A n \in Names : arena[n] = Showing(n)
  BY <1>1 DEF WalkInv, ArenaInv, Settling
<1>10. ArenaInv'
  <2>1. \A n \in Names : arena'[n] = Showing(n)'
    BY <1>1, <1>3, <1>7, <1>9, DecidedStays DEF Showing
  <2> QED
    BY <2>1 DEF ArenaInv
<1>11. CounterInv'
  <2>1. \A n \in Waiting : arena[n] \cap Fresh(n) = {}
    BY <1>1, <1>3, <1>5, <1>9 DEF Showing, Amount, Waiting
  <2>2. \A n \in Waiting : F[n] = Fresh(n)
    BY <1>3
  <2>3. /\ \A n \in Names : arena[n] \subseteq arena'[n]
        /\ \A n \in Waiting : F[n] \subseteq arena'[n]
        /\ \A n \in Names : \A b \in arena'[n] :
             (n \in Names /\ b \in arena[n]) \/ (n \in Waiting /\ b \in F[n])
        /\ \A n \in Names \cap Waiting : arena[n] \cap F[n] = {}
    BY <1>1, <1>3, <2>1, <2>2
  <2> HIDE DEF F
  <2>4. Total(Names, arena') = Total(Names, arena) + Total(Waiting, F)
    BY <1>3, <2>3, TotalAdds
  <2>5. bytes' = Total(Names, arena')
    BY <1>1, <2>4 DEF WalkInv, CounterInv, Settling
  <2>6. Total(ClonedFiles, HeldBy) \in Nat
    BY PairsFinite DEF ClonedFiles, Names
  <2>7. deduped >= Total(ClonedFiles, HeldBy)
    BY <1>1 DEF WalkInv, CounterInv, Settling
  <2>8. deduped' >= Total(ClonedFiles, HeldBy)
    <3> HIDE DEF G
    <3> QED
      BY <1>1, <1>2, <1>4, <2>6, <2>7
  <2>9. Total(ClonedFiles, HeldBy)' = Total(ClonedFiles, HeldBy)
    BY <1>1, <1>7, DiskStays, DecidedStays DEF Total
  <2>10. Total(Names, arena)' = Total(Names, arena')
    BY DEF Total
  <2> QED
    BY <2>5, <2>8, <2>9, <2>10 DEF CounterInv
<1>12. OnceInv'
  BY <1>1 DEF OnceInv
<1> QED
  BY <1>6, <1>8, <1>10, <1>11, <1>12 DEF WalkInv

\* A clone that comes to carry its family's blocks is the only one to.
LEMMA WinnerAlone ==
  ASSUME WalkInv, SettleClones, NEW m \in Winners, NEW n \in Names, m # n,
         NEW b, b \in arena'[m], b \in arena'[n]
  PROVE  FALSE
<1>1. /\ phase = "Moving" /\ disk \in Disks
      /\ arena' = [k \in Names |-> IF k \in Winners THEN Held(k)
                                   ELSE IF k \in Losers THEN {} ELSE arena[k]]
      /\ \A k \in Names : arena[k] = Showing(k)
  BY DEF SettleClones, WalkInv, TypeOK, ArenaInv, Settling
<1>2. ASSUME NEW k \in Winners
      PROVE  /\ k \in PlacedFiles /\ k \in Files /\ k \in Names
             /\ charge[k] = "Cloned" /\ Wins(k) /\ Family(k) # NoFamily
             /\ arena'[k] = Held(k)
  BY <1>1 DEF Winners, Wins, Members, PlacedFiles, Names
<1>3. ASSUME n \notin Winners
      PROVE  /\ n \notin Losers /\ n \in PlacedFiles /\ n \in Files
             /\ charge[n] \in {"Full", "Unmapped", "Alloc"} /\ b \in Held(n)
  <2>1. n \notin Losers /\ b \in Showing(n)
    BY <1>1, <1>3
  <2>2. n \in PlacedFiles /\ n \in Files
    BY <2>1 DEF Showing, PlacedFiles
  <2>3. charge[n] \in {"Full", "Unmapped", "Alloc"}
    BY <2>1, <2>2 DEF Showing, Amount, Waiting
  <2>4. b \in Held(n)
    BY <2>1, <2>2, <2>3 DEF Showing, Amount, Fresh, Shared
  <2> QED
    BY <2>1, <2>2, <2>3, <2>4
<1>4. n \in Files /\ n \in PlacedFiles /\ charge[n] \in Counting /\ b \in Held(n)
  BY <1>2, <1>3 DEF Counting
<1>5. m \in Files /\ charge[m] \in Counting /\ b \in Held(m) /\ Family(m) # NoFamily
  BY <1>2 DEF Counting
<1>6. Ino(m) # Ino(n)
  BY <1>4, <1>5 DEF WalkInv, ClaimInv, LinkInv
<1>7. Family(m) = Family(n)
  <2>1. Shared(m) = {}
    BY <1>1, <1>5, ClonesAreNotMapped
  <2> QED
    BY <1>1, <1>4, <1>5, <1>6, <2>1, WhatIsShared
<1>8. ~Mapped(n)
  BY <1>1, <1>4, <1>5, <1>7, ClonesAreNotMapped
<1>9. charge[n] \in {"Full", "Cloned"}
  BY <1>4, <1>8 DEF Counting, WalkInv, ClaimInv, ChargeInv
<1>10. n \in Members(Family(n)) /\ m \in Members(Family(m))
  BY <1>2, <1>4, <1>9 DEF Members
<1>11. m <= n
  BY <1>2, <1>7, <1>10 DEF Wins
<1>12. ~Wins(n)
  <2>1. SUFFICES ASSUME Wins(n)
                 PROVE  FALSE
    OBVIOUS
  <2>2. n <= m
    BY <1>7, <1>10, <2>1 DEF Wins
  <2>3. m \in Nat /\ n \in Nat
    BY <1>1, <1>4, <1>5, DiskFacts
  <2> QED
    BY <1>11, <2>2, <2>3
<1>13. n \notin Winners
  BY <1>12 DEF Winners
<1>14. charge[n] = "Full"
  BY <1>3, <1>9, <1>13
<1>15. n \in Losers
  BY <1>4, <1>5, <1>7, <1>10, <1>12, <1>14 DEF Losers, Loses
<1> QED
  BY <1>3, <1>13, <1>15

\* Settling families counts nothing twice, and takes no counter below zero.
LEMMA SettleClonesStep ==
  ASSUME WalkInv, SettleClones
  PROVE  WalkInv'
<1>1. /\ UNCHANGED <<disk, cancelled, at, charge, seenInodes, sharedBlocks, errored>>
      /\ arena' = [n \in Names |-> IF n \in Winners THEN Held(n)
                                   ELSE IF n \in Losers THEN {} ELSE arena[n]]
      /\ deduped' = deduped + MovedBytes
      /\ bytes' = bytes - MovedBytes
      /\ phase = "Moving" /\ phase' = "Done"
  BY DEF SettleClones, claims
<1>2. /\ disk \in Disks /\ arena \in [Names -> SUBSET Blocks]
      /\ bytes \in Nat /\ deduped \in Nat
  BY DEF WalkInv, TypeOK
<1>3. \A n \in Names : arena[n] = Showing(n)
  BY <1>1 DEF WalkInv, ArenaInv, Settling
<1>4. /\ Winners \subseteq ClonedFiles /\ ClonedFiles \subseteq Names
      /\ Losers \subseteq Names /\ Losers \subseteq Files /\ Winners \subseteq Names
  BY DEF Winners, Wins, Losers, Members, ClonedFiles, PlacedFiles, Names
<1>5. Total(Losers, HeldBy) <= Total(Names, arena)
  <2>1. \A n \in Losers : arena[n] = Held(n)
    BY <1>1, <1>3, <1>4 DEF Losers, Loses, Showing, Amount, Waiting
  <2>2. \A n \in Losers : HeldBy[n] \cap Blocks \subseteq arena[n]
    BY <1>4, <2>1 DEF HeldBy
  <2> QED
    BY <1>4, <2>2, TotalMono
<1>6. Total(Winners, HeldBy) <= Total(ClonedFiles, HeldBy)
  BY <1>4, TotalMono
<1>7. /\ Total(Losers, HeldBy) \in Nat /\ Total(Winners, HeldBy) \in Nat
      /\ Total(Names, arena) \in Nat /\ Total(ClonedFiles, HeldBy) \in Nat
  BY <1>4, PairsFinite
<1>8. bytes = Total(Names, arena) /\ deduped >= Total(ClonedFiles, HeldBy)
  BY <1>1 DEF WalkInv, CounterInv, Settling
<1>9. bytes' \in Nat /\ deduped' \in Nat
  BY <1>1, <1>2, <1>5, <1>6, <1>7, <1>8 DEF MovedBytes
<1>10. TypeOK'
  <2>1. \A n \in Winners : Held(n) \subseteq Blocks
    BY <1>2, <1>4, DiskFacts DEF ClonedFiles
  <2>2. arena' \in [Names -> SUBSET Blocks]
    BY <1>1, <1>2, <2>1
  <2> QED
    BY <1>1, <1>9, <2>2 DEF WalkInv, TypeOK
<1>11. Decided' = Decided
  BY <1>1 DEF Decided
<1>12. ClaimInv' /\ OverInv' /\ AboveInv'
  BY <1>1, <1>11, DecidedStays DEF WalkInv, OverInv
<1>13. ArenaInv' /\ CounterInv'
  BY <1>1 DEF ArenaInv, CounterInv, Settling
<1>14. CountedOnce'
  <2>1. SUFFICES ASSUME NEW m \in Names, NEW n \in Names, m # n,
                        NEW b, b \in arena'[m], b \in arena'[n]
                 PROVE  b \in UNION {Held(k) : k \in InFull}
    BY <1>1, DiskStays DEF CountedOnce, InFull
  <2>2. m \notin Winners /\ n \notin Winners
    BY <2>1, WinnerAlone
  <2>3. b \in arena[m] /\ b \in arena[n]
    BY <1>1, <2>1, <2>2
  <2>4. CountedOnce
    BY <1>1, ShownOnce DEF WalkInv, Settling
  <2> QED
    BY <2>1, <2>3, <2>4 DEF CountedOnce
<1>15. OnceInv'
  BY <1>14 DEF OnceInv
<1> QED
  BY <1>10, <1>12, <1>13, <1>15 DEF WalkInv

\* Nothing is charged, claimed or counted when a scan begins.
LEMMA InitHolds == Init => WalkInv
<1>1. SUFFICES ASSUME Init
               PROVE  WalkInv
  OBVIOUS
<1>2. TypeOK
  BY <1>1, WalkAssumption DEF Init, TypeOK, Places, Charges
<1>3. \A n \in Files : charge[n] = "Undecided"
  BY <1>1 DEF Init
<1>4. ClaimInv
  BY <1>3 DEF ClaimInv, ChargeInv, LinkInv, FamilyInv, Holds, Counting
<1>5. ArenaInv
  <2>1. \A n \in Files : n \in Names \ {Root} /\ Parent[n] \in Dirs
    BY <1>2, DiskFacts DEF TypeOK
  <2>2. PlacedFiles = {}
    BY <1>1, <2>1, WalkAssumption DEF Init, PlacedFiles, Placed
  <2> QED
    BY <1>1, <2>2 DEF Init, ArenaInv, Showing
<1>6. CounterInv
  <2>1. Pairs(Names, arena) = {}
    BY <1>1 DEF Init, Pairs
  <2>2. Pairs(ClonedFiles, HeldBy) = {}
    BY <1>3 DEF Pairs, ClonedFiles
  <2>3. Total(Names, arena) = 0 /\ Total(ClonedFiles, HeldBy) = 0
    <3>1. ClonedFiles \subseteq Names
      BY DEF ClonedFiles, Names
    <3> QED
      BY <2>1, <2>2, <3>1, PairsFinite, FS_EmptySet
  <2> QED
    BY <1>1, <2>3 DEF Init, CounterInv
<1>7. OverInv /\ OnceInv
  BY <1>1 DEF Init, OverInv, OnceInv
<1>8. AboveInv
  BY <1>1 DEF Init, AboveInv
<1> QED
  BY <1>2, <1>4, <1>5, <1>6, <1>7, <1>8 DEF WalkInv

\* The invariant is kept by every step.
LEMMA NextKeeps == WalkInv /\ [Next]_vars => WalkInv'
<1>1. SUFFICES ASSUME WalkInv, [Next]_vars
               PROVE  WalkInv'
  OBVIOUS
<1>2. CASE Cancel
  BY <1>1, <1>2, CancelStep
<1>3. ASSUME NEW d \in Dirs, Skip(d) \/ List(d)
      PROVE  WalkInv'
  BY <1>1, <1>3, ListingStep
<1>4. ASSUME NEW d \in Dirs, ClaimLinks(d)
      PROVE  WalkInv'
  BY <1>1, <1>4, ClaimLinksStep
<1>5. ASSUME NEW d \in Dirs, ClaimClones(d)
      PROVE  WalkInv'
  BY <1>1, <1>5, ClaimClonesStep
<1>6. ASSUME NEW d \in Dirs, Place(d)
      PROVE  WalkInv'
  BY <1>1, <1>6, PlaceStep
<1>7. CASE Collect \/ Bail
  BY <1>1, <1>7, CollectStep
<1>8. CASE SettleShared
  BY <1>1, <1>8, SettleSharedStep
<1>9. CASE SettleClones
  BY <1>1, <1>9, SettleClonesStep
<1>10. CASE UNCHANGED vars
  <2>1. UNCHANGED <<disk, cancelled, at, charge, seenInodes, sharedBlocks, arena,
                    errored, bytes, deduped, phase>>
    BY <1>10 DEF vars, claims, counters
  <2>2. Decided' = Decided
    BY <2>1 DEF Decided
  <2>3. TypeOK' /\ ClaimInv' /\ OverInv' /\ AboveInv'
    BY <1>1, <2>1, <2>2, DecidedStays DEF WalkInv, TypeOK, OverInv
  <2>4. \A n : Showing(n)' = Showing(n)
    BY <2>1, <2>2, DecidedStays DEF Showing
  <2>5. ArenaInv'
    BY <1>1, <2>1, <2>4 DEF WalkInv, ArenaInv, Settling
  <2>6. CounterInv'
    BY <1>1, <2>1, <2>2, DiskStays, DecidedStays DEF WalkInv, CounterInv, Settling, Total
  <2>7. OnceInv'
    BY <1>1, <2>1, DiskStays DEF WalkInv, OnceInv, CountedOnce, InFull, Decided
  <2> QED
    BY <2>3, <2>5, <2>6, <2>7 DEF WalkInv
<1>11. CASE Finished
  BY <1>10, <1>11 DEF Finished
<1> QED
  BY <1>1, <1>2, <1>3, <1>4, <1>5, <1>6, <1>7, <1>8, <1>9, <1>10, <1>11 DEF Next

(***************************************************************************)
(* What the scan finds, and what it leaves a trace of. `WalkInv` says that *)
(* nothing is counted too often; the parts below, that nothing is lost.    *)
(***************************************************************************)
\* Every file of a directory that has been claimed for is decided, and one
\* that is not charged is so because of a claim.
DecidedInv ==
  \A n \in Files :
    /\ at[Parent[n]] \in {"Linked", "Claimed", "Placed"} /\ n \notin disk.broken
         => charge[n] # "Undecided"
    /\ charge[n] = "Nothing" => IsHardlinked(n) /\ Ino(n) \in seenInodes
    /\ charge[n] = "Cloned" => Family(n) \in sharedBlocks

\* Every claim was made for a name that is charged.
BackedInv ==
  /\ \A i \in seenInodes : \E m \in Files : Ino(m) = i /\ charge[m] \in Counting
  /\ \A f \in sharedBlocks : \E m \in Files : Family(m) = f /\ Holds(m)

FoundInv == DecidedInv /\ BackedInv

Read(d) == at[d] \in {"Listed", "Linked", "Claimed", "Placed"}

\* A directory is entered or leaves a trace; only a cancel skips one, or keeps
\* a file from being mapped.
EnteredInv ==
  /\ at[Root] # "Unknown"
  /\ \A e \in Dirs : at[e] # "Unknown" => e \in Placed
  /\ \A e \in Dirs \ {Root} : at[Parent[e]] = "Placed" /\ e \notin disk.broken =>
       at[e] # "Unknown" \/ e \in disk.skipped \/ Parent[e] \in errored
  /\ ~cancelled \/ phase \in {"Sharing", "Moving", "Done"} =>
       (\A d \in Dirs : at[d] # "Skipped") /\ \A n \in Files : charge[n] # "Unmapped"
  /\ \A d \in Dirs : Read(d) /\ Children(d) \cap disk.broken # {} => d \in errored

\* While the names and who is where stay, so does what was found.
LEMMA FoundStays ==
  ASSUME FoundInv, Decided' = Decided
  PROVE  FoundInv'
<1>1. UNCHANGED <<disk, at, charge, seenInodes, sharedBlocks>>
  BY DEF Decided
<1>2. DecidedInv'
  BY <1>1, DiskStays DEF FoundInv, DecidedInv
<1>3. \A n : Holds(n)' <=> Holds(n)
  BY <1>1, DiskStays DEF Holds
<1>4. BackedInv'
  BY <1>1, <1>3, DiskStays DEF FoundInv, BackedInv
<1> QED
  BY <1>2, <1>4 DEF FoundInv

\* A directory that is read, or left out, decides nothing.
LEMMA ListingFound ==
  ASSUME WalkInv, FoundInv, NEW d \in Dirs, Skip(d) \/ List(d)
  PROVE  FoundInv'
<1>1. /\ at[d] = "Queued" /\ disk' = disk
      /\ UNCHANGED <<charge, seenInodes, sharedBlocks>>
  BY DEF Skip, List, Walker, claims
<1>2. PICK to \in {"Skipped", "Listed"} : at' = [at EXCEPT ![d] = to]
  BY DEF Skip, List, Walker
<1>3. /\ at \in [Dirs -> Places] /\ \A n \in Files : Parent[n] \in Dirs
  BY DiskFacts DEF WalkInv, TypeOK
<1>4. \A e \in Dirs : at'[e] \in {"Linked", "Claimed", "Placed"} => at'[e] = at[e]
  BY <1>2, <1>3
<1>5. \A e \in Dirs : at[e] \in {"Claimed", "Placed"} => at'[e] = at[e]
  BY <1>1, <1>2, <1>3
<1>6. DecidedInv'
  BY <1>1, <1>3, <1>4, DiskStays DEF FoundInv, DecidedInv
<1>7. \A n \in Files : Holds(n) => Holds(n)'
  BY <1>1, <1>3, <1>5, DiskStays DEF Holds
<1>8. BackedInv'
  BY <1>1, <1>7, DiskStays DEF FoundInv, BackedInv
<1> QED
  BY <1>6, <1>8 DEF FoundInv

\* A file of a directory is in its listing or cannot be read.
LEMMA InListing ==
  ASSUME disk \in Disks, NEW n \in Files, n \notin disk.broken
  PROVE  n \in FilesIn(Parent[n])
  BY DiskFacts DEF FilesIn, Listing, Children

\* Each name that is not charged repeats one that is.
LEMMA ClaimLinksFound ==
  ASSUME WalkInv, FoundInv, NEW d \in Dirs, ClaimLinks(d)
  PROVE  FoundInv'
<1>1. /\ at[d] = "Listed" /\ at' = [at EXCEPT ![d] = "Linked"]
      /\ disk' = disk /\ sharedBlocks' = sharedBlocks
      /\ seenInodes' = seenInodes \cup {Ino(n) : n \in LinkedIn(d)}
  BY DEF ClaimLinks, Walker
<1>2. PICK kept \in SUBSET LinkedIn(d), missed \in SUBSET Missed(d) :
        /\ FirstLinks(kept, LinkedIn(d))
        /\ charge' = [n \in Files |->
             IF n \in LinkedIn(d) \ kept THEN "Nothing"
             ELSE IF n \in missed THEN "Unmapped"
             ELSE IF n \in FilesIn(d) THEN "Full" ELSE charge[n]]
  BY DEF ClaimLinks
<1>3. /\ at \in [Dirs -> Places] /\ disk \in Disks
      /\ \A n \in Files : Parent[n] \in Dirs
  BY DiskFacts DEF WalkInv, TypeOK
<1>4. \A n \in FilesIn(d) : n \in Files /\ Parent[n] = d
  BY <1>3, FilesOf
<1>5. \A n \in Files : n \in FilesIn(d) => charge[n] = "Undecided"
  BY <1>1, <1>4 DEF WalkInv, ClaimInv, ChargeInv
<1>6. \A n \in Files : n \notin FilesIn(d) => charge'[n] = charge[n]
  BY <1>2 DEF LinkedIn, Missed
<1>7. \A n \in FilesIn(d) :
        /\ charge'[n] \in {"Full", "Unmapped", "Nothing"}
        /\ charge'[n] = "Nothing" => n \in LinkedIn(d)
  BY <1>2, <1>4
<1>8. \A e \in Dirs : e # d => at'[e] = at[e]
  BY <1>1, <1>3
<1>9. DecidedInv'
  <2>1. ASSUME NEW n \in Files, at'[Parent[n]] \in {"Linked", "Claimed", "Placed"}, n \notin disk.broken
        PROVE  charge'[n] # "Undecided"
    <3>1. CASE Parent[n] = d
      BY <1>3, <1>7, <2>1, <3>1, InListing
    <3>2. CASE Parent[n] # d
      BY <1>3, <1>4, <1>6, <1>8, <2>1, <3>2 DEF FoundInv, DecidedInv
    <3> QED
      BY <3>1, <3>2
  <2>2. ASSUME NEW n \in Files, charge'[n] = "Nothing"
        PROVE  IsHardlinked(n) /\ Ino(n) \in seenInodes'
    BY <1>1, <1>6, <1>7, <2>2 DEF FoundInv, DecidedInv, LinkedIn
  <2>3. ASSUME NEW n \in Files, charge'[n] = "Cloned"
        PROVE  Family(n) \in sharedBlocks'
    BY <1>1, <1>6, <1>7, <2>3 DEF FoundInv, DecidedInv
  <2> QED
    BY <1>1, <2>1, <2>2, <2>3, DiskStays DEF DecidedInv
<1>10. \A i \in seenInodes' : \E m \in Files : Ino(m) = i /\ charge'[m] \in Counting
  <2>1. ASSUME NEW i \in seenInodes
        PROVE  \E m \in Files : Ino(m) = i /\ charge'[m] \in Counting
    <3>1. PICK m \in Files : Ino(m) = i /\ charge[m] \in Counting
      BY DEF FoundInv, BackedInv
    <3> QED
      BY <1>5, <1>6, <3>1 DEF Counting
  <2>2. ASSUME NEW i \in {Ino(n) : n \in LinkedIn(d)}, i \notin seenInodes
        PROVE  \E m \in Files : Ino(m) = i /\ charge'[m] \in Counting
    <3>1. PICK m \in kept : Ino(m) = i
      BY <1>2, <2>2 DEF FirstLinks
    <3>2. m \in FilesIn(d) /\ m \in Files
      BY <1>4 DEF LinkedIn
    <3>3. charge'[m] \in {"Full", "Unmapped"}
      BY <1>2, <3>2
    <3> QED
      BY <3>1, <3>2, <3>3 DEF Counting
  <2> QED
    BY <1>1, <2>1, <2>2
<1>11. \A n \in Files : Holds(n) => Holds(n)'
  <2>1. ASSUME NEW n \in Files, Holds(n)
        PROVE  charge'[n] = charge[n] /\ at'[Parent[n]] = at[Parent[n]]
    BY <1>1, <1>3, <1>5, <1>6, <1>8, <2>1 DEF Holds
  <2> QED
    BY <1>1, <2>1, DiskStays DEF Holds
<1>12. BackedInv'
  BY <1>1, <1>10, <1>11, DiskStays DEF FoundInv, BackedInv
<1> QED
  BY <1>9, <1>12 DEF FoundInv

\* A family's claim is that of a name its walker has charged.
LEMMA ClaimClonesFound ==
  ASSUME WalkInv, FoundInv, NEW d \in Dirs, ClaimClones(d)
  PROVE  FoundInv'
<1>1. /\ at[d] = "Linked" /\ at' = [at EXCEPT ![d] = "Claimed"]
      /\ disk' = disk /\ seenInodes' = seenInodes
      /\ sharedBlocks' = sharedBlocks \cup {Family(n) : n \in ClonesIn(d)}
  BY DEF ClaimClones, Walker
<1>2. PICK kept \in SUBSET ClonesIn(d) :
        /\ FirstClones(kept, ClonesIn(d))
        /\ charge' = [n \in Files |-> IF n \in ClonesIn(d) \ kept THEN "Cloned" ELSE charge[n]]
  BY DEF ClaimClones
<1>3. /\ at \in [Dirs -> Places] /\ disk \in Disks
      /\ \A n \in Files : Parent[n] \in Dirs
  BY DiskFacts DEF WalkInv, TypeOK
<1>4. \A n \in ClonesIn(d) : n \in Files /\ Parent[n] = d /\ charge[n] = "Full" /\ Family(n) # NoFamily
  BY <1>3, FilesOf DEF ClonesIn
<1>5. \A n \in Files : charge'[n] = charge[n] \/ (n \in ClonesIn(d) /\ charge'[n] = "Cloned")
  BY <1>2
<1>6. \A n \in Files : charge[n] \in Counting => charge'[n] \in Counting
  BY <1>5 DEF Counting
<1>7. at'[d] = "Claimed" /\ \A e \in Dirs : e # d => at'[e] = at[e]
  BY <1>1, <1>3
<1>8. DecidedInv'
  <2>1. ASSUME NEW n \in Files, at'[Parent[n]] \in {"Linked", "Claimed", "Placed"}, n \notin disk.broken
        PROVE  charge'[n] # "Undecided"
    <3>1. at[Parent[n]] \in {"Linked", "Claimed", "Placed"}
      BY <1>1, <1>3, <1>7, <2>1
    <3> QED
      BY <1>5, <2>1, <3>1 DEF FoundInv, DecidedInv
  <2>2. ASSUME NEW n \in Files
        PROVE  /\ charge'[n] = "Nothing" => IsHardlinked(n) /\ Ino(n) \in seenInodes'
               /\ charge'[n] = "Cloned" => Family(n) \in sharedBlocks'
    BY <1>1, <1>5 DEF FoundInv, DecidedInv
  <2> QED
    BY <1>1, <2>1, <2>2, DiskStays DEF DecidedInv
<1>9. \A f \in sharedBlocks' : \E m \in Files : Family(m) = f /\ Holds(m)'
  <2>1. ASSUME NEW f \in sharedBlocks
        PROVE  \E m \in Files : Family(m) = f /\ Holds(m)'
    <3>1. PICK m \in Files : Family(m) = f /\ Holds(m)
      BY DEF FoundInv, BackedInv
    <3>2. Parent[m] # d /\ m \notin ClonesIn(d)
      BY <1>1, <1>4, <3>1 DEF Holds
    <3>3. charge'[m] = charge[m] /\ at'[Parent[m]] = at[Parent[m]]
      BY <1>3, <1>5, <1>7, <3>2
    <3>4. Holds(m)'
      BY <1>1, <3>1, <3>3, DiskStays DEF Holds
    <3> QED
      BY <3>1, <3>4
  <2>2. ASSUME NEW f \in {Family(n) : n \in ClonesIn(d)}, f \notin sharedBlocks
        PROVE  \E m \in Files : Family(m) = f /\ Holds(m)'
    <3>1. PICK m \in kept : Family(m) = f
      BY <1>2, <2>2 DEF FirstClones
    <3>2. m \in Files /\ charge'[m] = "Full" /\ at'[Parent[m]] = "Claimed" /\ Family(m) # NoFamily
      BY <1>2, <1>4, <1>7
    <3>3. Holds(m)'
      BY <1>1, <3>2, DiskStays DEF Holds
    <3> QED
      BY <3>1, <3>2, <3>3
  <2> QED
    BY <1>1, <2>1, <2>2
<1>10. BackedInv'
  BY <1>1, <1>6, <1>9, DiskStays DEF FoundInv, BackedInv
<1> QED
  BY <1>8, <1>10 DEF FoundInv

\* Where walkers stand once `d` has been placed.
LEMMA PlaceMoves ==
  ASSUME WalkInv, NEW d \in Dirs, Place(d)
  PROVE  /\ at[d] = "Claimed" /\ at'[d] = "Placed" /\ disk' = disk /\ phase = "Walking"
         /\ \A e \in Dirs : e # d =>
              \/ at'[e] = at[e] /\ ~Descends(d, e)
              \/ at[e] = "Unknown" /\ at'[e] = "Queued" /\ Descends(d, e)
<1>1. at[d] = "Claimed" /\ at' = Entering(d) /\ disk' = disk
  BY DEF Place
<1>2. at'[d] = "Placed" /\ \A e \in Dirs : e # d => at'[e] = IF Descends(d, e) THEN "Queued" ELSE at[e]
  BY <1>1 DEF Entering
<1>3. \A e \in Dirs : Descends(d, e) => e # Root /\ Parent[e] = d
  BY DEF Descends, Listing, Children
<1>4. \A e \in Dirs : Descends(d, e) => at[e] = "Unknown"
  BY <1>1, <1>3 DEF WalkInv, AboveInv
<1>5. phase = "Walking"
  BY <1>1, StillWalking
<1> QED
  BY <1>1, <1>2, <1>4, <1>5

\* A block of the arena undoes no claim: clones are not mapped.
LEMMA PlaceFound ==
  ASSUME WalkInv, FoundInv, NEW d \in Dirs, Place(d)
  PROVE  FoundInv'
<1>1. /\ charge' = OwnExtents(d) /\ disk' = disk
      /\ UNCHANGED <<seenInodes, sharedBlocks>>
  BY DEF Place, claims
<1>2. /\ disk \in Disks /\ \A n \in Files : Parent[n] \in Dirs
  BY DiskFacts DEF WalkInv, TypeOK
<1>3. \A n \in Files : \/ charge'[n] = charge[n]
                       \/ charge[n] = "Full" /\ Mapped(n) /\ charge'[n] = "Alloc"
  BY <1>1 DEF OwnExtents
<1>4. \A e \in Dirs : /\ at'[e] \in {"Linked", "Claimed", "Placed"} => at[e] \in {"Linked", "Claimed", "Placed"}
                      /\ at[e] \in {"Claimed", "Placed"} => at'[e] \in {"Claimed", "Placed"}
  BY PlaceMoves
<1>5. DecidedInv'
  BY <1>1, <1>2, <1>3, <1>4, DiskStays DEF FoundInv, DecidedInv
<1>6. \A n \in Files : charge[n] \in Counting => charge'[n] \in Counting
  BY <1>3 DEF Counting
<1>7. \A n \in Files : Holds(n) => Holds(n)'
  <2>1. ASSUME NEW n \in Files, Holds(n)
        PROVE  Holds(n)'
    <3>1. ~Mapped(n)
      BY <1>2, <2>1, ClonesAreNotMapped DEF Holds
    <3> QED
      BY <1>1, <1>2, <1>3, <1>4, <2>1, <3>1, DiskStays DEF Holds
  <2> QED
    BY <2>1
<1>8. BackedInv'
  BY <1>1, <1>6, <1>7, DiskStays DEF FoundInv, BackedInv
<1> QED
  BY <1>5, <1>8 DEF FoundInv

\* Directories of the tree, as names.
LEMMA TreeFacts ==
  /\ \A e \in Dirs : e \in Names
  /\ \A e \in Dirs \ {Root} : e \in Names \ {Root} /\ Parent[e] \in Dirs
  /\ \A n \in Names \ {Root} : Parent[n] \in Dirs
  /\ Root \in Dirs
  BY WalkAssumption DEF Names

\* A directory is left out only by a cancel, and what it cannot list is an error.
LEMMA ListingEntered ==
  ASSUME WalkInv, EnteredInv, NEW d \in Dirs, Skip(d) \/ List(d)
  PROVE  EnteredInv'
<1>1. /\ at[d] = "Queued" /\ UNCHANGED <<disk, cancelled, phase, charge>>
      /\ errored \subseteq errored'
  BY DEF Skip, List, Walker
<1>2. PICK to \in {"Skipped", "Listed"} :
        /\ at' = [at EXCEPT ![d] = to]
        /\ to = "Skipped" => cancelled
        /\ to = "Listed" => errored' = errored \cup ListErrors(d)
  BY DEF Skip, List, Walker
<1>3. at \in [Dirs -> Places] /\ phase = "Walking"
  BY <1>1, StillWalking DEF WalkInv, TypeOK
<1>4. at'[d] = to /\ \A e \in Dirs : e # d => at'[e] = at[e]
  BY <1>2, <1>3
<1>5. \A e \in Dirs : at'[e] = "Placed" <=> at[e] = "Placed"
  BY <1>1, <1>4
<1>6. Placed' = Placed
  BY <1>1, <1>5, TreeFacts DEF Placed
<1>7. \A e \in Dirs : (at'[e] # "Unknown" <=> at[e] # "Unknown")
  BY <1>1, <1>4
<1>8. at'[Root] # "Unknown" /\ \A e \in Dirs : at'[e] # "Unknown" => e \in Placed'
  BY <1>6, <1>7, TreeFacts DEF EnteredInv
<1>9. \A e \in Dirs \ {Root} : at'[Parent[e]] = "Placed" /\ e \notin disk'.broken =>
        at'[e] # "Unknown" \/ e \in disk'.skipped \/ Parent[e] \in errored'
  BY <1>1, <1>5, <1>7, TreeFacts DEF EnteredInv
<1>10. ~cancelled' \/ phase' \in {"Sharing", "Moving", "Done"} =>
         (\A e \in Dirs : at'[e] # "Skipped") /\ \A n \in Files : charge'[n] # "Unmapped"
  BY <1>1, <1>2, <1>3, <1>4 DEF EnteredInv
<1>11. ASSUME NEW e \in Dirs, Read(e)', Children(e) \cap disk.broken # {}
       PROVE  e \in errored'
  <2>1. CASE e = d
    <3>1. to = "Listed"
      BY <1>4, <1>11, <2>1 DEF Read
    <3>2. d \in ListErrors(d)
      BY <1>11, <2>1 DEF ListErrors
    <3> QED
      BY <1>2, <2>1, <3>1, <3>2
  <2>2. CASE e # d
    BY <1>1, <1>4, <1>11, <2>2 DEF EnteredInv, Read
  <2> QED
    BY <2>1, <2>2
<1>12. \A e \in Dirs : Children(e)' = Children(e)
  BY DEF Children
<1> QED
  BY <1>1, <1>8, <1>9, <1>10, <1>11, <1>12 DEF EnteredInv

\* A walker that only claims neither enters a directory nor leaves one.
LEMMA ClaimingEntered ==
  ASSUME WalkInv, EnteredInv, NEW d \in Dirs, ClaimLinks(d) \/ ClaimClones(d)
  PROVE  EnteredInv'
<1>1. /\ at[d] \in {"Listed", "Linked"} /\ UNCHANGED <<disk, cancelled, phase, errored>>
      /\ \A n \in Files : charge'[n] = "Unmapped" => charge[n] = "Unmapped" \/ cancelled
  BY DEF ClaimLinks, ClaimClones, Walker, Missed
<1>2. PICK to \in {"Linked", "Claimed"} : at' = [at EXCEPT ![d] = to]
  BY DEF ClaimLinks, ClaimClones, Walker
<1>3. at \in [Dirs -> Places]
  BY DEF WalkInv, TypeOK
<1>4. at'[d] = to /\ \A e \in Dirs : e # d => at'[e] = at[e]
  BY <1>2, <1>3
<1>5. \A e \in Dirs : /\ at'[e] = "Placed" <=> at[e] = "Placed"
                      /\ at'[e] = "Unknown" <=> at[e] = "Unknown"
                      /\ at'[e] = "Skipped" <=> at[e] = "Skipped"
                      /\ Read(e)' <=> Read(e)
  BY <1>1, <1>4 DEF Read
<1>6. Placed' = Placed
  BY <1>1, <1>5, TreeFacts DEF Placed
<1>7. \A e \in Dirs : Children(e)' = Children(e)
  BY DEF Children
<1>8. phase = "Walking"
  BY <1>1, StillWalking
<1> QED
  BY <1>1, <1>5, <1>6, <1>7, <1>8, TreeFacts DEF EnteredInv

\* Each directory that is placed is entered, was left out, or is an error.
LEMMA PlaceEntered ==
  ASSUME WalkInv, EnteredInv, NEW d \in Dirs, Place(d)
  PROVE  EnteredInv'
<1>1. /\ at[d] = "Claimed" /\ at'[d] = "Placed" /\ UNCHANGED <<disk, cancelled, phase>>
      /\ errored' = errored \cup DepthErrors(d) /\ phase = "Walking"
  BY PlaceMoves DEF Place
<1>2. \A e \in Dirs : e # d => \/ at'[e] = at[e] /\ ~Descends(d, e)
                               \/ at[e] = "Unknown" /\ at'[e] = "Queued" /\ Descends(d, e)
  BY PlaceMoves
<1>3. \A e \in Dirs : Descends(d, e) => e # Root /\ Parent[e] = d /\ e \notin disk.broken
  BY DEF Descends, Listing, Children
<1>4. \A n \in Placed : n \in Placed'
  BY <1>1, <1>2, TreeFacts DEF Placed
<1>5. ASSUME NEW e \in Dirs, at'[e] # "Unknown"
      PROVE  e \in Placed'
  <2>1. CASE at[e] # "Unknown"
    BY <1>4, <2>1 DEF EnteredInv
  <2>2. CASE at[e] = "Unknown"
    <3>1. Descends(d, e)
      BY <1>1, <1>2, <1>5, <2>2
    <3> QED
      BY <1>1, <1>3, <3>1, TreeFacts DEF Placed
  <2> QED
    BY <2>1, <2>2
<1>6. at'[Root] # "Unknown"
  BY <1>1, <1>2, TreeFacts DEF EnteredInv
<1>7. ASSUME NEW e \in Dirs \ {Root}, at'[Parent[e]] = "Placed", e \notin disk.broken,
             e \notin disk.skipped, Parent[e] \notin errored'
      PROVE  at'[e] # "Unknown"
  <2>1. CASE Parent[e] = d
    <3>1. e \in Listing(d) \cap Dirs
      BY <1>7, <2>1, TreeFacts DEF Listing, Children
    <3>2. ~TooDeep(d)
      BY <1>1, <1>7, <2>1, <3>1 DEF DepthErrors
    <3>3. Descends(d, e)
      BY <1>7, <3>1, <3>2 DEF Descends
    <3> QED
      BY <1>1, <1>2, <3>3
  <2>2. CASE Parent[e] # d
    <3>1. at[Parent[e]] = "Placed"
      BY <1>2, <1>7, <2>2, TreeFacts
    <3>2. at[e] # "Unknown"
      BY <1>1, <1>7, <3>1 DEF EnteredInv
    <3> QED
      BY <1>1, <1>2, <3>2
  <2> QED
    BY <2>1, <2>2
<1>8. ~cancelled' \/ phase' \in {"Sharing", "Moving", "Done"} =>
        (\A e \in Dirs : at'[e] # "Skipped") /\ \A n \in Files : charge'[n] # "Unmapped"
  <2>1. \A n \in Files : charge'[n] = "Unmapped" => charge[n] = "Unmapped"
    BY DEF Place, OwnExtents
  <2> QED
    BY <1>1, <1>2, <2>1 DEF EnteredInv
<1>9. \A e \in Dirs : Read(e)' => Read(e)
  BY <1>1, <1>2 DEF Read
<1>10. \A e \in Dirs : Children(e)' = Children(e)
  BY DEF Children
<1> QED
  BY <1>1, <1>5, <1>6, <1>7, <1>8, <1>9, <1>10 DEF EnteredInv

\* The scan's own steps, and a cancel: only a walk that was not cancelled is
\* taken for a whole one.
LEMMA OthersEntered ==
  ASSUME WalkInv, EnteredInv,
         Cancel \/ Collect \/ Bail \/ SettleShared \/ SettleClones \/ UNCHANGED vars
  PROVE  EnteredInv'
<1>1. UNCHANGED <<disk, at, charge, errored>>
  BY DEF Cancel, Collect, Bail, SettleShared, SettleClones, vars, claims
<1>2. ~cancelled' \/ phase' \in {"Sharing", "Moving", "Done"} =>
        ~cancelled \/ phase \in {"Sharing", "Moving", "Done"}
  BY DEF Cancel, Collect, Bail, SettleShared, SettleClones, MustBail, vars
<1>3. Placed' = Placed /\ \A d \in Dirs : Children(d)' = Children(d) /\ (Read(d)' <=> Read(d))
  BY <1>1 DEF Placed, Children, Read
<1> QED
  BY <1>1, <1>2, <1>3 DEF EnteredInv

\* Every nonempty set of names has a first one.
LEMMA FirstName ==
  ASSUME NEW S, S \subseteq Names, S # {}
  PROVE  \E m \in S : \A k \in S : m <= k
<1>1. S \subseteq Nat
  BY WalkAssumption
<1>2. PICK m \in S : \A k \in S : ~(<<k, m>> \in OpToRel(<, Nat))
  BY <1>1, WFMin, NatLessThanWellFounded
<1>3. ASSUME NEW k \in S
      PROVE  m <= k
  <2>1. k \in Nat /\ m \in Nat
    BY <1>1
  <2>2. ~(k < m)
    BY <1>2, <2>1 DEF OpToRel
  <2> QED
    BY <2>1, <2>2
<1> QED
  BY <1>3

\* Above a name, with each directory that one's parent.
LEMMA AboveFacts ==
  ASSUME NEW n \in Names \ {Root}
  PROVE  /\ Parent[n] \in Above(n) /\ Above(n) \subseteq Dirs
         /\ \A a \in Above(n) \ {Root} : Parent[a] \in Above(n)
  BY TreeFacts DEF Above

\* What is missing in a finished tree lies below a trace.
LEMMA NothingIsMissing ==
  ASSUME WalkInv, EnteredInv
  PROVE  NothingMissing
<1>1. SUFFICES ASSUME phase = "Done", NEW n \in Names \ Placed
               PROVE  \E a \in Above(n) : a \in Placed /\ a \in errored \cup disk.skipped
  BY DEF NothingMissing
<1>2. n \in Names \ {Root} /\ Root \in Placed
  BY <1>1 DEF Placed
<1> DEFINE Lost == {m \in {n} \cup Above(n) : m \notin Placed}
<1>3. Lost \subseteq Names /\ n \in Lost
  BY <1>1, <1>2, AboveFacts, TreeFacts
<1>4. PICK m \in Lost : \A k \in Lost : m <= k
  BY <1>3, FirstName
<1>5. m \in Names \ {Root} /\ m \notin Placed
  BY <1>2, <1>3, <1>4
<1>6. Parent[m] \in Above(n) /\ Parent[m] \in Dirs /\ Parent[m] < m
  BY <1>2, <1>4, <1>5, AboveFacts, TreeFacts, WalkAssumption
<1> DEFINE p == Parent[m]
<1>7. p \in Placed
  <2>1. SUFFICES ASSUME p \notin Placed
                 PROVE  FALSE
    OBVIOUS
  <2>2. p \in Lost
    BY <1>6, <2>1
  <2>3. p \in Nat /\ m \in Nat
    BY <1>5, <1>6, TreeFacts, WalkAssumption
  <2> HIDE DEF Lost
  <2> QED
    BY <1>4, <1>6, <2>2, <2>3
<1>8. at[p] \in {"Unknown", "Placed"}
  <2>1. WalkersDone /\ at[p] # "Skipped"
    BY <1>1, <1>6 DEF WalkInv, OverInv, EnteredInv
  <2> QED
    BY <1>6, <2>1 DEF WalkersDone
<1>9. CASE at[p] = "Placed"
  <2>1. m \in disk.broken /\ m \in Children(p)
    BY <1>5, <1>9 DEF Placed, Children
  <2>2. p \in errored
    BY <1>6, <1>9, <2>1 DEF EnteredInv, Read
  <2> QED
    BY <1>6, <1>7, <2>2
<1>10. CASE at[p] = "Unknown"
  <2>1. p \in Dirs \ {Root}
    BY <1>6, <1>10 DEF EnteredInv
  <2>2. at[Parent[p]] = "Placed" /\ p \notin disk.broken
    BY <1>7, <2>1 DEF Placed
  <2>3. p \in disk.skipped \/ Parent[p] \in errored
    BY <1>10, <2>1, <2>2 DEF EnteredInv
  <2>4. Parent[p] \in Above(n) /\ Parent[p] \in Placed
    <3>1. Parent[p] \in Above(n) /\ Parent[p] \in Dirs
      BY <1>2, <1>6, <2>1, AboveFacts, TreeFacts
    <3> QED
      BY <2>2, <3>1 DEF EnteredInv
  <2> QED
    BY <1>6, <1>7, <2>3, <2>4
<1> QED
  BY <1>8, <1>9, <1>10

\* What the counters have of a file: a clone's blocks from its claim on, all
\* others' from the block of the arena, and what it shares once it is settled.
Due(n) ==
  CASE charge[n] = "Cloned" -> Held(n)
    [] charge[n] \in {"Full", "Unmapped"} /\ n \in PlacedFiles -> Held(n)
    [] charge[n] = "Alloc" ->
         IF phase \in {"Walking", "Sharing"} THEN Held(n) \ Shared(n) ELSE Held(n)
    [] OTHER -> {}

DueNow == [n \in Files |-> Due(n)]

DueInv == phase # "Cancelled" => bytes + deduped = Total(Files, DueNow)

\* The arena, once families have been settled too.
Settled(n) ==
  IF n \in Winners THEN Held(n)
  ELSE IF n \in Losers THEN {}
  ELSE IF n \in PlacedFiles
       THEN IF n \in Waiting THEN Amount(n, charge[n]) \cup Fresh(n) ELSE Amount(n, charge[n])
  ELSE {}

DoneInv ==
  phase = "Done" => bytes = Total(Names, arena) /\ \A n \in Names : arena[n] = Settled(n)

FinalInv == DueInv /\ DoneInv

\* Where it is decided what a name gets, and when.
LEMMA FinalStays ==
  ASSUME WalkInv, FinalInv, Decided' = Decided, UNCHANGED <<arena, bytes, deduped>>,
         phase' = phase \/ (phase = "Walking" /\ phase' = "Sharing") \/ phase' = "Cancelled"
  PROVE  FinalInv'
<1>1. UNCHANGED <<disk, at, charge, seenInodes, sharedBlocks>>
  BY DEF Decided
<1>2. /\ PlacedFiles' = PlacedFiles /\ Waiting' = Waiting
      /\ \A n : Fresh(n)' = Fresh(n) /\ Amount(n, charge[n])' = Amount(n, charge[n])
  BY DecidedStays
<1>3. CASE phase' = "Cancelled"
  BY <1>3 DEF FinalInv, DueInv, DoneInv
<1>4. CASE phase' = phase \/ (phase = "Walking" /\ phase' = "Sharing")
  <2>1. \A n : Due(n)' = Due(n)
    BY <1>1, <1>2, <1>4, DiskStays DEF Due
  <2>2. DueNow' = DueNow
    BY <2>1 DEF DueNow
  <2>3. DueInv'
    BY <1>4, <2>2 DEF FinalInv, DueInv, Total
  <2>4. \A n : Members(Family(n))' = Members(Family(n))
    BY <1>1, <1>2, DiskStays DEF Members
  <2>5. \A n : Wins(n)' <=> Wins(n)
    BY <2>4, <1>1, DiskStays DEF Wins
  <2>6. Winners' = Winners /\ Losers' = Losers
    BY <1>1, <1>2, <2>4, <2>5, DiskStays DEF Winners, Losers, Loses
  <2>7. \A n : Settled(n)' = Settled(n)
    BY <1>2, <2>6, DiskStays, <1>1 DEF Settled
  <2>8. DoneInv'
    BY <1>4, <2>7 DEF FinalInv, DoneInv, Total
  <2> QED
    BY <2>3, <2>8 DEF FinalInv
<1> QED
  BY <1>3, <1>4

\* A directory that is read, or left out, is charged nothing.
LEMMA ListingFinal ==
  ASSUME WalkInv, FinalInv, NEW d \in Dirs, Skip(d) \/ List(d)
  PROVE  FinalInv'
<1>1. /\ at[d] = "Queued" /\ UNCHANGED <<disk, charge, arena, bytes, deduped, phase>>
  BY DEF Skip, List, Walker, counters
<1>2. PICK to \in {"Skipped", "Listed"} : at' = [at EXCEPT ![d] = to]
  BY DEF Skip, List, Walker
<1>3. at \in [Dirs -> Places] /\ phase = "Walking"
  BY <1>1, StillWalking DEF WalkInv, TypeOK
<1>4. \A e \in Dirs : at'[e] = "Placed" <=> at[e] = "Placed"
  BY <1>1, <1>2, <1>3
<1>5. PlacedFiles' = PlacedFiles
  BY <1>1, <1>4, TreeFacts DEF Placed, PlacedFiles
<1>6. DueNow' = DueNow
  BY <1>1, <1>5, DiskStays DEF DueNow, Due
<1> QED
  BY <1>1, <1>3, <1>6 DEF FinalInv, DueInv, DoneInv, Total

\* Nor is anything while hard links are claimed.
LEMMA ClaimLinksFinal ==
  ASSUME WalkInv, FinalInv, NEW d \in Dirs, ClaimLinks(d)
  PROVE  FinalInv'
<1>1. /\ at[d] = "Listed" /\ at' = [at EXCEPT ![d] = "Linked"]
      /\ UNCHANGED <<disk, arena, bytes, deduped, phase>>
  BY DEF ClaimLinks, Walker, counters
<1>2. \A n \in Files : \/ charge'[n] = charge[n]
                       \/ n \in FilesIn(d) /\ charge'[n] \in {"Full", "Unmapped", "Nothing"}
  BY DEF ClaimLinks, LinkedIn, Missed
<1>3. at \in [Dirs -> Places] /\ phase = "Walking" /\ disk \in Disks
  BY <1>1, StillWalking DEF WalkInv, TypeOK
<1>4. \A e \in Dirs : at'[e] = "Placed" <=> at[e] = "Placed"
  BY <1>1, <1>3
<1>5. PlacedFiles' = PlacedFiles
  BY <1>1, <1>4, TreeFacts DEF Placed, PlacedFiles
<1>6. \A n \in FilesIn(d) : n \in Files /\ n \notin PlacedFiles /\ charge[n] = "Undecided"
  BY <1>1, <1>3, FilesOf DEF PlacedFiles, Placed, WalkInv, ClaimInv, ChargeInv
<1>7. \A n \in Files : Due(n)' = Due(n)
  BY <1>1, <1>2, <1>5, <1>6, DiskStays DEF Due
<1>8. DueNow' = DueNow
  BY <1>7 DEF DueNow
<1> QED
  BY <1>1, <1>3, <1>8 DEF FinalInv, DueInv, DoneInv, Total

\* Clones that are not charged are counted as deduplicated.
LEMMA ClaimClonesFinal ==
  ASSUME WalkInv, FinalInv, NEW d \in Dirs, ClaimClones(d)
  PROVE  FinalInv'
<1>1. /\ at[d] = "Linked" /\ at' = [at EXCEPT ![d] = "Claimed"]
      /\ UNCHANGED <<disk, arena, bytes, phase>>
  BY DEF ClaimClones, Walker
<1>2. PICK kept \in SUBSET ClonesIn(d) :
        /\ charge' = [n \in Files |-> IF n \in ClonesIn(d) \ kept THEN "Cloned" ELSE charge[n]]
        /\ deduped' = deduped + CloneBytes(ClonesIn(d) \ kept)
  BY DEF ClaimClones
<1>3. /\ at \in [Dirs -> Places] /\ phase = "Walking" /\ disk \in Disks
      /\ bytes \in Nat /\ deduped \in Nat
  BY <1>1, StillWalking DEF WalkInv, TypeOK
<1>4. \A e \in Dirs : at'[e] = "Placed" <=> at[e] = "Placed"
  BY <1>1, <1>3
<1>5. PlacedFiles' = PlacedFiles
  BY <1>1, <1>4, TreeFacts DEF Placed, PlacedFiles
<1> DEFINE Repeats == ClonesIn(d) \ kept
<1>6. \A n \in Repeats : n \in Files /\ n \notin PlacedFiles /\ charge[n] = "Full" /\ charge'[n] = "Cloned"
  BY <1>1, <1>2, <1>3, FilesOf DEF ClonesIn, PlacedFiles, Placed
<1>7. \A n \in Files \ Repeats : charge'[n] = charge[n]
  BY <1>2
<1> HIDE DEF Repeats
<1>8. /\ \A n \in Files \ Repeats : Due(n)' = Due(n)
      /\ \A n \in Repeats : Due(n) = {} /\ Due(n)' = Held(n)
  <2>1. \A n \in Files \ Repeats : Due(n)' = Due(n)
    BY <1>1, <1>5, <1>7, DiskStays DEF Due
  <2>2. \A n \in Repeats : Due(n) = {} /\ Due(n)' = Held(n)
    BY <1>1, <1>5, <1>6, DiskStays DEF Due
  <2> QED
    BY <2>1, <2>2
<1>9. Repeats \subseteq Files /\ Files \subseteq Names
  BY <1>6 DEF Names
<1> DEFINE Then == DueNow'
<1>10. /\ \A n \in Files : DueNow[n] = Due(n) /\ Then[n] = Due(n)'
       /\ \A n \in Repeats : HeldBy[n] = Held(n)
  BY <1>9 DEF DueNow, HeldBy
<1> HIDE DEF Then
<1>11. Total(Files, Then) = Total(Files, DueNow) + Total(Repeats, HeldBy)
  <2>1. /\ \A n \in Files : DueNow[n] \subseteq Then[n]
        /\ \A n \in Repeats : HeldBy[n] \subseteq Then[n]
        /\ \A n \in Files : \A b \in Then[n] :
             (n \in Files /\ b \in DueNow[n]) \/ (n \in Repeats /\ b \in HeldBy[n])
        /\ \A n \in Files \cap Repeats : DueNow[n] \cap HeldBy[n] = {}
    BY <1>8, <1>9, <1>10
  <2> QED
    BY <1>9, <2>1, TotalAdds
<1>12. Total(Files, DueNow)' = Total(Files, Then)
  BY DEF Total, Then
<1>13. Total(Repeats, HeldBy) \in Nat
  BY <1>9, PairsFinite
<1>14. bytes + deduped = Total(Files, DueNow)
  BY <1>3 DEF FinalInv, DueInv
<1>15. deduped' = deduped + Total(Repeats, HeldBy)
  BY <1>2 DEF CloneBytes, Repeats
<1>16. bytes' + deduped' = Total(Files, DueNow)'
  BY <1>1, <1>3, <1>11, <1>12, <1>13, <1>14, <1>15
<1> QED
  BY <1>1, <1>3, <1>16 DEF FinalInv, DueInv, DoneInv

\* A block of the arena adds what its files are charged, once.
LEMMA PlaceFinal ==
  ASSUME WalkInv, FinalInv, NEW d \in Dirs, Place(d)
  PROVE  FinalInv'
<1>1. /\ at[d] = "Claimed" /\ charge' = OwnExtents(d)
      /\ UNCHANGED <<disk, deduped, phase>>
      /\ arena' = [n \in Names |-> IF n \in FilesIn(d) THEN Amount(n, OwnExtents(d)[n])
                                  ELSE arena[n]]
      /\ bytes' = bytes + Total(FilesIn(d), arena')
  BY DEF Place, claims
<1>2. /\ at \in [Dirs -> Places] /\ phase = "Walking" /\ disk \in Disks
      /\ bytes \in Nat /\ deduped \in Nat /\ charge \in [Files -> Charges]
  BY <1>1, StillWalking DEF WalkInv, TypeOK
<1>3. \A n \in FilesIn(d) : n \in Files /\ n \in Names /\ Parent[n] = d /\ n \notin PlacedFiles
  BY <1>1, <1>2, FilesOf DEF PlacedFiles, Placed
<1>4. \A n \in Files : n \in PlacedFiles' <=> n \in PlacedFiles \/ n \in FilesIn(d)
  <2>1. \A n \in Files : /\ n \in Names \ {Root} /\ Parent[n] \in Dirs
                         /\ n \in FilesIn(d) <=> Parent[n] = d /\ n \notin disk.broken
    BY <1>2, DiskFacts DEF FilesIn, Listing, Children
  <2>2. \A e \in Dirs : at'[e] = "Placed" <=> at[e] = "Placed" \/ e = d
    BY PlaceMoves
  <2> QED
    BY <1>1, <2>1, <2>2 DEF PlacedFiles, Placed
<1>5. \A n \in Files \ FilesIn(d) : charge'[n] = charge[n]
  BY <1>1 DEF OwnExtents
<1>6. \A n \in Files \ FilesIn(d) : Due(n)' = Due(n)
  BY <1>1, <1>4, <1>5, DiskStays DEF Due
<1>7. ASSUME NEW n \in FilesIn(d)
      PROVE  /\ charge[n] # "Alloc"
             /\ charge'[n] = OwnExtents(d)[n] /\ arena'[n] = Amount(n, charge'[n])
             /\ charge'[n] = "Cloned" <=> charge[n] = "Cloned"
             /\ n \in PlacedFiles'
  <2>1. charge[n] # "Alloc"
    BY <1>1, <1>3 DEF WalkInv, ClaimInv, ChargeInv
  <2> QED
    BY <1>1, <1>3, <1>4, <2>1 DEF OwnExtents
<1>8. ASSUME NEW n \in FilesIn(d)
      PROVE  /\ Due(n)' = Due(n) \cup arena'[n]
             /\ Due(n) \cap arena'[n] = {}
  <2>1. CASE charge[n] = "Cloned"
    <3>1. arena'[n] = {} /\ Due(n) = Held(n) /\ Due(n)' = Held(n)
      BY <1>1, <1>7, <2>1, DiskStays DEF Amount, Due
    <3> QED
      BY <3>1
  <2>2. CASE charge[n] # "Cloned"
    <3>1. Due(n) = {}
      BY <1>3, <1>7, <2>2 DEF Due
    <3>2. arena'[n] = IF charge'[n] \in {"Full", "Unmapped"} THEN Held(n)
                      ELSE IF charge'[n] = "Alloc" THEN Held(n) \ Shared(n) ELSE {}
      BY <1>7 DEF Amount
    <3>3. Due(n)' = IF charge'[n] \in {"Full", "Unmapped"} THEN Held(n)
                    ELSE IF charge'[n] = "Alloc" THEN Held(n) \ Shared(n) ELSE {}
      BY <1>1, <1>2, <1>7, <2>2, DiskStays DEF Due
    <3> QED
      BY <3>1, <3>2, <3>3
  <2> QED
    BY <2>1, <2>2
<1>9. FilesIn(d) \subseteq Files /\ Files \subseteq Names
  BY <1>3 DEF Names
<1> DEFINE Then == DueNow'
<1>10. \A n \in Files : DueNow[n] = Due(n) /\ Then[n] = Due(n)'
  BY DEF DueNow
<1> HIDE DEF Then
<1>11. Total(Files, Then) = Total(Files, DueNow) + Total(FilesIn(d), arena')
  <2>1. /\ \A n \in Files : DueNow[n] \subseteq Then[n]
        /\ \A n \in FilesIn(d) : arena'[n] \subseteq Then[n]
        /\ \A n \in Files : \A b \in Then[n] :
             (n \in Files /\ b \in DueNow[n]) \/ (n \in FilesIn(d) /\ b \in arena'[n])
        /\ \A n \in Files \cap FilesIn(d) : DueNow[n] \cap arena'[n] = {}
    BY <1>6, <1>8, <1>9, <1>10
  <2> QED
    BY <1>9, <2>1, TotalAdds
<1>12. Total(Files, DueNow)' = Total(Files, Then)
  BY DEF Total, Then
<1>13. Total(FilesIn(d), arena') \in Nat
  BY <1>9, PairsFinite
<1>14. bytes + deduped = Total(Files, DueNow)
  BY <1>2 DEF FinalInv, DueInv
<1>15. bytes' + deduped' = Total(Files, DueNow)'
  BY <1>1, <1>2, <1>11, <1>12, <1>13, <1>14
<1> QED
  BY <1>1, <1>2, <1>15 DEF FinalInv, DueInv, DoneInv

\* Every file whose extents were mapped waits.
LEMMA AllocWaits ==
  ASSUME WalkInv, NEW n \in Files, charge[n] = "Alloc"
  PROVE  n \in Waiting
<1>1. at[Parent[n]] = "Placed" /\ n \notin disk.broken
  BY DEF WalkInv, ClaimInv, ChargeInv
<1>2. n \in Names \ {Root}
  BY DiskFacts DEF WalkInv, TypeOK
<1> QED
  BY <1>1, <1>2 DEF Waiting, PlacedFiles, Placed

\* Shared extents are counted or deduplicated, at every file that waits.
LEMMA SettleSharedFinal ==
  ASSUME WalkInv, FinalInv, SettleShared
  PROVE  FinalInv'
<1> DEFINE F == [n \in Files |-> Fresh(n)]
           G == [n \in Files |-> Shared(n) \ Fresh(n)]
           H == [n \in Files |-> Shared(n)]
<1>1. /\ UNCHANGED <<disk, at, charge, seenInodes, sharedBlocks>>
      /\ bytes' = bytes + Total(Waiting, F)
      /\ deduped' = deduped + Total(Waiting, G)
      /\ phase = "Sharing" /\ phase' = "Moving"
  BY DEF SettleShared, claims
<1>2. bytes \in Nat /\ deduped \in Nat
  BY DEF WalkInv, TypeOK
<1>3. Waiting \subseteq Files /\ Files \subseteq Names
  BY DEF Waiting, PlacedFiles, Names
<1>4. \A n \in Waiting : F[n] = Fresh(n) /\ G[n] = Shared(n) \ Fresh(n) /\ H[n] = Shared(n)
  BY <1>3
<1>5. \A n \in Waiting : Fresh(n) \subseteq Shared(n)
  BY DEF Fresh
<1> HIDE DEF F, G, H
<1>6. Total(Waiting, H) = Total(Waiting, F) + Total(Waiting, G)
  <2>1. /\ \A n \in Waiting : F[n] \subseteq H[n]
        /\ \A n \in Waiting : G[n] \subseteq H[n]
        /\ \A n \in Waiting : \A b \in H[n] :
             (n \in Waiting /\ b \in F[n]) \/ (n \in Waiting /\ b \in G[n])
        /\ \A n \in Waiting \cap Waiting : F[n] \cap G[n] = {}
    BY <1>4, <1>5
  <2> QED
    BY <1>3, <2>1, TotalAdds
<1>7. PlacedFiles' = PlacedFiles
  BY <1>1 DEF PlacedFiles, Placed
<1>8. \A n \in Files \ Waiting : Due(n)' = Due(n)
  BY <1>1, <1>7, AllocWaits, DiskStays DEF Due
<1>9. \A n \in Waiting : Due(n) = Held(n) \ Shared(n) /\ Due(n)' = Held(n)
  <2>1. \A n \in Waiting : charge[n] = "Alloc"
    BY DEF Waiting
  <2> QED
    BY <1>1, <2>1, DiskStays DEF Due
<1>10. \A n \in Waiting : Shared(n) \subseteq Held(n)
  BY DEF Shared
<1> DEFINE Then == DueNow'
<1>11. \A n \in Files : DueNow[n] = Due(n) /\ Then[n] = Due(n)'
  BY DEF DueNow
<1> HIDE DEF Then
<1>12. Total(Files, Then) = Total(Files, DueNow) + Total(Waiting, H)
  <2>1. /\ \A n \in Files : DueNow[n] \subseteq Then[n]
        /\ \A n \in Waiting : H[n] \subseteq Then[n]
        /\ \A n \in Files : \A b \in Then[n] :
             (n \in Files /\ b \in DueNow[n]) \/ (n \in Waiting /\ b \in H[n])
        /\ \A n \in Files \cap Waiting : DueNow[n] \cap H[n] = {}
    BY <1>3, <1>4, <1>8, <1>9, <1>10, <1>11
  <2> QED
    BY <1>3, <2>1, TotalAdds
<1>13. Total(Files, DueNow)' = Total(Files, Then)
  BY DEF Total, Then
<1>14. Total(Waiting, F) \in Nat /\ Total(Waiting, G) \in Nat
  BY <1>3, PairsFinite
<1>15. bytes + deduped = Total(Files, DueNow)
  BY <1>1 DEF FinalInv, DueInv
<1>16. bytes' + deduped' = Total(Files, DueNow)'
  BY <1>1, <1>2, <1>6, <1>12, <1>13, <1>14, <1>15
<1> QED
  BY <1>1, <1>16 DEF FinalInv, DueInv, DoneInv

\* What families move: from a name that was charged to one that was not.
LEMMA MoveFacts ==
  ASSUME WalkInv, phase = "Moving"
  PROVE  /\ Winners \subseteq Names /\ Losers \subseteq Names /\ Winners \cap Losers = {}
         /\ \A n \in Winners : n \in Files /\ arena[n] = {} /\ n \notin Waiting
         /\ \A n \in Losers : n \in Files /\ arena[n] = Held(n) /\ n \notin Waiting
<1>1. \A n \in Names : arena[n] = Showing(n)
  BY DEF WalkInv, ArenaInv, Settling
<1>2. ASSUME NEW n \in Winners
      PROVE  n \in Files /\ n \in Names /\ charge[n] = "Cloned" /\ n \in PlacedFiles
  BY DEF Winners, Wins, Members, PlacedFiles, Names
<1>3. ASSUME NEW n \in Losers
      PROVE  n \in Files /\ n \in Names /\ charge[n] = "Full" /\ n \in PlacedFiles
  BY DEF Losers, Loses, PlacedFiles, Names
<1>4. \A n \in Winners : arena[n] = {} /\ n \notin Waiting
  BY <1>1, <1>2 DEF Showing, Amount, Waiting
<1>5. \A n \in Losers : arena[n] = Held(n) /\ n \notin Waiting
  BY <1>1, <1>3 DEF Showing, Amount, Waiting
<1> QED
  BY <1>2, <1>3, <1>4, <1>5

\* What families move is taken from one counter and given to the other.
LEMMA SettleClonesFinal ==
  ASSUME WalkInv, FinalInv, SettleClones
  PROVE  FinalInv'
<1>1. /\ UNCHANGED <<disk, cancelled, at, charge, seenInodes, sharedBlocks, errored>>
      /\ arena' = [n \in Names |-> IF n \in Winners THEN Held(n)
                                   ELSE IF n \in Losers THEN {} ELSE arena[n]]
      /\ deduped' = deduped + MovedBytes
      /\ bytes' = bytes - MovedBytes
      /\ phase = "Moving" /\ phase' = "Done"
  BY DEF SettleClones, claims
<1>2. bytes \in Nat /\ deduped \in Nat
  BY DEF WalkInv, TypeOK
<1>3. Decided' = Decided
  BY <1>1 DEF Decided
<1>4. /\ PlacedFiles' = PlacedFiles /\ Waiting' = Waiting
      /\ \A n : Fresh(n)' = Fresh(n) /\ Amount(n, charge[n])' = Amount(n, charge[n])
  BY <1>3, DecidedStays
<1>5. /\ Winners \subseteq Names /\ Losers \subseteq Names /\ Winners \cap Losers = {}
      /\ \A n \in Winners : n \in Files /\ arena[n] = {}
      /\ \A n \in Losers : n \in Files /\ arena[n] = Held(n)
  BY <1>1, MoveFacts
<1> DEFINE Rest == [n \in Names |-> IF n \in Winners \cup Losers THEN {} ELSE arena[n]]
<1>6. \A n \in Names : Rest[n] = IF n \in Winners \cup Losers THEN {} ELSE arena[n]
  OBVIOUS
<1>7. /\ \A n \in Losers : HeldBy[n] = Held(n)
      /\ \A n \in Winners : HeldBy[n] = Held(n)
  BY <1>5 DEF HeldBy
<1> HIDE DEF Rest
<1>8. Total(Names, arena) = Total(Names, Rest) + Total(Losers, HeldBy)
  <2>1. /\ \A n \in Names : Rest[n] \subseteq arena[n]
        /\ \A n \in Losers : HeldBy[n] \subseteq arena[n]
        /\ \A n \in Names : \A b \in arena[n] :
             (n \in Names /\ b \in Rest[n]) \/ (n \in Losers /\ b \in HeldBy[n])
        /\ \A n \in Names \cap Losers : Rest[n] \cap HeldBy[n] = {}
    BY <1>5, <1>6, <1>7
  <2> QED
    BY <1>5, <2>1, TotalAdds
<1> DEFINE after == arena'
<1>9. \A n \in Names : after[n] = IF n \in Winners THEN Held(n)
                                  ELSE IF n \in Losers THEN {} ELSE arena[n]
  BY <1>1
<1> HIDE DEF after
<1>10. Total(Names, after) = Total(Names, Rest) + Total(Winners, HeldBy)
  <2>1. /\ \A n \in Names : Rest[n] \subseteq after[n]
        /\ \A n \in Winners : HeldBy[n] \subseteq after[n]
        /\ \A n \in Names : \A b \in after[n] :
             (n \in Names /\ b \in Rest[n]) \/ (n \in Winners /\ b \in HeldBy[n])
        /\ \A n \in Names \cap Winners : Rest[n] \cap HeldBy[n] = {}
    BY <1>5, <1>6, <1>7, <1>9
  <2> QED
    BY <1>5, <2>1, TotalAdds
<1>11. /\ Total(Losers, HeldBy) \in Nat /\ Total(Winners, HeldBy) \in Nat
       /\ Total(Names, Rest) \in Nat
  BY <1>5, PairsFinite
<1>12. bytes = Total(Names, arena)
  BY <1>1 DEF WalkInv, CounterInv, Settling
<1>13. Total(Names, arena)' = Total(Names, after)
  BY DEF Total, after
<1>14. bytes' = Total(Names, arena)'
  BY <1>1, <1>8, <1>10, <1>11, <1>12, <1>13 DEF MovedBytes
<1>15. \A n \in Names : arena'[n] = Settled(n)'
  <2>1. \A n : Members(Family(n))' = Members(Family(n))
    BY <1>1, <1>4, DiskStays DEF Members
  <2>2. \A n : Wins(n)' <=> Wins(n)
    BY <1>1, <2>1, DiskStays DEF Wins
  <2>3. Winners' = Winners /\ Losers' = Losers
    BY <1>1, <1>4, <2>1, <2>2, DiskStays DEF Winners, Losers, Loses
  <2>4. \A n \in Names : arena[n] = Showing(n)
    BY <1>1 DEF WalkInv, ArenaInv, Settling
  <2>5. ASSUME NEW n \in Names
        PROVE  arena'[n] = Settled(n)
    BY <1>1, <2>4 DEF Settled, Showing
  <2>6. \A n : Settled(n)' = Settled(n)
    BY <1>1, <1>4, <2>3, DiskStays DEF Settled
  <2> QED
    BY <2>5, <2>6
<1>16. DueNow' = DueNow
  BY <1>1, <1>4, DiskStays DEF DueNow, Due
<1>17. bytes' + deduped' = Total(Files, DueNow)'
  <2>1. bytes + deduped = Total(Files, DueNow)
    BY <1>1 DEF FinalInv, DueInv
  <2>2. Total(Files, DueNow)' = Total(Files, DueNow)
    BY <1>16 DEF Total
  <2>3. MovedBytes \in Int
    BY <1>11 DEF MovedBytes
  <2> QED
    BY <1>1, <1>2, <2>1, <2>2, <2>3
<1> QED
  BY <1>14, <1>15, <1>17 DEF FinalInv, DueInv, DoneInv

(***************************************************************************)
(* What follows for a finished tree.                                       *)
(***************************************************************************)
TreeInv == WalkInv /\ FoundInv /\ EnteredInv /\ FinalInv

\* A file of a finished tree is charged, or is a repeat of one that is.
LEMMA DoneFacts ==
  ASSUME TreeInv, phase = "Done"
  PROVE  /\ \A n \in Files : n \in PlacedFiles <=> charge[n] # "Undecided"
         /\ \A n \in PlacedFiles : /\ n \in Files /\ n \in Names /\ n \in Nat
                                   /\ charge[n] \in {"Full", "Nothing", "Cloned", "Alloc"}
                                   /\ charge[n] = "Full" => ~Mapped(n)
                                   /\ charge[n] = "Alloc" => Mapped(n) /\ n \in Waiting
                                   /\ charge[n] = "Cloned" => Family(n) # NoFamily
                                   /\ arena[n] = Settled(n)
<1>1. disk \in Disks /\ charge \in [Files -> Charges] /\ WalkersDone
  BY DEF TreeInv, WalkInv, TypeOK, OverInv
<1>2. \A n \in Files : n \in Names \ {Root} /\ n \in Names /\ n \in Nat /\ Parent[n] \in Dirs
  BY <1>1, DiskFacts
<1>3. ASSUME NEW n \in Files, charge[n] # "Undecided"
      PROVE  n \in PlacedFiles /\ at[Parent[n]] = "Placed"
  <2>1. at[Parent[n]] \in {"Linked", "Claimed", "Placed"} /\ n \notin disk.broken
    BY <1>3 DEF TreeInv, WalkInv, ClaimInv, ChargeInv
  <2>2. at[Parent[n]] = "Placed"
    BY <1>1, <1>2, <2>1 DEF WalkersDone
  <2> QED
    BY <1>2, <2>1, <2>2 DEF PlacedFiles, Placed
<1>4. ASSUME NEW n \in PlacedFiles
      PROVE  n \in Files /\ at[Parent[n]] = "Placed" /\ charge[n] # "Undecided"
  <2>1. n \in Files /\ at[Parent[n]] = "Placed" /\ n \notin disk.broken
    BY <1>2 DEF PlacedFiles, Placed
  <2> QED
    BY <2>1 DEF TreeInv, FoundInv, DecidedInv
<1>5. ASSUME NEW n \in PlacedFiles
      PROVE  /\ n \in Files /\ n \in Names /\ n \in Nat
             /\ charge[n] \in {"Full", "Nothing", "Cloned", "Alloc"}
             /\ charge[n] = "Full" => ~Mapped(n)
             /\ charge[n] = "Alloc" => Mapped(n) /\ n \in Waiting
             /\ charge[n] = "Cloned" => Family(n) # NoFamily
  <2>1. n \in Files /\ n \in Names /\ n \in Nat
    BY <1>2, <1>4
  <2>2. charge[n] \in {"Full", "Nothing", "Cloned", "Alloc"}
    BY <1>1, <1>4, <2>1 DEF Charges, TreeInv, EnteredInv
  <2>3. /\ charge[n] = "Full" => ~Mapped(n)
        /\ charge[n] = "Alloc" => Mapped(n) /\ n \in Waiting
        /\ charge[n] = "Cloned" => Family(n) # NoFamily
    BY <1>4, <2>1, AllocWaits DEF TreeInv, WalkInv, ClaimInv, ChargeInv
  <2> QED
    BY <2>1, <2>2, <2>3
<1>6. \A n \in Names : arena[n] = Settled(n)
  BY DEF TreeInv, FinalInv, DoneInv
<1> QED
  BY <1>3, <1>4, <1>5, <1>6

\* The first member of a family carries the whole of its own blocks: the charge
\* was made for it, or is moved to it.
LEMMA FirstCarries ==
  ASSUME TreeInv, phase = "Done", NEW n \in PlacedFiles, Wins(n)
  PROVE  arena[n] = Held(n)
<1>1. /\ n \in Files /\ n \in Names /\ Family(n) # NoFamily /\ n \in Members(Family(n))
      /\ charge[n] \in {"Full", "Cloned"}
  BY DoneFacts DEF Wins, Members
<1>2. arena[n] = Settled(n) /\ n \notin Losers
  BY DoneFacts DEF Losers, Loses
<1>3. CASE charge[n] = "Full"
  <2>1. n \notin Winners /\ n \notin Waiting
    BY <1>3 DEF Winners, Waiting
  <2> QED
    BY <1>2, <1>3, <2>1 DEF Settled, Amount
<1>4. CASE charge[n] = "Cloned"
  <2>1. Family(n) \in sharedBlocks
    BY <1>1, <1>4 DEF TreeInv, FoundInv, DecidedInv
  <2>2. PICK m \in Files : Family(m) = Family(n) /\ Holds(m)
    BY <2>1 DEF TreeInv, FoundInv, BackedInv
  <2>3. charge[m] = "Full" /\ m \in PlacedFiles
    BY <2>2, DoneFacts DEF Holds
  <2>4. m \in Members(Family(n))
    BY <2>2, <2>3 DEF Members
  <2>5. m # n
    BY <1>4, <2>3
  <2>6. n \in Winners
    BY <1>4, <2>4, <2>5 DEF Winners
  <2> QED
    BY <1>2, <2>6 DEF Settled
<1> QED
  BY <1>1, <1>3, <1>4

\* A family with a member has a first one.
LEMMA FamilyCarried ==
  ASSUME TreeInv, phase = "Done", NEW n \in PlacedFiles, Family(n) # NoFamily,
         charge[n] \in {"Full", "Cloned"}
  PROVE  \E m \in Alike(n) : arena[m] = Held(m)
<1>1. n \in Members(Family(n)) /\ Members(Family(n)) \subseteq PlacedFiles
  BY DEF Members
<1>2. Members(Family(n)) \subseteq Names
  BY DEF Members, PlacedFiles, Names
<1>3. PICK m \in Members(Family(n)) : \A k \in Members(Family(n)) : m <= k
  BY <1>1, <1>2, FirstName
<1>4. Family(m) = Family(n) /\ m \in PlacedFiles
  BY <1>1 DEF Members
<1>5. Wins(m)
  BY <1>3, <1>4 DEF Wins
<1>6. arena[m] = Held(m)
  BY <1>4, <1>5, FirstCarries
<1> QED
  BY <1>4, <1>6 DEF Alike

\* A shared block is counted at the first of the files that wait for it.
LEMMA ExtentCarried ==
  ASSUME TreeInv, phase = "Done", NEW n \in Waiting
  PROVE  Held(n) \subseteq UNION {arena[m] : m \in Names}
<1>1. ASSUME NEW m \in Waiting
      PROVE  m \in Names /\ arena[m] = (Held(m) \ Shared(m)) \cup Fresh(m)
  <2>1. m \in PlacedFiles /\ charge[m] = "Alloc"
    BY DEF Waiting
  <2>2. m \notin Winners /\ m \notin Losers
    BY <2>1 DEF Winners, Wins, Losers, Loses, Members
  <2> QED
    BY <2>1, <2>2, DoneFacts DEF Settled, Amount
<1>2. SUFFICES ASSUME NEW b \in Shared(n)
               PROVE  \E m \in Names : b \in arena[m]
  BY <1>1 DEF Shared
<1> DEFINE Sharers == {m \in Waiting : b \in Shared(m)}
<1>3. Sharers \subseteq Names /\ Sharers # {}
  BY <1>1, <1>2
<1>4. PICK m \in Sharers : \A k \in Sharers : m <= k
  BY <1>3, FirstName
<1>5. b \in Fresh(m)
  <2>1. SUFFICES ASSUME NEW k \in Waiting, k < m, b \in Shared(k)
                 PROVE  FALSE
    BY <1>4 DEF Fresh
  <2>2. m <= k
    BY <1>4, <2>1
  <2>3. m \in Nat /\ k \in Nat
    BY <1>1, <1>3, WalkAssumption
  <2> QED
    BY <2>1, <2>2, <2>3
<1> QED
  BY <1>1, <1>4, <1>5

\* What is charged at all is counted.
LEMMA ChargedIsCounted ==
  ASSUME TreeInv, phase = "Done", NEW n \in PlacedFiles, charge[n] \in Counting
  PROVE  \/ Held(n) \subseteq UNION {arena[m] : m \in Names}
         \/ \E m \in Alike(n) : arena[m] = Held(m)
<1>1. CASE charge[n] = "Alloc"
  BY <1>1, ExtentCarried, DoneFacts
<1>2. CASE charge[n] \in {"Full", "Cloned"} /\ Family(n) # NoFamily
  BY <1>2, FamilyCarried
<1>3. CASE charge[n] \in {"Full", "Cloned"} /\ Family(n) = NoFamily
  <2>1. charge[n] = "Full" /\ n \in Names /\ arena[n] = Settled(n)
    BY <1>3, DoneFacts
  <2>2. n \notin Winners /\ n \notin Losers /\ n \notin Waiting
    BY <1>3, <2>1 DEF Winners, Wins, Losers, Loses, Waiting
  <2>3. arena[n] = Held(n)
    BY <2>1, <2>2 DEF Settled, Amount
  <2> QED
    BY <2>1, <2>3
<1> QED
  BY <1>1, <1>2, <1>3, DoneFacts DEF Counting

\* A repeat of a hard link is counted where the name that was charged is.
LEMMA IsCountedSomewhere == TreeInv => CountedSomewhere
<1>1. SUFFICES ASSUME TreeInv, phase = "Done", NEW n \in PlacedFiles
               PROVE  \/ Held(n) \subseteq UNION {arena[m] : m \in Names}
                      \/ \E m \in Alike(n) : arena[m] = Held(m)
  BY DEF CountedSomewhere
<1>2. CASE charge[n] \in Counting
  BY <1>1, <1>2, ChargedIsCounted
<1>3. CASE charge[n] = "Nothing"
  <2>1. n \in Files /\ Ino(n) \in seenInodes
    BY <1>1, <1>3, DoneFacts DEF TreeInv, FoundInv, DecidedInv
  <2>2. PICK k \in Files : Ino(k) = Ino(n) /\ charge[k] \in Counting
    BY <1>1, <2>1 DEF TreeInv, FoundInv, BackedInv
  <2>3. k \in PlacedFiles
    BY <1>1, <2>2, DoneFacts DEF Counting
  <2>4. Held(k) = Held(n) /\ Alike(k) \subseteq Alike(n)
    BY <2>2 DEF Held, Alike, Family
  <2> QED
    BY <1>1, <2>2, <2>3, <2>4, ChargedIsCounted
<1> QED
  BY <1>1, <1>2, <1>3, DoneFacts DEF Counting

\* The first of a family or of an extent's holders is the one that carries it.
LEMMA TheSameCarries == TreeInv => SameNameCarries
<1>1. SUFFICES ASSUME TreeInv, phase = "Done", NEW n \in PlacedFiles
               PROVE
    /\ LET family == {m \in PlacedFiles : Family(m) = Family(n)}
       IN (/\ Family(n) # NoFamily
           /\ \A m \in family : ~IsHardlinked(m) /\ n <= m) => arena[n] = Held(n)
    /\ \A b \in Shared(n) :
         LET holders == {m \in PlacedFiles : b \in Held(m)}
         IN (\A m \in holders : ~IsHardlinked(m) /\ Mapped(m) /\ n <= m) => b \in arena[n]
  BY DEF SameNameCarries
<1>2. n \in Files /\ disk \in Disks /\ charge[n] \in {"Full", "Nothing", "Cloned", "Alloc"}
  BY <1>1, DoneFacts DEF TreeInv, WalkInv, TypeOK
<1>3. ASSUME Family(n) # NoFamily,
             \A m \in PlacedFiles : Family(m) = Family(n) => ~IsHardlinked(m) /\ n <= m
      PROVE  arena[n] = Held(n)
  <2>1. charge[n] # "Nothing" /\ charge[n] # "Alloc"
    BY <1>1, <1>2, <1>3, ClonesAreNotMapped, DoneFacts DEF TreeInv, FoundInv, DecidedInv
  <2>2. n \in Members(Family(n))
    BY <1>2, <2>1 DEF Members
  <2>3. Wins(n)
    BY <1>3, <2>2 DEF Wins, Members
  <2> QED
    BY <1>1, <2>3, FirstCarries
<1>4. ASSUME NEW b \in Shared(n),
             \A m \in PlacedFiles : b \in Held(m) => ~IsHardlinked(m) /\ Mapped(m) /\ n <= m
      PROVE  b \in arena[n]
  <2>1. b \in Held(n) /\ ~IsHardlinked(n) /\ Mapped(n)
    BY <1>4 DEF Shared
  <2>2. Family(n) = NoFamily
    BY <1>2, <2>1, ClonesAreNotMapped
  <2>3. charge[n] = "Alloc" /\ n \in Waiting
    BY <1>1, <1>2, <2>1, <2>2, DoneFacts DEF TreeInv, FoundInv, DecidedInv
  <2>4. b \in Fresh(n)
    <3>1. SUFFICES ASSUME NEW k \in Waiting, k < n, b \in Shared(k)
                   PROVE  FALSE
      BY <1>4 DEF Fresh
    <3>2. k \in PlacedFiles /\ b \in Held(k)
      BY <3>1 DEF Waiting, Shared
    <3>3. n <= k /\ n \in Nat /\ k \in Nat
      BY <1>1, <1>4, <3>2, DoneFacts
    <3> QED
      BY <3>1, <3>3
  <2>5. n \notin Winners /\ n \notin Losers
    BY <2>3 DEF Winners, Wins, Losers, Loses, Members
  <2> QED
    BY <1>1, <2>3, <2>4, <2>5, DoneFacts DEF Settled
<1> QED
  BY <1>3, <1>4

\* One name of each file of the tree is charged: what the counters have of the
\* names is what the files hold.
LEMMA FilesOnce ==
  ASSUME TreeInv, phase = "Done"
  PROVE  Total(Files, DueNow) = Total({Ino(n) : n \in PlacedFiles}, disk.blocks)
<1> DEFINE Charged == {n \in Files : charge[n] \in Counting}
           Listed == {Ino(n) : n \in PlacedFiles}
           P == Pairs(Charged, HeldBy)
           Q == {p \in Listed \X Blocks : p[2] \in disk.blocks[p[1]]}
           g == [p \in P |-> <<Ino(p[1]), p[2]>>]
<1>1. \A n \in Charged : n \in PlacedFiles /\ n \in Files /\ HeldBy[n] = Held(n)
  BY DoneFacts DEF Counting, HeldBy
<1>2. \A n \in Files : Due(n) = IF n \in Charged THEN Held(n) ELSE {}
  BY <1>1, DoneFacts DEF Due, Counting
<1>3. Pairs(Files, DueNow) = P
  BY <1>1, <1>2 DEF Pairs, DueNow
<1>4. Total(Files, DueNow) = Cardinality(P) /\ IsFiniteSet(P)
  <2>1. Files \subseteq Names
    BY DEF Names
  <2> QED
    BY <1>3, <2>1, PairsFinite
<1>5. g \in [P -> Q]
  <2>1. ASSUME NEW p \in P
        PROVE  <<Ino(p[1]), p[2]>> \in Q
    <3>1. p[1] \in Charged /\ p[2] \in Blocks /\ p[2] \in HeldBy[p[1]]
      BY DEF Pairs
    <3>2. p[1] \in PlacedFiles /\ HeldBy[p[1]] = disk.blocks[Ino(p[1])]
      BY <1>1, <3>1 DEF Held
    <3> QED
      BY <3>1, <3>2
  <2> QED
    BY <2>1
<1>6. ASSUME NEW p \in P, NEW q \in P, g[p] = g[q]
      PROVE  p = q
  <2>1. /\ p = <<p[1], p[2]>> /\ q = <<q[1], q[2]>>
        /\ p[1] \in Charged /\ q[1] \in Charged
    BY DEF Pairs
  <2>2. Ino(p[1]) = Ino(q[1]) /\ p[2] = q[2]
    BY <1>6
  <2>3. p[1] = q[1]
    BY <2>1, <2>2 DEF TreeInv, WalkInv, ClaimInv, LinkInv
  <2> QED
    BY <2>1, <2>2, <2>3
<1>7. ASSUME NEW q \in Q
      PROVE  \E p \in P : g[p] = q
  <2>1. q = <<q[1], q[2]>> /\ q[1] \in Listed /\ q[2] \in Blocks /\ q[2] \in disk.blocks[q[1]]
    OBVIOUS
  <2>2. PICK n \in PlacedFiles : q[1] = Ino(n)
    BY <2>1
  <2>3. \E m \in Charged : Ino(m) = Ino(n)
    <3>1. CASE charge[n] \in Counting
      BY <3>1, DoneFacts
    <3>2. CASE charge[n] = "Nothing"
      BY <3>2, DoneFacts DEF TreeInv, FoundInv, DecidedInv, BackedInv
    <3> QED
      BY <3>1, <3>2, DoneFacts DEF Counting
  <2>4. PICK m \in Charged : Ino(m) = q[1]
    BY <2>2, <2>3
  <2>5. q[2] \in HeldBy[m]
    BY <1>1, <2>1, <2>4 DEF Held
  <2>6. <<m, q[2]>> \in P
    BY <2>1, <2>4, <2>5 DEF Pairs
  <2>7. g[<<m, q[2]>>] = <<q[1], q[2]>>
    BY <2>4, <2>6
  <2> QED
    BY <2>1, <2>6, <2>7
<1> HIDE DEF g, P, Q
<1>8. g \in Bijection(P, Q)
  <2>1. g \in Injection(P, Q)
    BY <1>5, <1>6 DEF Injection, IsInjective
  <2>2. g \in Surjection(P, Q)
    BY <1>5, <1>7 DEF Surjection
  <2> QED
    BY <2>1, <2>2 DEF Bijection
<1>9. Cardinality(Q) = Cardinality(P)
  BY <1>4, <1>8, FS_Bijection DEF ExistsBijection
<1>10. Total(Listed, disk.blocks) = Cardinality(Q)
  BY DEF Total, Q
<1> HIDE DEF Listed
<1>11. Total(Files, DueNow) = Total(Listed, disk.blocks)
  BY <1>4, <1>9, <1>10
<1> QED
  BY <1>11 DEF Listed

\* The counters of a finished scan.
LEMMA TheCountersAgree == TreeInv => CountersAgree
<1>1. SUFFICES ASSUME TreeInv, phase = "Done"
               PROVE  /\ bytes = Total(Names, arena)
                      /\ bytes + deduped = Total({Ino(n) : n \in PlacedFiles}, disk.blocks)
  BY DEF CountersAgree
<1>2. bytes = Total(Names, arena) /\ bytes + deduped = Total(Files, DueNow)
  BY <1>1 DEF TreeInv, FinalInv, DueInv, DoneInv
<1> QED
  BY <1>1, <1>2, FilesOnce

(***************************************************************************)
(* The invariant of a whole tree.                                          *)
(***************************************************************************)
\* Nothing is entered, claimed or counted when a scan begins.
LEMMA InitTree == Init => TreeInv
<1>1. SUFFICES ASSUME Init
               PROVE  TreeInv
  OBVIOUS
<1>2. WalkInv /\ disk \in Disks
  BY <1>1, InitHolds DEF Init
<1>3. /\ \A n \in Files : charge[n] = "Undecided" /\ Parent[n] \in Dirs
      /\ \A d \in Dirs : at[d] = IF d = Root THEN "Queued" ELSE "Unknown"
      /\ seenInodes = {} /\ sharedBlocks = {} /\ cancelled = FALSE /\ phase = "Walking"
      /\ bytes = 0 /\ deduped = 0
  BY <1>1, <1>2, DiskFacts DEF Init
<1>4. FoundInv
  BY <1>3 DEF FoundInv, DecidedInv, BackedInv
<1>5. EnteredInv
  BY <1>3, TreeFacts DEF EnteredInv, Placed, Read
<1>6. FinalInv
  <2>1. \A n \in Files : DueNow[n] = {}
    BY <1>3 DEF DueNow, Due
  <2>2. Pairs(Files, DueNow) = {}
    BY <2>1 DEF Pairs
  <2>3. Total(Files, DueNow) = 0
    <3>1. Files \subseteq Names
      BY DEF Names
    <3> QED
      BY <2>2, <3>1, PairsFinite, FS_EmptySet
  <2> QED
    BY <1>3, <2>3 DEF FinalInv, DueInv, DoneInv
<1> QED
  BY <1>2, <1>4, <1>5, <1>6 DEF TreeInv

\* The invariant is kept by every step.
LEMMA NextTree == TreeInv /\ [Next]_vars => TreeInv'
<1>1. SUFFICES ASSUME TreeInv, [Next]_vars
               PROVE  FoundInv' /\ EnteredInv' /\ FinalInv'
  BY NextKeeps DEF TreeInv
<1>2. WalkInv /\ FoundInv /\ EnteredInv /\ FinalInv
  BY <1>1 DEF TreeInv
<1>3. ASSUME NEW d \in Dirs, Skip(d) \/ List(d)
      PROVE  FoundInv' /\ EnteredInv' /\ FinalInv'
  BY <1>2, <1>3, ListingFound, ListingEntered, ListingFinal
<1>4. ASSUME NEW d \in Dirs, ClaimLinks(d)
      PROVE  FoundInv' /\ EnteredInv' /\ FinalInv'
  BY <1>2, <1>4, ClaimLinksFound, ClaimingEntered, ClaimLinksFinal
<1>5. ASSUME NEW d \in Dirs, ClaimClones(d)
      PROVE  FoundInv' /\ EnteredInv' /\ FinalInv'
  BY <1>2, <1>5, ClaimClonesFound, ClaimingEntered, ClaimClonesFinal
<1>6. ASSUME NEW d \in Dirs, Place(d)
      PROVE  FoundInv' /\ EnteredInv' /\ FinalInv'
  BY <1>2, <1>6, PlaceFound, PlaceEntered, PlaceFinal
<1>7. ASSUME Cancel \/ Collect \/ Bail \/ UNCHANGED vars
      PROVE  FoundInv' /\ EnteredInv' /\ FinalInv'
  <2>1. /\ UNCHANGED <<disk, at, charge, seenInodes, sharedBlocks, arena, bytes, deduped>>
        /\ phase' = phase \/ (phase = "Walking" /\ phase' = "Sharing") \/ phase' = "Cancelled"
    BY <1>7 DEF Cancel, Collect, Bail, vars, claims, counters
  <2>2. Decided' = Decided
    BY <2>1 DEF Decided
  <2> QED
    BY <1>2, <1>7, <2>1, <2>2, FoundStays, OthersEntered, FinalStays
<1>8. CASE SettleShared
  <2>1. Decided' = Decided
    BY <1>8 DEF SettleShared, Decided, claims
  <2> QED
    BY <1>2, <1>8, <2>1, FoundStays, OthersEntered, SettleSharedFinal
<1>9. CASE SettleClones
  <2>1. Decided' = Decided
    BY <1>9 DEF SettleClones, Decided, claims
  <2> QED
    BY <1>2, <1>9, <2>1, FoundStays, OthersEntered, SettleClonesFinal
<1>10. CASE Finished
  BY <1>7, <1>10 DEF Finished
<1> QED
  BY <1>1, <1>3, <1>4, <1>5, <1>6, <1>7, <1>8, <1>9, <1>10 DEF Next

(***************************************************************************)
(* The theorems.                                                           *)
(***************************************************************************)
\* The invariant that carries the properties: what is charged, to whom each
\* claim belongs, and what arena and counters make of it.
THEOREM WalkHolds == Spec => []WalkInv
<1>1. Init => WalkInv
  BY InitHolds
<1>2. WalkInv /\ [Next]_vars => WalkInv'
  BY NextKeeps
<1> QED
  BY <1>1, <1>2, PTL DEF Spec

\* Every variable keeps its type, for every tree and disk: the counters the
\* walk adds to and `scan_recording` takes from never pass below zero.
THEOREM TypeCorrect == Spec => []TypeOK
<1>1. WalkInv => TypeOK
  BY DEF WalkInv
<1> QED
  BY <1>1, WalkHolds, PTL

\* No block is counted at two names, in a scan that runs, is given up or is
\* done, for every tree and disk and every order of the walkers.
THEOREM CountedOnceHolds == Spec => []CountedOnce
<1>1. WalkInv => CountedOnce
  BY ShownOnce DEF WalkInv, TypeOK, Settling, OnceInv
<1> QED
  BY <1>1, WalkHolds, PTL

\* The invariant that carries the rest: what was found, by whose claim it is
\* charged, and what of it the counters have.
THEOREM TreeHolds == Spec => []TreeInv
  BY InitTree, NextTree, PTL DEF Spec

\* For every tree and disk and every order of the walkers, every block of a
\* file of a finished tree is counted, and the counters say what the tree does.
THEOREM NothingLostHolds == Spec => []NothingLost
<1>1. TreeInv => NothingLost
  BY IsCountedSomewhere, TheCountersAgree DEF NothingLost
<1> QED
  BY <1>1, TreeHolds, PTL

\* For every tree and disk, the name that carries what several files share is
\* their first, whatever order the walkers met them in.
THEOREM SameNameHolds == Spec => []SameNameCarries
  BY TheSameCarries, TreeHolds, PTL

\* For every tree and disk, and whenever a cancel comes: a name that a finished
\* tree lacks lies below a directory that says so.
THEOREM NothingMissingHolds == Spec => []NothingMissing
<1>1. TreeInv => NothingMissing
  BY NothingIsMissing DEF TreeInv
<1> QED
  BY <1>1, TreeHolds, PTL
=============================================================================
