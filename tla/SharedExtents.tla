---------------------------- MODULE SharedExtents ----------------------------
(***************************************************************************)
(* What a walk charges on filesystems that share and compress blocks:      *)
(* crates/scan-core/src/extents.rs, and volume_of and map_file in scan.rs. *)
(*                                                                         *)
(* Threads meet directories on several devices and ask each filesystem     *)
(* once what it can tell; files are mapped as their directories are        *)
(* listed, in any order, and what they share is charged after the walk, in *)
(* the order of their paths, here that of their numbers.                   *)
(*                                                                         *)
(* An extent on disk is [at, len, packed]: its address, its length, and    *)
(* the bytes a compressed one takes, or 0.  A file is a sequence of        *)
(* references [off, ext, from, len, shifted] to parts of extents, or to    *)
(* data that is not written yet (Unwritten).                               *)
(***************************************************************************)
EXTENDS Integers, Sequences, FiniteSets, SequencesExt, FiniteSetsExt

CONSTANTS
  Threads,     \* of the walk
  Volumes,     \* what may be scanned: [dir, file, ext], see VolumesInit
  Privileged   \* whether the scan may have CAP_SYS_ADMIN

VARIABLES
  volume,      \* what is scanned
  privileged,
  byDev, domains,  \* VolumeTable
  kind,        \* the Volume each directory was entered with
  asking,      \* what each thread is told before it records it
  mapped,      \* the Mapped of each file, and what it is charged
  denied,      \* Ctx::compressed_denied
  spans,       \* Claims::ranges, by domain
  blobs,       \* Claims::blobs
  shared,      \* Settled::shared_bytes
  phase

table == <<byDev, domains>>
claims == <<spans, blobs, shared>>
extents == <<volume, privileged, table, kind, asking, mapped, denied, claims, phase>>

Unwritten == 0
NotYet == [of |-> "not yet"]
Unreachable == [of |-> "unreachable"]
Plain == [of |-> "plain"]
Opaque == [of |-> "opaque"]
Sharing(domain, btrfs) == [of |-> "reflink", domain |-> domain, btrfs |-> btrfs]

Dirs == DOMAIN volume.dir
Names == DOMAIN volume.file
DirOf(f) == volume.dir[volume.file[f].dir]
Entered(d) == kind[d] \notin {NotYet, Unreachable}

(***************************************************************************)
(* Which filesystem: Volumes::lookup.                                      *)
(***************************************************************************)
\* Ctx::volume_of: under btrfs a device no mount is on is a subvolume.
Inherited(d) ==
  LET dir == volume.dir[d]
      above == kind[dir.parent]
  IN IF dir.parent = d THEN NotYet
     ELSE IF volume.dir[dir.parent].dev = dir.dev THEN above
     ELSE IF above.of = "reflink" /\ above.btrfs /\ ~dir.listed THEN above
     ELSE NotYet

Reached(d) == kind[d] = NotYet /\ (volume.dir[d].parent = d \/ Entered(volume.dir[d].parent))
Enters(d, k) == kind' = [kind EXCEPT ![d] = k]

Inherit(d) ==
  /\ Reached(d) /\ Inherited(d) # NotYet
  /\ Enters(d, Inherited(d))
  /\ UNCHANGED <<volume, privileged, table, asking, mapped, denied, claims, phase>>

Known(d) ==
  /\ Reached(d) /\ Inherited(d) = NotYet /\ volume.dir[d].dev \in DOMAIN byDev
  /\ Enters(d, byDev[volume.dir[d].dev])
  /\ UNCHANGED <<volume, privileged, table, asking, mapped, denied, claims, phase>>

\* What detect can come back with: a call that fails leaves a filesystem plain,
\* a subvolume with its device for a key, XFS that will not say taken to share.
Detected(d) ==
  LET dir == volume.dir[d]
      Answer(key, btrfs) == [of |-> "reflink", key |-> key, btrfs |-> btrfs]
  IN {Plain} \cup
     (CASE dir.fs.of = "btrfs" -> {Answer(<<"uuid", dir.fs.id>>, TRUE), Answer(<<"device", dir.dev>>, TRUE)}
        [] dir.fs.of = "xfs" -> {Answer(<<"device", dir.dev>>, FALSE)}
        [] dir.fs.of = "zfs" -> {Opaque}
        [] OTHER -> {})

\* The table is not locked while a filesystem is asked, and one that does not
\* answer in time is not entered.
Ask(t, d) ==
  /\ asking[t].of = "nothing"
  /\ Reached(d) /\ Inherited(d) = NotYet /\ volume.dir[d].dev \notin DOMAIN byDev
  /\ \A u \in Threads : asking[u].dir # d
  /\ \/ \E answer \in Detected(d) : asking' = [asking EXCEPT ![t] = [of |-> "told", dir |-> d, answer |-> answer]]
     \/ asking' = [asking EXCEPT ![t] = [of |-> "told", dir |-> d, answer |-> Unreachable]]
  /\ UNCHANGED <<volume, privileged, table, kind, mapped, denied, claims, phase>>

\* Mutant: what was found before asking is taken to be still so.
NewDomain(key) == Len(domains) + 1
DomainOf(key) == IF \E i \in DOMAIN domains : domains[i] = key
                 THEN CHOOSE i \in DOMAIN domains : domains[i] = key
                 ELSE Len(domains) + 1

Record(t) ==
  LET d == asking[t].dir
      dev == volume.dir[d].dev
      answer == asking[t].answer
  IN /\ asking[t].of = "told"
     /\ asking' = [asking EXCEPT ![t] = [of |-> "nothing", dir |-> Unwritten]]
     /\ IF answer = Unreachable THEN Enters(d, Unreachable) /\ UNCHANGED table
        ELSE LET domain == DomainOf(answer.key)
                 told == IF answer.of = "reflink" THEN Sharing(domain, answer.btrfs) ELSE answer
                 here == IF dev \in DOMAIN byDev THEN byDev[dev] ELSE told
             IN /\ domains' = IF answer.of = "reflink" /\ domain > Len(domains)
                              THEN Append(domains, answer.key) ELSE domains
                /\ byDev' = [v \in DOMAIN byDev \cup {dev} |-> IF v = dev THEN here ELSE byDev[v]]
                /\ Enters(d, here)
     /\ UNCHANGED <<volume, privileged, mapped, denied, claims, phase>>

(***************************************************************************)
(* One file: linux::map.                                                   *)
(***************************************************************************)
SumOf(seq, F(_)) == FoldLeft(LAMBDA total, x : total + F(x), 0, seq)
Stat(f) == SumOf(volume.file[f].refs, LAMBDA r : r.len)

References(f) == {volume.file[f].refs[i].ext : i \in DOMAIN volume.file[f].refs}
IsShared(ext) == ext \in volume.outside \/ Cardinality({f \in Names : ext \in References(f)}) > 1

\* external: what FS_IOC_FIEMAP says of a reference.  A compressed extent is
\* given its logical length and the address it begins at.
Fiemap(f) ==
  LET Extent(r) == LET e == volume.ext[r.ext] IN
        [logical |-> IF r.shifted THEN r.off - 1 ELSE r.off, length |-> r.len,
         physical |-> IF e.packed > 0 THEN e.at ELSE e.at + r.from,
         encoded |-> e.packed > 0, shared |-> IsShared(r.ext)]
      written == SelectSeq(volume.file[f].refs, LAMBDA r : r.ext # Unwritten)
  IN [i \in DOMAIN written |-> Extent(written[i])]

\* compressed_sizes: the extent items of the file, by the offset of each.
Items(f) ==
  LET refs == volume.file[f].refs
      packed == {i \in DOMAIN refs : refs[i].ext # Unwritten /\ volume.ext[refs[i].ext].packed > 0}
  IN {[offset |-> refs[i].off, address |-> volume.ext[refs[i].ext].at, disk |-> volume.ext[refs[i].ext].packed] :
        i \in packed}

Sized(e, items) == {i \in items : i.offset = e.logical /\ i.address = e.physical}
DiskBytes(e, items) == (CHOOSE i \in Sized(e, items) : TRUE).disk

\* Mutant: one that is referenced twice counts twice.
EveryTime(encoded) == DOMAIN encoded
FirstTimes(encoded) == {i \in DOMAIN encoded : \A j \in 1..(i - 1) : encoded[j].physical # encoded[i].physical}

Mapped(f, domain, items) ==
  LET all == Fiemap(f)
      ranges == SelectSeq(all, LAMBDA e : ~e.encoded /\ e.shared)
      encoded == SelectSeq(all, LAMBDA e : e.encoded)
      sized == SelectSeq(encoded, LAMBDA e : Sized(e, items) # {})
      packs == SelectSeq(sized, LAMBDA e : e.shared)
      alone == SelectSeq(sized, LAMBDA e : ~e.shared)
      own == MapThenSumSet(LAMBDA i : DiskBytes(alone[i], items), FirstTimes(alone))
      counted == SumOf(sized, LAMBDA e : e.length)
  IN [domain |-> domain,
      stat |-> counted + SumOf(ranges, LAMBDA e : e.length),
      own |-> own,
      ranges |-> [i \in DOMAIN ranges |-> [from |-> ranges[i].physical, to |-> ranges[i].physical + ranges[i].length]],
      blobs |-> [i \in DOMAIN packs |-> [at |-> packs[i].physical, disk |-> DiskBytes(packs[i], items)]],
      saved |-> counted - own - SumOf(packs, LAMBDA e : DiskBytes(e, items)),
      inexact |-> Len(sized) < Len(encoded)]

OwnAlloc(f, m) == Stat(f) - m.stat + m.own
AsListed(f, why) == [state |-> why, alloc |-> Stat(f), saved |-> 0, inexact |-> FALSE]

Lists(f) == phase = "walk" /\ mapped[f].state = "not listed" /\ Entered(volume.file[f].dir)
Puts(f, m) ==
  /\ mapped' = [mapped EXCEPT ![f] = m]
  /\ UNCHANGED <<volume, privileged, table, kind, asking, claims, phase>>

\* Nothing to ask, or a file that cannot be opened or is another by now.
ListPlain(f) ==
  /\ Lists(f) /\ UNCHANGED denied
  /\ \/ kind[volume.file[f].dir].of # "reflink" /\ Puts(f, AsListed(f, "plain"))
     \/ kind[volume.file[f].dir].of = "reflink" /\ Puts(f, AsListed(f, "unmapped"))

\* Refused once, the search is not tried again; it may fail for one file, too.
MapFile(f) ==
  /\ Lists(f) /\ kind[volume.file[f].dir].of = "reflink"
  /\ LET k == kind[volume.file[f].dir]
         packed == \E e \in References(f) \ {Unwritten} : volume.ext[e].packed > 0
         searched == packed /\ k.btrfs /\ ~denied
     IN \E read \in IF searched /\ privileged THEN BOOLEAN ELSE {FALSE} :
          LET m == Mapped(f, k.domain, IF read THEN Items(f) ELSE {})
              waits == m.ranges # <<>> \/ m.blobs # <<>>
          IN /\ denied' = (denied \/ (searched /\ ~privileged))
             /\ Puts(f, [state |-> IF waits THEN "waits" ELSE "settled", alloc |-> OwnAlloc(f, m),
                         saved |-> m.saved, inexact |-> m.inexact, map |-> m])

(***************************************************************************)
(* After the walk: Deferred::settle, Claims::charge and Ranges::claim.     *)
(***************************************************************************)
Lesser(a, b) == IF a < b THEN a ELSE b
Greater(a, b) == IF a > b THEN a ELSE b

\* Mutant: by extent, not by range.
ClaimWhole(c, r) ==
  [spans |-> c.spans \cup {r}, fresh |-> c.fresh + IF r \in c.spans THEN 0 ELSE r.to - r.from]
Claim(c, r) ==
  LET before == {s \in c.spans : s.from < r.from}
      last == CHOOSE s \in before : \A o \in before : o.from <= s.from
      from == IF before # {} /\ last.to >= r.from THEN last.from ELSE r.from
      absorbed == {s \in c.spans : from <= s.from /\ s.from <= r.to}
      covered == MapThenSumSet(LAMBDA s : Greater(0, Lesser(s.to, r.to) - Greater(s.from, r.from)), absorbed)
      to == Max({r.to} \cup {s.to : s \in absorbed})
  IN [spans |-> (c.spans \ absorbed) \cup {[from |-> from, to |-> to]},
      fresh |-> c.fresh + (r.to - r.from) - covered]

Charge(m) ==
  LET ranged == FoldLeft(Claim, [spans |-> spans[m.domain], fresh |-> 0], m.ranges)
      Key(b) == [domain |-> m.domain, at |-> b.at]
      fresh == {i \in DOMAIN m.blobs : Key(m.blobs[i]) \notin blobs /\ \A j \in 1..(i - 1) : m.blobs[j].at # m.blobs[i].at}
      new == ranged.fresh + MapThenSumSet(LAMBDA i : m.blobs[i].disk, fresh)
      all == SumOf(m.ranges, LAMBDA r : r.to - r.from) + SumOf(m.blobs, LAMBDA b : b.disk)
  IN [spans |-> ranged.spans, blobs |-> blobs \cup {Key(m.blobs[i]) : i \in fresh}, new |-> new, shared |-> all - new]

WalkEnds ==
  /\ phase = "walk" /\ phase' = "settle"
  /\ \A d \in Dirs : kind[d] # NotYet \/ (volume.dir[d].parent # d /\ ~Entered(volume.dir[d].parent))
  /\ \A f \in Names : Entered(volume.file[f].dir) => mapped[f].state # "not listed"
  /\ spans' = [i \in DOMAIN domains |-> {}]
  /\ UNCHANGED <<volume, privileged, table, kind, asking, mapped, denied, blobs, shared>>

Deferred == {f \in Names : mapped[f].state = "waits"}

Settle(f) ==
  /\ phase = "settle" /\ f \in Deferred /\ \A g \in Deferred : f <= g
  /\ LET m == mapped[f].map
         charged == Charge(m)
     IN /\ spans' = [spans EXCEPT ![m.domain] = charged.spans]
        /\ blobs' = charged.blobs
        /\ shared' = shared + charged.shared
        /\ mapped' = [mapped EXCEPT ![f].alloc = @ + charged.new, ![f].state = "settled"]
  /\ UNCHANGED <<volume, privileged, table, kind, asking, denied, phase>>

Report ==
  /\ phase = "settle" /\ Deferred = {} /\ phase' = "done"
  /\ UNCHANGED <<volume, privileged, table, kind, asking, mapped, denied, claims>>

\* dir: [parent, dev, listed, fs]; file: [dir, refs]; outside: extents that are
\* shared with files elsewhere.
VolumesInit ==
  /\ volume \in Volumes /\ privileged \in Privileged
  /\ byDev = <<>> /\ domains = <<>>
  /\ kind = [d \in Dirs |-> NotYet]
  /\ asking = [t \in Threads |-> [of |-> "nothing", dir |-> Unwritten]]
  /\ mapped = [f \in Names |-> AsListed(f, "not listed")]
  /\ denied = FALSE /\ spans = <<>> /\ blobs = {} /\ shared = 0
  /\ phase = "walk"

VolumesNext ==
  \/ \E d \in Dirs : Inherit(d) \/ Known(d) \/ (\E t \in Threads : Ask(t, d))
  \/ \E t \in Threads : Record(t)
  \/ \E f \in Names : ListPlain(f) \/ MapFile(f) \/ Settle(f)
  \/ WalkEnds \/ Report

VolumesSpec == VolumesInit /\ [][VolumesNext]_extents

(***************************************************************************)
(* Properties.                                                             *)
(***************************************************************************)
\* However threads race for the table, one address space has one number, and
\* one number is never of two filesystems: blocks of one would pay for those of
\* the other.
OneDomainEach ==
  /\ \A i, j \in DOMAIN domains : domains[i] = domains[j] => i = j
  /\ \A d, e \in Dirs :
       /\ kind[d].of = "reflink" /\ kind[e].of = "reflink" /\ kind[d].domain = kind[e].domain
            => volume.dir[d].fs = volume.dir[e].fs
       /\ Entered(d) /\ Entered(e) /\ volume.dir[d].dev = volume.dir[e].dev => kind[d] = kind[e]

\* Merged on insert, touching neighbours included (extents.rs:163).
SpansApart == \A i \in DOMAIN spans : \A s, t \in spans[i] : s # t => s.to < t.from \/ t.to < s.from

Counted == {f \in Names : mapped[f].state # "not listed"}
OnFs(fs) == {f \in Counted : DirOf(f).fs = fs}
Bytes(f, ext) ==
  LET refs == volume.file[f].refs
  IN UNION {{volume.ext[ext].at + b : b \in refs[i].from..(refs[i].from + refs[i].len - 1)} :
              i \in {i \in DOMAIN refs : refs[i].ext = ext}}
Length(f, ext) == SumOf(SelectSeq(volume.file[f].refs, LAMBDA r : r.ext = ext), LAMBDA r : r.len)

\* What these files take on disk; least says of a compressed extent no more
\* than the files reference, which is all that is known of one not looked up.
OnDisk(files, least) ==
  LET refs == UNION {References(f) : f \in files} \ {Unwritten}
      loose == {e \in refs : volume.ext[e].packed = 0}
      Takes(e) == IF least THEN Lesser(volume.ext[e].packed, MapThenSumSet(LAMBDA f : Length(f, e), files))
                  ELSE volume.ext[e].packed
  IN Cardinality(UNION {Bytes(f, e) : f \in files, e \in loose})
     + MapThenSumSet(Takes, refs \ loose) + MapThenSumSet(LAMBDA f : Length(f, Unwritten), files)

Charges(files) == MapThenSumSet(LAMBDA f : mapped[f].alloc, files)

\* Every file was mapped, each compressed extent looked up, in one domain.
InFull(files) ==
  /\ \A f \in files : "map" \in DOMAIN mapped[f] /\ ~mapped[f].inexact
  /\ \A f, g \in files : kind[volume.file[f].dir] = kind[volume.file[g].dir]

\* "A total that is quietly low is the one mistake this scanner must not make"
\* (extents.rs:51): what is not known makes it high, and with nothing left out
\* it is what the disk holds.
NeverLow ==
  phase = "done" =>
    \A fs \in {volume.dir[d].fs : d \in Dirs} :
      /\ Charges(OnFs(fs)) >= OnDisk(OnFs(fs), TRUE)
      /\ InFull(OnFs(fs)) => Charges(OnFs(fs)) = OnDisk(OnFs(fs), FALSE)

\* What the summary says of sharing and compression is what is missing from what
\* du says.
Explained ==
  phase = "done" =>
    MapThenSumSet(Stat, Counted) - Charges(Counted)
      = shared + MapThenSumSet(LAMBDA f : mapped[f].saved, Counted)

\* What files share is charged once, to somebody, in any order of threads.
SharedOnce == OneDomainEach /\ SpansApart /\ NeverLow /\ Explained
=============================================================================
