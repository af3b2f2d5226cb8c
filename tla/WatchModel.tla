------------------------------ MODULE WatchModel ------------------------------
(***************************************************************************)
(* spacetrace watch on Linux (crates/cli/src/watch.rs, watch/): the model  *)
(* of the tree, its ledger of hardlinked files, the session that lists     *)
(* folders again when events name them, and the inotify backend.           *)
(*                                                                         *)
(* Three parties move independently: the disk; the reader thread, which    *)
(* turns the kernel's events into changes at paths; and the session, whose *)
(* every scan lists one folder after another while the disk moves on.      *)
(*                                                                         *)
(* A folder is an inode; what the session knows of it is by path, a        *)
(* sequence of names.  A file is its identity: which folder counts it, and *)
(* how often, is what the model is about, and its size is left out.        *)
(***************************************************************************)
EXTENDS Integers, FiniteSets, SequencesExt

CONSTANTS
  Folders,     \* inodes of folders, besides Root and Away
  Files,
  Names,       \* names of folders, positive numbers
  Place,       \* where each folder is when the watch begins
  Links,       \* the folders that hold a name of each file then
  EventQueue,  \* EVENT_QUEUE
  MaxChanges   \* bound: changes of the disk

Root    == 0
Away    == -1   \* a folder no scan of the root enters
Nowhere == [in |-> Away, name |-> 0]
Every   == Folders \cup {Root, Away}

ASSUME WatchAssumption ==
  /\ Folders \subseteq Nat \ {0} /\ Names \subseteq Nat \ {0}
  /\ EventQueue \in Nat \ {0} /\ MaxChanges \in Nat
  /\ Links \in [Files -> SUBSET Every]

VARIABLES
  place,    \* the disk: the folder each folder is in, and under which name
  links,    \* the disk: the folders that hold a name of each file
  changes,  \* how often it changed
  wd,       \* the kernel: the watch on each folder, or 0
  queue,    \* the kernel: its events, each of one watch
  watches,  \* Inotify::watches: the path of each descriptor, or Unknown
  channel,  \* changes on their way to the session
  overflowed,
  tracked,  \* Dir: the paths of the records that are PRESENT
  direct,   \* Dir: the files counted in each folder as ordinary ones
  ledger,   \* Ledger: what is known of each hardlinked file
  newDirs,  \* Model::new_dirs
  pending,  \* Pending
  at,       \* the session: where it is
  scan,     \* the scan it is taking
  done,     \* what apply_pending has listed, and the tops of what it rescanned
  due,      \* VERIFY_FLOOR has passed since the last full rescan
  long,     \* whether the session lasts until full rescans may run
  fate      \* history: whether a file lost a name, and whether it had others

disk    == <<place, links, changes, fate>>
inotify == <<wd, queue, watches>>
model   == <<tracked, direct, ledger, newDirs>>
session == <<at, scan, done>>
clock   == <<due, long>>
vars == <<disk, inotify, channel, overflowed, model, pending, session, clock>>

(***************************************************************************)
(* Paths.                                                                  *)
(***************************************************************************)
Paths == UNION {[1..n -> Names] : n \in 0..Cardinality(Folders)}
Within(path, top) == IsPrefix(top, path)
Parent(path) == Front(path)

\* The folder a path names on the disk now.
RECURSIVE Folder(_)
Folder(path) ==
  IF path = <<>> THEN {Root}
  ELSE {f \in Folders : place[f].name = Last(path) /\ place[f].in \in Folder(Parent(path))}

Exists(path) == Folder(path) # {}
Inode(path) == CHOOSE f \in Folder(path) : TRUE
NamesIn(folder) == {place[f].name : f \in {g \in Folders : place[g] # Nowhere /\ place[g].in = folder}}

\* (depth, path) order.
Before(p, q) ==
  \/ Len(p) < Len(q)
  \/ /\ Len(p) = Len(q)
     /\ \E i \in DOMAIN p : p[i] < q[i] /\ \A j \in 1..(i - 1) : p[j] = q[j]
First(paths) == CHOOSE p \in paths : \A q \in paths \ {p} : Before(p, q)

(***************************************************************************)
(* The disk, and what inotify tells of it: an event for each watch on a    *)
(* folder concerned, with the name of the entry (0 for a file's).          *)
(***************************************************************************)
Event(folder, kind, name) ==
  IF folder \in DOMAIN wd /\ wd[folder] # 0
  THEN <<[wd |-> wd[folder], kind |-> kind, name |-> name]>> ELSE <<>>

Changed(events) ==
  /\ changes < MaxChanges /\ changes' = changes + 1
  /\ queue' = queue \o events
  /\ UNCHANGED <<watches, channel, overflowed, model, pending, session, clock>>

Free(name, folder) == name \notin NamesIn(folder)

RECURSIVE Below(_)
Below(folder) ==
  {folder} \cup UNION {Below(f) : f \in {g \in Folders : place[g] # Nowhere /\ place[g].in = folder}}

Alive(folder) == folder \in Folders => place[folder] # Nowhere

\* A file that loses a name while it has others, or has lost one so before.
Loses(file) ==
  IF fate[file] = "Unlinked" \/ Cardinality(links[file]) > 1 THEN "Unlinked" ELSE "Moved"

MakeFolder(f, in, name) ==
  /\ place[f] = Nowhere /\ Alive(in) /\ Free(name, in)
  /\ place' = [place EXCEPT ![f] = [in |-> in, name |-> name]]
  /\ Changed(Event(in, "Made", name))
  /\ UNCHANGED <<links, fate, wd>>

RemoveFolder(f) ==
  /\ place[f] # Nowhere /\ NamesIn(f) = {} /\ \A file \in Files : f \notin links[file]
  /\ place' = [place EXCEPT ![f] = Nowhere]
  /\ Changed(Event(f, "Gone", 0) \o Event(place[f].in, "In", place[f].name))
  /\ wd' = [wd EXCEPT ![f] = 0]
  /\ UNCHANGED <<links, fate>>

MoveFolder(f, to, name) ==
  /\ place[f] # Nowhere /\ Alive(to)
  /\ to \notin Below(f) /\ Free(name, to)
  /\ place' = [place EXCEPT ![f] = [in |-> to, name |-> name]]
  /\ fate' = [file \in Files |-> IF links[file] \cap Below(f) = {} THEN fate[file] ELSE Loses(file)]
  /\ Changed(Event(place[f].in, "In", place[f].name) \o Event(to, "Made", name)
             \o Event(f, "Moved", 0))
  /\ UNCHANGED <<links, wd>>

\* A file made, or linked: its other names' folders hear nothing.
AddName(file, folder) ==
  /\ Alive(folder) /\ folder \notin links[file]
  /\ links' = [links EXCEPT ![file] = @ \cup {folder}]
  /\ Changed(Event(folder, "Made", 0))
  /\ UNCHANGED <<place, fate, wd>>

RemoveName(file, folder) ==
  /\ folder \in links[file]
  /\ links' = [links EXCEPT ![file] = @ \ {folder}]
  /\ fate' = [fate EXCEPT ![file] = Loses(file)]
  /\ Changed(Event(folder, "In", 0))
  /\ UNCHANGED <<place, wd>>

MoveName(file, from, to) ==
  /\ from \in links[file] /\ to \notin links[file] /\ Alive(to)
  /\ links' = [links EXCEPT ![file] = (@ \ {from}) \cup {to}]
  /\ fate' = [fate EXCEPT ![file] = Loses(file)]
  /\ Changed(Event(from, "In", 0) \o Event(to, "Made", 0))
  /\ UNCHANGED <<place, wd>>

Disk ==
  \/ \E f \in Folders, to \in Every, name \in Names :
       MakeFolder(f, to, name) \/ MoveFolder(f, to, name)
  \/ \E f \in Folders : RemoveFolder(f)
  \/ \E file \in Files, folder \in Every :
       AddName(file, folder) \/ RemoveName(file, folder)
  \/ \E file \in Files, from, to \in Every : MoveName(file, from, to)

(***************************************************************************)
(* The reader thread (inotify.rs): an event becomes a change at a path; a  *)
(* full channel drops it and says so.                                      *)
(***************************************************************************)
Unknown == <<0>>

Send(path, how) ==
  IF Len(channel) < EventQueue
  THEN channel' = Append(channel, [path |-> path, how |-> how]) /\ UNCHANGED overflowed
  ELSE overflowed' = TRUE /\ UNCHANGED channel

Drop == UNCHANGED <<channel, overflowed>>

\* The folder moved: the watches at and below its path come off.
Unwatch(path) ==
  LET off == {d \in DOMAIN watches : watches[d] # Unknown /\ Within(watches[d], path)}
  IN /\ watches' = [d \in DOMAIN watches |-> IF d \in off THEN Unknown ELSE watches[d]]
     /\ wd' = [f \in DOMAIN wd |-> IF wd[f] \in off THEN 0 ELSE wd[f]]

Read ==
  /\ queue # <<>>
  /\ queue' = Tail(queue)
  /\ LET event == Head(queue)
         path == watches[event.wd]
     IN \/ path = Unknown /\ Drop /\ UNCHANGED <<watches, wd>>
        \/ path # Unknown /\ event.kind = "Moved" /\ Unwatch(path) /\ Send(path, "Made")
        \/ /\ path # Unknown /\ event.kind = "Gone"
           /\ watches' = [watches EXCEPT ![event.wd] = Unknown]
           /\ Send(path, "Other") /\ UNCHANGED wd
        \/ /\ path # Unknown /\ event.kind \in {"Made", "In"}
           /\ Send(Append(path, event.name), IF event.kind = "Made" THEN "Made" ELSE "Other")
           /\ UNCHANGED <<watches, wd>>
  /\ UNCHANGED <<disk, model, pending, session, clock>>

\* Inotify::watch.  A folder that is watched keeps its descriptor.
Watch(path) ==
  IF ~Exists(path) THEN UNCHANGED <<wd, watches>>
  ELSE LET f == Inode(path)
       IN IF wd[f] # 0
          THEN watches' = [watches EXCEPT ![wd[f]] = path] /\ UNCHANGED wd
          ELSE wd' = [wd EXCEPT ![f] = Len(watches) + 1] /\ watches' = Append(watches, path)

(***************************************************************************)
(* The session between ticks: an event names work for the next one.        *)
(***************************************************************************)
NothingPending == [dirty |-> {}, subtrees |-> {}, resync |-> FALSE, recent |-> {}]

\* event_dirs: the record whose listing holds the path.
Holder(path) == CHOOSE p \in tracked :
  /\ Within(path, p) /\ (p # path \/ path = <<>>)
  /\ \A q \in tracked : Within(path, q) /\ (q # path \/ path = <<>>) => Len(q) <= Len(p)

Handle ==
  /\ at = "Wait" /\ channel # <<>>
  /\ channel' = Tail(channel)
  /\ LET change == Head(channel)
         replaced == IF change.how = "Made" THEN {change.path} \cap (tracked \ {<<>>}) ELSE {}
     IN pending' = [pending EXCEPT !.dirty = @ \cup {Holder(change.path)},
                                   !.subtrees = @ \cup replaced]
  /\ UNCHANGED <<disk, inotify, overflowed, model, session, clock>>

(***************************************************************************)
(* A scan: one folder listed after another, any of those found next.       *)
(***************************************************************************)
NothingDone == [listed |-> {}, tops |-> {}]
NoScan == [kind |-> "None", top |-> <<>>, todo |-> {}, found |-> <<>>,
           counts |-> [f \in Files |-> {}]]

Begin(kind, top) ==
  /\ scan' = [NoScan EXCEPT !.kind = kind, !.top = top, !.todo = {top}]
  /\ at' = "Scan"

Listing(folder) ==
  [folders |-> NamesIn(folder),
   files |-> {[file |-> f, nlink |-> Cardinality(links[f])] : f \in {g \in Files : folder \in links[g]}}]

\* A listing enters the folders the model does not know; a scan, all.
Enters(path, folders) ==
  LET children == {Append(path, name) : name \in folders}
  IN IF scan.kind = "Relist" /\ path = scan.top THEN children \ tracked ELSE children

\* relist lists its folder and then scans those that appeared in it, one at
\* a time; inside of such a scan, as in any, the order is the workers'.
Own(path) == scan.kind = "Relist" /\ Len(path) <= Len(scan.top) + 1
Turn(path) == Own(path) => \A q \in scan.todo : Own(q)

\* The link count taken in last counts: of those a scan's workers read, any;
\* of two scans', the second's.
Counts(path, files) == [f \in Files |->
  LET read == {e.nlink : e \in {x \in files : x.file = f /\ x.nlink > 1}}
  IN IF read = {} THEN scan.counts[f] ELSE IF Own(path) THEN read ELSE scan.counts[f] \cup read]

List(path) ==
  /\ at = "Scan" /\ path \in scan.todo /\ Turn(path) /\ Exists(path)
  /\ LET listing == Listing(Inode(path))
     IN scan' = [scan EXCEPT !.found = @ @@ (path :> listing),
                             !.counts = Counts(path, listing.files),
                             !.todo = (@ \ {path}) \cup Enters(path, listing.folders)]
  /\ UNCHANGED <<disk, inotify, channel, overflowed, model, pending, at, done, clock>>

\* It went before it was listed: what was to be scanned fails, its parent
\* says how; a folder that just appeared is left to a later event; one the
\* scan is inside of stands empty.
Missing(path) ==
  /\ at = "Scan" /\ path \in scan.todo /\ Turn(path) /\ ~Exists(path)
  /\ IF path = scan.top
     THEN /\ at' = "Apply" /\ scan' = NoScan
          /\ pending' = [pending EXCEPT !.dirty = @ \cup {Parent(path)}]
     ELSE /\ UNCHANGED <<at, pending>>
          /\ scan' = [scan EXCEPT
               !.todo = @ \ {path},
               !.found = IF scan.kind = "Relist" /\ Len(path) = Len(scan.top) + 1 THEN @
                         ELSE @ @@ (path :> [folders |-> {}, files |-> {}])]
  /\ UNCHANGED <<disk, inotify, channel, overflowed, model, done, clock>>

(***************************************************************************)
(* The ledger (links.rs).                                                  *)
(***************************************************************************)
None == Unknown   \* charged to no folder
NotHeld == [names |-> {}, charged |-> None, nlink |-> 0, outside |-> 0, doubted |-> 0]
Doubtful(file) == ledger[file].names # {} /\ ledger[file].charged = None

\* Mutant: names that no listing has met are nobody's concern.
NeverShort(names, outside, nlink) == FALSE
Short(names, outside, nlink) == Cardinality(names) + outside < nlink

Least(m, n) == IF m < n THEN m ELSE n
Less(m, n)  == IF m > n THEN m - n ELSE 0

\* A full scan met every name there is: the links it did not meet are
\* outside.  Mutant: they stay a doubt.
LikeAnyScan(before, elsewhere) == Least(before, elsewhere)
Outside(before, elsewhere) == IF scan.kind = "Full" THEN elsewhere ELSE Least(before, elsewhere)

\* settle: what a batch that listed `listed` afresh leaves of a file, met
\* there in `met`, last with `nlink` links.
Settled(file, listed, met, nlink) ==
  LET was == ledger[file]
      names == (was.names \ listed) \cup met
      count == IF met # {} THEN nlink ELSE Less(was.nlink, Cardinality(was.names \cap listed))
      elsewhere == Less(count, Cardinality(names))
      outside == Outside(was.outside, elsewhere)
  IN IF was.names \cap listed = {} /\ met = {} THEN was
     ELSE IF names = {} THEN NotHeld
     ELSE [names |-> names, nlink |-> count, outside |-> outside,
           charged |-> IF Short(names, outside, count) THEN None
                       ELSE IF was.charged \in names THEN was.charged ELSE First(names),
           doubted |-> IF Short(names, outside, count) /\ Doubtful(file) THEN was.doubted ELSE 0]

(***************************************************************************)
(* Taking a scan in (relist, absorb, mark_gone, settle), all at once: only *)
(* the session reads the model.                                            *)
(***************************************************************************)
Gone ==
  {q \in tracked : \E p \in DOMAIN scan.found :
     Within(q, p) /\ q # p /\ q[Len(p) + 1] \notin scan.found[p].folders}

Linked(path, file) == {e \in scan.found[path].files : e.file = file /\ e.nlink > 1}

TakeIn ==
  LET found == DOMAIN scan.found
      met(f) == {p \in found : Linked(p, f) # {}}
  IN /\ tracked' = (tracked \ Gone) \cup found
     /\ direct' = [p \in Paths |->
          IF p \in found THEN {e.file : e \in {x \in scan.found[p].files : x.nlink <= 1}}
          ELSE IF p \in Gone THEN {} ELSE direct[p]]
     /\ \E last \in [Files -> 0..Cardinality(Every)] :
          /\ \A f \in Files : IF met(f) = {} THEN last[f] = 0 ELSE last[f] \in scan.counts[f]
          /\ ledger' = [f \in Files |-> Settled(f, found \cup Gone, met(f), last[f])]

\* adopt announces a record that is new or back; announce_subtree, all of a
\* subtree that was scanned again.
Announce ==
  newDirs' = newDirs \cup
    IF scan.kind = "Subtree" THEN DOMAIN scan.found ELSE DOMAIN scan.found \ tracked

\* A full rescan covers whatever was pending.
Commit ==
  /\ at = "Scan" /\ scan.todo = {}
  /\ TakeIn /\ Announce
  /\ scan' = NoScan
  /\ IF scan.kind = "Full"
     THEN at' = "Doubt" /\ pending' = NothingPending /\ done' = NothingDone /\ due' = FALSE
     ELSE /\ at' = "Apply" /\ UNCHANGED <<pending, due>>
          /\ done' = IF scan.kind = "Subtree" THEN [done EXCEPT !.tops = @ \cup {scan.top}] ELSE done
  /\ UNCHANGED <<disk, inotify, channel, overflowed, long>>

Scanning == Commit \/ \E path \in scan.todo : List(path) \/ Missing(path)

(***************************************************************************)
(* A tick.                                                                 *)
(***************************************************************************)
Tick ==
  /\ at = "Wait"
  /\ overflowed' = FALSE
  /\ LET asked == pending.resync \/ overflowed
     IN /\ pending' = [pending EXCEPT !.resync = asked]
        /\ \/ ~due /\ at' = "Apply" /\ UNCHANGED scan
           \/ long /\ (asked \/ due) /\ Begin("Full", <<>>)
  /\ done' = NothingDone
  /\ UNCHANGED <<disk, inotify, channel, model, clock>>

\* Time passes: resync_gap is the shorter of the two, and is not told apart
\* from the choice to go on without the rescan.
Elapse ==
  /\ long /\ ~due
  /\ due' = TRUE
  /\ UNCHANGED <<disk, inotify, channel, overflowed, model, pending, session, long>>

\* It is there, and this tick has not listed it, nor anything it lies in again.
Wanted(path) ==
  path \in tracked \ done.listed /\ ~\E top \in done.tops : Within(path, top)

\* Shallowest first: what one listing finds gone is not listed.
Shallowest(paths) == {p \in paths : \A q \in paths : Len(p) <= Len(q)}

ApplySubtree(path) ==
  /\ at = "Apply" /\ path \in Shallowest(pending.subtrees)
  /\ pending' = [pending EXCEPT !.subtrees = @ \ {path}]
  /\ IF Wanted(path) THEN Begin("Subtree", path) ELSE UNCHANGED <<at, scan>>
  /\ UNCHANGED <<disk, inotify, channel, overflowed, model, done, clock>>

ApplyDirty(path) ==
  /\ at = "Apply" /\ pending.subtrees = {} /\ path \in Shallowest(pending.dirty)
  /\ pending' = [pending EXCEPT !.dirty = @ \ {path}]
  /\ IF Wanted(path) THEN Begin("Relist", path) ELSE UNCHANGED <<at, scan>>
  /\ done' = [done EXCEPT !.listed = @ \cup {path}]
  /\ UNCHANGED <<disk, inotify, channel, overflowed, model, clock>>

Applied ==
  /\ at = "Apply" /\ pending.subtrees = {} /\ pending.dirty = {}
  /\ \/ at' = "Doubt" /\ UNCHANGED scan
     \/ long /\ pending.resync /\ Begin("Full", <<>>)
  /\ UNCHANGED <<disk, inotify, channel, overflowed, model, pending, done, clock>>

\* doubt_links: the folders listed lately are listed again for the names a
\* file lacks, and a file in doubt for two ticks asks for a full rescan.
DoubtLinks ==
  /\ at = "Doubt"
  /\ at' = "Watch"
  /\ LET doubtful == {f \in Files : Doubtful(f)}
         fresh == \E f \in doubtful : ledger[f].doubted = 0
         lasting == \E f \in doubtful : ledger[f].doubted > 0
         listed == done.listed \cup done.tops
     IN /\ ledger' = [f \in Files |->
             IF f \in doubtful THEN [ledger[f] EXCEPT !.doubted = Least(@ + 1, 2)] ELSE ledger[f]]
        /\ pending' = [pending EXCEPT
             !.dirty = @ \cup IF fresh THEN pending.recent \cup listed ELSE {},
             !.recent = IF listed = {} THEN @ ELSE listed,
             !.resync = @ \/ lasting]
  /\ UNCHANGED <<disk, inotify, channel, overflowed, tracked, direct, newDirs, scan, done, clock>>

\* Mutant: a folder watched late is not listed again.
WatchOnly(path) ==
  /\ at = "Watch" /\ path \in Shallowest(newDirs)
  /\ newDirs' = newDirs \ {path}
  /\ Watch(path)
  /\ UNCHANGED <<disk, queue, channel, overflowed, tracked, direct, ledger, pending, session, clock>>

\* What landed in a folder before its watch is in no event: it is listed.
WatchNew(path) ==
  /\ at = "Watch" /\ path \in Shallowest(newDirs)
  /\ newDirs' = newDirs \ {path}
  /\ Watch(path)
  /\ pending' = [pending EXCEPT !.dirty = @ \cup {path}]
  /\ UNCHANGED <<disk, queue, channel, overflowed, tracked, direct, ledger, session, clock>>

Render ==
  /\ at = "Watch" /\ newDirs = {}
  /\ at' = "Wait" /\ done' = NothingDone
  /\ UNCHANGED <<disk, inotify, channel, overflowed, model, pending, scan, clock>>

Ticking ==
  \/ Tick \/ Applied \/ DoubtLinks \/ Render
  \/ \E path \in pending.subtrees : ApplySubtree(path)
  \/ \E path \in pending.dirty : ApplyDirty(path)
  \/ \E path \in newDirs : WatchNew(path)

(***************************************************************************)
(* The specification, from after a first scan nothing interfered with.     *)
(***************************************************************************)
Init ==
  /\ place = Place /\ links = Links /\ changes = 0 /\ fate = [f \in Files |-> "Linked"]
  /\ tracked = {p \in Paths : Exists(p)}
  /\ \E order \in [1..Cardinality(tracked) -> tracked] :
       /\ \A i, j \in DOMAIN order : i < j => Before(order[i], order[j])
       /\ watches = order
       /\ wd = [f \in Folders \cup {Root} |->
            IF \E i \in DOMAIN order : Inode(order[i]) = f
            THEN CHOOSE i \in DOMAIN order : Inode(order[i]) = f ELSE 0]
  /\ LET holding(f) == {p \in tracked : Inode(p) \in links[f]}
         count(f) == Cardinality(links[f])
     IN /\ direct = [p \in Paths |-> {f \in Files : p \in holding(f) /\ count(f) = 1}]
        /\ ledger = [f \in Files |->
             IF holding(f) = {} \/ count(f) = 1 THEN NotHeld
             ELSE [names |-> holding(f), charged |-> First(holding(f)), nlink |-> count(f),
                   outside |-> count(f) - Cardinality(holding(f)), doubted |-> 0]]
  /\ queue = <<>> /\ channel = <<>> /\ overflowed = FALSE
  /\ newDirs = {} /\ pending = NothingPending
  /\ at = "Wait" /\ scan = NoScan /\ done = NothingDone
  /\ due = FALSE /\ long \in BOOLEAN

Session == Handle \/ Scanning \/ Ticking

Next == Disk \/ Read \/ Session \/ Elapse

Fairness == WF_vars(Read) /\ WF_vars(Session) /\ WF_vars(Elapse)

Spec == Init /\ [][Next]_vars /\ Fairness

(***************************************************************************)
(* Properties.                                                             *)
(***************************************************************************)
Charged(f) == {ledger[f].charged} \ {None}
CountedIn(f) == {p \in tracked : f \in direct[p]} \cup Charged(f)
Times(f) == Cardinality({p \in Paths : f \in direct[p]}) + Cardinality(Charged(f))

\* What a scan of the disk, taken now, would say of the folders; of a file.
FoldersAgree == tracked = {p \in Paths : Exists(p)}
FileAgrees(f) ==
  LET holding == {p \in tracked : Inode(p) \in links[f]}
  IN /\ Times(f) = IF holding = {} THEN 0 ELSE 1
     /\ CountedIn(f) \subseteq holding

\* Everything that was reported has been acted on.
Quiet ==
  /\ at = "Wait" /\ queue = <<>> /\ channel = <<>>
  /\ pending.dirty = {} /\ pending.subtrees = {} /\ ~pending.resync /\ ~overflowed
  /\ \A f \in Files : ~Doubtful(f)

\* Whatever was made, moved, linked or removed, in whichever order events
\* and listings met it: once they are all dealt with, and no full rescan
\* has helped, the frame shows what a fresh scan would (model.rs:1268).
\* Files that lost one of several names are CountedOnce's, which fails.
EventsSuffice ==
  Quiet /\ ~long => FoldersAgree /\ \A f \in Files : fate[f] # "Unlinked" => FileAgrees(f)

\* Nor is any file then counted twice (links.rs:34): one whose new name is
\* listed before the folder that it left, after the link was made, is.
CountedOnce == Quiet /\ ~long => \A f \in Files : Times(f) <= 1

\* Nor does any frame count a file again because it was linked.
NeverTwiceUnaided == ~long /\ at = "Wait" => \A f \in Files : fate[f] = "Linked" => Times(f) <= 1

\* Once the disk is left alone the model comes to agree with it and stays so,
\* whatever events were dropped: the check that nobody asks for sees to it.
Converges == long => <>[](at = "Wait" => FoldersAgree /\ \A f \in Files : FileAgrees(f))
=============================================================================
