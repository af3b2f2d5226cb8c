----------------------------- MODULE S3Discovery -----------------------------
(***************************************************************************)
(* Before the ranges of a bucket are listed side by side (S3Fetch), they   *)
(* are found: crates/cli/src/s3/listing.rs `discover` expands the folders  *)
(* of one level at a time, each on a worker, page by page with a           *)
(* delimiter; `plan_work` makes of what was found the steps the caller     *)
(* takes.                                                                  *)
(*                                                                         *)
(* Where a range begins and ends is decided by the order of bytes, so keys *)
(* are sequences of bytes, of an alphabet that has two below the slash.    *)
(***************************************************************************)
EXTENDS Integers, SequencesExt, FiniteSetsExt

CONSTANTS
  Buckets,    \* the sets of keys a bucket may hold
  Workers,
  PageSize,
  FoldersPerWorker, DepthLimit, MaxOwn, \* MAX_DISCOVERED_OBJECTS
  Budget      \* DISCOVERY_BUDGET

Dash == 1
Dot == 2
Slash == 3
None == <<>>
RootPrefix == <<>>

ASSUME DiscoveryAssumption ==
  /\ Workers \in Nat \ {0, 1} /\ PageSize \in Nat \ {0}
  /\ FoldersPerWorker \in Nat \ {0} /\ DepthLimit \in Nat \ {0}
  /\ MaxOwn \in Nat /\ Budget \in Nat

VARIABLES
  bucket,
  honours,    \* the server knows the delimiter
  stage,      \* List, Discover, Expand, Planned, Failed
  depth,
  items,      \* discovery's picture of the key space
  parts,      \* of the folders of this level: how far each was expanded
  budget,
  work        \* what `fetch` gets

discovery == <<bucket, honours, stage, depth, items, parts, budget, work>>

(***************************************************************************)
(* Keys.                                                                   *)
(***************************************************************************)
Before(a, b) ==
  \/ IsStrictPrefix(a, b)
  \/ \E i \in DOMAIN a \cap DOMAIN b :
       a[i] < b[i] /\ \A j \in 1..i - 1 : a[j] = b[j]

Sorted(keys) ==
  [i \in 1..Cardinality(keys) |->
     CHOOSE k \in keys : Cardinality({j \in keys : Before(j, k)}) = i - 1]
Beyond(prefix, key) == SubSeq(key, Len(prefix) + 1, Len(key))
Nested(prefix, key) == Slash \in ToSet(Beyond(prefix, key))

\* The folder of `key` one level below `prefix`.
FolderOf(prefix, key) ==
  LET end == CHOOSE i \in DOMAIN key :
               i > Len(prefix) /\ key[i] = Slash
               /\ \A j \in Len(prefix) + 1..i - 1 : key[j] # Slash
  IN SubSeq(key, 1, end)

\* parent_of
ParentPrefix(folder) ==
  LET ends == {i \in DOMAIN folder : folder[i] = Slash /\ i < Len(folder)}
  IN IF ends = {} THEN <<>> ELSE SubSeq(folder, 1, Max(ends))

\* What a request for `prefix` shows, and a page of it.
Shown(prefix) ==
  LET keys == {k \in bucket : IsPrefix(prefix, k)}
      deep == {k \in keys : Nested(prefix, k)}
  IN IF honours THEN (keys \ deep) \cup {FolderOf(prefix, k) : k \in deep} ELSE keys

Left(prefix, after) == {k \in Shown(prefix) : Before(after, k)}
Page(prefix, after) == LET left == Sorted(Left(prefix, after)) IN SubSeq(left, 1, Min({PageSize, Len(left)}))

(***************************************************************************)
(* Items.                                                                  *)
(***************************************************************************)
Objects(keys) == [kind |-> "Objects", keys |-> keys]
Folder(name) == [kind |-> "Folder", name |-> name]
ListRange(prefix, after, from, until, folders) ==
  [kind |-> "Range", prefix |-> prefix, start_after |-> after, from |-> from,
   until |-> until, folders |-> folders]
Rest(folder, after) == ListRange(folder, after, None, None, <<>>)

\* merge_page: the page is in key order, objects and folders alike.
Merge(found, folder, page) ==
  LET Push(list, entry) ==
        CASE Nested(folder, entry) -> Append(list, Folder(entry))
          [] list # <<>> /\ Last(list).kind = "Objects" /\ ~Nested(folder, entry)
               -> Front(list) \o <<Objects(Append(Last(list).keys, entry))>>
          [] OTHER -> Append(list, Objects(<<entry>>))
  IN FoldLeft(Push, found, page)

\* Mutant: the folders read after the last object stay, and the rest lists
\* them again.
KeepAll(found, folder) ==
  LET objects == {i \in DOMAIN found : found[i].kind = "Objects"}
  IN IF objects = {} THEN <<Rest(folder, None)>>
     ELSE Append(found, Rest(folder, Last(found[Max(objects)].keys)))

\* A folder read only so far: what was read up to its last object, and the
\* rest after that.
CutOff(found, folder) ==
  LET objects == {i \in DOMAIN found : found[i].kind = "Objects"}
  IN IF objects = {} THEN <<Rest(folder, None)>>
     ELSE Append(SubSeq(found, 1, Max(objects)), Rest(folder, Last(found[Max(objects)].keys)))

Folders == SelectSeq(items, LAMBDA item : item.kind = "Folder")

(***************************************************************************)
(* expand                                                                  *)
(***************************************************************************)
InState(state) == {i \in DOMAIN parts : parts[i].state = state}

\* on_workers: the next folder, unless one has failed.
Take ==
  /\ stage = "Expand" /\ InState("Waiting") # {}
  /\ InState("Failed") = {} /\ Cardinality(InState("Busy")) < Workers
  /\ parts' = [parts EXCEPT ![Min(InState("Waiting"))].state = "Busy"]
  /\ UNCHANGED <<bucket, honours, stage, depth, items, budget, work>>

Got(i) == Page(parts[i].folder, parts[i].after)
Ignored(i) == ~honours /\ \E k \in ToSet(Got(i)) : Nested(parts[i].folder, k)
Own(i) == Len(SelectSeq(Got(i), LAMBDA k : ~Nested(parts[i].folder, k)))
Fits(i) == Own(i) <= budget
Enough(i) == ~Fits(i) \/ parts[i].taken + Own(i) > MaxOwn
Merged(i) == Merge(parts[i].items, parts[i].folder, Got(i))

Done(i, found) == parts' = [parts EXCEPT ![i].state = "Done", ![i].items = found]
Spend(i) == budget' = IF Fits(i) THEN budget - Own(i) ELSE budget

\* A page shows keys from deeper down: the folder is listed whole.
Whole(i) ==
  /\ Ignored(i)
  /\ Done(i, <<Rest(parts[i].folder, None)>>)
  /\ UNCHANGED budget

Stopped(i) ==
  /\ ~Ignored(i) /\ Enough(i)
  /\ Done(i, CutOff(Merged(i), parts[i].folder))
  /\ Spend(i)

Complete(i) ==
  /\ ~Ignored(i) /\ ~Enough(i) /\ Cardinality(Left(parts[i].folder, parts[i].after)) <= PageSize
  /\ Done(i, Merged(i))
  /\ Spend(i)

Continues(i) ==
  /\ ~Ignored(i) /\ ~Enough(i) /\ Cardinality(Left(parts[i].folder, parts[i].after)) > PageSize
  /\ parts' = [parts EXCEPT ![i].items = Merged(i), ![i].taken = @ + Own(i),
                            ![i].after = Last(Got(i))]
  /\ Spend(i)

Fails(i) ==
  /\ parts' = [parts EXCEPT ![i].state = "Failed"]
  /\ UNCHANGED budget

Expand ==
  /\ stage = "Expand"
  /\ \E i \in InState("Busy") : Whole(i) \/ Stopped(i) \/ Complete(i) \/ Continues(i) \/ Fails(i)
  /\ UNCHANGED <<bucket, honours, stage, depth, items, work>>

(***************************************************************************)
(* plan_work                                                               *)
(***************************************************************************)
\* seek: just before the folder's name.
Seek(folder) == Front(folder)

\* Siblings that follow each other are one run.
Runs ==
  LET Add(steps, item) ==
        CASE item.kind # "Folder" -> Append(steps, item)
          [] item.kind = "Folder" /\ steps # <<>> /\ Last(steps).kind = "Run"
             /\ ParentPrefix(Last(steps).folders[1]) = ParentPrefix(item.name)
               -> Front(steps) \o <<[Last(steps) EXCEPT !.folders = Append(@, item.name)]>>
          [] OTHER -> Append(steps, [kind |-> "Run", folders |-> <<item.name>>])
  IN FoldLeft(Add, <<>>, items)

\* Range::start, and an object's key.
Start(step) ==
  CASE step.kind = "Objects" -> step.keys[1]
    [] step.kind = "Run" -> step.folders[1]
    [] OTHER -> step.prefix

\* Where the step after it begins.
Until(steps, i) == IF i = Len(steps) THEN None ELSE Start(steps[i + 1])

Plan ==
  LET steps == Runs
  IN [i \in DOMAIN steps |->
        CASE steps[i].kind = "Objects" -> steps[i]
          [] steps[i].kind = "Run" ->
               ListRange(ParentPrefix(steps[i].folders[1]), Seek(steps[i].folders[1]),
                     steps[i].folders[1], Until(steps, i), steps[i].folders)
          [] OTHER -> [steps[i] EXCEPT !.until = Until(steps, i)]]

(***************************************************************************)
(* list and discover                                                       *)
(***************************************************************************)
\* The first page alone: a small bucket ends here.
First ==
  /\ stage = "List"
  /\ IF Cardinality(bucket) <= PageSize
     THEN stage' = "Planned" /\ work' = <<Objects(Sorted(bucket))>>
     ELSE stage' = "Discover" /\ UNCHANGED work
  /\ UNCHANGED <<bucket, honours, depth, items, parts, budget>>

EnoughFolders ==
  \/ depth = DepthLimit \/ Folders = <<>>
  \/ depth > 0 /\ Len(Folders) >= Workers * FoldersPerWorker

Level ==
  /\ stage = "Discover" /\ ~EnoughFolders
  /\ stage' = "Expand"
  /\ parts' = [i \in DOMAIN Folders |->
                [folder |-> Folders[i].name, state |-> "Waiting", items |-> <<>>,
                 taken |-> 0, after |-> None]]
  /\ UNCHANGED <<bucket, honours, depth, items, budget, work>>

\* Each folder's expansion takes its place.
LevelDone ==
  /\ stage = "Expand" /\ InState("Done") = DOMAIN parts
  /\ LET Place(list, item) ==
           IF item.kind # "Folder" THEN Append(list, item)
           ELSE list \o parts[CHOOSE i \in DOMAIN parts : parts[i].folder = item.name].items
     IN items' = FoldLeft(Place, <<>>, items)
  /\ stage' = "Discover" /\ depth' = depth + 1 /\ parts' = <<>>
  /\ UNCHANGED <<bucket, honours, budget, work>>

LevelFailed ==
  /\ stage = "Expand" /\ InState("Failed") # {} /\ InState("Busy") = {}
  /\ stage' = "Failed"
  /\ UNCHANGED <<bucket, honours, depth, items, parts, budget, work>>

Planned ==
  /\ stage = "Discover" /\ EnoughFolders
  /\ stage' = "Planned" /\ work' = Plan
  /\ UNCHANGED <<bucket, honours, depth, items, parts, budget>>

DiscoveryInit ==
  /\ bucket \in Buckets /\ honours \in BOOLEAN
  /\ stage = "List" /\ depth = 0
  /\ items = <<Folder(RootPrefix)>> /\ parts = <<>>
  /\ budget = Budget /\ work = <<>>

DiscoveryNext == First \/ Level \/ Take \/ Expand \/ LevelDone \/ LevelFailed \/ Planned

DiscoverySpec == DiscoveryInit /\ [][DiscoveryNext]_discovery /\ WF_discovery(DiscoveryNext)

(***************************************************************************)
(* Properties.                                                             *)
(***************************************************************************)
\* What a range lists: S3Fetch lists exactly these, in order, however it is
\* split.
InRange(range) ==
  {k \in bucket : /\ IsPrefix(range.prefix, k) /\ Before(range.start_after, k)
                  /\ ~Before(k, range.from)
                  /\ range.until = None \/ Before(k, range.until)}

Delivered ==
  FlattenSeq([i \in DOMAIN work |->
    IF work[i].kind = "Objects" THEN work[i].keys ELSE Sorted(InRange(work[i]))])

\* However the levels went, what the steps list, one after another, is every
\* key of the bucket once and in order.
PlanListsAll == stage = "Planned" => Delivered = Sorted(bucket)

\* What S3Fetch assumes of a plan: a run lists nothing but its folders, in
\* order, and a split between two of them has all of a folder on one side.
RunsAreTheirFolders ==
  stage = "Planned" =>
    \A i \in {j \in DOMAIN work : work[j].kind = "Range"} :
      LET r == work[i]
      IN r.folders # <<>> =>
           /\ \A k \in InRange(r) : \E f \in ToSet(r.folders) : IsPrefix(f, k)
           /\ \A a, b \in DOMAIN r.folders : a < b => Before(r.folders[a], r.folders[b])

\* What the parallel listing is handed.
PlanIsSound == PlanListsAll /\ RunsAreTheirFolders
=============================================================================
