# spacetrace: TLA+ specifications and proofs

spacetrace measures what occupies a disk or a bucket, keeps snapshots of it, and
explains what changed between two of them. It is one Rust workspace: a command
line (`crates/cli`), an agent that scans on a schedule and serves its snapshots
(`crates/agent`), and the libraries both are built from. This directory holds
TLA+ modules translated from that code, the TLC runs that check them on small
instances, and proofs, checked by TLAPS, of what holds for every instance.

Most of the program is sequential: it walks, adds up, prints. What deserves a
model is the rest: threads that share a plan and split each other's work,
renewals of credentials under requests in flight, a journal of changes whose
answer arrives on another thread and may never arrive, claims on hard links made
by walkers in any order, a store that is written, exported, merged and migrated
under several processes, a view of a tree that changes while it is listed.

## 1. Inventory

| Component | Code | State it keeps | Operations | Interacts with | Module |
|---|---|---|---|---|---|
| S3 parallel listing | `cli/src/s3/listing.rs` | ranges, their order, queues, where the caller is | claim, split, hand over, pause, take, stop | S3 client, tree builder (the sink), user's cancel | `S3Fetch` |
| S3 discovery | `cli/src/s3/listing.rs` | items in key order, a shared budget of objects | expand a folder, plan the work | S3 client; feeds the listing | `S3Discovery` |
| S3 key tree | `cli/src/s3/keys.rs` | the folders open above the current key | insert, open, close | the listing's sink | `S3KeyTree` |
| S3 credentials | `cli/src/s3/credentials.rs`, `client.rs` | held keys and their windows, whether one fetch runs | get, renew, expire | every S3 request; STS, SSO, IMDS, processes | `S3Keys` |
| S3 client, signing, parsing | `cli/src/s3/{client,sigv4,xml,config,mod}.rs` | endpoint, region | list a page, retry, redirect | network | - |
| Tree | `scan-core/src/tree.rs` | arena of nodes, name arena, root path | push, aggregate, finish, remove a subtree, find | every reader of a scan | `TreeArena` |
| Walk | `scan-core/src/{scan,bulk,dents,meta,mounts,timeout,disk,capacity,age}.rs` | builder under a lock, claims on inodes, errors, progress | list a directory, claim links, descend, settle | file system, progress reader, stall watch | `ParallelWalk` |
| Clones and extents | `scan-core/src/{clones,extents}.rs` | families, claimed ranges of blocks, a gate | claim, charge, wait | walk | `ParallelWalk`, `SharedExtents`, `FiemapGate` |
| NTFS table | `scan-core/src/ntfs/*` | slots of file records | read the table, settle, enumerate | walk | `NtfsTable` |
| Incremental rescan | `scan-core/src/{rescan,journal}.rs` | cursor, dirty tree, splice | plan, replay, splice, fall back | walk, store, FSEvents | `JournaledDisk`, `IncrementalRescan` |
| FSEvents journal | `scan-core/src/fsevents.rs` | a stream, its sink, a turn, a marker | start, wait, answer, stop | dispatch queue thread, rescan | `FsEvents`, `JournalReplay` |
| Partial results | `scan-core/src/partial.rs` | a copy of the builder | snapshot of a running scan | walk, cancel | `TreeArena`, `ParallelWalk` |
| Store | `store/src/{lib,digest}.rs` | SQLite tables of scans and nodes | save, load, delete, prune, export, import, verify | agent, cli, other processes | `SnapshotStore` |
| Store migrations | `store/src/schema.rs` | user_version, columns | initialise, migrate | every opener of a store | `SnapshotStore` |
| Hash cache | `store/src/hash_cache.rs` | digests by file identity | look up, remember, forget | duplicates | `Duplicates` |
| Duplicates | `dupes/src/lib.rs` | candidate groups | by size, look again, prefix, whole | hash cache, file system | `Duplicates` |
| Diff | `diff/src/lib.rs` | none | match nodes, roll up, find the culprit | cli, agent | `SnapshotDiff` |
| Watch | `cli/src/watch.rs`, `watch/*` | directories, pending changes, link charges | handle a change, relist, rescan, render | inotify thread, terminal | `WatchModel`, `Movers` |
| Agent runner | `agent/src/runner.rs` | running roots, recorded roots | scan a root, claim it, resolve it | store, scheduler, server | `AgentRunner` |
| Agent scheduler | `agent/src/{scheduler,cron}.rs` | next due time | wait, fire | runner | `AgentTimer`, `Schedule`, `Calendar` |
| Agent rate limit | `agent/src/ratelimit.rs` | a bucket per client | charge, forget | server | `RateLimit` |
| Agent server | `agent/src/{serve,tls,metrics}.rs` | an upload slot | answer, receive a snapshot | runner, store | - |
| Agent push and update | `agent/src/{push,update,config,main}.rs` | none | push a snapshot, check for an update | server | - |
| Remote scans | `cli/src/{ssh,remote}.rs` | a lease, a session, a directory elsewhere | upload, scan, download, clean up | ssh, store | `RemoteScan` |
| Self-update | `cli/src/update.rs` | files next to the installed ones | fetch, copy, rename | network, file system | `SelfUpdate` |
| Text formats | `store/src/{csv,ncdu,ncdu_import}.rs` | none | export, import | cli | - |
| Package attribution | `cli/src/pkgs/*` | receipts | load, attribute | file system | - |
| Treemap | `treemap/src/*` | none | lay out, draw | cli | - |
| Command line, printing, build info, changelog | `cli/src/{main,args,fmt}.rs`, `buildinfo`, `changelog` | none | parse, print | all | - |

What is hard about each, and what makes it right:

- **S3 listing.** Workers split ranges while the caller takes them in order, and
  pause when too much is queued. Right: the pages reach the caller exactly as
  one sequential listing would deliver them, the queue stays bounded, every
  listing ends. Folders found side by side draw on one budget. Right: what is
  planned lists every key once.
- **S3 credentials.** Keys expire under requests in flight; one thread renews,
  the others wait, S3 may refuse keys early. Right: one renewal at a time, no
  request past the deadline, one failure shared by all who waited, nobody left
  waiting.
- **Agent.** The schedule and requests want the same root; a root may be a link
  onto a dead share. Right: one scan per root, a promise of a scan kept, one
  stuck thread per dead root, what a scan wrote never overwritten by a late
  answer. A clock that is set, a sleep that overruns. Right: a root is fired for
  the minutes it is due, once, and never waits for more than an hour too long.
  Requests overtake each other between the clock and the lock. Right: nobody
  gets more than the rate.
- **Walk.** Walkers meet hard links, clones and a cancel in any order. Right:
  every inode and every shared block charged once, none lost, totals independent
  of the order, a cancelled scan never passed off as a whole one. A system call
  that hangs holds a gate. Right: the gate is given up then, and only then.
- **NTFS table.** It is read record by record while the volume is in use. Right:
  no record's names or sizes go to another file.
- **Rescan and journal.** The previous tree, a position in a journal and a
  stream of events must add up to what a full walk would find, or the scan must
  fall back. Right: an answer holds every change before its marker or is none.
- **Store.** Several processes, migrations, interrupted exports. Right: a
  database is stamped when it is complete, a snapshot imported once and sound, a
  base is one scan as it was saved.
- **Watch.** Changes arrive while directories are relisted. Right: what is shown
  converges to what is on disk once changes stop, and counts no file twice.
- **Remote scans, self-update.** Anything dies anywhere. Right: the other machine
  is cleaned up, no half database is taken for a scan, what is installed runs.

## 2. How the project is laid out

One module per component, with its constants, their assumption, one action per
operation, and its properties at the end. What a component promises another is
stated abstractly where that is shorter than the code: `S3OrderedListing` is what
the tree builder relies on of `S3Fetch`, `JournalReplay` what a rescan relies on
of `FsEvents`; both refinements are runs. `IncrementalRescan` builds on
`JournaledDisk`, the disk and its journal; `AgentTimer` on `Schedule`, `Movers` on
`SnapshotDiff`, `S3KeyTree` on `S3Discovery`, whose plans satisfy what `S3Fetch`
assumes of its plan (`PlanListsAll`, `RunsAreTheirFolders` for its `PlanAssumption` and
`CoverAssumption`).

An MC module gives a component its small instance. Components that share no
state are checked in one run: `side` says of which of them a behaviour is, so
their states add and do not multiply.

Proofs are in modules of their own, `<Component>Proofs`, or one for the
components of a subsystem (`S3Proofs`, `AgentProofs`, `WaitsProofs`, `BinariesProofs`); that
the parallel listing implements the ordered one is `S3PromiseProofs`, on top of
`S3Proofs`.

What the plan has left, in this order: package attribution (receipts, and which names they own); the agent's server and
push (the upload slot, a retried push); where S3 keys come from (profiles, SSO
and process providers); mounts and capacities of a walk.

## 3. What is modelled

### S3 listing: `S3Discovery`, `S3Fetch`, `S3OrderedListing`, `S3KeyTree`

`S3Discovery` finds the ranges: `discover` takes the folders of one level, one on a
worker each, and expands them page by page with a delimiter until enough are
found, a shared budget is spent, or a server turns out to ignore the delimiter;
`plan_work` makes steps and ranges of it (`Plan`). Keys are sequences of bytes
here, because where a range begins and ends is decided by their order.

`S3Fetch` starts from such a plan and ends when `fetch` returns. A key is its
position in key order, a page a set of keys. Its shared variables are the fields of
`State` (`ranges`, `order`, `taking`, `buffered`, `failure`, `stop`); `worker` and
`caller` are the threads' local state. One action is one critical section of the
mutex or what a thread does between two:

| Code | Actions |
|---|---|
| `claim` | `ClaimIdle`, `SplitBusy`, `Exit` |
| `list_range`, and a page handed over | `HandOver`, `PageAfterStop`, `RequestFails` |
| `work` after a range | `Leave` |
| `take`, `next_page` | `SinkObjects`, `StartTaking`, `TakePage`, `Drained`, `Advance`, `TakeFailure`, `SinkFails` |
| the end of the thread scope | `Stop`, `Join` |
| the user | `Cancel` |

Every wait in the code has a 100 ms timeout, so a notification that is missed costs
time only and condition variables are left out. Keys outside `Stable` come and go
while the bucket is listed. `S3OrderedListing` is what the tree builder relies on:
pages in key order without a gap, then the end, or an error. `S3KeyTree` is that
builder (`KeyTree`), a fold over the keys that were delivered.

### S3 credentials: `S3Keys`

`static`, `held`, `fetching`, `finished`, `failed` are those of `Keys` and its
`State`; `thread` holds each thread's place in `list_page` and `get`. `get` is one
critical section, so each of its outcomes is an action (`GetCancelled`, `GetHeld`,
`StartAdvisory`, `GetFailure`, `StartMandatory`, `Wait`); the fetch runs outside
the lock and ends as `FetchSucceeds` or `FetchFails`; a failed advisory renewal
then takes the lock again (`Report`). `Answered`, `Unanswered`, `Refused` and
`Expire` are what `list_page` does with an answer. The clock does not step back
(`Tick`); keys may arrive expired, short-lived, without an expiry, or again the
same ones. Left out: redirects to another region (they resend with the same
keys), and how a provider gets its keys.

### Agent: `AgentRunner`, `AgentTimer`, `RateLimit`

| Code | State and actions of `AgentRunner` |
|---|---|
| `trigger_scan` (serve.rs), `run_one` (scheduler.rs) | `Request`, `Fire` |
| `try_claim`, `RootGuard` | `inFlight`; `Claim`, `Skip`, `Release` |
| `scan_root` | `task`; `Walk`, `Remember`, `Fail` |
| `start_resolving` | `slot`; `Join`, `StartResolver`, `SpawnFails`, `Forget` |
| the resolver thread, `Recorded::finish` | `resolver`; `Canonicalize`, `Finish` |
| `wait_until` | `Answer` |

`target` is where each root leads, which the file system changes at any time
(`Repoint`). Two history variables serve properties: `wrote`, what the last scan
recorded, and `overtaken`, whether a scan got the claim after a request was
accepted. Each root of one call of `recorded_roots` is a scrape of its own: the
roots do not interact, except that they share a deadline, and a deadline may
pass at any time here.

`AgentTimer` is the scheduler's loop (`Plan`, `Sleep`, `FireDue`) under a wall clock that
is stepped (`StepClock`, never before 1970, which `now_unix` takes for its beginning)
and sleeps that overrun; `Schedule` is the pure part (`next_after` with its eras, months
and search limit, what the five fields name). `Expressions` are all that `parse` accepts,
but for steps above `MaxStep`, which name what any step above 59 does until `value +=
step` overflows the code's `u32`. `Calendar` is what to compare them with and shares
nothing with them but names: dates that follow each other one by one from a known one
(`Gregorian`), and what an expression says of a date and a time (`Naming`). The samples
TLC is given are in `MCAgentClocks`.

`RateLimit` is `check`: a request reads the clock (`Ask`) and only later gets the lock
(`Charge`), so one may be charged at an older instant than the one before. Time is
in ticks and a bucket in drops, of which one falls in a tick, instead of
nanoseconds and floats. `owed` and `promised` are histories.

### Walk, clones and extents: `ParallelWalk`, `SharedExtents`, `FiemapGate`

| Code | State and actions of `ParallelWalk` |
|---|---|
| `walk` of one directory | `at`; `Skip`, `List` |
| `claim`, under the locks of `seen_inodes` and `shared_blocks` | `charge`; `ClaimLinks`, `ClaimClones` |
| `place`, with `charge_own_extents` and `push_block` | `arena`, `bytes`, `errored`; `Place` |
| `scan_recording` after the walk | `phase`; `Collect`, `Bail` |
| `settle_shared` and `Deferred::settle` | `SettleShared` |
| `settle_clones` and `Families::settle` | `SettleClones` |
| the user | `Cancel` |

Every directory has a walker and the pool's size is left open, so each
interleaving of any pool is a behaviour. A name is its place in `PathOrder`. What
a name is charged is the *set* of blocks counted at it, so that two names that
count the same block can be told from two that count as many; `Total` makes bytes
of them where the code adds. `disk` holds what the scan meets and does not change
while it is scanned. Both deduplications are on, as by default. `place` appends
to the builder, to `deferred` and to `families` under three locks; the last two
are read only once every walker is done, so they are derived (`Waiting`,
`Members`) and `Place` is one action. A file whose extents cannot be read is
charged its `st_blocks`, and so is one of a directory whose listing a cancel came into
before it was mapped (`Missed`, the charge "Unmapped"): they are the one exception of
`CountedOnce`, and a finished tree has none of the second kind.

`SharedExtents` has what `ParallelWalk` takes as given: which filesystem a
directory is of (`Ask` outside the lock of the table, `Record` under it), what is
mapped of a file from its extents, compressed ones included (`MapFile`), and the
claims on address ranges after the walk (`Settle`). `FiemapGate` is the gate before
the ioctl: threads take turns once files share extents, a run of files each,
unless whoever has the turn no longer finishes any. Time passes there in equal
steps, when no thread can act at once.

### Tree and partial results: `TreeArena`

The builder's arena as it fills in the order the walk's threads finish
(`PushBlock`, `Unreadable`), a snapshot of it (`Snapshot`: cut to the ids it holds and
aggregated), and what is done with a finished tree: `Finish`, `Load`, `Prepare` (the
base of a rescan) and `RemoveSubtree`.

### NTFS table: `NtfsTable`

The disk moves by writes of single records (`Make`, `Free`, `Move`, `Grow`, `Spill`,
`DropData`); the reader takes one record after another (`ReadRecord`, `ReadTorn`), defers
what an extension says until it knows whose it is, and settles at the end
(`Settled`, `Finish`). The code reads chunks of a MiB and a torn record of a chunk once
more by itself: of any two records the model may have the disk move between them, and
a torn one is read again in its turn. Names of directories stay in their base record.

### Incremental rescan: `JournaledDisk`, `IncrementalRescan`

`JournaledDisk` is the environment: files with several names, some outside the
root; directories that are created, removed, moved in and out with all they hold;
a volume mounted over a directory; and a log of records. A record is made with
the change, numbered later, and reported by a replay in full, without its detail
(`SubtreeUnknown`), as lost, or under a spelling no listing shows (`odd`).

| Code | State and actions |
|---|---|
| `journal::take`, the mount table | `cursor`, `table`; `Take` |
| `try_plan` up to the barrier, and the base's load | `barrier`; `Mark` |
| `replay`, `from_changes`, `mark_mounted` | `dirty`; `Replay` |
| any fallback, or no base | `ReadAll` |
| `walk` and `place`, `Splice::plan`, `DirPlan::next` | `at`, `tree`, `charged`, `points`; `List`, `Unreadable` |
| `defer_copy` | `counted`, in `List` |
| `copy_into`, `mark`, `finish` | `Finish` |
| the snapshot stored with its cursor and flags | `stored`; `Save`, `GiveUp` |

A directory's entry is an inode with a version of its contents and metadata and
a number of links. `recent` is a history of what each name has been since the
barrier: a tree built while the disk changes need not be the disk of any one
moment, but every name in it must be something it was since (`EachIsRecent`). That
holds for what is copied only if the journal, the barrier, the flags and the
rules of `DirPlan::next` add up. Left out: options, the age of a cursor and the
budget of a replay (each is one more reason for `ReadAll`, which may happen at any
time); clones, which share blocks between names as links do; names that fold or
decode alike; a root that is itself replaced; a journal discarded in the middle
of a scan. A path never changes between file and directory. What is moved out of
the root has no other name outside it.

### FSEvents: `FsEvents`, `JournalReplay`

A replay writes its marker (`WriteMarker`), waits for its turn, has a thread start a
stream (`Start`), abandons it to that thread if it takes too long (`Abandon`), waits for
the history's end and the marker (`Wait`) and takes what the sink holds (`Take`). The
starting thread's side is `StartReturns`, `HandOver`, `CloseHere`, `Clear`; the
callback's is `Call`. fseventsd is external: one queue, records numbered in order
(`Number`), delivered in two parts, perhaps twice (`Deliver`, `DeliverAgain`), perhaps
less than happened, which the record then says. `JournalReplay` is the promise of
the trait `Journal` in three variables.

### Store: `SnapshotStore`

A write transaction takes the lock at its BEGIN and is one action; so is a
statement outside of one. Opening a file of any earlier version is `Open`,
`NextColumn`, `HasColumn`, `AddColumn`, `Stamp`, `Ready`; saving, `Prune` and `Delete` one
transaction each; an export `Verify`, `CopyRow`, `CopyEntries`; an import `CheckFile`, which
only judges the attached file, and `Import`, which reads it again to copy it; a base `Offered`, `ReadState`, `ReadMeta`, `ReadEntries`. `Kill` stops a process
between any two, `Tick` sets the clock to any time, `Rot` damages a value of the
database or of a file on its way: what rots while an import has the file checked is
told apart (`Late`), for no check is left to see it.

### Watch: `WatchModel`, `Movers`

`WatchModel` is the session on Linux: a disk that changes, the reader thread with
the kernel's queue and its bounded channel (`Read`), and the session that lists one
folder after another (`List`), takes in what it found (`TakeIn`, `Commit`) and on a tick
applies what is pending (`ApplySubtree`, `ApplyDirty`; `done` has what was listed and the
tops of what was rescanned). What it is about is which folder
counts a file, and how often (`links.rs`); sizes are left out. `Movers` has the rest of
`model.rs`: the records and their places, those that went away, compaction, and
the rows of a frame, stated as the diff of two trees (`SnapshotDiff`, from
`crates/diff`).

### Duplicates: `Duplicates`

One run of the funnel (`ScanFolder`, `LookAgain`, `Split`, `HashPrefix`, `HashWhole`), and
another with the cache the first filled, while files are rewritten, moved,
removed and made anew (`DiskStep`). A hash is the content it was made of.

### Remote scans and updates: `RemoteScan`, `SelfUpdate`

`RemoteScan` is four processes: the command, the lease's shell on the other machine,
the session of the current step, the scan it starts; each may be killed, the
connection may break (`Break`), an upload be cut short. `Start` forks the scan and `Exec`
makes it one: its pid may be named in between, and a lease that looks then does not
take it for its own (`Ours`). That the scan exited with 0 says nothing of its database:
it is `Send` that refuses one whose log is still there. `SelfUpdate` is `install`:
`Fetched`, `BeginCopy`, `Copied`, `Rename` for each binary by several processes that
copy to the same name, while releases come out (`Publish`).

## 4. Runs

| Run | What it asks | Bounds |
|---|---|---|
| `s3` | Do split, paused and resumed ranges deliver the bucket in order, within the bound, and end, whatever fails? Do renewals, refusals and cancels leave every thread with the right keys or an error? | 2 workers, 6 keys of which one comes and goes, a run of two folders and a rest, pages and queues of one; 2 threads with a page each, two attempts, lifetimes 0 and 2, clock to 2 |
| `agent_runner` | One scan and one resolver per root, promises kept, records right, failures retried? | 2 tasks, a configured and an ad-hoc root, 2 paths, 2 scrapes, 2 threads |
| `agent_clocks` | Is a root fired for the minutes it is due, and does nobody get more than the rate? | 2 roots, four kinds of schedule around the ends of February and of the year, one step of the clock, one overrun; 2 clients with 2 requests, room for one, 6 ticks |
| `binaries` | Is the other machine left clean and the database whole, does what is installed run? | one remote scan; 2 updates, 3 releases |
| `trees` | Is every block counted once and none lost, is a tree's arithmetic right, is a watch's frame the diff, does a plan list its bucket, is the drawn tree the bucket's? | 4 directories, one too deep to enter, 5 files, some 900 disks; 7 entries; 3 changes; buckets of up to 5 of 11 keys |
| `reuse` | Is a spliced tree what a full scan could have read, and a remembered hash still right? | 3 scans, 2 changes or failed listings, 2 directories and 3 files; 2 searches over 3 names, 2 changes |
| `waits` | Is a replay's answer whole or none, do replays and the gate end, is each stream closed once? | 2 replays, one of the whole disk, 1 change, 1 loss, 2 records held; 3 walkers, 1 permit, 1 call that hangs |
| `store` | Is a stamped database complete, is a snapshot imported once and sound, a base as it was saved? | 2 processes, 3 scans, clock to 2, one damage, one file |
| `watch` | Does a view converge once changes stop, and count no file twice by itself? | 2 folders, 2 names, 1 file, 2 changes, a queue of 3 |
| `volumes` | Are shared and compressed extents charged once, is a table read while it changes what the disk was? | 2 threads, 3 folders on up to 3 devices, 3 files; 6 records, 3 writes |
| `store_export` | Is an export the whole scan? It need not be. | as `store` |
| `watch_twice` | Does a session that dealt with every event count no file twice? It may. | as `watch` |

Why the bounds are enough. Two workers are what a split needs while the caller
takes; a run of two folders can be split, and room for one object makes every
range pause. Two threads suffice for the credentials because every hazard there
is between one thread that fetches and one that does not; lifetimes of 0 and 2
under a window of 4 make keys that arrive expired and keys whose windows are
capped. In the agent two tasks and two scrapes make every pair of critical
sections meet, and a second thread shows a second resolver if one could start.
The spans of the calendar hold a 29 February and a turn of the year, where
`next_after` has to skip months; a step back of 90 s and forward of 2 h are on
either side of the loop's hour. In the walk three directories that are entered
hold three names of a file, or a link and two clones of it, so that every order of
their claims occurs; the disks give a family members of different sizes, two
families, extents that overlap in part, an entry and a directory that cannot be
read, and one left out by the options. A rescan needs one scan to build on, and a
third to see what the second copied; two changes are a change missed and one that
hides it, a move and a write inside what moved, or a link and a write through it.
Two replays are one that hangs and one that must be refused or wait. In the store
three scans are one kept, one pruned and one imported between the statements of
another process. A file in doubt in a watch takes one that is linked and moved,
two changes. Every property has a mutation of the code's model that these bounds
find (`PROJECT.json`).

Deadlock is not checked where the system may stop: after the last change or scan
of an instance (`reuse`, `store`, `watch`, `waits`, `agent_clocks`) and after a command
has ended (`binaries`). In `s3` and `trees` the step `AtRest` lets the sides rest that may,
so that a deadlock of a walk or a listing is found. `ListingSound`, `RunnerSound`,
`KeysSafe`, `RangesSound`, `RemoteSound`, `GateIsFair`, `StartsAccountedFor`,
`ImportsAreSound` and others are conjunctions of the named parts before them.

### Fairness

- `S3Fetch`: every thread keeps running, and requests end: the HTTP client has
  timeouts. `ListingEnds` rests on this.
- `S3Keys`: threads run, but nothing is assumed of a fetch: a credential process
  may wait for an MFA code for ever. A cancel reaches waiters with a fetch that
  never ends, and that pages end says in its premise that fetches do.
- `AgentRunner`: threads that are not in a system call run, and deadlines pass.
  Nothing is assumed of scans, nor of `canonicalize`, which on a dead share never
  returns; `Resolves` names what it needs in its premise.
- `RemoteScan`: the lease's shell, the session's and the command take their next
  step, of which a wait for something else is none.
- `FsEvents`: the asking and the starting thread run; nothing is assumed of
  fseventsd or of a start that hangs. `FiemapGate`: a thread that is not in a call
  that hangs goes on, and time passes.
- `WatchModel`: the reader, the session and its ticks go on.

### Findings

- **An export need not be whole** (`store_export`). `export_snapshot` is three
  statements, and retention runs beside them.
- **A file counted twice in a watch** (`watch_twice`). A link moved between two
  relists ends a doubt by a stale name.

Disagreements with a comment or a doc that were met while modelling, and which the
models contain, but which no run is given to:

- More than twice `MAX_BUFFERED` can be queued, where the comments say twice "however
  the timing falls" (listing.rs:48-49, :110-111): `room` exempts the range being taken
  from the total (:885), so that it may be split whatever the total is, and its half is
  asked for a page before anything looks at the total. Workers that find nothing idle
  can do so for as long as what that range has not reached can be halved, which is why
  the bound has a page for each half ahead (`MemoryBounded`). Pages are small against
  the cap; `3 * MaxBuffered` is what the exemption alone may come to.
- After a failed advisory renewal a thread goes on with the keys it was called
  with, without looking at the clock again (credentials.rs:315-328); and a second
  renewal may start between a failed one's `finish` and its postponement (:318).
- A volume mounted while a scan runs, between the listing of its mount point's
  parent and its own, leaves its files without `MOUNT_POINT`; unmounted, it is
  copied by the next rescan (rescan.rs:628, :655 against :339). It is found with
  `MountsWhileScanning = TRUE`; the run has it FALSE.
- Records past the sink's cap that arrive between a replay's answer and its close
  empty the set just answered from (fsevents.rs:406, :789 against :292).
- A full rescan of a watch clears the pending subtrees, and a replaced folder then
  has no watch (watch.rs:495-497 against :262).
- A session that enters after the lease's `rm` leaves its directory (ssh.rs:791).
- In `start_resolving` a scrape whose thread cannot be started removes the slot in
  a critical section of its own, and with it what a scan may have recorded in
  between (`Forget`).
- Which name of a hard link is counted is left open by invariant 3, and the members
  of a clone family are the *counted* names (scan.rs:2195): a hard-linked file that
  is also a clone can be first in its family or not, and the family's blocks move
  between files from one scan to the next, which clones.rs sets out to prevent.
  `SameNameCarries` excludes those files.
- A directory replaced by a rename that is reported under another spelling would be
  copied stale (rescan.rs:515 against :25-27). It was measured not to occur
  (store/tests/incremental.rs:565-574), so the runs let only records of modified
  and created names be spelled otherwise (`OtherSpelling`).
- A filesystem mounted below btrfs during the scan is taken for a subvolume
  (scan.rs:928-932); two processes that migrate one old file may both try to add a
  column, and one ends with an error (schema.rs:160); an update killed between the
  two binaries leaves the agent old, and a retry says nothing is to be done; the
  budget of discovery can be overdrawn by a page per folder (listing.rs:465); four
  years of days find no 29 February around 2100 (cron.rs:21-24; the theorem
  `FourYearsFallShort`); a
  diff descends below a folder whose one child explains it even when that child
  is below the threshold, so that the change is reported nowhere.

## 5. Proofs

Everything proved holds for all values of the constants that satisfy the named
assumption of the component's module (`ConstantsAssumption`, `TimerAssumption`, `PlanAssumption` and
`CoverAssumption` of `S3Fetch`, `WindowAssumption`, `RunnerAssumption`, `WalkAssumption`, `RateLimitAssumption`,
`FiemapGateAssumption`, `FsEventsAssumption`, `StoreAssumption`, `SelfUpdateAssumption`,
`DuplicatesAssumption`, `DiskAssumption` and `RescanAssumption`),
which TLC evaluates in the runs. Each theorem follows from an inductive invariant
that TLC checked on the run's instance before it was proved; what the invariant
adds to the property is what makes it inductive.

- **`S3Proofs`**, of the listing (`ListingSound`). `ControlInv` is inductive: types, one worker per
  range, workers only inside open ranges, `order` a permutation of the ids, planned
  ranges in plan order, and `CallerInSync`. The last is not inductive alone: that
  an insertion of a half does not move the caller off its range needs `order` to
  name each range once, and halves to follow the range they were cut from.
  `SplitPoint` and its neighbours say where a split falls; the first part of the
  module holds what is needed of maxima.
- **`S3PromiseProofs`** (`PromiseKept`). The parallel listing implements the ordered
  stream of `S3OrderedListing`: `StepKeepsPromise` maps every step to a delivery, an end
  or a stutter, with `delivered` and `result` as they are. What a delivery needs is in
  `PromiseInv`, inductive beside `ControlInv`, in three parts. `Shape`: each range queues
  its own keys in order, and the ranges' keys follow one another as `order` does, a
  half's among those of the planned range it descends from. `Flow`: a range resumes
  after what it handed over, and a key that stays and was passed is queued or
  delivered. `Course`: where the caller stands splits the keys into those delivered
  and those to come. The one subtle place is `Frontier`: a key can be created behind a
  stream that has passed it, and a split can fall while a page is on its way, so what
  is to come follows what was delivered only up to keys of the range being taken that
  were passed without being there. That the plan lists every key, in order, is
  `CoverAssumption`, which is what `PlanListsAll` says of discovery's plans. `HalvesHold` adds
  that halves meet and queues are their range's own, which `RangesSound` says too.
- **`S3PromiseProofs`**, of the memory (`RangesSound`). `queued` and `buffered` are the
  cardinalities of what is queued, because pages hold keys of their own range and no
  two ranges share a key (`HeldApart`), so that the sum over the queues is a union. That
  what is queued stays bounded is not inductive, nor is any bound on a single moment's
  queues: a page that was asked for under the cap arrives over it. `MemoryInv` bounds
  *loads*, what is queued and a page for every request under way: a range's own
  (`OwnShare`), those beyond a range that is not done, a page short of the cap because
  some worker is not beyond it (`SomeoneLeft`, `AfterBounded`), and those from a position
  on (`FromBounded`). That a worker is left is where `claim` takes the earliest idle range
  and splits only when there is none: the ranges before one with room have room too
  (`RoomMeans`, of the running sum in `room`) and so are busy. The sum is a recursive
  function; that there is one over any positions, and that it grows, are proved by a
  least counterexample (`SumExists`, `SumGrows`). A first statement of the bound, with a
  page for each worker alone, failed here: see section 4.
- **`S3Proofs`**, of the keys (`KeysSafe`). `KeysInv` adds to types and `OneFetch` that the
  recorded failure is that of the last fetch (`FailureIsLast`), that nobody waited for
  a fetch yet to come (`WaitsAreOld`), and that a thread at work has pages left.
  `HeldOrdered` (the advisory deadline never lies after the mandatory one) holds
  by `WindowsOrdered`, the arithmetic of the capped windows for every lifetime,
  and carries `SignsInTime`.
- **`AgentProofs`** (`RunnerSound`, `AcceptedIsScanned`). `RunnerInv` adds `OneStarter`:
  a slot nobody has begun to fill has neither a thread nor a scrape about to start
  one, and otherwise at most one of either. Without it neither `OneResolver` nor the
  claim that a slot being removed has no thread is inductive. `KnowsOvertaken` does
  the same for `AcceptedIsScanned`.
- **`ParallelWalkProofs`** (`CountedOnce`, `NothingLost`, `SameNameCarries`, `NothingMissing`).
  `CountedOnce` speaks of the arena alone, and nothing in the arena says that the next
  block to arrive is not there already. `WalkInv` says why: the charge a walker
  decided and the claims taken agree (`LinkInv`, one counted name per file;
  `FamilyInv`, one holder per family), and until families are settled the arena
  shows exactly what the charges say (`ArenaInv`), whatever order blocks arrived
  in. When families are settled the arena leaves the charges behind;
  `WinnerAlone` is that step. `CounterInv` is why the unsigned counters take
  `MovedBytes` without wrapping. `TreeInv` adds the other direction: every file of a
  directory that was claimed for is decided, one that is not charged is so because
  of a claim (`DecidedInv`), and every claim was made for a name that is charged
  (`BackedInv`), so that no block is left to nobody; `DueInv` and `DoneInv` follow the
  two counters from claim to block to settling, `EnteredInv` the directories, each
  entered or with a trace, and that only a cancelled walk skips one or leaves a file
  unmapped. That the first name of a family carries it needs a
  least element of a set of names (`FirstName`, from the well-foundedness of the
  naturals). Totals are cardinalities of sets of pairs, so that the library's
  theorems on finite sets and bijections replace induction.
- **`BinariesProofs`** (`RemoteSound`, `AlwaysRuns`). Of a remote scan the invariant relates
  the session to the process it started, and both to what the lease found when it
  looked: a pid is written once and named in one place, so that a lease that saw
  it, of a process that had become the scan, stops it or finds it ended, and none starts
  after it (`Stopped`). Of an
  update, that what is installed is of one release and whole needs that no file is
  in two places (`FilesApart`) and that the update under way copies to what is staged
  and nowhere else (`OnItsWay`); it is said of updates that are not under way at once.
- **`AgentProofs`**, of the rate limit (`WithinTheRate`, `ComingBackHelps`). What a bucket holds is owed to its
  client by the rate alone, however late the reading it was charged at (`Backed`), and
  a client that was forgotten is owed a full bucket by then (`Recovering`): the table's
  bound gives nobody anything.
- **`AgentProofs`**, of dates and expressions (`CivilIsGregorian`, `NextAfterHolds`,
  `FourYearsFallShort`). `civil_from_days` computes a date by the era of 400 years, the
  year in it, which begins in March, and the month by a line through the lengths of
  months. That its year is the one around the day (`YearOfDay`, `OneYear`) and its month
  too (`MonthIs`) gives the date of each day (`ByEra`); that the next day's is the one
  that follows by the calendar (`TomorrowIs`, with `SameYear` and `NextYear`, across a
  month, a year and an era) gives every day since 1970, by a least counterexample. A
  field names what one of its entries says (`FieldIs`, `WeekdayIs`), so a second
  matches when calendar and expression say so (`MatchesAsNamed`), and the day at which
  the search stops is the first that has one left (`FirstHit`). It searches 1464 days
  from that of the next minute (`Horizon`) and promises nothing beyond.
- **`AgentProofs`**, of the timer (`FiresAsDue`, `WithinTheHour`). `TimerInv` says what the
  property, which looks at the loop's top alone, does not: while the timer waits,
  nothing is due before `fireAt` that was not handed over or passed, and at it only
  `due` (`NothingMissed`); and until the clock is set back `fireAt` is later than
  everything it fired for (`OnceOnly`). The soonest of several roots is within the
  search of each of them (`SoonestIs`), so that a root whose next minute is beyond it
  misses nothing by another that is not. `FiresAsDue` speaks of `DueIn`, a parameter
  which a run gives samples for; `FiresHold` takes it to be what `Naming` says of
  every second (`DueByCalendar`), for every expression. `WithinTheHour` needs that
  while the timer sleeps the clock has not shown `fireAt` but by a step (`HourInv`).
  `MaxSteps` and `MaxLate` bound the runs; no proof uses them.
- **`WaitsProofs`** (`GateIsFair`, `StartsAccountedFor`, `AnswersToTheMarker`). Of the gate, no wake-up is lost:
  while somebody sleeps, every permit is held, about to be handed on, or on its
  way (`WakesAccounted`); and whoever has waited while nothing ticked has waited for
  the same holders (`SameHolders`), which is why the gate is given up only for one
  that hangs. Of the starts of a stream, `Phase` and `Hands` say what each side may have
  come to for every place of the other, and `OnePending` that a start which may not
  have returned is the only one. That `FsEvents` implements `JournalReplay` needs to know of
  each change made before a replay's marker where it is: told of in the log ahead of
  the marker (`MarkerAfter`), in the stream's queue, or with the sink (`OnItsWay`), and that
  the sink of a replay that may yet answer is the one its stream hands over to
  (`Listening`, `Heard`); a marker of another replay ends nothing (`Unmarked`).
- **`StoreProofs`** (`ReadyIsComplete`, `ImportsAreSound`, `BaseIsAsSaved`). The columns are the
  declared ones up to a point (`InOrder`) that every process which migrates has
  reached (`Migrating`); what a process carries between statements was checked or
  will not match (`Carries`, `BaseSoFar`); a file that was checked stays as it was sent,
  or rots anew, until it is read again (`CheckedInv`); the state of a rescan is a scan's
  own and never travels (`Own`, `Stateless`).
- **`ReuseProofs`**, of the hashes (`HashesServe`). Two things carry it. A hash that is
  remembered under the key a file has now is of what the file holds (`CacheTrue`): a
  key cannot come back to another content unless the content changed within the
  second of its last change or between a look and a hash, which `racy` records. And a
  run that nothing disturbed is at each stage where the disk says it has to be
  (`OnTheWay`): what a stage has left and what it let through are the names that share
  their size, the first of each inode, those with another to compare with, and those
  alike by prefix, each described from the disk as it is.
- **`ReuseProofs`**, of the rescan (`EachIsRecent`, `ChargedAndCounted`). What a snapshot
  is worth once the disk has gone on is `Sound`: of every name it says what the name
  is, or shows by the entry's links, a volume or an error above it that it may not
  be, or the journal has named it, or a directory it is in that came or went, since
  the cursor. Every change of the disk keeps that (`AllTold`: it strikes what it
  changes in the log, or the name has others). A scan carries it from the base to its
  own tree: at the barrier what is in doubt is exactly what a replay will mark
  (`AsMarked`, `BaseServes`), a directory is only taken over where nothing in it is
  marked or flagged (`Splices`, `CopiedServes`), what was read was there, what a listing
  did not show was not (`AsRead`, `NotThere`), and a directory is listed after those it
  is in (`Descends`), so that no entry is counted or charged twice (`Counts`,
  `ChargesOne`). Two conditions of the run are conditions of the theorems: no volume is
  mounted while a scan runs, and only modified and created names are reported under
  another spelling; both gaps are among the disagreements of section 4. That names
  form a tree is `DiskAssumption`, stated as what takes the place of an induction along
  paths: a set that holds, with a name, the directory it is in holds the root.

Only model-checked:

- liveness (`EveryListingEnds`, `EveryKeyIsGiven`, `Resolves`,
  `LeaseEnds`, `ReplayEnds`, `GateLetsThrough`, `Converges`), which the prover cannot
  reach;
- what is computed by recursion over data, where a proof needs an induction over
  it: the arithmetic of trees (`ArenaIsATree`, `TreeIsTheBuckets`, `FrameIsTheDiff`),
  discovery's plan (`PlanIsSound`), sums over spans (`SharedOnce`), and
  everything of `WatchModel` and `NtfsTable`, which declare recursive operators.

## 6. What is not modelled

Listed with its reason in `PROJECT.json`. In short: byte formats and parsing
(XML, SigV4, NTFS attributes, CSV, ncdu, package databases), geometry (treemap),
printing and arguments, system calls (how a platform lists a directory and reads
metadata), and single requests without concurrency (push, the daily check for an
update). Of the agent's runner the stall watch and the counters of `/status` are left
out: they only feed a display. Of the watch, backends other than inotify, rates and
mounts; its first scan is taken in one step.
