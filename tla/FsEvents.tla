------------------------------ MODULE FsEvents ------------------------------
(***************************************************************************)
(* FSEvents, the journal a rescan asks on macOS                            *)
(* (crates/scan-core/src/fsevents.rs).                                     *)
(*                                                                         *)
(* A replay writes a marker file, waits for its turn, has a thread of its  *)
(* own start a stream of records, and takes what the stream has delivered  *)
(* once both the end of the history and the marker are in.  A start that   *)
(* takes too long is abandoned to its thread, and until it returns every   *)
(* replay is refused.                                                      *)
(*                                                                         *)
(* Outside is fseventsd: it takes changes from one queue in the order they *)
(* happened, numbers a record of each, and delivers to a stream what was   *)
(* numbered when it started, the end of the history, and then the rest.    *)
(* It may keep less than happened, and says so in the record.              *)
(*                                                                         *)
(* Paths are sequences of names; a replay's cursor is before all changes.  *)
(***************************************************************************)
EXTENDS Integers, FiniteSets, Sequences, SequencesExt

CONSTANTS
  Replays,
  Files,        \* what changes under every root
  WholeDisk,    \* the replays whose root holds the temporary directory too
  Cap,          \* MAX_CHANGES
  Impatient,    \* the replays that may be cancelled
  MaxChanges,   \* bound: changes besides the markers
  MaxLosses     \* bound: records that say less than happened

ASSUME FsEventsAssumption ==
  /\ WholeDisk \cup Impatient \subseteq Replays
  /\ {Cap, MaxChanges, MaxLosses} \subseteq Nat

VARIABLES
  queue,     \* external: paths changed, on their way to fseventsd
  log,       \* external: the records numbered
  changed,   \* external: how many changes there were besides the markers
  losses,    \* external: how many records said less than happened
  stream,    \* each replay's stream, as FSEvents has it
  \* the replays whose cancel switch is set
  turn,      \* TURN: who replays
  hanging,   \* HANGING
  asking,    \* where the thread that asks has got to
  starting,  \* Starting: what it shares with the thread that starts the stream
  starter,   \* where that thread has got to
  sink,      \* Sink: what the callback has been handed
  answer,    \* what the replay returned
  done,      \* history: what has changed
  before     \* history: what had when the marker was written

outside == <<queue, log, changed, losses>>
shared  == <<turn, hanging>>
history == <<done, before>>
vars == <<outside, stream, shared, asking, starting, starter, sink, answer, history>>

(***************************************************************************)
(* Paths.                                                                  *)
(***************************************************************************)
Disk == <<>>
Data == <<"data">>
Temp == <<"temp">>
Root(r) == IF r \in WholeDisk THEN Disk ELSE Data
File(f) == <<"data", f>>

\* Marker: its directory and its file.
MarkerDir(r) == <<"temp", r>>
Marker(r)    == <<"temp", r, "sync">>

Paths == {Disk, Data, Temp} \cup {File(f) : f \in Files}
           \cup {MarkerDir(r) : r \in Replays} \cup {Marker(r) : r \in Replays}

Under(p, d) == IsPrefix(d, p)

Parent(p) == SubSeq(p, 1, Len(p) - 1)

(***************************************************************************)
(* Records and what a rescan is told of one.                               *)
(***************************************************************************)
LOST == {"UserDropped", "KernelDropped", "EventIdsWrapped", "RootChanged", "Mount", "Unmount"}
KINDS == {"ItemIsFile", "ItemIsDir", "ItemIsSymlink"}

\* The strongest of what a record says.
Kind(flags) ==
  IF flags \cap LOST # {} THEN "Lost"
  ELSE IF "MustScanSubDirs" \in flags \/ flags \cap KINDS = {} THEN "SubtreeUnknown"
  ELSE IF "ItemRemoved" \in flags THEN "Removed"
  ELSE IF "ItemRenamed" \in flags THEN "Renamed"
  ELSE IF "ItemCreated" \in flags THEN "Created"
  ELSE "Modified"

Change(rec) == [path |-> rec.path, kind |-> Kind(rec.flags)]

Record(p, flags) == [path |-> p, flags |-> flags]

InFull(p) == Record(p, {"ItemIsFile"})

\* A drop is reported for the whole disk, less detail for the directory.
Lossy(p) ==
  {Record(Disk, {"KernelDropped"}), Record(Parent(p), {"MustScanSubDirs"}), Record(Parent(p), {})}

HistoryDone == Record(Disk, {"HistoryDone"})

(***************************************************************************)
(* The initial state.                                                      *)
(***************************************************************************)
NoAnswer == [said |-> "nothing", claims |-> {}, past |-> FALSE]
Refused  == [said |-> "no answer", claims |-> {}, past |-> FALSE]

Empty == [events |-> {}, historyDone |-> FALSE, synced |-> FALSE,
          barrierLost |-> FALSE, overflowed |-> FALSE]

Closed == [at |-> "Closed", from |-> 0, sent |-> 0, done |-> FALSE]

Init ==
  /\ queue = <<>> /\ log = <<>> /\ changed = 0 /\ losses = 0
  /\ stream = [r \in Replays |-> Closed]
  /\ turn = {} /\ hanging = FALSE
  /\ asking = [r \in Replays |-> "Idle"]
  /\ starting = [r \in Replays |-> "None"]
  /\ starter = [r \in Replays |-> "None"]
  /\ sink = [r \in Replays |-> Empty]
  /\ answer = [r \in Replays |-> NoAnswer]
  /\ done = {} /\ before = [r \in Replays |-> {}]

(***************************************************************************)
(* Outside.                                                                *)
(***************************************************************************)
\* Bound: nothing moves once every replay has ended.
Watched == \E r \in Replays : asking[r] # "Ended"

Happen(f) ==
  /\ changed < MaxChanges /\ Watched
  /\ changed' = changed + 1
  /\ queue' = Append(queue, File(f))
  /\ done' = done \cup {File(f)}
  /\ UNCHANGED <<log, losses, stream, shared, asking, starting, starter, sink, answer, before>>

Number ==
  /\ queue # <<>> /\ Watched
  /\ queue' = Tail(queue)
  /\ \/ log' = Append(log, InFull(Head(queue))) /\ UNCHANGED losses
     \/ /\ losses < MaxLosses
        /\ losses' = losses + 1
        /\ \E rec \in Lossy(Head(queue)) : log' = Append(log, rec)
  /\ UNCHANGED <<changed, stream, shared, asking, starting, starter, sink, answer, history>>

(***************************************************************************)
(* The callback.                                                           *)
(***************************************************************************)
InMarkerDir(r, p) == Under(p, MarkerDir(r))

\* Lost records around the marker leave it open whether it came back.
LosesMarker(r, rec) ==
  /\ InMarkerDir(r, rec.path) \/ Under(MarkerDir(r), rec.path)
  /\ rec.flags \cap (LOST \cup {"MustScanSubDirs"}) # {}

\* Nothing in the marker's directory is a change under the root; the
\* directory is one where it is under the root.
OfTheRoot(r, p) ==
  InMarkerDir(r, p) => p = MarkerDir(r) /\ Under(MarkerDir(r), Root(r))

Held(s, change) ==
  IF s.overflowed THEN s
  ELSE IF Cardinality(s.events \cup {change}) > Cap
       THEN [s EXCEPT !.overflowed = TRUE, !.events = {}]
       ELSE [s EXCEPT !.events = @ \cup {change}]

\* Sink::record
Recorded(r, s, rec) ==
  IF rec = HistoryDone THEN [s EXCEPT !.historyDone = TRUE]
  ELSE LET seen == [s EXCEPT !.synced = @ \/ rec.path = Marker(r),
                             !.barrierLost = @ \/ LosesMarker(r, rec)]
       IN  IF OfTheRoot(r, rec.path) THEN Held(seen, Change(rec)) ELSE seen

\* FSEvents filters by the paths it was given, in either direction.
Watches(r, p) ==
  \E d \in {Root(r), MarkerDir(r)} : Under(p, d) \/ Under(d, p)

Call(r, rec) ==
  /\ sink' = [sink EXCEPT ![r] = Recorded(r, @, rec)]
  /\ UNCHANGED <<outside, shared, asking, starting, starter, answer, history>>

\* Bound: what is delivered to a replay that has given up is read by nobody.
Heeded(r) == asking[r] \in {"Starting", "Waiting", "Answered"}

\* on_events: the end of the history falls where the stream started.
Deliver(r) ==
  /\ stream[r].at = "Live" /\ Heeded(r)
  /\ IF stream[r].sent = stream[r].from /\ ~stream[r].done
     THEN /\ stream' = [stream EXCEPT ![r].done = TRUE]
          /\ Call(r, HistoryDone)
     ELSE LET rec == log[stream[r].sent + 1] IN
          /\ stream[r].sent < Len(log)
          /\ stream' = [stream EXCEPT ![r].sent = @ + 1]
          /\ IF Watches(r, rec.path) THEN Call(r, rec)
             ELSE UNCHANGED <<outside, shared, asking, starting, starter, sink, answer, history>>

\* A record is delivered more than once.
DeliverAgain(r) ==
  /\ stream[r].at = "Live" /\ Heeded(r) /\ stream[r].sent > 0
  /\ Watches(r, log[stream[r].sent].path)
  /\ UNCHANGED stream
  /\ Call(r, log[stream[r].sent])

(***************************************************************************)
(* The thread that asks: barrier, take_turn, replay, start and Sink::wait. *)
(***************************************************************************)
Become(r, at) == asking' = [asking EXCEPT ![r] = at]

\* Journal::barrier.  Making the directory, one more change before the
\* barrier, is left out, as is removing it.
WriteMarker(r) ==
  /\ asking[r] = "Idle"
  /\ Become(r, "Queued")
  /\ queue' = Append(queue, Marker(r))
  /\ before' = [before EXCEPT ![r] = done]
  /\ UNCHANGED <<log, changed, losses, stream, shared, starting, starter, sink, answer, done>>

\* The turn goes with the answer, and nobody reads the sink again.
Return(r, what) ==
  /\ Become(r, "Ended")
  /\ answer' = [answer EXCEPT ![r] = what]
  /\ turn' = turn \ {r}
  /\ sink' = [sink EXCEPT ![r] = Empty]
  /\ UNCHANGED <<outside, history>>

\* Marker::new: no directory to write it in, or one on another volume.
NoBarrier(r) ==
  /\ asking[r] = "Idle"
  /\ Return(r, Refused)
  /\ UNCHANGED <<stream, hanging, starting, starter>>

MustRefuse == hanging

\* take_turn: the turn is taken unless the replay is refused at once.
Refuse(r) ==
  /\ asking[r] = "Queued" /\ turn = {} /\ MustRefuse
  /\ Return(r, Refused)
  /\ UNCHANGED <<stream, hanging, starting, starter>>

GiveUpTurn(r) ==
  /\ asking[r] = "Queued" /\ turn # {} /\ r \in Impatient
  /\ Return(r, Refused)
  /\ UNCHANGED <<stream, hanging, starting, starter>>

\* The stream or the thread to start it could not be made.
CannotStart(r) ==
  /\ asking[r] = "Queued" /\ turn = {} /\ ~MustRefuse
  /\ Return(r, Refused)
  /\ UNCHANGED <<stream, hanging, starting, starter>>

Start(r) ==
  /\ asking[r] = "Queued" /\ turn = {} /\ ~MustRefuse
  /\ turn' = {r}
  /\ Become(r, "Starting")
  /\ stream' = [stream EXCEPT ![r].at = "Created"]
  /\ starting' = [starting EXCEPT ![r] = "Running"]
  /\ starter' = [starter EXCEPT ![r] = "Calling"]
  /\ UNCHANGED <<outside, hanging, sink, answer, history>>

\* `start` finds the stream started, or that it did not start.
Started(r) ==
  /\ asking[r] = "Starting" /\ starting[r] = "Started"
  /\ Become(r, "Waiting")
  /\ UNCHANGED <<outside, stream, shared, starting, starter, sink, answer, history>>

NotStarted(r) ==
  /\ asking[r] = "Starting" /\ starting[r] = "Failed"
  /\ Return(r, Refused)
  /\ UNCHANGED <<stream, hanging, starting, starter>>

\* Mutant: only a cancel ends a wait.
NoDeadline(r) == IF r \in Impatient THEN {"Cancelled"} ELSE {}

\* Whichever of the two is looked at first when both are there.
TimeIsUp(r) == {"Deadline"} \cup (IF r \in Impatient THEN {"Cancelled"} ELSE {})

\* Mutant: the replay walks away without a word.
MarkNothing == hanging

MarkHanging == TRUE

\* `start` gives up, under the lock: on cancel or after its own allowance.
Abandon(r) ==
  /\ asking[r] = "Starting" /\ starting[r] = "Running"
  /\ \E why \in TimeIsUp(r) :
       /\ asking' = [asking EXCEPT ![r] = why]
       /\ hanging' = MarkHanging
       /\ starting' = [starting EXCEPT ![r] = "Abandoned"]
  /\ UNCHANGED <<outside, stream, turn, starter, sink, answer, history>>

\* Mutant: the end of the history is taken for the end of the answer.
HistoryIsAll(r) == sink[r].historyDone

\* SinkState::answered
Answered(r) == sink[r].historyDone /\ sink[r].synced

Unknowable(r) == sink[r].barrierLost /\ ~sink[r].synced

\* One turn of Sink::wait, and what it decides; the stream is closed then.
Wait(r) ==
  /\ asking[r] = "Waiting"
  /\ \/ sink[r].overflowed /\ Become(r, "TooMany")
     \/ ~sink[r].overflowed /\ Answered(r) /\ Become(r, "Answered")
     \/ ~sink[r].overflowed /\ ~Answered(r) /\ Unknowable(r) /\ Become(r, "Lost")
     \/ /\ ~sink[r].overflowed /\ ~Answered(r) /\ ~Unknowable(r)
        /\ \E why \in TimeIsUp(r) : asking' = [asking EXCEPT ![r] = why]
  /\ UNCHANGED <<outside, stream, shared, starting, starter, sink, answer, history>>

\* Stream::drop, by whoever holds the stream: no callback comes after it.
Close(r) == stream' = [stream EXCEPT ![r] = Closed]

\* The replay holds the stream unless it left it to the starting thread.
LetGo(r) == IF starting[r] = "Abandoned" THEN UNCHANGED stream ELSE Close(r)

GiveUp(r) ==
  /\ asking[r] \in {"TooMany", "Lost", "Cancelled", "Deadline"}
  /\ LetGo(r)
  /\ Return(r, Refused)
  /\ UNCHANGED <<hanging, starting, starter>>

\* Stream::drop and Sink::take
Take(r) ==
  /\ asking[r] = "Answered"
  /\ LetGo(r)
  /\ Return(r, [said |-> "changes", claims |-> sink[r].events, past |-> sink[r].overflowed])
  /\ UNCHANGED <<hanging, starting, starter>>

(***************************************************************************)
(* The thread that starts the stream.                                      *)
(***************************************************************************)
\* FSEventStreamStart returns, if ever.
StartReturns(r) ==
  /\ starter[r] = "Calling"
  /\ starter' = [starter EXCEPT ![r] = "Returned"]
  /\ \/ stream' = [stream EXCEPT ![r].at = "Live", ![r].from = Len(log)]
     \/ UNCHANGED stream
  /\ UNCHANGED <<outside, shared, asking, starting, sink, answer, history>>

\* Under the lock: the stream goes back to the replay, or it did not start.
HandOver(r) ==
  /\ starter[r] = "Returned" /\ starting[r] # "Abandoned"
  /\ IF stream[r].at = "Live"
     THEN /\ starting' = [starting EXCEPT ![r] = "Started"]
          /\ starter' = [starter EXCEPT ![r] = "Gone"]
     ELSE /\ starting' = [starting EXCEPT ![r] = "Failed"]
          /\ starter' = [starter EXCEPT ![r] = "Closing"]
  /\ UNCHANGED <<outside, stream, shared, asking, sink, answer, history>>

\* The replay is gone, or the start failed: the thread closes the stream.
CloseHere(r) ==
  /\ \/ starter[r] = "Returned" /\ starting[r] = "Abandoned"
     \/ starter[r] = "Closing"
  /\ Close(r)
  /\ starter' = [starter EXCEPT ![r] = IF starting[r] = "Abandoned" THEN "Clearing" ELSE "Gone"]
  /\ UNCHANGED <<outside, shared, asking, starting, sink, answer, history>>

Clear(r) ==
  /\ starter[r] = "Clearing"
  /\ hanging' = FALSE
  /\ starter' = [starter EXCEPT ![r] = "Gone"]
  /\ UNCHANGED <<outside, stream, turn, asking, starting, sink, answer, history>>

(***************************************************************************)
(* The specification.                                                      *)
(***************************************************************************)
Asking(r) ==
  \/ WriteMarker(r) \/ NoBarrier(r) \/ GiveUpTurn(r) \/ Refuse(r)
  \/ CannotStart(r) \/ Start(r) \/ Started(r) \/ NotStarted(r) \/ Abandon(r)
  \/ Wait(r) \/ GiveUp(r) \/ Take(r)

Starting(r) == HandOver(r) \/ CloseHere(r) \/ Clear(r)

Service ==
  \/ Number
  \/ \E f \in Files : Happen(f)
  \/ \E r \in Replays : StartReturns(r) \/ Deliver(r) \/ DeliverAgain(r)

Next == Service \/ \E r \in Replays : Asking(r) \/ Starting(r)

\* The threads run, and what a thread waits for with a deadline ends; nothing
\* is asked of FSEvents, a start that never returns included.
Fairness == \A r \in Replays : WF_vars(Asking(r)) /\ WF_vars(Starting(r))

Spec == Init /\ [][Next]_vars /\ Fairness

(***************************************************************************)
(* What should hold.                                                       *)
(***************************************************************************)
Claims == [path : Paths, kind : {"Lost", "SubtreeUnknown", "Removed", "Renamed", "Created", "Modified"}]

Returned ==
  [r \in Replays |->
    IF answer[r].past THEN [said |-> "no answer", claims |-> {}]
    ELSE [said |-> answer[r].said, claims |-> answer[r].claims]]

Concerns(r, p) == Under(p, Root(r))

Covers(claim, p) ==
  \/ claim.path = p
  \/ claim.kind \in {"Lost", "SubtreeUnknown"} /\ Under(p, claim.path)

Journal == INSTANCE JournalReplay WITH
  Changes <- Paths,
  barrier <- before, answer <- Returned

\* A replay is what the trait Journal promises of one: its answer holds every
\* change finished before its marker was written, in full or by a record that
\* has the rescan read it again (fsevents.rs:268 and :895), or there is none.
\* An answer taken from a sink that is past its cap counts as none here.
AnswersToTheMarker == Journal!Spec

\* No start is tried while another has not returned, so that fseventsd not
\* answering costs one thread and one stream (fsevents.rs:461).
OneStart == Cardinality({r \in Replays : starter[r] = "Calling"}) <= 1

\* Replays are refused exactly while an abandoned start has not returned and
\* had its stream closed (fsevents.rs:461), whichever of the two threads got
\* to the other's state first.
StuckWhileAbandoned ==
  hanging = (\E r \in Replays : starting[r] = "Abandoned" /\ starter[r] # "Gone")

\* A stream is closed by the end, and by one holder: the one it was left to.
ClosedInTheEnd ==
  \A r \in Replays :
    /\ asking[r] = "Ended" /\ starter[r] \in {"None", "Gone"} => stream[r] = Closed
    /\ asking[r] = "Waiting" => stream[r].at = "Live"

\* Between the two threads of a start, and among all replays, each stream is
\* somebody's and each start that hangs is known.
StartsAccountedFor == OneStart /\ StuckWhileAbandoned /\ ClosedInTheEnd

\* A replay that set its barrier ends, whatever FSEvents does and whoever else
\* replays: its wait for the turn, for the start and for the answer all end
\* (fsevents.rs:270-290).
ReplayEnds ==
  \A r \in Replays : asking[r] = "Queued" ~> asking[r] = "Ended"
=============================================================================
