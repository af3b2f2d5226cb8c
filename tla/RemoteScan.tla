------------------------------ MODULE RemoteScan ------------------------------
(***************************************************************************)
(* spacetrace scan --ssh (crates/cli/src/ssh.rs): a binary is uploaded     *)
(* into a directory of its own on another machine, scans there, and its    *)
(* database comes back.                                                    *)
(*                                                                         *)
(* Over one connection run the lease, which makes the directory, holds it  *)
(* until the pipe from the command closes, and removes it; and one session *)
(* after another: the upload, the scan, the download.  A session outlives  *)
(* the client that asked for it, the scan outlives its session.  The user  *)
(* may interrupt, the command may be killed, the connection may break, at  *)
(* any moment.                                                             *)
(***************************************************************************)
EXTENDS Integers

VARIABLES
  cli,      \* the command: the step it waits for, or how it ended
  stop,     \* signals::INTERRUPTED
  told,     \* Cleanup: what was said of the directory
  got,      \* the snapshot that was fetched
  up,       \* the connection
  lease,    \* the lease on the other machine: where in its script it is
  said,     \* the last line of the lease
  dir,      \* the directory
  binary,   \* in it: spacetrace
  db,       \* in it: scan.sqlite, Open while its log holds pages
  pid,      \* in it: scan.pid
  session,  \* the step's session: its script, where in it, its status
  process,  \* the scan: No, Forked, Started, Writing, Done once it exits with 0
  ran,      \* history: the binary that was scanned with
  unseen,   \* history: the lease found no pid, or one that was not yet the scan's
  tty       \* Request::chatty

local   == <<cli, stop, told, got>>
files   == <<binary, db, pid>>
remote  == <<lease, said, dir, files>>
running == <<session, process>>
history == <<ran, unseen>>
remoteVars == <<local, up, remote, running, history, tty>>

Steps == {"Upload", "Scan", "Download"}
Working == {"Connect", "Lease"} \cup Steps
NoSession == [step |-> "None", at |-> "Over", ok |-> FALSE]

(***************************************************************************)
(* The command.                                                            *)
(***************************************************************************)
Ask(step) ==
  /\ cli' = step
  /\ session' = [step |-> step, at |-> "Asked", ok |-> FALSE]

Connect ==
  /\ cli = "Connect" /\ up /\ ~stop
  /\ cli' = "Lease" /\ lease' = "Asked"
  /\ UNCHANGED <<stop, told, got, up, said, dir, files, running, history, tty>>

\* The lease says it is ready.  transfer_and_scan begins.
Ready ==
  /\ cli = "Lease" /\ up /\ ~stop /\ lease = "Held"
  /\ Ask("Upload")
  /\ UNCHANGED <<stop, told, got, up, remote, process, history, tty>>

Answered(step) == cli = step /\ up /\ ~stop /\ session.at = "Over" /\ session.ok

\* Mutant: a binary that answers -V has arrived.
UploadedAnswers ==
  /\ Answered("Upload")
  /\ Ask("Scan")
  /\ UNCHANGED <<stop, told, got, up, remote, process, history, tty>>

\* The bytes that arrived are as many as were to be sent.
Uploaded ==
  /\ Answered("Upload") /\ binary = "Whole"
  /\ Ask("Scan")
  /\ UNCHANGED <<stop, told, got, up, remote, process, history, tty>>

Scanned ==
  /\ Answered("Scan")
  /\ Ask("Download")
  /\ UNCHANGED <<stop, told, got, up, remote, process, history, tty>>

Downloaded ==
  /\ Answered("Download")
  /\ cli' = "Release" /\ got' = db
  /\ UNCHANGED <<stop, told, up, remote, running, history, tty>>

\* A step fails: it was stopped, its session failed, the connection broke.
Fails ==
  /\ cli \in Working
  /\ \/ stop \/ ~up
     \/ cli = "Upload" /\ Answered("Upload") /\ binary # "Whole"
     \/ cli \in Steps /\ session.at = "Over" /\ ~session.ok
  /\ cli' = IF cli = "Connect" THEN "Over" ELSE "Release"
  /\ UNCHANGED <<stop, told, got, up, remote, running, history, tty>>

\* release: the pipe is closed (see Hears) and the lease's last words read.
GiveBack ==
  /\ cli = "Release" /\ (lease = "Over" \/ ~up)
  /\ cli' = "Over"
  /\ told' \in (IF said = "Nothing" THEN {} ELSE {said}) \cup (IF up /\ said # "Nothing" THEN {} ELSE {"Unconfirmed"})
  /\ UNCHANGED <<stop, got, up, remote, running, history, tty>>

\* A signal is a flag the waits look at; the second one ends the command.
Signal ==
  /\ cli \in Working \cup {"Release"}
  /\ stop' = TRUE
  /\ cli' = IF stop THEN "Killed" ELSE cli
  /\ UNCHANGED <<told, got, up, remote, running, history, tty>>

Kill ==
  /\ cli \in Working \cup {"Release"}
  /\ cli' = "Killed"
  /\ UNCHANGED <<stop, told, got, up, remote, running, history, tty>>

Break ==
  /\ up /\ cli # "Connect"
  /\ up' = FALSE
  /\ UNCHANGED <<local, remote, running, history, tty>>

Command == Connect \/ Ready \/ Uploaded \/ Scanned \/ Downloaded \/ Fails \/ GiveBack

(***************************************************************************)
(* The lease (LEASE_SCRIPT), one command of the shell after another.       *)
(***************************************************************************)
Make ==
  /\ lease = "Asked"
  /\ \/ lease' = "Held" /\ dir' = "There" /\ UNCHANGED said
     \/ lease' = "Over" /\ UNCHANGED <<dir, said>>      \* nowhere to make it
  /\ UNCHANGED <<local, up, files, running, history, tty>>

\* Mutant: the lease waits to be told to end.
HearsRelease ==
  /\ lease = "Held" /\ up /\ cli = "Release"
  /\ lease' = "Look"
  /\ UNCHANGED <<local, up, said, dir, files, running, history, tty>>

\* cat ends: the pipe closed, with the command or with the connection.
Hears ==
  /\ lease = "Held" /\ (cli \in {"Release", "Over", "Killed"} \/ ~up)
  /\ lease' = "Look"
  /\ UNCHANGED <<local, up, said, dir, files, running, history, tty>>

Going == process \in {"Forked", "Started", "Writing"}

\* ours: a child of the shell is known by its command line once it is spacetrace.
Ours == process \in {"Started", "Writing"}

Look ==
  /\ lease = "Look"
  /\ lease' = IF pid /\ Ours THEN "Stop" ELSE "Clear"
  /\ unseen' = (~pid \/ process = "Forked")
  /\ UNCHANGED <<local, up, said, dir, files, running, ran, tty>>

StopScan ==
  /\ lease = "Stop"
  /\ process' = IF Ours THEN "No" ELSE process
  /\ lease' = "Clear"
  /\ UNCHANGED <<local, up, said, dir, files, session, history, tty>>

\* rm -f FILES
Clear ==
  /\ lease = "Clear"
  /\ binary' = "None" /\ db' = "None" /\ pid' = FALSE
  /\ lease' = "Leave"
  /\ UNCHANGED <<local, up, said, dir, running, history, tty>>

Empty == binary = "None" /\ db = "None" /\ ~pid

Leave ==
  /\ lease = "Leave"
  /\ lease' = "Over"
  /\ IF Empty THEN dir' = "Gone" /\ said' = "Removed" ELSE said' = "Kept" /\ UNCHANGED dir
  /\ UNCHANGED <<local, up, files, running, history, tty>>

Lease == Make \/ Hears \/ Look \/ StopScan \/ Clear \/ Leave

(***************************************************************************)
(* The sessions.                                                           *)
(***************************************************************************)
At(step, at) == session.step = step /\ session.at = at
Goes(at) == session' = [session EXCEPT !.at = at]
Ends(ok) == session' = [session EXCEPT !.at = "Over", !.ok = ok]

\* A request that the connection did not carry any more is not served.
Lost ==
  /\ session.at = "Asked" /\ ~up
  /\ Ends(FALSE)
  /\ UNCHANGED <<local, up, remote, process, history, tty>>

\* ENTER
Enter ==
  /\ session.at = "Asked"
  /\ IF dir = "There" THEN Goes("In") ELSE Ends(FALSE)
  /\ UNCHANGED <<local, up, remote, process, history, tty>>

\* UPLOAD_SCRIPT: the file is there from when it is opened.
Open ==
  /\ At("Upload", "In")
  /\ IF dir = "There" THEN binary' = "Part" /\ Goes("Writing") ELSE UNCHANGED binary /\ Ends(FALSE)
  /\ UNCHANGED <<local, up, lease, said, dir, db, pid, process, history, tty>>

\* All of it was written; or its source ended early, as at a client that was
\* killed or a file replaced by a shorter one.
Write ==
  /\ At("Upload", "Writing")
  /\ Goes("Written")
  /\ binary' \in IF binary = "None" THEN {"None"} ELSE {"Part", "Whole"}
  /\ UNCHANGED <<local, up, lease, said, dir, db, pid, process, history, tty>>

\* spacetrace -V: a part of it may run, or not.
Reply ==
  /\ At("Upload", "Written")
  /\ \E ok \in BOOLEAN :
       /\ binary = "None" => ~ok
       /\ binary = "Whole" => ok
       /\ Ends(ok)
  /\ UNCHANGED <<local, up, remote, process, history, tty>>

\* SCAN_SCRIPT: `&` forks, and the child becomes spacetrace, if it is there,
\* while the shell goes on.
Start ==
  /\ At("Scan", "In")
  /\ process' = "Forked" /\ Goes("Started")
  /\ UNCHANGED <<local, up, remote, history, tty>>

Exec ==
  /\ process = "Forked"
  /\ IF binary = "None" THEN process' = "No" /\ UNCHANGED ran
     ELSE process' = "Started" /\ ran' = binary
  /\ UNCHANGED <<local, up, remote, session, unseen, tty>>

Name ==
  /\ At("Scan", "Started")
  /\ Goes("Named")
  /\ pid' = (dir = "There")
  /\ UNCHANGED <<local, up, lease, said, dir, binary, db, process, history, tty>>

\* wait: its status, and the pid file removed.
Waited ==
  /\ At("Scan", "Named") /\ ~Going
  /\ pid' = FALSE
  /\ Ends(process = "Done")
  /\ UNCHANGED <<local, up, lease, said, dir, binary, db, process, history, tty>>

\* The terminal of a session hangs up with its client.  Its trap stops the
\* scan; before there is one, the signal stops both.
HangUp ==
  /\ tty /\ (~up \/ cli \in {"Release", "Over"})
  /\ session.step = "Scan" /\ session.at \in {"Started", "Named"}
  /\ process' = "No" /\ Ends(FALSE)
  /\ pid' = IF session.at = "Named" THEN FALSE ELSE pid
  /\ UNCHANGED <<local, up, lease, said, dir, binary, db, history, tty>>

\* The process: it makes its database, and ends.
Create ==
  /\ process = "Started"
  /\ IF dir = "There" THEN process' = "Writing" /\ db' = "Open" ELSE process' = "No" /\ UNCHANGED db
  /\ UNCHANGED <<local, up, lease, said, dir, binary, pid, session, history, tty>>

\* It fails, or saves the scan; its log may hold pages all the same, as closing
\* a database says nothing of a checkpoint that failed.
FinishScan ==
  /\ process = "Writing"
  /\ \/ process' = "No" /\ UNCHANGED db
     \/ process' = "Done" /\ db' \in IF db = "None" THEN {"None"} ELSE {"Open", "Whole"}
  /\ UNCHANGED <<local, up, lease, said, dir, binary, pid, session, history, tty>>

\* DOWNLOAD_SCRIPT: a database whose log holds pages is refused.
Send ==
  /\ At("Download", "In")
  /\ Ends(db = "Whole")
  /\ UNCHANGED <<local, up, remote, process, history, tty>>

Session ==
  \/ Lost \/ Enter \/ Open \/ Write \/ Reply \/ Start \/ Exec \/ Name \/ Waited \/ HangUp
  \/ Create \/ FinishScan \/ Send

RemoteInit ==
  /\ cli = "Connect" /\ stop = FALSE /\ told = "Nothing" /\ got = "None" /\ up = TRUE
  /\ lease = "None" /\ said = "Nothing" /\ dir = "None"
  /\ binary = "None" /\ db = "None" /\ pid = FALSE
  /\ session = NoSession /\ process = "No"
  /\ ran = "None" /\ unseen = FALSE /\ tty \in BOOLEAN

RemoteNext == Command \/ Signal \/ Kill \/ Break \/ Lease \/ Session

\* The other machine's processes go on whatever happens here.
Fairness == WF_remoteVars(Lease) /\ WF_remoteVars(Session) /\ WF_remoteVars(Command)

RemoteSpec == RemoteInit /\ [][RemoteNext]_remoteVars /\ Fairness

(***************************************************************************)
(* Properties.                                                             *)
(***************************************************************************)
\* A snapshot that is imported is the whole of what a whole binary found,
\* wherever the run was cut.
FetchedIsWhole == got # "None" => got = "Whole" /\ ran = "Whole"

\* What is said of the directory is so, and one that stays behind is spoken
\* of, unless the command was killed.
ToldTheTruth ==
  /\ told = "Removed" => dir = "Gone"
  /\ cli = "Over" /\ lease = "Over" /\ dir = "There" => told \in {"Kept", "Unconfirmed"}

\* No scan outlives a lease that found it running under its pid.
NamedIsStopped == lease = "Over" /\ Going => unseen

\* What a run leaves behind and says of it is as it should be.
RemoteSound == FetchedIsWhole /\ ToldTheTruth /\ NamedIsStopped

\* However the command ends, with a word or without one, the lease on the
\* other machine ends and no scan goes on there.
LeaseEnds == (cli \in {"Over", "Killed"}) ~> (lease \in {"None", "Over"} /\ ~Going)

=============================================================================
