------------------------------ MODULE SelfUpdate ------------------------------
(***************************************************************************)
(* spacetrace update (crates/cli/src/update.rs, `install`): the newest     *)
(* release is fetched and its binaries take the place of those installed,  *)
(* each copied next to the old one and renamed over it.                    *)
(*                                                                         *)
(* Several updates may run at once, and each may be killed anywhere; they  *)
(* copy to the same name.  A file that is being copied to is whole once a  *)
(* copy has gone through that nobody has truncated under it, and good if   *)
(* the bytes of one release only have gone into it.                        *)
(***************************************************************************)
EXTENDS Integers, FiniteSets

CONSTANTS Updaters, Releases, Files

VARIABLES
  latest,     \* the newest release
  file,       \* of each file: the releases its bytes are of, and whether it is whole
  installed,  \* the file of each binary, or None
  staged,     \* the file next to it, or None
  updater,    \* of each update: where it is
  together    \* history: two have been under way at once

install == <<latest, file, installed, staged, updater, together>>

None == 0
Binaries == {"spacetrace", "spacetrace-agent"}
Away == [at |-> "Away", tag |-> None, binary |-> "spacetrace", to |-> None, cut |-> FALSE]

SelfUpdateAssumption ==
  /\ Releases \subseteq Nat \ {0} /\ 1 \in Releases
  /\ Files \subseteq Nat \ {0} /\ {1, 2} \subseteq Files
ASSUME SelfUpdateAssumption

Good(f) == file[f].whole /\ Cardinality(file[f].of) = 1
VersionOf(f) == CHOOSE v \in file[f].of : TRUE
Copying(u) == updater[u].to # None
Free == {f \in Files : f \notin {installed[b] : b \in Binaries} \cup {staged[b] : b \in Binaries}
                        /\ \A u \in Updaters : updater[u].to # f}

\* Which file it is does not matter.
NewFile == CHOOSE f \in Free : TRUE

Publish ==
  /\ latest + 1 \in Releases /\ latest' = latest + 1
  /\ UNCHANGED <<file, installed, staged, updater, together>>

(***************************************************************************)
(* An update.                                                              *)
(***************************************************************************)
Becomes(u, to) == updater' = [updater EXCEPT ![u] = to]
Finishes(u) == Becomes(u, Away)

\* It runs the binary that is installed, which has to be one.
Newer(tag) == tag > VersionOf(installed["spacetrace"])

Begin(u) ==
  /\ updater[u].at = "Away" /\ Good(installed["spacetrace"])
  /\ Newer(latest)
  /\ Becomes(u, [Away EXCEPT !.at = "Fetch", !.tag = latest])
  /\ together' = (together \/ \E v \in Updaters : updater[v].at # "Away")
  /\ UNCHANGED <<latest, file, installed, staged>>

\* fetch_release: what is unpacked is the release, or the update ends.
Fetched(u) ==
  /\ updater[u].at = "Fetch"
  /\ Becomes(u, [updater[u] EXCEPT !.at = "Copy"])
  /\ UNCHANGED <<latest, file, installed, staged, together>>

\* Only what is there already is replaced.
Replaces(b) == installed[b] # None

\* Mutant: the copy goes over the binary itself.
InPlace(b) == installed[b]

\* with_extension("new")
StagedAs(b) == staged[b]

\* fs::copy opens and truncates what has the name, or makes a file.
BeginCopy(u) ==
  LET b == updater[u].binary
  IN /\ updater[u].at = "Copy" /\ ~Copying(u) /\ Replaces(b)
     /\ Free # {}   \* bound: Files
     /\ LET f == IF StagedAs(b) = None THEN NewFile ELSE StagedAs(b) IN
          /\ file' = [file EXCEPT ![f] = [of |-> {}, whole |-> FALSE]]
          /\ staged' = IF StagedAs(b) = None THEN [staged EXCEPT ![b] = f] ELSE staged
          /\ updater' = [v \in Updaters |->
               IF v = u THEN [updater[u] EXCEPT !.to = f, !.cut = FALSE]
               ELSE IF updater[v].to = f THEN [updater[v] EXCEPT !.cut = TRUE] ELSE updater[v]]
     /\ UNCHANGED <<latest, installed, together>>

Copied(u) ==
  LET f == updater[u].to
  IN /\ updater[u].at = "Copy" /\ Copying(u)
     /\ file' = [file EXCEPT ![f] = [of |-> @.of \cup {updater[u].tag}, whole |-> @.whole \/ ~updater[u].cut]]
     /\ Becomes(u, [updater[u] EXCEPT !.at = "Rename", !.to = None, !.cut = FALSE])
     /\ UNCHANGED <<latest, installed, staged, together>>

\* The next binary, if there is one to replace.
GoOn(u) ==
  IF updater[u].binary = "spacetrace" /\ Replaces("spacetrace-agent")
  THEN Becomes(u, [updater[u] EXCEPT !.at = "Copy", !.binary = "spacetrace-agent"])
  ELSE Finishes(u)

\* rename; another update may have taken the file.
Rename(u) ==
  LET b == updater[u].binary
  IN /\ updater[u].at = "Rename"
     /\ IF StagedAs(b) = None
        THEN Finishes(u) /\ UNCHANGED <<installed, staged>>
        ELSE /\ installed' = [installed EXCEPT ![b] = StagedAs(b)]
             /\ staged' = [staged EXCEPT ![b] = None]
             /\ GoOn(u)
     /\ UNCHANGED <<latest, file, together>>

\* Killed, or an error: no network, a wrong checksum, a full disk.
Stops(u) ==
  /\ updater[u].at # "Away"
  /\ Finishes(u)
  /\ UNCHANGED <<latest, file, installed, staged, together>>

InstallInit ==
  /\ latest = 1
  /\ file = [f \in Files |-> [of |-> {1}, whole |-> TRUE]]
  /\ installed \in [Binaries -> {None, 1, 2}]
  /\ installed["spacetrace"] = 1 /\ installed["spacetrace-agent"] # 1
  /\ staged = [b \in Binaries |-> None]
  /\ updater = [u \in Updaters |-> Away]
  /\ together = FALSE

InstallNext ==
  \/ Publish
  \/ \E u \in Updaters : Begin(u) \/ Fetched(u) \/ BeginCopy(u) \/ Copied(u) \/ Rename(u) \/ Stops(u)

InstallSpec == InstallInit /\ [][InstallNext]_install

(***************************************************************************)
(* Properties.                                                             *)
(***************************************************************************)
There == {b \in Binaries : installed[b] # None}

\* What is installed can be run at any moment, also when an update is killed,
\* and the agent is never newer than the command that brings it; unless two
\* updates were under way at once (replace: "atomically where the platform
\* allows it").
AlwaysRuns ==
  ~together =>
    /\ \A b \in There : Good(installed[b])
    /\ \A b \in There : VersionOf(installed[b]) <= VersionOf(installed["spacetrace"])

=============================================================================
