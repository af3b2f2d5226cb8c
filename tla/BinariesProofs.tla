---------------------------- MODULE BinariesProofs ----------------------------
(***************************************************************************)
(* What is promised of the two ways by which a published binary gets on a  *)
(* disk: a scan on another machine, and the update of what is installed.   *)
(***************************************************************************)
EXTENDS RemoteScan, SelfUpdate, FiniteSetTheorems, TLAPS

(***************************************************************************)
(* A scan on another machine, for every run of it: the three safety        *)
(* properties of RemoteScan follow from one inductive invariant.           *)
(* It relates the session to the process it started, and both to what the  *)
(* lease found when it looked: a scan's pid is written once and named in   *)
(* one place of its session only, so a lease that saw it either stops the  *)
(* process or finds it ended, and none starts after it.                    *)
(***************************************************************************)
Leases == {"None", "Asked", "Held", "Look", "Stop", "Clear", "Leave", "Over"}
Places == {"Asked", "In", "Writing", "Written", "Started", "Named", "Over"}
Sessions == [step : Steps \cup {"None"}, at : Places, ok : BOOLEAN]

Clis == Working \cup {"Release", "Over", "Killed"}
Sayings == {"Nothing", "Removed", "Kept"}
Tellings == Sayings \cup {"Unconfirmed"}
Dirs == {"None", "There", "Gone"}
Arrivals == {"None", "Part", "Whole"}
Databases == {"None", "Open", "Whole"}
Processes == {"No", "Forked", "Started", "Writing", "Done"}

TypeOK ==
  /\ cli \in Clis /\ stop \in BOOLEAN /\ up \in BOOLEAN /\ tty \in BOOLEAN
  /\ told \in Tellings /\ said \in Sayings /\ lease \in Leases /\ dir \in Dirs
  /\ binary \in Arrivals /\ ran \in Arrivals /\ db \in Databases /\ got \in Databases
  /\ pid \in BOOLEAN /\ unseen \in BOOLEAN
  /\ process \in Processes /\ session \in Sessions

Looked == lease \in {"Stop", "Clear", "Leave", "Over"}

\* The command waits for the session it asked for last, and while it is heard
\* the lease holds the directory.
InStep ==
  /\ cli \in Steps => session.step = cli
  /\ cli \in {"Connect", "Lease"} => session.step = "None"
  /\ cli \in Steps /\ up => lease = "Held"
  /\ cli = "Connect" => lease = "None"
  /\ lease \in {"None", "Asked"} => session.step = "None"
  /\ session.step = "Upload" => session.at \in {"Asked", "In", "Writing", "Written", "Over"}
  /\ session.step = "Scan" => session.at \in {"Asked", "In", "Started", "Named", "Over"}
  /\ session.step = "Download" => session.at \in {"Asked", "In", "Over"}

\* What is said of the directory follows its end.
Words ==
  /\ said # "Nothing" => lease = "Over"
  /\ said = "Removed" => dir = "Gone"
  /\ dir = "Gone" => lease = "Over"
  /\ told = "Removed" => said = "Removed"
  /\ cli = "Over" => lease = "None" \/ told # "Nothing"

\* A process runs from its start to the end its session waits for; the pid is
\* there while the session has it, and only then.
Runs ==
  /\ pid => session.step = "Scan" /\ session.at = "Named"
  /\ Going => session.step = "Scan" /\ session.at \in {"Started", "Named", "Over"}
  /\ process # "No" => session.step \in {"Scan", "Download"}
  /\ session.step = "Scan" /\ session.at = "Over" /\ session.ok => process = "Done"

\* After a lease that found the pid nothing starts.
PastStart ==
  \/ session.step \in {"None", "Download"}
  \/ session.step = "Scan" /\ session.at \in {"Named", "Over"}

Stopped ==
  /\ Looked /\ ~unseen => PastStart
  /\ lease = "Stop" => ~unseen /\ process # "Forked"
  /\ lease \in {"Clear", "Leave", "Over"} /\ Going => unseen

\* What was uploaded whole is what is run, and what was run is what comes back.
Whole ==
  /\ session.step \in {"Scan", "Download"} => binary \in {"None", "Whole"} /\ ran \in {"None", "Whole"}
  /\ session.step \in {"None", "Upload"} => ran = "None" /\ got = "None"
  /\ process \in {"Started", "Writing", "Done"} => ran = "Whole"
  /\ session.step = "Scan" /\ session.at = "Over" /\ session.ok => ran = "Whole"
  /\ session.step = "Download" => ran = "Whole"
  /\ session.step = "Download" /\ session.at = "Over" /\ session.ok /\ cli = "Download" /\ up => db = "Whole"

RInv == TypeOK /\ InStep /\ Words /\ Runs /\ Stopped /\ Whole /\ FetchedIsWhole

\* A scan begins in the invariant.
LEMMA InitInv == RemoteInit => RInv
<1> SUFFICES ASSUME RemoteInit PROVE RInv OBVIOUS
<1> USE DEF RemoteInit, NoSession, Steps, Working
<1>1. TypeOK BY DEF TypeOK, Sessions, Places, Leases, Clis, Sayings, Tellings, Dirs, Arrivals, Databases, Processes
<1>2. InStep BY DEF InStep
<1>3. Words BY DEF Words
<1>4. Runs BY DEF Runs, Going
<1>5. Stopped BY DEF Stopped, Looked, PastStart, Going
<1>6. Whole BY DEF Whole
<1>7. FetchedIsWhole BY DEF FetchedIsWhole
<1> QED BY <1>1, <1>2, <1>3, <1>4, <1>5, <1>6, <1>7 DEF RInv

\* A step's session is asked for.
LEMMA Asked == ASSUME NEW step \in Steps, Ask(step)
               PROVE  /\ cli' = step /\ session' \in Sessions /\ session'.step = step
                      /\ session'.at = "Asked" /\ ~session'.ok
  BY DEF Ask, Sessions, Places

\* Every step of the command keeps the invariant.
LEMMA CommandKeeps == RInv /\ (Command \/ Signal \/ Kill \/ Break) => RInv'
<1> SUFFICES ASSUME RInv, Command \/ Signal \/ Kill \/ Break PROVE RInv'
    OBVIOUS
<1> USE DEF RInv, Steps, Working, local, files, remote, running, history,
            Answered, Going
<1>1. CASE Connect
  <2> USE <1>1 DEF Connect
  <2>2. TypeOK' BY DEF TypeOK, Clis, Leases
  <2>3. InStep' BY DEF InStep, TypeOK
  <2>4. Words' BY DEF Words, InStep, TypeOK
  <2>5. Runs' BY DEF Runs, InStep, TypeOK
  <2>6. Stopped' BY DEF Stopped, Looked, PastStart, Runs, InStep, TypeOK
  <2>7. Whole' BY DEF Whole, InStep, Runs, TypeOK
  <2>8. FetchedIsWhole' BY DEF FetchedIsWhole
  <2> QED BY <2>2, <2>3, <2>4, <2>5, <2>6, <2>7, <2>8
<1>2. CASE Ready
  <2> USE <1>2 DEF Ready
  <2>1. session' \in Sessions BY Asked DEF TypeOK
  <2>2. TypeOK' BY <2>1, Asked DEF TypeOK, Clis
  <2>3. InStep' BY Asked DEF InStep, TypeOK
  <2>4. Words' BY Asked DEF Words, InStep, TypeOK
  <2>5. Runs' BY Asked DEF Runs, InStep, TypeOK
  <2>6. Stopped' BY Asked DEF Stopped, Looked, PastStart, Runs, InStep, TypeOK
  <2>7. Whole' BY Asked DEF Whole, InStep, Runs, TypeOK
  <2>8. FetchedIsWhole' BY DEF FetchedIsWhole
  <2> QED BY <2>2, <2>3, <2>4, <2>5, <2>6, <2>7, <2>8
<1>3. CASE Uploaded
  <2> USE <1>3 DEF Uploaded
  <2>1. session' \in Sessions BY Asked DEF TypeOK
  <2>2. TypeOK' BY <2>1, Asked DEF TypeOK, Clis
  <2>3. InStep' BY Asked DEF InStep, TypeOK
  <2>4. Words' BY Asked DEF Words, InStep, TypeOK
  <2>5. Runs' BY Asked DEF Runs, InStep, TypeOK
  <2>6. Stopped' BY Asked DEF Stopped, Looked, PastStart, Runs, InStep, TypeOK
  <2>7. Whole' BY Asked DEF Whole, InStep, Runs, TypeOK
  <2>8. FetchedIsWhole' BY DEF FetchedIsWhole
  <2> QED BY <2>2, <2>3, <2>4, <2>5, <2>6, <2>7, <2>8
<1>4. CASE Scanned
  <2> USE <1>4 DEF Scanned
  <2>1. session' \in Sessions BY Asked DEF TypeOK
  <2>2. TypeOK' BY <2>1, Asked DEF TypeOK, Clis
  <2>3. InStep' BY Asked DEF InStep, TypeOK
  <2>4. Words' BY Asked DEF Words, InStep, TypeOK
  <2>5. Runs' BY Asked DEF Runs, InStep, TypeOK
  <2>6. Stopped' BY Asked DEF Stopped, Looked, PastStart, Runs, InStep, TypeOK
  <2>7. Whole' BY Asked DEF Whole, InStep, Runs, TypeOK
  <2>8. FetchedIsWhole' BY DEF FetchedIsWhole
  <2> QED BY <2>2, <2>3, <2>4, <2>5, <2>6, <2>7, <2>8
<1>5. CASE Downloaded
  <2> USE <1>5 DEF Downloaded
  <2>2. TypeOK' BY DEF TypeOK, Clis
  <2>3. InStep' BY DEF InStep, TypeOK
  <2>4. Words' BY DEF Words, InStep, TypeOK
  <2>5. Runs' BY DEF Runs, InStep, TypeOK
  <2>6. Stopped' BY DEF Stopped, Looked, PastStart, Runs, InStep, TypeOK
  <2>7. Whole' BY DEF Whole, InStep, Runs, TypeOK
  <2>8. FetchedIsWhole' BY DEF Whole, InStep, FetchedIsWhole
  <2> QED BY <2>2, <2>3, <2>4, <2>5, <2>6, <2>7, <2>8
<1>6. CASE Fails
  <2> USE <1>6 DEF Fails
  <2>2. TypeOK' BY DEF TypeOK, Clis
  <2>3. InStep' BY DEF InStep, TypeOK
  <2>4. Words' BY DEF Words, InStep, TypeOK
  <2>5. Runs' BY DEF Runs, InStep, TypeOK
  <2>6. Stopped' BY DEF Stopped, Looked, PastStart, Runs, InStep, TypeOK
  <2>7. Whole' BY DEF Whole, InStep, Runs, TypeOK
  <2>8. FetchedIsWhole' BY DEF FetchedIsWhole
  <2> QED BY <2>2, <2>3, <2>4, <2>5, <2>6, <2>7, <2>8
<1>7. CASE GiveBack
  <2> USE <1>7 DEF GiveBack
  <2>2. TypeOK' BY DEF TypeOK, Clis, Tellings, Sayings
  <2>3. InStep' BY DEF InStep, TypeOK
  <2>4. Words' BY DEF Words, InStep, TypeOK, Sayings
  <2>5. Runs' BY DEF Runs, InStep, TypeOK
  <2>6. Stopped' BY DEF Stopped, Looked, PastStart, Runs, InStep, TypeOK
  <2>7. Whole' BY DEF Whole, InStep, Runs, TypeOK
  <2>8. FetchedIsWhole' BY DEF FetchedIsWhole
  <2> QED BY <2>2, <2>3, <2>4, <2>5, <2>6, <2>7, <2>8
<1>8. CASE Signal
  <2> USE <1>8 DEF Signal
  <2>2. TypeOK' BY DEF TypeOK, Clis
  <2>3. InStep' BY DEF InStep, TypeOK
  <2>4. Words' BY DEF Words, InStep, TypeOK
  <2>5. Runs' BY DEF Runs, InStep, TypeOK
  <2>6. Stopped' BY DEF Stopped, Looked, PastStart, Runs, InStep, TypeOK
  <2>7. Whole' BY DEF Whole, InStep, Runs, TypeOK
  <2>8. FetchedIsWhole' BY DEF FetchedIsWhole
  <2> QED BY <2>2, <2>3, <2>4, <2>5, <2>6, <2>7, <2>8
<1>9. CASE Kill
  <2> USE <1>9 DEF Kill
  <2>2. TypeOK' BY DEF TypeOK, Clis
  <2>3. InStep' BY DEF InStep, TypeOK
  <2>4. Words' BY DEF Words, InStep, TypeOK
  <2>5. Runs' BY DEF Runs, InStep, TypeOK
  <2>6. Stopped' BY DEF Stopped, Looked, PastStart, Runs, InStep, TypeOK
  <2>7. Whole' BY DEF Whole, InStep, Runs, TypeOK
  <2>8. FetchedIsWhole' BY DEF FetchedIsWhole
  <2> QED BY <2>2, <2>3, <2>4, <2>5, <2>6, <2>7, <2>8
<1>10. CASE Break
  <2> USE <1>10 DEF Break
  <2>2. TypeOK' BY DEF TypeOK
  <2>3. InStep' BY DEF InStep, TypeOK
  <2>4. Words' BY DEF Words, InStep, TypeOK
  <2>5. Runs' BY DEF Runs, InStep, TypeOK
  <2>6. Stopped' BY DEF Stopped, Looked, PastStart, Runs, InStep, TypeOK
  <2>7. Whole' BY DEF Whole, InStep, Runs, TypeOK
  <2>8. FetchedIsWhole' BY DEF FetchedIsWhole
  <2> QED BY <2>2, <2>3, <2>4, <2>5, <2>6, <2>7, <2>8
<1> QED BY <1>1, <1>2, <1>3, <1>4, <1>5, <1>6, <1>7, <1>8, <1>9, <1>10 DEF Command

\* Every step of the lease does.
LEMMA LeaseKeeps == RInv /\ Lease => RInv'
<1> SUFFICES ASSUME RInv, Lease PROVE RInv'
    OBVIOUS
<1> USE DEF RInv, Steps, Working, local, files, remote, running, history, Going, Ours
<1>1. CASE Make
  <2> USE <1>1 DEF Make
  <2>2. TypeOK' BY DEF TypeOK, Leases, Dirs
  <2>3. InStep' BY DEF InStep, TypeOK
  <2>4. Words' BY DEF Words, InStep, TypeOK
  <2>5. Runs' BY DEF Runs, InStep, TypeOK
  <2>6. Stopped' BY DEF Stopped, Looked, PastStart, Runs, InStep, TypeOK
  <2>7. Whole' BY DEF Whole, InStep, Runs, TypeOK
  <2>8. FetchedIsWhole' BY DEF FetchedIsWhole
  <2> QED BY <2>2, <2>3, <2>4, <2>5, <2>6, <2>7, <2>8
<1>2. CASE Hears
  <2> USE <1>2 DEF Hears
  <2>2. TypeOK' BY DEF TypeOK, Leases
  <2>3. InStep' BY DEF InStep, TypeOK
  <2>4. Words' BY DEF Words, InStep, TypeOK
  <2>5. Runs' BY DEF Runs, InStep, TypeOK
  <2>6. Stopped' BY DEF Stopped, Looked, PastStart, Runs, InStep, TypeOK
  <2>7. Whole' BY DEF Whole, InStep, Runs, TypeOK
  <2>8. FetchedIsWhole' BY DEF FetchedIsWhole
  <2> QED BY <2>2, <2>3, <2>4, <2>5, <2>6, <2>7, <2>8
<1>3. CASE Look
  <2> USE <1>3 DEF Look
  <2>2. TypeOK' BY DEF TypeOK, Leases
  <2>3. InStep' BY DEF InStep, TypeOK
  <2>4. Words' BY DEF Words, InStep, TypeOK
  <2>5. Runs' BY DEF Runs, InStep, TypeOK
  <2>6. Stopped' BY DEF Stopped, Looked, PastStart, Runs, InStep, TypeOK
  <2>7. Whole' BY DEF Whole, InStep, Runs, TypeOK
  <2>8. FetchedIsWhole' BY DEF FetchedIsWhole
  <2> QED BY <2>2, <2>3, <2>4, <2>5, <2>6, <2>7, <2>8
<1>4. CASE StopScan
  <2> USE <1>4 DEF StopScan
  <2>2. TypeOK' BY DEF TypeOK, Leases, Processes
  <2>3. InStep' BY DEF InStep, TypeOK
  <2>4. Words' BY DEF Words, InStep, TypeOK
  <2>5. Runs' BY DEF Runs, InStep, TypeOK
  <2>6. Stopped' BY DEF Stopped, Looked, PastStart, Runs, InStep, TypeOK
  <2>7. Whole' BY DEF Whole, InStep, Runs, TypeOK
  <2>8. FetchedIsWhole' BY DEF FetchedIsWhole
  <2> QED BY <2>2, <2>3, <2>4, <2>5, <2>6, <2>7, <2>8
<1>5. CASE Clear
  <2> USE <1>5 DEF Clear
  <2>2. TypeOK' BY DEF TypeOK, Leases, Arrivals, Databases
  <2>3. InStep' BY DEF InStep, TypeOK
  <2>4. Words' BY DEF Words, InStep, TypeOK
  <2>5. Runs' BY DEF Runs, InStep, TypeOK
  <2>6. Stopped' BY DEF Stopped, Looked, PastStart, Runs, InStep, TypeOK
  <2>7. Whole' BY DEF Whole, InStep, Runs, TypeOK
  <2>8. FetchedIsWhole' BY DEF FetchedIsWhole
  <2> QED BY <2>2, <2>3, <2>4, <2>5, <2>6, <2>7, <2>8
<1>6. CASE Leave
  <2> USE <1>6 DEF Leave
  <2>2. TypeOK' BY DEF TypeOK, Leases, Dirs, Sayings
  <2>3. InStep' BY DEF InStep, TypeOK
  <2>4. Words' BY DEF Words, InStep, TypeOK
  <2>5. Runs' BY DEF Runs, InStep, TypeOK
  <2>6. Stopped' BY DEF Stopped, Looked, PastStart, Runs, InStep, TypeOK
  <2>7. Whole' BY DEF Whole, InStep, Runs, TypeOK
  <2>8. FetchedIsWhole' BY DEF FetchedIsWhole
  <2> QED BY <2>2, <2>3, <2>4, <2>5, <2>6, <2>7, <2>8
<1> QED BY <1>1, <1>2, <1>3, <1>4, <1>5, <1>6 DEF Lease

\* A session goes on in its script, or ends with a status.
LEMMA GoneOn == ASSUME session \in Sessions, NEW at \in Places, Goes(at)
                 PROVE  /\ session' \in Sessions /\ session'.at = at
                        /\ session'.step = session.step /\ session'.ok = session.ok
  BY DEF Sessions, Goes

LEMMA Ended == ASSUME session \in Sessions, NEW ok \in BOOLEAN, Ends(ok)
               PROVE  /\ session' \in Sessions /\ session'.at = "Over"
                      /\ session'.step = session.step /\ session'.ok = ok
  BY DEF Sessions, Ends, Places

\* Every step of the sessions and of the process does.
LEMMA SessionKeeps == RInv /\ Session => RInv'
<1> SUFFICES ASSUME RInv, Session PROVE RInv'
    OBVIOUS
<1> USE DEF RInv, Steps, Working, local, files, remote, running, history, At, Going
<1>1. CASE Lost
  <2> USE <1>1 DEF Lost
  <2>1. session' \in Sessions BY GoneOn, Ended DEF Places, TypeOK
  <2>2. TypeOK' BY <2>1 DEF TypeOK
  <2>3. InStep' BY GoneOn, Ended DEF Places, InStep, TypeOK
  <2>4. Words' BY DEF Words, InStep, TypeOK
  <2>5. Runs' BY GoneOn, Ended DEF Places, Runs, InStep, TypeOK
  <2>6. Stopped' BY GoneOn, Ended DEF Places, Stopped, Looked, PastStart, Runs, InStep, TypeOK
  <2>7. Whole' BY GoneOn, Ended DEF Places, Whole, InStep, Runs, TypeOK
  <2>8. FetchedIsWhole' BY DEF FetchedIsWhole
  <2> QED BY <2>2, <2>3, <2>4, <2>5, <2>6, <2>7, <2>8
<1>2. CASE Enter
  <2> USE <1>2 DEF Enter
  <2>1. session' \in Sessions BY GoneOn, Ended DEF Places, TypeOK
  <2>2. TypeOK' BY <2>1 DEF TypeOK
  <2>3. InStep' BY GoneOn, Ended DEF Places, InStep, TypeOK
  <2>4. Words' BY DEF Words, InStep, TypeOK
  <2>5. Runs' BY GoneOn, Ended DEF Places, Runs, InStep, TypeOK
  <2>6. Stopped' BY GoneOn, Ended DEF Places, Stopped, Looked, PastStart, Runs, InStep, TypeOK
  <2>7. Whole' BY GoneOn, Ended DEF Places, Whole, InStep, Runs, TypeOK
  <2>8. FetchedIsWhole' BY DEF FetchedIsWhole
  <2> QED BY <2>2, <2>3, <2>4, <2>5, <2>6, <2>7, <2>8
<1>3. CASE Open
  <2> USE <1>3 DEF Open
  <2>1. session' \in Sessions BY GoneOn, Ended DEF Places, TypeOK
  <2>2. TypeOK' BY <2>1 DEF TypeOK, Arrivals
  <2>3. InStep' BY GoneOn, Ended DEF Places, InStep, TypeOK
  <2>4. Words' BY DEF Words, InStep, TypeOK
  <2>5. Runs' BY GoneOn, Ended DEF Places, Runs, InStep, TypeOK
  <2>6. Stopped' BY GoneOn, Ended DEF Places, Stopped, Looked, PastStart, Runs, InStep, TypeOK
  <2>7. Whole' BY GoneOn, Ended DEF Places, Whole, InStep, Runs, TypeOK
  <2>8. FetchedIsWhole' BY DEF FetchedIsWhole
  <2> QED BY <2>2, <2>3, <2>4, <2>5, <2>6, <2>7, <2>8
<1>4. CASE Write
  <2> USE <1>4 DEF Write
  <2>1. session' \in Sessions BY GoneOn, Ended DEF Places, TypeOK
  <2>2. TypeOK' BY <2>1 DEF TypeOK, Arrivals
  <2>3. InStep' BY GoneOn, Ended DEF Places, InStep, TypeOK
  <2>4. Words' BY DEF Words, InStep, TypeOK
  <2>5. Runs' BY GoneOn, Ended DEF Places, Runs, InStep, TypeOK
  <2>6. Stopped' BY GoneOn, Ended DEF Places, Stopped, Looked, PastStart, Runs, InStep, TypeOK
  <2>7. Whole' BY GoneOn, Ended DEF Places, Whole, InStep, Runs, TypeOK, Arrivals
  <2>8. FetchedIsWhole' BY DEF FetchedIsWhole
  <2> QED BY <2>2, <2>3, <2>4, <2>5, <2>6, <2>7, <2>8
<1>5. CASE Reply
  <2> USE <1>5 DEF Reply
  <2>1. session' \in Sessions BY GoneOn, Ended DEF Places, TypeOK
  <2>2. TypeOK' BY <2>1 DEF TypeOK
  <2>3. InStep' BY GoneOn, Ended DEF Places, InStep, TypeOK
  <2>4. Words' BY DEF Words, InStep, TypeOK
  <2>5. Runs' BY GoneOn, Ended DEF Places, Runs, InStep, TypeOK
  <2>6. Stopped' BY GoneOn, Ended DEF Places, Stopped, Looked, PastStart, Runs, InStep, TypeOK
  <2>7. Whole' BY GoneOn, Ended DEF Places, Whole, InStep, Runs, TypeOK
  <2>8. FetchedIsWhole' BY DEF FetchedIsWhole
  <2> QED BY <2>2, <2>3, <2>4, <2>5, <2>6, <2>7, <2>8
<1>6. CASE Start
  <2> USE <1>6 DEF Start
  <2>1. session' \in Sessions BY GoneOn, Ended DEF Places, TypeOK
  <2>2. TypeOK' BY <2>1 DEF TypeOK, Processes
  <2>3. InStep' BY GoneOn, Ended DEF Places, InStep, TypeOK
  <2>4. Words' BY DEF Words, InStep, TypeOK
  <2>5. Runs' BY GoneOn, Ended DEF Places, Runs, InStep, TypeOK
  <2>6. Stopped' BY GoneOn, Ended DEF Places, Stopped, Looked, PastStart, Runs, InStep, TypeOK
  <2>7. Whole' BY GoneOn, Ended DEF Places, Whole, InStep, Runs, TypeOK, Arrivals
  <2>8. FetchedIsWhole' BY DEF FetchedIsWhole, Whole
  <2> QED BY <2>2, <2>3, <2>4, <2>5, <2>6, <2>7, <2>8
<1>7. CASE Name
  <2> USE <1>7 DEF Name
  <2>1. session' \in Sessions BY GoneOn, Ended DEF Places, TypeOK
  <2>2. TypeOK' BY <2>1 DEF TypeOK
  <2>3. InStep' BY GoneOn, Ended DEF Places, InStep, TypeOK
  <2>4. Words' BY DEF Words, InStep, TypeOK
  <2>5. Runs' BY GoneOn, Ended DEF Places, Runs, InStep, TypeOK
  <2>6. Stopped' BY GoneOn, Ended DEF Places, Stopped, Looked, PastStart, Runs, InStep, TypeOK
  <2>7. Whole' BY GoneOn, Ended DEF Places, Whole, InStep, Runs, TypeOK
  <2>8. FetchedIsWhole' BY DEF FetchedIsWhole
  <2> QED BY <2>2, <2>3, <2>4, <2>5, <2>6, <2>7, <2>8
<1>8. CASE Waited
  <2> USE <1>8 DEF Waited
  <2>1. session' \in Sessions BY GoneOn, Ended DEF Places, TypeOK
  <2>2. TypeOK' BY <2>1 DEF TypeOK, Databases
  <2>3. InStep' BY GoneOn, Ended DEF Places, InStep, TypeOK
  <2>4. Words' BY DEF Words, InStep, TypeOK
  <2>5. Runs' BY GoneOn, Ended DEF Places, Runs, InStep, TypeOK
  <2>6. Stopped' BY GoneOn, Ended DEF Places, Stopped, Looked, PastStart, Runs, InStep, TypeOK
  <2>7. Whole' BY GoneOn, Ended DEF Places, Whole, InStep, Runs, TypeOK
  <2>8. FetchedIsWhole' BY DEF FetchedIsWhole
  <2> QED BY <2>2, <2>3, <2>4, <2>5, <2>6, <2>7, <2>8
<1>9. CASE HangUp
  <2> USE <1>9 DEF HangUp
  <2>1. session' \in Sessions BY GoneOn, Ended DEF Places, TypeOK
  <2>2. TypeOK' BY <2>1 DEF TypeOK, Processes
  <2>3. InStep' BY GoneOn, Ended DEF Places, InStep, TypeOK
  <2>4. Words' BY DEF Words, InStep, TypeOK
  <2>5. Runs' BY GoneOn, Ended DEF Places, Runs, InStep, TypeOK
  <2>6. Stopped' BY GoneOn, Ended DEF Places, Stopped, Looked, PastStart, Runs, InStep, TypeOK
  <2>7. Whole' BY GoneOn, Ended DEF Places, Whole, InStep, Runs, TypeOK
  <2>8. FetchedIsWhole' BY DEF FetchedIsWhole
  <2> QED BY <2>2, <2>3, <2>4, <2>5, <2>6, <2>7, <2>8
<1>10. CASE Create
  <2> USE <1>10 DEF Create
  <2>2. TypeOK' BY DEF TypeOK, Processes, Databases
  <2>3. InStep' BY DEF InStep, TypeOK
  <2>4. Words' BY DEF Words, InStep, TypeOK
  <2>5. Runs' BY DEF Runs, InStep, TypeOK
  <2>6. Stopped' BY DEF Stopped, Looked, PastStart, Runs, InStep, TypeOK
  <2>7. Whole' BY DEF Whole, InStep, Runs, TypeOK
  <2>8. FetchedIsWhole' BY DEF FetchedIsWhole
  <2> QED BY <2>2, <2>3, <2>4, <2>5, <2>6, <2>7, <2>8
<1>11. CASE FinishScan
  <2> USE <1>11 DEF FinishScan
  <2>2. TypeOK' BY DEF TypeOK, Processes, Databases
  <2>3. InStep' BY DEF InStep, TypeOK
  <2>4. Words' BY DEF Words, InStep, TypeOK
  <2>5. Runs' BY DEF Runs, InStep, TypeOK
  <2>6. Stopped' BY DEF Stopped, Looked, PastStart, Runs, InStep, TypeOK
  <2>7. Whole' BY DEF Whole, InStep, Runs, TypeOK
  <2>8. FetchedIsWhole' BY DEF FetchedIsWhole
  <2> QED BY <2>2, <2>3, <2>4, <2>5, <2>6, <2>7, <2>8
<1>12. CASE Send
  <2> USE <1>12 DEF Send
  <2>1. session' \in Sessions BY GoneOn, Ended DEF Places, TypeOK
  <2>2. TypeOK' BY <2>1 DEF TypeOK
  <2>3. InStep' BY GoneOn, Ended DEF Places, InStep, TypeOK
  <2>4. Words' BY DEF Words, InStep, TypeOK
  <2>5. Runs' BY GoneOn, Ended DEF Places, Runs, InStep, TypeOK
  <2>6. Stopped' BY GoneOn, Ended DEF Places, Stopped, Looked, PastStart, Runs, InStep, TypeOK
  <2>7. Whole' BY GoneOn, Ended DEF Places, Whole, InStep, Runs, TypeOK
  <2>8. FetchedIsWhole' BY DEF FetchedIsWhole
  <2> QED BY <2>2, <2>3, <2>4, <2>5, <2>6, <2>7, <2>8
<1>13. CASE Exec
  <2> USE <1>13 DEF Exec
  <2>2. TypeOK' BY DEF TypeOK, Processes, Arrivals
  <2>3. InStep' BY DEF InStep, TypeOK
  <2>4. Words' BY DEF Words, InStep, TypeOK
  <2>5. Runs' BY DEF Runs, InStep, TypeOK
  <2>6. Stopped' BY DEF Stopped, Looked, PastStart, Runs, InStep, TypeOK
  <2>7. Whole' BY DEF Whole, InStep, Runs, TypeOK
  <2>8. FetchedIsWhole' BY DEF FetchedIsWhole, Whole, Runs, TypeOK, Arrivals
  <2> QED BY <2>2, <2>3, <2>4, <2>5, <2>6, <2>7, <2>8
<1> QED BY <1>1, <1>2, <1>3, <1>4, <1>5, <1>6, <1>7, <1>8, <1>9, <1>10, <1>11, <1>12, <1>13 DEF Session

\* The invariant holds in every state of every scan.
THEOREM Invariance == RemoteSpec => []RInv
<1>1. RInv /\ [RemoteNext]_remoteVars => RInv'
  <2> SUFFICES ASSUME RInv, [RemoteNext]_remoteVars PROVE RInv'
      OBVIOUS
  <2>1. CASE Command \/ Signal \/ Kill \/ Break BY <2>1, CommandKeeps
  <2>2. CASE Lease BY <2>2, LeaseKeeps
  <2>3. CASE Session BY <2>3, SessionKeeps
  <2>4. CASE UNCHANGED remoteVars
    BY <2>4 DEF remoteVars, local, remote, files, running, history, RInv, TypeOK, InStep, Words, Runs, Stopped, Whole,
                FetchedIsWhole, Looked, PastStart, Going
  <2> QED BY <2>1, <2>2, <2>3, <2>4 DEF RemoteNext
<1> QED BY InitInv, <1>1, PTL DEF RemoteSpec

\* A snapshot that is imported is the whole of what a whole binary found.
THEOREM FetchedIsWholeHolds == RemoteSpec => []FetchedIsWhole
<1>1. RInv => FetchedIsWhole BY DEF RInv
<1> QED BY <1>1, Invariance, PTL

\* What is said of the directory is so, and a directory that stays is spoken of.
THEOREM ToldTheTruthHolds == RemoteSpec => []ToldTheTruth
<1>1. RInv => ToldTheTruth BY DEF RInv, ToldTheTruth, Words, TypeOK, Tellings, Sayings
<1> QED BY <1>1, Invariance, PTL

\* No scan outlives the lease that could name it.
THEOREM NamedIsStoppedHolds == RemoteSpec => []NamedIsStopped
<1>1. RInv => NamedIsStopped BY DEF RInv, NamedIsStopped, Stopped
<1> QED BY <1>1, Invariance, PTL

\* All three of them.
THEOREM RemoteSoundHolds == RemoteSpec => []RemoteSound
<1>1. FetchedIsWhole /\ ToldTheTruth /\ NamedIsStopped => RemoteSound BY DEF RemoteSound
<1> QED BY <1>1, FetchedIsWholeHolds, ToldTheTruthHolds, NamedIsStoppedHolds, PTL

(***************************************************************************)
(* An update of what is installed, for any number of updates, releases and *)
(* kills.  Unless two have been under way at once, a copy goes to a file   *)
(* that nothing else has, becomes whole of the release that the update is  *)
(* of, and only then takes the place of the binary; the command is brought *)
(* first, so the agent is never ahead of it.                               *)
(***************************************************************************)
TheCommand == "spacetrace"
TheAgent == "spacetrace-agent"
Versions == Releases \cup {None}
Stages == {"Away", "Fetch", "Copy", "Rename"}
Updates == [at : Stages, tag : Versions, binary : Binaries, to : Files \cup {None}, cut : BOOLEAN]

InstallTypeOK ==
  /\ latest \in Releases
  /\ file \in [Files -> [of : SUBSET Versions, whole : BOOLEAN]]
  /\ installed \in [Binaries -> Files \cup {None}]
  /\ staged \in [Binaries -> Files \cup {None}]
  /\ updater \in [Updaters -> Updates]
  /\ together \in BOOLEAN

\* A file of one release, copied to its end.
IsOf(f, v) == file[f].whole /\ file[f].of = {v}

\* What is installed is whole, and the agent no newer than the command.
Runnable ==
  /\ installed[TheCommand] # None
  /\ \E v \in Releases :
       /\ IsOf(installed[TheCommand], v)
       /\ installed[TheAgent] # None => \E w \in Releases : w <= v /\ IsOf(installed[TheAgent], w)

\* No file is in two places.
FilesApart ==
  /\ \A b, c \in Binaries : installed[b] # None => installed[b] # staged[c]
  /\ installed[TheAgent] # installed[TheCommand]
  /\ staged[TheAgent] # None => staged[TheAgent] # staged[TheCommand]

Alone == \A u, v \in Updaters : updater[u].at # "Away" /\ updater[v].at # "Away" => u = v

\* An update copies to what is staged; the command is brought before the agent.
OnItsWay(u) ==
  LET mine == updater[u]
  IN /\ mine.to # None => mine.at = "Copy" /\ mine.to = staged[mine.binary] /\ ~mine.cut /\ file[mine.to].of = {}
     /\ mine.at = "Rename" => staged[mine.binary] # None /\ IsOf(staged[mine.binary], mine.tag)
     /\ mine.at # "Away" =>
          /\ mine.tag \in Releases
          /\ mine.binary = TheCommand => \A v \in Releases : IsOf(installed[TheCommand], v) => mine.tag > v
          /\ mine.binary = TheAgent => IsOf(installed[TheCommand], mine.tag) /\ installed[TheAgent] # None /\ mine.at # "Fetch"

InstallInv ==
  InstallTypeOK /\ (~together => Runnable /\ FilesApart /\ Alone /\ \A u \in Updaters : OnItsWay(u))

\* No release or file is None.
LEMMA Constants == Releases \subseteq Nat /\ None \notin Releases /\ Files \subseteq Nat /\ None \notin Files
  BY SelfUpdateAssumption DEF SelfUpdateAssumption, None

\* What a file of one release says of itself.
LEMMA KnowsItself == ASSUME NEW f, NEW v, IsOf(f, v) PROVE Good(f) /\ VersionOf(f) = v
<1>1. Cardinality({v}) = 1
  BY FS_Singleton
<1> QED BY <1>1 DEF IsOf, Good, VersionOf

\* AlwaysRuns, without Cardinality and CHOOSE.
LEMMA SoundRuns == Runnable => AlwaysRuns
<1> SUFFICES ASSUME Runnable PROVE AlwaysRuns
  OBVIOUS
<1>1. PICK v \in Releases :
        IsOf(installed[TheCommand], v) /\ (installed[TheAgent] # None => \E w \in Releases : w <= v /\ IsOf(installed[TheAgent], w))
  BY DEF Runnable
<1>2. VersionOf(installed[TheCommand]) = v
  BY <1>1, KnowsItself
<1>3. Good(installed[TheCommand])
  BY <1>1, KnowsItself, Zenon
<1>4. CASE installed[TheAgent] # None
  <2>1. PICK w \in Releases : w <= v /\ IsOf(installed[TheAgent], w)
    BY <1>1, <1>4
  <2>2. VersionOf(installed[TheAgent]) = w
    BY <2>1, KnowsItself
  <2>3. Good(installed[TheAgent])
    BY <2>1, KnowsItself, Zenon
  <2> QED BY <1>2, <1>3, <2>1, <2>2, <2>3, Constants DEF AlwaysRuns, There, Binaries, TheCommand, TheAgent
<1> QED BY <1>1, <1>2, <1>3, <1>4, Constants DEF AlwaysRuns, There, Binaries, TheCommand, TheAgent

\* What is installed at first is whole, and of one release.
LEMMA InitSound == InstallInit => InstallInv
<1> SUFFICES ASSUME InstallInit PROVE InstallInv
  OBVIOUS
<1> USE DEF InstallInit
<1>1. 1 \in Releases /\ {1, 2} \subseteq Files /\ None \notin Files
  BY SelfUpdateAssumption, Constants DEF SelfUpdateAssumption
<1>2. Away \in Updates /\ Away.at = "Away" /\ Away.to = None
  BY DEF Away, Updates, Stages, Versions, Binaries
<1>3. InstallTypeOK
  BY <1>1, <1>2 DEF InstallTypeOK, Versions, Binaries
<1>4. installed[TheCommand] = 1 /\ installed[TheAgent] \in {None, 2} /\ staged[TheCommand] = None /\ staged[TheAgent] = None
  BY DEF Binaries, TheCommand, TheAgent
<1>5. IsOf(1, 1) /\ IsOf(2, 1)
  BY <1>1 DEF IsOf
<1>6. Runnable
  BY <1>1, <1>4, <1>5 DEF Runnable, None
<1>7. FilesApart
  BY <1>4 DEF FilesApart, None, Binaries, TheCommand, TheAgent
<1>8. Alone /\ \A u \in Updaters : OnItsWay(u)
  BY <1>2 DEF Alone, OnItsWay
<1> QED BY <1>3, <1>6, <1>7, <1>8 DEF InstallInv

\* An update among the others.
Others(u) == \A v \in Updaters \ {u} : updater'[v] = updater[v]

\* An update of its own, whose place was fine and stays so.
LEMMA UpdateStaysAlone ==
  ASSUME NEW u \in Updaters, Alone, updater[u].at # "Away", Others(u),
         \A v \in Updaters : OnItsWay(v), OnItsWay(u)',
         \A v \in Updaters \ {u} : updater[v].at = "Away" => updater[v].to = None
  PROVE  Alone' /\ \A v \in Updaters : OnItsWay(v)'
<1>1. \A v \in Updaters \ {u} : updater[v].at = "Away"
  BY DEF Alone
<1>2. \A v \in Updaters \ {u} : updater'[v].at = "Away" /\ updater'[v].to = None
  BY <1>1 DEF Others
<1>3. \A v \in Updaters \ {u} : OnItsWay(v)'
  BY <1>2 DEF OnItsWay
<1> QED BY <1>2, <1>3 DEF Alone

\* Every step of an update keeps the invariant.
LEMMA NextSound == InstallInv /\ [InstallNext]_install => InstallInv'
<1> SUFFICES ASSUME InstallInv, [InstallNext]_install PROVE InstallInv'
  OBVIOUS
<1>0. InstallTypeOK /\ \A u \in Updaters : updater[u] \in Updates
  BY DEF InstallInv, InstallTypeOK
<1> DEFINE Fine == Runnable /\ FilesApart /\ Alone /\ \A u \in Updaters : OnItsWay(u)
<1>a. ~together => Fine
  BY DEF InstallInv
<1>b. \A u \in Updaters : ~together /\ updater[u].to # None => updater[u].at = "Copy"
  BY <1>a DEF OnItsWay
<1>1. CASE Publish \/ UNCHANGED install
  <2>1. latest' \in Releases /\ UNCHANGED <<file, installed, staged, updater, together>>
    BY <1>0, <1>1 DEF Publish, install, InstallTypeOK
  <2> QED BY <1>0, <1>a, <2>1 DEF InstallInv, InstallTypeOK, Runnable, IsOf, FilesApart, Alone, OnItsWay
<1>2. ASSUME NEW u \in Updaters, Begin(u) PROVE InstallInv'
  <2> DEFINE mine == [Away EXCEPT !.at = "Fetch", !.tag = latest]
  <2>1. /\ updater[u].at = "Away" /\ latest > VersionOf(installed[TheCommand])
        /\ updater' = [updater EXCEPT ![u] = mine]
        /\ together' = (together \/ \E v \in Updaters : updater[v].at # "Away")
        /\ UNCHANGED <<latest, file, installed, staged>>
    BY <1>2 DEF Begin, Newer, Becomes, TheCommand
  <2>2. /\ mine \in Updates /\ mine.at = "Fetch" /\ mine.tag = latest /\ mine.to = None
        /\ mine.binary = TheCommand /\ latest \in Releases /\ TheCommand # TheAgent
    BY <1>0 DEF Away, Updates, Stages, Versions, Binaries, InstallTypeOK, TheCommand, TheAgent
  <2> HIDE DEF mine
  <2>3. updater'[u] = mine /\ Others(u) /\ updater' \in [Updaters -> Updates]
    BY <1>0, <2>1, <2>2 DEF Others, InstallTypeOK
  <2>4. InstallTypeOK'
    BY <1>0, <2>1, <2>3 DEF InstallTypeOK
  <2>5. ASSUME ~together' PROVE Fine'
    <3>1. ~together /\ \A v \in Updaters : updater[v].at = "Away"
      BY <1>0, <2>1, <2>5 DEF InstallTypeOK
    <3>2. Fine
      BY <1>a, <3>1
    <3>3. \A v \in Updaters \ {u} : updater'[v].at = "Away" /\ updater'[v].to = None
      BY <1>b, <2>3, <3>1 DEF Others
    <3>4. \A v \in Releases : IsOf(installed[TheCommand], v) => latest > v
      BY <2>1, KnowsItself
    <3>5. OnItsWay(u)'
      BY <2>1, <2>2, <2>3, <3>4 DEF OnItsWay, IsOf
    <3>6. Alone' /\ \A v \in Updaters : OnItsWay(v)'
      BY <3>3, <3>5 DEF Alone, OnItsWay
    <3>7. Runnable' /\ FilesApart'
      BY <2>1, <3>2 DEF Runnable, IsOf, FilesApart
    <3> QED BY <3>6, <3>7
  <2> QED BY <2>4, <2>5 DEF InstallInv
<1>3. ASSUME NEW u \in Updaters, Fetched(u) PROVE InstallInv'
  <2> DEFINE mine == [updater[u] EXCEPT !.at = "Copy"]
  <2>1. updater[u].at = "Fetch" /\ updater' = [updater EXCEPT ![u] = mine]
        /\ UNCHANGED <<latest, file, installed, staged, together>>
    BY <1>3 DEF Fetched, Becomes
  <2>2. mine \in Updates /\ mine.at = "Copy" /\ mine.tag = updater[u].tag /\ mine.to = updater[u].to
        /\ mine.binary = updater[u].binary
    BY <1>0 DEF Updates, Stages
  <2> HIDE DEF mine
  <2>3. updater'[u] = mine /\ Others(u) /\ updater' \in [Updaters -> Updates]
    BY <1>0, <2>1, <2>2 DEF Others, InstallTypeOK
  <2>4. InstallTypeOK'
    BY <1>0, <2>1, <2>3 DEF InstallTypeOK
  <2>5. ASSUME ~together' PROVE Fine'
    <3>1. Fine
      BY <1>a, <2>1, <2>5
    <3>2. OnItsWay(u) /\ mine.to = None /\ updater[u].binary \in Binaries
      BY <1>0, <1>b, <2>1, <2>2, <2>5, <3>1 DEF Updates
    <3>3. OnItsWay(u)'
      BY <2>1, <2>2, <2>3, <3>2 DEF OnItsWay, IsOf
    <3>4. Alone' /\ \A v \in Updaters : OnItsWay(v)'
      BY <1>b, <2>1, <2>3, <2>5, <3>1, <3>3, UpdateStaysAlone
    <3>5. Runnable' /\ FilesApart'
      BY <2>1, <3>1 DEF Runnable, IsOf, FilesApart
    <3> QED BY <3>4, <3>5
  <2> QED BY <2>4, <2>5 DEF InstallInv
<1>4. ASSUME NEW u \in Updaters, BeginCopy(u) PROVE InstallInv'
  <2> DEFINE b == updater[u].binary
             f == IF staged[b] = None THEN NewFile ELSE staged[b]
             mine == [updater[u] EXCEPT !.to = f, !.cut = FALSE]
             empty == [of |-> {}, whole |-> FALSE]
  <2>1. /\ updater[u].at = "Copy" /\ updater[u].to = None /\ installed[b] # None /\ Free # {}
        /\ file' = [file EXCEPT ![f] = empty]
        /\ staged' = IF staged[b] = None THEN [staged EXCEPT ![b] = f] ELSE staged
        /\ updater' = [v \in Updaters |->
              IF v = u THEN mine ELSE IF updater[v].to = f THEN [updater[v] EXCEPT !.cut = TRUE] ELSE updater[v]]
        /\ UNCHANGED <<latest, installed, together>>
    BY <1>4 DEF BeginCopy, StagedAs, Copying, Replaces
  <2>2. b \in Binaries /\ staged[b] \in Files \cup {None}
    BY <1>0 DEF InstallTypeOK, Updates
  <2>3. /\ f \in Files
        /\ staged[b] = None => \A c \in Binaries : f # installed[c] /\ f # staged[c]
    <3>1. NewFile \in Free
      BY <2>1 DEF NewFile
    <3> QED BY <2>2, <3>1 DEF Free
  <2> HIDE DEF f
  <2>4. /\ mine \in Updates /\ mine.at = "Copy" /\ mine.tag = updater[u].tag /\ mine.to = f /\ ~mine.cut
        /\ mine.binary = b
    BY <1>0, <2>1, <2>3 DEF Updates, Stages
  <2>5. \A v \in Updaters : [updater[v] EXCEPT !.cut = TRUE] \in Updates
    BY <1>0 DEF Updates
  <2> HIDE DEF mine
  <2>6. updater'[u] = mine /\ updater' \in [Updaters -> Updates]
    BY <1>0, <2>1, <2>4, <2>5
  <2>7. file' \in [Files -> [of : SUBSET Versions, whole : BOOLEAN]] /\ file'[f].of = {}
        /\ \A g \in Files : g # f => file'[g] = file[g]
    BY <1>0, <2>1, <2>3 DEF InstallTypeOK
  <2>8. staged' \in [Binaries -> Files \cup {None}] /\ staged'[b] = f
        /\ \A c \in Binaries : c # b => staged'[c] = staged[c]
    BY <1>0, <2>1, <2>2, <2>3 DEF InstallTypeOK, f
  <2>9. InstallTypeOK'
    BY <1>0, <2>1, <2>6, <2>7, <2>8 DEF InstallTypeOK
  <2>10. ASSUME ~together' PROVE Fine'
    <3>1. Fine
      BY <1>a, <2>1, <2>10
    <3>2. \A c \in Binaries : installed[c] # f
      BY <2>2, <2>3, <3>1 DEF FilesApart, f
    <3>3. \A c \in Binaries : installed[c] # None => installed[c] \in Files /\ file'[installed[c]] = file[installed[c]]
      BY <1>0, <2>7, <3>2 DEF InstallTypeOK
    <3>4. \A c \in Binaries, v \in Versions : installed[c] # None => (IsOf(installed[c], v)' <=> IsOf(installed[c], v))
      BY <2>1, <3>3 DEF IsOf
    <3>5. TheCommand \in Binaries /\ TheAgent \in Binaries /\ Releases \subseteq Versions
      BY DEF TheCommand, TheAgent, Binaries, Versions
    <3>6. Runnable'
      BY <2>1, <3>1, <3>4, <3>5 DEF Runnable
    <3>7. FilesApart'
      <4>1. staged'[TheAgent] # None => staged'[TheAgent] # staged'[TheCommand]
        BY <2>2, <2>3, <2>8, <3>1, <3>5 DEF FilesApart, f, Binaries, TheCommand, TheAgent
      <4>2. \A c, d \in Binaries : installed[c] # None => installed[c] # staged'[d]
        BY <2>8, <3>1, <3>2 DEF FilesApart
      <4> QED BY <2>1, <3>1, <4>1, <4>2 DEF FilesApart
    <3>8. OnItsWay(u)'
      <4>1. updater[u].tag \in Versions /\ installed[TheCommand] # None
        BY <1>0, <3>1 DEF Updates, Runnable
      <4>2. OnItsWay(u) /\ mine.tag = updater[u].tag /\ mine.binary = updater[u].binary
        BY <2>4, <3>1
      <4> QED BY <2>1, <2>4, <2>6, <2>7, <2>8, <3>4, <3>5, <4>1, <4>2 DEF OnItsWay
    <3>9. \A v \in Updaters \ {u} : updater[v].at = "Away" /\ updater[v].to = None
      BY <1>b, <2>1, <2>10, <3>1 DEF Alone
    <3>10. Others(u)
      BY <2>1, <2>3, <3>9, Constants DEF Others
    <3>11. Alone' /\ \A v \in Updaters : OnItsWay(v)'
      BY <2>1, <3>1, <3>8, <3>9, <3>10, UpdateStaysAlone
    <3> QED BY <3>6, <3>7, <3>11
  <2> QED BY <2>9, <2>10 DEF InstallInv
<1>5. ASSUME NEW u \in Updaters, Copied(u) PROVE InstallInv'
  <2> DEFINE f == updater[u].to
             copied == [of |-> file[f].of \cup {updater[u].tag}, whole |-> file[f].whole \/ ~updater[u].cut]
             mine == [updater[u] EXCEPT !.at = "Rename", !.to = None, !.cut = FALSE]
  <2>1. /\ updater[u].at = "Copy" /\ f # None
        /\ file' = [file EXCEPT ![f] = copied] /\ updater' = [updater EXCEPT ![u] = mine]
        /\ UNCHANGED <<latest, installed, staged, together>>
    BY <1>5 DEF Copied, Copying, Becomes
  <2>2. f \in Files /\ updater[u].tag \in Versions /\ updater[u].cut \in BOOLEAN /\ updater[u].binary \in Binaries
    BY <1>0, <2>1 DEF Updates
  <2>3. copied \in [of : SUBSET Versions, whole : BOOLEAN]
    BY <1>0, <2>2 DEF InstallTypeOK
  <2>4. /\ mine \in Updates /\ mine.at = "Rename" /\ mine.tag = updater[u].tag /\ mine.to = None
        /\ mine.binary = updater[u].binary
    BY <1>0 DEF Updates, Stages
  <2> HIDE DEF mine
  <2>5. updater'[u] = mine /\ Others(u) /\ updater' \in [Updaters -> Updates]
    BY <1>0, <2>1, <2>4 DEF Others, InstallTypeOK
  <2>6. file' \in [Files -> [of : SUBSET Versions, whole : BOOLEAN]] /\ file'[f] = copied
        /\ \A g \in Files : g # f => file'[g] = file[g]
    BY <1>0, <2>1, <2>2, <2>3 DEF InstallTypeOK
  <2>7. InstallTypeOK'
    BY <1>0, <2>1, <2>5, <2>6 DEF InstallTypeOK
  <2>8. ASSUME ~together' PROVE Fine'
    <3>1. Fine
      BY <1>a, <2>1, <2>8
    <3>2. f = staged[updater[u].binary] /\ ~updater[u].cut /\ file[f].of = {}
      BY <2>1, <3>1 DEF OnItsWay
    <3>3. \A c \in Binaries : installed[c] # f
      BY <2>1, <2>2, <3>1, <3>2 DEF FilesApart
    <3>4. \A c \in Binaries : installed[c] # None => installed[c] \in Files /\ file'[installed[c]] = file[installed[c]]
      BY <1>0, <2>6, <3>3 DEF InstallTypeOK
    <3>5. \A c \in Binaries, v \in Versions : installed[c] # None => (IsOf(installed[c], v)' <=> IsOf(installed[c], v))
      BY <2>1, <3>4 DEF IsOf
    <3>6. TheCommand \in Binaries /\ TheAgent \in Binaries /\ Releases \subseteq Versions
      BY DEF TheCommand, TheAgent, Binaries, Versions
    <3>7. Runnable'
      BY <2>1, <3>1, <3>5, <3>6 DEF Runnable
    <3>8. FilesApart'
      BY <2>1, <3>1 DEF FilesApart
    <3>9. file'[f].whole /\ file'[f].of = {updater[u].tag}
      <4>1. copied.of = {updater[u].tag}
        BY <3>2
      <4>2. copied.whole
        BY <3>2, Zenon
      <4> HIDE DEF copied
      <4> QED BY <2>6, <4>1, <4>2
    <3>10. OnItsWay(u)'
      <4>1. installed[TheCommand] # None /\ OnItsWay(u)
        BY <3>1 DEF Runnable
      <4>2. PICK me \in Updates : me = mine
        BY <2>4
      <4>3. staged'[me.binary] = f /\ f # None /\ file'[f].whole /\ file'[f].of = {me.tag}
        BY <2>1, <2>2, <2>4, <3>2, <3>9, <4>2, Constants
      <4>4. /\ me.tag \in Releases
            /\ me.binary = TheCommand => \A v \in Releases : IsOf(installed[TheCommand], v) => me.tag > v
            /\ me.binary = TheAgent => IsOf(installed[TheCommand], me.tag) /\ installed'[TheAgent] # None
        BY <2>1, <2>4, <4>1, <4>2 DEF OnItsWay
      <4>5. /\ me.binary = TheCommand => \A v \in Releases : IsOf(installed[TheCommand], v)' => me.tag > v
            /\ me.binary = TheAgent => IsOf(installed[TheCommand], me.tag)'
        BY <2>2, <2>4, <3>5, <3>6, <4>1, <4>2, <4>4
      <4>6. updater'[u] = me /\ me.at = "Rename" /\ me.to = None
        BY <2>4, <2>5, <4>2
      <4> QED BY <4>3, <4>4, <4>5, <4>6 DEF OnItsWay, IsOf
    <3>11. Alone' /\ \A v \in Updaters : OnItsWay(v)'
      BY <1>b, <2>1, <2>5, <2>8, <3>1, <3>10, UpdateStaysAlone
    <3> QED BY <3>7, <3>8, <3>11
  <2> QED BY <2>7, <2>8 DEF InstallInv
<1>6. ASSUME NEW u \in Updaters, Rename(u) PROVE InstallInv'
  <2> DEFINE b == updater[u].binary
             more == b = TheCommand /\ installed[TheAgent] # None
             mine == IF more THEN [updater[u] EXCEPT !.at = "Copy", !.binary = TheAgent] ELSE Away
  <2>1. updater[u].at = "Rename" /\ b \in Binaries /\ UNCHANGED <<latest, file, together>>
    BY <1>0, <1>6 DEF Rename, Updates
  <2>2. Away \in Updates /\ Away.at = "Away" /\ Away.to = None
    BY DEF Away, Updates, Stages, Versions, Binaries
  <2>3. CASE staged[b] = None
    <3>1. updater' = [updater EXCEPT ![u] = Away] /\ UNCHANGED <<installed, staged>>
      BY <1>6, <2>3 DEF Rename, StagedAs, Finishes, Becomes
    <3>2. InstallTypeOK'
      BY <1>0, <2>1, <2>2, <3>1 DEF InstallTypeOK
    <3>3. together
      BY <1>a, <2>1, <2>3 DEF OnItsWay
    <3> QED BY <2>1, <3>2, <3>3 DEF InstallInv
  <2>4. CASE staged[b] # None
    <3>1. /\ installed' = [installed EXCEPT ![b] = staged[b]] /\ staged' = [staged EXCEPT ![b] = None]
          /\ updater' = [updater EXCEPT ![u] = mine]
      BY <1>6, <2>4 DEF Rename, StagedAs, GoOn, Replaces, Finishes, Becomes, TheCommand, TheAgent
    <3>2. /\ more => /\ mine \in Updates /\ mine.at = "Copy" /\ mine.binary = TheAgent
                     /\ mine.tag = updater[u].tag /\ mine.to = updater[u].to
          /\ ~more => mine = Away
      BY <1>0 DEF Updates, Stages, Binaries, TheAgent
    <3> HIDE DEF mine
    <3>3. updater'[u] = mine /\ Others(u) /\ updater' \in [Updaters -> Updates]
      BY <1>0, <2>2, <3>1, <3>2 DEF Others, InstallTypeOK
    <3>4. TheCommand \in Binaries /\ TheAgent \in Binaries /\ TheCommand # TheAgent /\ Binaries = {TheCommand, TheAgent}
      BY DEF TheCommand, TheAgent, Binaries
    <3>5. /\ installed' \in [Binaries -> Files \cup {None}] /\ staged' \in [Binaries -> Files \cup {None}]
          /\ installed'[b] = staged[b] /\ staged'[b] = None
          /\ \A c \in Binaries : c # b => installed'[c] = installed[c] /\ staged'[c] = staged[c]
      BY <1>0, <2>1, <3>1 DEF InstallTypeOK
    <3>6. InstallTypeOK'
      BY <1>0, <2>1, <3>3, <3>5 DEF InstallTypeOK
    <3>7. ASSUME ~together' PROVE Fine'
      <4>1. Fine
        BY <1>a, <2>1, <3>7
      <4> DEFINE tag == updater[u].tag
      <4>2. /\ IsOf(staged[b], tag) /\ tag \in Releases /\ updater[u].to = None
            /\ b = TheCommand => \A v \in Releases : IsOf(installed[TheCommand], v) => tag > v
            /\ b = TheAgent => IsOf(installed[TheCommand], tag) /\ installed[TheAgent] # None
        BY <1>b, <2>1, <3>7, <4>1 DEF OnItsWay
      <4>3. \A f \in Files, v \in Versions : IsOf(f, v)' <=> IsOf(f, v)
        BY <2>1 DEF IsOf
      <4>4. PICK v \in Releases :
              IsOf(installed[TheCommand], v) /\ (installed[TheAgent] # None => \E w \in Releases : w <= v /\ IsOf(installed[TheAgent], w))
        BY <4>1 DEF Runnable
      <4>5. installed[TheCommand] # None /\ installed[TheAgent] # installed[TheCommand]
        BY <4>1 DEF Runnable, FilesApart
      <4>6. Runnable'
        <5>1. CASE b = TheCommand
          <6>1. installed'[TheCommand] # None /\ installed'[TheAgent] = installed[TheAgent] /\ v < tag
            BY <2>4, <3>4, <3>5, <4>2, <4>4, <5>1
          <6>2. file'[installed'[TheCommand]].whole /\ file'[installed'[TheCommand]].of = {tag}
            BY <2>1, <3>5, <4>2, <5>1 DEF IsOf
          <6>3. installed'[TheAgent] # None =>
                  \E w \in Releases : w <= tag /\ file'[installed'[TheAgent]].whole /\ file'[installed'[TheAgent]].of = {w}
            <7> SUFFICES ASSUME installed'[TheAgent] # None
                         PROVE  \E w \in Releases : w <= tag /\ file'[installed'[TheAgent]].whole
                                                           /\ file'[installed'[TheAgent]].of = {w}
              OBVIOUS
            <7>1. PICK w \in Releases : w <= v /\ IsOf(installed[TheAgent], w)
              BY <4>4, <6>1
            <7>2. w <= tag
              <8> HIDE DEF tag
              <8>1. w \in Nat /\ v \in Nat /\ tag \in Nat
                BY <4>2, Constants
              <8>2. w <= v /\ v < tag
                BY <6>1, <7>1
              <8> QED BY <8>1, <8>2
            <7> QED BY <2>1, <6>1, <7>1, <7>2 DEF IsOf
          <6> QED BY <4>2, <6>1, <6>2, <6>3 DEF Runnable, IsOf
        <5>2. CASE b = TheAgent
          <6>1. installed'[TheCommand] # None /\ installed'[TheCommand] = installed[TheCommand] /\ installed'[TheAgent] = staged[b]
            BY <3>4, <3>5, <4>5, <5>2
          <6>2. file'[installed'[TheCommand]].whole /\ file'[installed'[TheCommand]].of = {tag}
            BY <2>1, <4>2, <5>2, <6>1 DEF IsOf
          <6>3. tag <= tag /\ file'[installed'[TheAgent]].whole /\ file'[installed'[TheAgent]].of = {tag}
            <7>1. tag <= tag
              <8> HIDE DEF tag
              <8>1. tag \in Nat
                BY <4>2, Constants
              <8> QED BY <8>1
            <7> QED BY <2>1, <4>2, <6>1, <7>1 DEF IsOf
          <6> QED BY <4>2, <6>1, <6>2, <6>3 DEF Runnable, IsOf
        <5> QED BY <2>1, <3>4, <5>1, <5>2
      <4>7. FilesApart'
        BY <2>1, <2>4, <3>4, <3>5, <4>1, <4>5 DEF FilesApart
      <4>8. OnItsWay(u)'
        <5>1. CASE more
          <6>1. installed'[TheAgent] # None /\ file'[installed'[TheCommand]].whole /\ file'[installed'[TheCommand]].of = {tag}
            BY <2>1, <3>4, <3>5, <4>2, <5>1 DEF IsOf
          <6>2. updater'[u].at = "Copy" /\ updater'[u].binary = TheAgent /\ updater'[u].tag = tag /\ updater'[u].to = None
            BY <3>2, <3>3, <4>2, <5>1
          <6> QED BY <3>4, <4>2, <6>1, <6>2 DEF OnItsWay, IsOf
        <5>2. CASE ~more
          BY <2>2, <3>2, <3>3, <5>2 DEF OnItsWay
        <5> QED BY <5>1, <5>2
      <4>9. Alone' /\ \A v_1 \in Updaters : OnItsWay(v_1)'
        BY <1>b, <2>1, <3>3, <3>7, <4>1, <4>8, UpdateStaysAlone
      <4> QED BY <4>6, <4>7, <4>9
    <3> QED BY <3>6, <3>7 DEF InstallInv
  <2> QED BY <2>3, <2>4
<1>7. ASSUME NEW u \in Updaters, Stops(u) PROVE InstallInv'
  <2>1. /\ updater[u].at # "Away" /\ updater' = [updater EXCEPT ![u] = Away]
        /\ UNCHANGED <<latest, file, installed, staged, together>>
    BY <1>7 DEF Stops, Finishes, Becomes
  <2>2. Away \in Updates /\ Away.at = "Away" /\ Away.to = None
    BY DEF Away, Updates, Stages, Versions, Binaries
  <2>3. updater'[u] = Away /\ Others(u) /\ updater' \in [Updaters -> Updates]
    BY <1>0, <2>1, <2>2 DEF Others, InstallTypeOK
  <2>4. InstallTypeOK'
    BY <1>0, <2>1, <2>3 DEF InstallTypeOK
  <2>5. ASSUME ~together' PROVE Fine'
    <3>1. Fine
      BY <1>a, <2>1, <2>5
    <3>2. OnItsWay(u)'
      BY <2>2, <2>3 DEF OnItsWay
    <3>3. Alone' /\ \A v \in Updaters : OnItsWay(v)'
      BY <1>b, <2>1, <2>3, <2>5, <3>1, <3>2, UpdateStaysAlone
    <3>4. Runnable' /\ FilesApart'
      BY <2>1, <3>1 DEF Runnable, IsOf, FilesApart
    <3> QED BY <3>3, <3>4
  <2> QED BY <2>4, <2>5 DEF InstallInv
<1> QED BY <1>1, <1>2, <1>3, <1>4, <1>5, <1>6, <1>7 DEF InstallNext

\* Killed anywhere, from any release to any other: what is installed runs.
THEOREM UpdateSafe == InstallSpec => []AlwaysRuns
<1>1. InstallInv => AlwaysRuns
  <2>1. together => AlwaysRuns
    BY DEF AlwaysRuns
  <2> QED BY <2>1, SoundRuns DEF InstallInv
<1> QED BY InitSound, NextSound, <1>1, PTL DEF InstallSpec
=============================================================================
