------------------------------- MODULE MCWaits -------------------------------
(***************************************************************************)
(* Two places that wait for a call which may never return: replays of      *)
(* FSEvents, of which the second is of the whole disk, and threads at the  *)
(* gate in front of FIEMAP.  They share nothing, so a behaviour is of the  *)
(* one or of the other.                                                    *)
(***************************************************************************)
EXTENDS FsEvents, FiemapGate

VARIABLE side

Begins ==
  /\ side \in {"replay", "gate"}
  /\ Init /\ GateInit
  /\ side = "replay" => armed

OneOfThem ==
  \/ side = "replay" /\ Next /\ UNCHANGED <<side, gate>>
  \/ side = "gate" /\ GateNext /\ UNCHANGED <<side, vars>>

all == <<side, vars, gate>>

\* Fairness and GateFairness, each on its own side.
EachFair ==
  /\ \A r \in Replays : /\ WF_all(side = "replay" /\ Asking(r) /\ UNCHANGED <<side, gate>>)
                        /\ WF_all(side = "replay" /\ Starting(r) /\ UNCHANGED <<side, gate>>)
  /\ WF_all(side = "gate" /\ Proceed /\ UNCHANGED <<side, vars>>)

WaitsSpec == Begins /\ [][OneOfThem]_all /\ EachFair
=============================================================================
