------------------------------ MODULE MCBinaries ------------------------------
(* The two ways by which a published binary gets on a disk: for one scan of  *)
(* another machine, and in the place of the one that runs.  They share       *)
(* nothing, so a behaviour is of the one or of the other.                    *)
EXTENDS RemoteScan, SelfUpdate

VARIABLE side

Begins ==
  /\ side \in {"remote", "update"} /\ RemoteInit /\ InstallInit
  /\ side = "update" => tty

OneOfThem ==
  \/ side = "remote" /\ RemoteNext /\ UNCHANGED <<side, install>>
  \/ side = "update" /\ InstallNext /\ UNCHANGED <<side, remoteVars>>

Spec == Begins /\ [][OneOfThem]_<<side, remoteVars, install>> /\ (side = "remote" => Fairness)
=============================================================================
