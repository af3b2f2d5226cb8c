----------------------------- MODULE MCWatchModel -----------------------------
EXTENDS WatchModel
CONSTANTS file
\* The root holds 1 as "1"; 2 is made, or moved in from outside, or held too.
OneFolder == [f \in Folders |-> IF f = 1 THEN [in |-> Root, name |-> 1] ELSE Nowhere]
TwoFolders == [f \in Folders |-> [in |-> Root, name |-> f]]
InTheFirst == [f \in Files |-> {1}]
=============================================================================
