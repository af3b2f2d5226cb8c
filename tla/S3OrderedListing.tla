------------------------- MODULE S3OrderedListing -------------------------
(***************************************************************************)
(* What listing a bucket promises its caller, the tree builder: the keys   *)
(* of the bucket, page by page, in exactly the order one ListObjectsV2     *)
(* stream would deliver them, however many workers fetch them; or an       *)
(* error.  A key is its position in key order.                             *)
(***************************************************************************)
EXTENDS Naturals, Sequences

CONSTANTS
  Key,      \* keys that may exist at some time, as positions in key order
  Stable    \* those that exist for the whole listing

VARIABLES
  delivered,  \* the pages handed to the sink so far, each a set of keys
  result      \* "running", then "ok" or "failed"

vars == <<delivered, result>>

Delivered == UNION {delivered[i] : i \in DOMAIN delivered}

Init == delivered = <<>> /\ result = "running"

\* A page starts after everything delivered before it and skips no stable key.
Deliver(page) ==
  /\ result = "running"
  /\ delivered' = Append(delivered, page)
  /\ page # {}
  /\ \A k \in page, d \in Delivered : d < k
  /\ \A k \in Stable, last \in page : k < last => k \in Delivered \cup page
  /\ UNCHANGED result

Succeed ==
  /\ result = "running"
  /\ Stable \subseteq Delivered
  /\ result' = "ok"
  /\ UNCHANGED delivered

GiveUp ==
  /\ result = "running"
  /\ result' = "failed"
  /\ UNCHANGED delivered

Next == (\E page \in SUBSET Key : Deliver(page)) \/ Succeed \/ GiveUp

Safety == Init /\ [][Next]_vars
=============================================================================
