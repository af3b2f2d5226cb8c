------------------------------- MODULE MCS3 -------------------------------
(***************************************************************************)
(* The threads that list a bucket, and the keys they sign with.  They      *)
(* share no state: a behaviour is of one of them.                          *)
(*                                                                         *)
(* Positions without a key stand for names the bucket does not hold, so    *)
(* that Seek(f) lies between the keys of the folder before f and those of  *)
(* f.                                                                      *)
(***************************************************************************)
EXTENDS S3Fetch, S3Keys, TLC

VARIABLE side

Run(first, last, folders, end) ==
  [prefix |-> [first |-> first, last |-> last], start_after |-> Seek(folders[1]),
   from |-> folders[1], until |-> end, folders |-> folders]

Rest(first, last, after, end) ==
  [prefix |-> [first |-> first, last |-> last], start_after |-> after,
   from |-> NoKey, until |-> end, folders |-> <<>>]

\* Two own objects, the first inside the reach of the first request; a run of
\* two folders; and the rest of a folder that discovery stopped expanding after
\* its first key.  Key 8 comes and goes.
SmallKey     == {1, 4, 8, 11, 12, 13}
SmallStable  == SmallKey \ {8}
SmallSteps   == <<{1}, NextRange, {11}, NextRange>>
SmallPlanned == <<Run(1, 13, <<4, 8>>, 11), Rest(11, 13, 11, NoEnd)>>

\* Keys that arrive expired, and keys too short for full windows.
ShortLifetimes == {0, 2}

Begins == side \in {"listing", "keys"} /\ Init /\ KeysInit /\ (side = "listing" => static)

Listing(A) == side = "listing" /\ A /\ UNCHANGED <<side, keyVars>>
Signing(A) == side = "keys" /\ A /\ UNCHANGED <<side, vars>>
all == <<side, vars, keyVars>>

\* The threads of the keys may all have ended.
AtRest == Signing((\A t \in Thread : Ended(t)) /\ UNCHANGED keyVars)

OneOfThem == Listing(Next) \/ Signing(KeysNext) \/ AtRest

EitherSpec ==
  /\ Begins
  /\ [][OneOfThem]_all
  /\ WF_all(Listing(CallerStep)) /\ \A w \in Workers : WF_all(Listing(WorkerStep(w)))
  /\ \A t \in Thread : WF_all(Signing(Get(t))) /\ WF_all(Signing(ListPage(t)))

\* Every listing of every plan ends (module S3Fetch), where one was begun.
EveryListingEnds == side = "listing" => ListingEnds

\* Nobody waits for good for the keys (module S3Keys), where they are asked for.
EveryKeyIsGiven == side = "keys" => KeysLive
=============================================================================
