------------------------------- MODULE S3Keys -------------------------------
(***************************************************************************)
(* The keys a listing signs with (crates/cli/src/s3/credentials.rs, `Keys`) *)
(* and the threads that use them (client.rs, `list_page`).  Keys that      *)
(* expire are renewed in two windows: after refresh_at a renewal is tried, *)
(* and may fail; after renew_by it has to work.  One thread fetches at a   *)
(* time, outside the lock.                                                 *)
(*                                                                         *)
(* An action is one critical section of the mutex `state`, or an answer    *)
(* from the provider or from S3.  A waiter polls every 50 ms, so a waiting *)
(* thread is one whose next action is not enabled yet.  Time is the wall   *)
(* clock in unit steps; credentials are numbered as the provider issues    *)
(* them.                                                                   *)
(***************************************************************************)
EXTENDS Integers

CONSTANTS
  Thread,     \* the threads that list pages
  ADVISORY,   \* the advisory window, at most
  MANDATORY,  \* the mandatory window, at most
  Lifetimes,  \* how long fresh keys may live when they arrive; 0 for those that
              \* arrive expired
  ATTEMPTS,   \* requests per page
  Pages,      \* bound: pages each thread lists
  LastTime    \* bound: when the clock stops

ASSUME WindowAssumption ==
  /\ ADVISORY \in Nat
  /\ MANDATORY \in Nat
  /\ MANDATORY <= ADVISORY
  /\ Lifetimes \subseteq Nat
  /\ ATTEMPTS \in Nat \ {0}
  /\ Pages \in Nat \ {0}
  /\ LastTime \in Nat

NoKeys   == 0   \* None of `held`; credentials are numbered from 1
Never    == -1  \* the window of keys without an expiry
NoError  == 0   \* None of `failed`; otherwise the number of the fetch that failed
NotYet   == -1  \* None of `waited_for`

VARIABLES
  static,     \* whether the provider is Provider::Static
  now,        \* unix_now_ms
  held,       \* State::held
  fetching,   \* State::fetching
  finished,   \* State::finished
  failed,     \* State::failed
  givenUp,  \* ScanProgress::is_cancelled
  issued,     \* how many credentials the provider has issued
  thread      \* each thread: where it is in `list_page` and `get`

keys == <<held, fetching, finished, failed>>
keyVars == <<keys, static, now, givenUp, issued, thread>>

Lesser(a, b) == IF a < b THEN a ELSE b

(***************************************************************************)
(* Held keys and their windows.                                            *)
(***************************************************************************)
Nothing == [cred |-> NoKeys, expires |-> Never, refresh_at |-> Never,
            renew_by |-> Never]

Forever(cred) == [Nothing EXCEPT !.cred = cred]

\* Keys that arrive at `at` and live until at + lifetime.
Arrived(cred, at, lifetime) ==
  [cred       |-> cred,
   expires    |-> at + lifetime,
   refresh_at |-> at + lifetime - Lesser(ADVISORY, lifetime \div 2),
   renew_by   |-> at + lifetime - Lesser(MANDATORY, lifetime \div 4)]

IsHeld(h)  == h.cred # NoKeys
Expires(h) == h.expires # Never

\* The three ages of keys `get` tells apart.
Fresh(h)      == IsHeld(h) /\ (Expires(h) => now < h.refresh_at)
Renewable(h)  == IsHeld(h) /\ ~Fresh(h) /\ now < h.renew_by
MustRenew(h)  == ~Fresh(h) /\ ~Renewable(h)

(***************************************************************************)
(* The initial state.                                                      *)
(***************************************************************************)
Resting == [pc |-> "get", pages |-> Pages, attempt |-> 1, renewed |-> FALSE,
            waited_for |-> NotYet, mandatory |-> FALSE,
            current |-> Nothing, used |-> Nothing]

KeysInit ==
  /\ static \in BOOLEAN
  /\ now = 0
  /\ held = Nothing
  /\ fetching = FALSE
  /\ finished = 0
  /\ failed = NoError
  /\ givenUp = FALSE
  /\ issued = 0
  /\ thread = [t \in Thread |-> Resting]

(***************************************************************************)
(* `get`.                                                                  *)
(***************************************************************************)
At(t, pc) == thread[t].pc = pc

\* The failure of a fetch that ended while t waited is t's failure too.
FailedFor(t) ==
  /\ thread[t].waited_for # NotYet
  /\ failed # NoError
  /\ finished # thread[t].waited_for

Sign(t, h) ==
  thread' = [thread EXCEPT ![t].pc = "sent", ![t].used = h, ![t].current = Nothing,
                           ![t].waited_for = NotYet]

Failed(t) == [Resting EXCEPT !.pc = "failed", !.pages = thread[t].pages]
Fail(t)   == thread' = [thread EXCEPT ![t] = Failed(t)]


GetCancelled(t) ==
  /\ At(t, "get")
  /\ givenUp
  /\ Fail(t)
  /\ UNCHANGED <<keys, static, now, givenUp, issued>>

\* Mutant: while somebody renews, any keys will do.
SignsMeanwhile == Fresh(held) \/ (IsHeld(held) /\ fetching)

\* Keys good for a while yet, or somebody else is renewing them already.
MaySign == Fresh(held) \/ (Renewable(held) /\ fetching)

GetHeld(t) ==
  /\ At(t, "get")
  /\ ~givenUp
  /\ MaySign
  /\ Sign(t, held)
  /\ UNCHANGED <<keys, static, now, givenUp, issued>>


MayRenew == Renewable(held) /\ ~fetching

StartFetch(t, mandatory) ==
  /\ fetching' = TRUE
  /\ thread' = [thread EXCEPT ![t].pc = "fetch", ![t].mandatory = mandatory,
                              ![t].current = IF mandatory THEN Nothing ELSE held]
  /\ UNCHANGED <<held, finished, failed, static, now, givenUp, issued>>

StartAdvisory(t) ==
  /\ At(t, "get")
  /\ ~givenUp
  /\ MayRenew
  /\ StartFetch(t, FALSE)

GetFailure(t) ==
  /\ At(t, "get")
  /\ ~givenUp
  /\ MustRenew(held)
  /\ FailedFor(t)
  /\ Fail(t)
  /\ UNCHANGED <<keys, static, now, givenUp, issued>>

StartMandatory(t) ==
  /\ At(t, "get")
  /\ ~givenUp
  /\ MustRenew(held)
  /\ ~FailedFor(t)
  /\ ~fetching
  /\ StartFetch(t, TRUE)

\* waited_for.get_or_insert(finished): the first wait of this `get` counts.
Wait(t) ==
  /\ At(t, "get")
  /\ ~givenUp
  /\ MustRenew(held)
  /\ ~FailedFor(t)
  /\ fetching
  /\ thread[t].waited_for = NotYet
  /\ thread' = [thread EXCEPT ![t].waited_for = finished]
  /\ UNCHANGED <<keys, static, now, givenUp, issued>>

(***************************************************************************)
(* `fetch` and `finish`.                                                   *)
(***************************************************************************)
\* What the provider may answer at time `now`: keys it has not issued before, or
\* the last ones again.  Static keys are always the same and never expire.
Answers ==
  IF static THEN {Forever(1)}
  ELSE LET next == {issued, issued + 1} \ {NoKeys} IN
       {Forever(cred) : cred \in next}
         \cup {Arrived(cred, now, l) : cred \in next, l \in Lifetimes}

\* `fetch` refuses keys whose lifetime is over when they arrive.
Usable(answer) == Expires(answer) => answer.expires > now

\* Mutant: a failure leaves the flag up.
FinishForgets == /\ fetching' = (failed' # NoError)
                 /\ finished' = finished + 1


Finish == /\ fetching' = FALSE
          /\ finished' = finished + 1

FetchSucceeds(t) ==
  /\ At(t, "fetch")
  /\ \E answer \in {a \in Answers : Usable(a)} :
       /\ held' = answer
       /\ issued' = answer.cred
       /\ Sign(t, answer)
  /\ failed' = NoError
  /\ Finish
  /\ UNCHANGED <<static, now, givenUp>>

\* The provider failed or was interrupted by the cancel, or its keys arrived
\* expired.  An advisory renewal that was not interrupted goes on to report it.
FetchFails(t) ==
  /\ At(t, "fetch")
  /\ ~static
  /\ failed' = finished + 1
  /\ Finish
  /\ \/ thread[t].mandatory /\ Fail(t)
     \/ ~thread[t].mandatory /\ thread' = [thread EXCEPT ![t].pc = "report"]
     \/ ~thread[t].mandatory /\ givenUp /\ Fail(t)
  /\ UNCHANGED <<held, static, now, givenUp, issued>>

\* The second critical section of renew_advisory: these keys are not renewed
\* again until they have to be.  They are what the caller signs with.
Postponed(t) ==
  IF held.cred = thread[t].current.cred /\ Expires(held)
  THEN [held EXCEPT !.refresh_at = held.renew_by]
  ELSE held

Report(t) ==
  /\ At(t, "report")
  /\ held' = Postponed(t)
  /\ Sign(t, thread[t].current)
  /\ UNCHANGED <<fetching, finished, failed, static, now, givenUp, issued>>

(***************************************************************************)
(* `list_page`.  Its own look at the cancel, and the ones of the pause     *)
(* between attempts, come right before the one of `get` and are left to it. *)
(* A redirect to another region, once per client, only starts the attempts *)
(* over.                                                                   *)
(***************************************************************************)
Again(t) == [thread[t] EXCEPT !.pc = "get", !.attempt = @ + 1, !.used = Nothing]

Answered(t) ==
  /\ At(t, "sent")
  /\ thread' = [thread EXCEPT ![t] =
                  IF @.pages = 1 THEN [Resting EXCEPT !.pc = "done", !.pages = 0]
                                 ELSE [Resting EXCEPT !.pages = thread[t].pages - 1]]
  /\ UNCHANGED <<keys, static, now, givenUp, issued>>

\* A transport error or a retryable status is tried again, as often as attempts
\* allow; any other answer ends the listing.
Unanswered(t) ==
  /\ At(t, "sent")
  /\ \/ thread[t].attempt < ATTEMPTS /\ thread' = [thread EXCEPT ![t] = Again(t)]
     \/ Fail(t)
  /\ UNCHANGED <<keys, static, now, givenUp, issued>>

\* S3 says ExpiredToken, the first time for this page or again.
Refused(t) ==
  /\ At(t, "sent")
  /\ IF thread[t].renewed THEN Fail(t)
     ELSE thread' = [thread EXCEPT ![t].pc = "refused"]
  /\ UNCHANGED <<keys, static, now, givenUp, issued>>

\* What `expire` leaves of the held keys.
Expired(t) == IF held.cred = thread[t].used.cred THEN Nothing ELSE held

Expire(t) ==
  /\ At(t, "refused")
  /\ IF static
     THEN Fail(t) /\ UNCHANGED held
     ELSE /\ held' = Expired(t)
          /\ thread' = [thread EXCEPT ![t] = [Again(t) EXCEPT !.renewed = TRUE]]
  /\ UNCHANGED <<fetching, finished, failed, static, now, givenUp, issued>>

(***************************************************************************)
(* The specification.                                                      *)
(***************************************************************************)
Tick ==
  /\ now < LastTime
  /\ now' = now + 1
  /\ UNCHANGED <<keys, static, givenUp, issued, thread>>

GiveUp ==
  /\ ~givenUp
  /\ givenUp' = TRUE
  /\ UNCHANGED <<keys, static, now, issued, thread>>

Get(t) ==
  \/ GetCancelled(t) \/ GetHeld(t) \/ StartAdvisory(t)
  \/ GetFailure(t) \/ StartMandatory(t) \/ Wait(t)

FetchEnds(t) == FetchSucceeds(t) \/ FetchFails(t)

ListPage(t) ==
  Answered(t) \/ Unanswered(t) \/ Refused(t) \/ Expire(t) \/ Report(t)

KeysNext ==
  \/ \E t \in Thread : Get(t) \/ FetchEnds(t) \/ ListPage(t)
  \/ Tick
  \/ GiveUp

\* Threads run and requests are answered, within their own timeouts.  Nothing is
\* assumed of a fetch: a credential_process may wait for an MFA code for good.
KeysSpec ==
  /\ KeysInit
  /\ [][KeysNext]_keyVars
  /\ \A t \in Thread : WF_keyVars(Get(t)) /\ WF_keyVars(ListPage(t))

(***************************************************************************)
(* Properties.                                                             *)
(***************************************************************************)
HeldKeys ==
  [cred : Nat, expires : Nat \cup {Never}, refresh_at : Nat \cup {Never},
   renew_by : Nat \cup {Never}]

ThreadState ==
  [pc : {"get", "fetch", "report", "sent", "refused", "failed", "done"},
   pages : Nat, attempt : Nat, renewed : BOOLEAN,
   waited_for : Nat \cup {NotYet}, mandatory : BOOLEAN,
   current : HeldKeys, used : HeldKeys]

\* Keys, counters and threads have the types of credentials.rs.
KeysTypeOK ==
  /\ static \in BOOLEAN
  /\ now \in Nat
  /\ held \in HeldKeys
  /\ fetching \in BOOLEAN
  /\ finished \in Nat
  /\ failed \in Nat
  /\ givenUp \in BOOLEAN
  /\ issued \in Nat
  /\ thread \in [Thread -> ThreadState]

\* One fetch runs at a time, one MFA prompt for all the workers; `fetching` says
\* so exactly, or nobody would ever fetch again.
Fetching(t) == At(t, "fetch")

OneFetch ==
  /\ \A t, u \in Thread : Fetching(t) /\ Fetching(u) => t = u
  /\ fetching <=> \E t \in Thread : Fetching(t)

Signs(t) == ~At(t, "sent") /\ thread'[t].pc = "sent"
Used(t)  == thread'[t].used

\* Keys past their mandatory deadline are not used for new requests, whatever
\* other threads renew, postpone and drop meanwhile.  The one exception is the
\* thread whose own advisory renewal failed: it signs with what it had, expired
\* or not.
SignsBeforeDeadline ==
  [][\A t \in Thread :
       Signs(t) /\ ~At(t, "report") /\ Expires(Used(t)) => now < Used(t).renew_by]_keyVars

\* Keys are not due again the moment they arrive, however short they live: the
\* windows shrink with the lifetime, so that not every page costs a fetch.
FreshWhenFetched ==
  [][finished' # finished /\ failed' = NoError => Fresh(held)']_keyVars

\* A thread that waited for a fetch that failed gets that failure, and does not
\* ask again on its own; and no thread fails for a fetch that had ended before it
\* began to wait.
Waited(t)     == thread[t].waited_for # NotYet
AsksAgain(t)  == thread'[t].pc = "fetch" /\ thread'[t].mandatory

FailureShared ==
  [][\A t \in Thread :
       At(t, "get") /\ ~givenUp =>
         /\ Waited(t) /\ AsksAgain(t) => failed <= thread[t].waited_for
         /\ thread'[t].pc = "failed" => Waited(t) /\ failed > thread[t].waited_for
    ]_keyVars

\* A stale complaint drops nothing: keys are forgotten only if S3 has refused
\* those, not the ones that were renewed while the refusal was on its way.
OnlyRefusedDropped ==
  [][IsHeld(held) /\ ~IsHeld(held') =>
       \E t \in Thread : At(t, "refused") /\ thread[t].used.cred = held.cred]_keyVars

\* However threads, renewals, refusals and the clock interleave, the keys are
\* asked for by one, shared by all, used in time and dropped for a reason.
KeysSafe ==
  /\ [](KeysTypeOK /\ OneFetch)
  /\ SignsBeforeDeadline /\ FreshWhenFetched /\ FailureShared /\ OnlyRefusedDropped

\* A cancel reaches a waiting thread even while the fetch it waits for never ends.
CancelReaches ==
  \A t \in Thread : givenUp /\ At(t, "get") ~> ~At(t, "get")

\* If every fetch ends, every thread gets through its pages or fails: no order of
\* renewals, refusals and failures leaves a thread waiting.
Ended(t) == thread[t].pc \in {"failed", "done"}

PagesEnd ==
  (\A t \in Thread : []<>~Fetching(t)) => <>(\A t \in Thread : Ended(t))

\* Nobody is left waiting, for a fetch that ends or for one that does not.
KeysLive == CancelReaches /\ PagesEnd
=============================================================================
