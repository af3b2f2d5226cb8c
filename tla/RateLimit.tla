------------------------------- MODULE RateLimit -------------------------------
(***************************************************************************)
(* The agent's limit on requests (crates/agent/src/ratelimit.rs): a bucket *)
(* for each client, that fills with time and that a request takes a token  *)
(* from, in a table of a bounded size.  Requests are charged on threads of *)
(* the server: each reads the clock and only then waits for the lock.      *)
(*                                                                         *)
(* Time is in ticks and a bucket in drops, of which one falls in a tick.   *)
(***************************************************************************)
EXTENDS Integers, FiniteSets, FiniteSetsExt, Functions

CONSTANTS
  Clients, Requests,
  Token,        \* drops of a token
  Burst,        \* drops of a full bucket
  Second,       \* ticks of one
  MaxTracked, MaxInstant

VARIABLES
  instant,
  clients,   \* the buckets
  request,   \* of each: who asks, and when the clock was read
  owed,      \* history: what a client may still spend, by the rate alone
  latest,    \* history: the latest reading that was charged
  promised   \* history: when a client was told to come back

limit == <<instant, clients, request, owed, latest, promised>>

RateLimitAssumption ==
  /\ {Token, Burst, Second, MaxTracked} \subseteq Nat
  /\ Token > 0 /\ Burst >= Token /\ Second > 0 /\ MaxTracked > 0
ASSUME RateLimitAssumption

Nobody == "nobody"
NotTold == -1
NoRequest == [client |-> Nobody, now |-> 0]

Filled(level, ticks) == Min({level + Max({ticks, 0}), Burst})

(***************************************************************************)
(* A request.                                                              *)
(***************************************************************************)
Tick ==
  /\ instant < MaxInstant /\ instant' = instant + 1
  /\ UNCHANGED <<clients, request, owed, latest, promised>>

\* check
Ask(q, c) ==
  /\ request[q] = NoRequest
  /\ request' = [request EXCEPT ![q] = [client |-> c, now |-> instant]]
  /\ UNCHANGED <<instant, clients, owed, latest, promised>>

Full(table, c) == Cardinality(DOMAIN table) >= MaxTracked /\ c \notin DOMAIN table

\* Mutant: who has a token is forgotten.
OwesNothingNow(bucket, now) == Filled(bucket.tokens, now - bucket.last) >= Token

Recovered(bucket, now) == Filled(bucket.tokens, now - bucket.last) >= Burst

\* The table, without those that owe nothing if there is no room.
Kept(c, now) ==
  IF Full(clients, c)
  THEN Restrict(clients, {k \in DOMAIN clients : ~Recovered(clients[k], now)})
  ELSE clients

Bucket(table, c, now) == IF c \in DOMAIN table THEN table[c] ELSE [tokens |-> Burst, last |-> now]

\* Mutant: seconds are rounded down.
WholeSecondsOnly(short) == Max({short \div Second, 1})

RetryAfter(short) == Max({(short + Second - 1) \div Second, 1})

Put(table, c, tokens, now) ==
  clients' = [k \in DOMAIN table \cup {c} |->
               IF k = c THEN [tokens |-> tokens, last |-> now] ELSE table[k]]

\* What the rate leaves a client, who gains the time by which its request was
\* overtaken on the way to the lock.
Leaves(c, now, cost) ==
  owed' = [owed EXCEPT ![c] =
            [level |-> Filled(@.level, now - @.at) - cost + Max({latest - now, 0}), at |-> Max({@.at, now})]]

\* check_at
Charge(q) ==
  LET c      == request[q].client
      now    == request[q].now
      table  == Kept(c, now)
      bucket == Bucket(table, c, now)
      tokens == Filled(bucket.tokens, now - bucket.last)
  IN /\ request[q] # NoRequest
     /\ request' = [request EXCEPT ![q] = NoRequest]
     /\ latest' = Max({latest, now})
     /\ IF Full(table, c)
        THEN clients' = table /\ UNCHANGED <<owed, promised>>
        ELSE IF tokens >= Token
        THEN /\ Put(table, c, tokens - Token, now)
             /\ Leaves(c, now, Token)
             /\ promised' = [promised EXCEPT ![c] = NotTold]
        ELSE /\ Put(table, c, tokens, now)
             /\ Leaves(c, now, 0)
             /\ promised' = [promised EXCEPT ![c] = now + RetryAfter(Token - tokens) * Second]
     /\ UNCHANGED instant

LimitInit ==
  /\ instant = 0
  /\ clients = [c \in {} |-> Nobody]
  /\ request = [q \in Requests |-> NoRequest]
  /\ owed = [c \in Clients |-> [level |-> Burst, at |-> 0]]
  /\ latest = 0 /\ promised = [c \in Clients |-> NotTold]

LimitNext ==
  \/ Tick
  \/ \E q \in Requests : Charge(q) \/ \E c \in Clients : Ask(q, c)

LimitSpec == LimitInit /\ [][LimitNext]_limit

(***************************************************************************)
(* Properties.                                                             *)
(***************************************************************************)
\* Nobody gets more than the burst and the rate allow, whoever is forgotten for
\* want of room and comes back, except for the time by which requests overtake
\* each other on their way to the lock.
WithinTheRate == \A c \in Clients : owed[c].level >= 0

\* Who comes back when told to, having asked for nothing meanwhile, is let in,
\* if the table has room for it.
ComingBackHelps ==
  [][\A q \in Requests :
       LET r == request[q]
       IN /\ Charge(q)
          /\ promised[r.client] # NotTold
          /\ r.now >= promised[r.client]
          /\ ~Full(Kept(r.client, r.now), r.client)
          => promised'[r.client] = NotTold]_limit
=============================================================================
