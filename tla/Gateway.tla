------------------------------ MODULE Gateway -------------------------------
(* A request of System A on its way through the gateway to Kingdee            *)
(* (proxy-server/app/middleware.py, auth.py, endpoints/, kdcloud_client.py).  *)
(*                                                                            *)
(* The rate limiter runs ahead of the authentication and looks the client up  *)
(* by itself; it counts the request with one atomic $inc in a counter per     *)
(* client and minute, which MongoDB removes two minutes after it was made.    *)
(* The authentication looks the client up again.  What passes both gets a     *)
(* token and is posted to Kingdee once.  Admin calls of ProxyClients run      *)
(* between any two steps.                                                     *)
EXTENDS ProxyClients, FiniteSets

CONSTANTS
  Requests,    \* requests to /api/proxy/v1/
  Endpoints,   \* the business endpoints
  CounterLife, \* minutes from a counter's first request to its removal
  MaxMinute    \* bound: the last minute

ASSUME GatewayAssumption ==
  /\ IsFiniteSet(Requests)
  /\ CounterLife \in Nat \ {0} /\ MaxMinute \in Nat

VARIABLES
  minute,   \* the clock, in minutes
  counters, \* counters[n][w]: the count of client n in minute w; 0 if there is none
  late,     \* the requests counted when their minute's counter was due to go
  request,  \* request[r]: its control state and what it has learnt
  kingdee   \* the requests that have reached Kingdee

counts == <<counters, late>>
gatewayVars == <<minute, counts, request, kingdee>>
vars == <<clientVars, gatewayVars>>

Minutes == 0..MaxMinute

Waiting == {"identify", "count", "authenticate", "token", "post"}
\* An error is a 500, or the 422 of a body that is not what an endpoint asks for.
\* What an endpoint answers with a 200 is one answer, whatever its code.
Answers == {"401", "403", "429", "error", "answered"}

\* client, limit and window are what the limiter counts under, rank is the count
\* its $inc led to; found is the document the limiter found and doc the one that
\* authenticated.  born and sure keep what the registry was like at the limiter's
\* look-up: how many documents there had been, and whether keys were unique.
Request == [pc : Waiting \union Answers \union {"idle"},
            key : Keys \union {Null}, client : Names \union {Null},
            limit : Nat, window : Minutes, rank : Nat,
            found : Docs \union {0}, doc : Docs \union {0},
            born : 0..MaxClients, sure : BOOLEAN]

NoRequest == [pc |-> "idle", key |-> Null, client |-> Null, limit |-> 0, window |-> 0,
              rank |-> 0, found |-> 0, doc |-> 0, born |-> 0, sure |-> FALSE]

Init ==
  /\ ClientsInit
  /\ minute = 0
  /\ counters = [n \in Names |-> [w \in Minutes |-> 0]]
  /\ late = {}
  /\ request = [r \in Requests |-> NoRequest]
  /\ kingdee = {}

At(r, pc) == request[r].pc = pc

Goto(r, pc) == request' = [request EXCEPT ![r].pc = pc]

-----------------------------------------------------------------------------
(* RateLimitMiddleware *)

\* A request arrives; without an api_key the limiter lets it pass.
Arrive(r) ==
  /\ At(r, "idle")
  /\ \E k \in Keys \union {Null} :
       request' = [request EXCEPT ![r] =
         [@ EXCEPT !.pc = IF k = Null THEN "authenticate" ELSE "identify", !.key = k]]
  /\ UNCHANGED <<clientVars, minute, counts, kingdee>>

\* The limiter's look-up; a request of nobody passes.  Its minute is the one in
\* which the look-up was answered.
Identify(r) ==
  /\ At(r, "identify")
  /\ \/ /\ WithKey(request[r].key) = {}
        /\ request' = [request EXCEPT ![r] =
             [@ EXCEPT !.pc = "authenticate", !.born = made, !.sure = "api_key" \in indexed]]
     \/ \E o \in WithKey(request[r].key) :
          request' = [request EXCEPT ![r] =
            [@ EXCEPT !.pc = "count", !.client = clients[o].id, !.found = o,
                      !.limit = Applied(clients[o].limit), !.window = minute,
                      !.born = made, !.sure = "api_key" \in indexed]]
  /\ UNCHANGED <<clientVars, minute, counts, kingdee>>

\* Mutant: the count is read before it is incremented.
OverBefore(rank, limit) == rank - 1 > limit

\* Over the limit is over, not at it.
Over(rank, limit) == rank > limit

\* Mutant: the number of the counter does not hold the minute.
RankOfAllMinutes(r) == counters[request[r].client][0] + 1

Rank(r) == counters[request[r].client][request[r].window] + 1

\* An $inc that comes too late makes a counter of its own, or counts in one that was.
Due(w) == minute >= w + CounterLife

Increment(r) ==
  /\ counters' = [counters EXCEPT ![request[r].client][request[r].window] = @ + 1]
  /\ late' = IF Due(request[r].window) THEN late \union {r} ELSE late

\* find_one_and_update with $inc, an upsert that returns the new count.
Count(r) ==
  /\ At(r, "count")
  /\ Increment(r)
  /\ request' = [request EXCEPT ![r] =
       [@ EXCEPT !.rank = Rank(r),
                 !.pc = IF Over(Rank(r), request[r].limit) THEN "429" ELSE "authenticate"]]
  /\ UNCHANGED <<clientVars, minute, kingdee>>

\* Mutant: a limiter that cannot count lets the request pass.
LimiterFailsOpen(r) ==
  /\ request[r].pc \in {"identify", "count"}
  /\ Goto(r, "authenticate")
  /\ UNCHANGED <<clientVars, minute, counts, kingdee>>

\* The look-up or the update raises, the latter with or without having counted.
LimiterFails(r) ==
  /\ \/ request[r].pc \in {"identify", "count"} /\ Goto(r, "error") /\ UNCHANGED counts
     \/ /\ At(r, "count")
        /\ Increment(r)
        /\ request' = [request EXCEPT ![r] = [@ EXCEPT !.pc = "error", !.rank = Rank(r)]]
  /\ UNCHANGED <<clientVars, minute, kingdee>>

-----------------------------------------------------------------------------
(* require_proxy_auth *)

\* What the authentication makes of a call of path, signed with that secret, and
\* the client with its key.
Verdict(path, secret, c) ==
  IF c.status # "active" \/ (c.scope # {} /\ path \notin c.scope) THEN "403"
  ELSE IF secret # c.secret THEN "401" ELSE "token"

\* The second look-up and all checks, which only await the body.  A header may be
\* missing and the timestamp may be more than five minutes off.  Nothing else looks
\* at the path and the signature, so that they are chosen here.
Authenticate(r) ==
  /\ At(r, "authenticate")
  /\ \/ Goto(r, "401")
     \/ \E o \in WithKey(request[r].key), path \in Endpoints, secret \in Secrets \union {Null} :
          LET verdict == Verdict(path, secret, clients[o]) IN
          request' = [request EXCEPT ![r] =
            [@ EXCEPT !.pc = verdict, !.doc = IF verdict = "token" THEN o ELSE 0]]
  /\ UNCHANGED <<clientVars, minute, counts, kingdee>>

\* The look-up raises, the secret cannot be decrypted, the body is not what the
\* endpoint's model asks for, or there is no token: get_valid_access_token is
\* outside the endpoint's try.
Breaks(r) ==
  /\ request[r].pc \in {"authenticate", "token"}
  /\ Goto(r, "error")
  /\ UNCHANGED <<clientVars, minute, counts, kingdee>>

-----------------------------------------------------------------------------
(* The business endpoints and _call_gateway *)

GetToken(r) ==
  /\ At(r, "token")
  /\ Goto(r, "post")
  /\ UNCHANGED <<clientVars, minute, counts, kingdee>>

\* The request is translated and posted.  It reaches Kingdee, and the answer (code 0)
\* comes back, a refusal included, or is lost (code 500); or the request is (code 500).
Post(r) ==
  /\ At(r, "post")
  /\ kingdee' \in {kingdee, kingdee \union {r}}
  /\ Goto(r, "answered")
  /\ UNCHANGED <<clientVars, minute, counts>>

-----------------------------------------------------------------------------

\* A minute passes, whatever is under way: nothing limits how long an $inc takes.
Tick ==
  /\ minute < MaxMinute
  /\ minute' = minute + 1
  /\ UNCHANGED <<clientVars, counts, request, kingdee>>

\* Mutant: a counter is removed as soon as its minute is over.
ExpireAtOnce(n, w) ==
  /\ counters[n][w] > 0
  /\ minute > w
  /\ counters' = [counters EXCEPT ![n][w] = 0]
  /\ UNCHANGED <<clientVars, minute, late, request, kingdee>>

\* The TTL index on created_at removes a counter: two minutes after the request that
\* made it was at hand, which was in the counter's own minute.
Expire(n, w) ==
  /\ counters[n][w] > 0
  /\ Due(w)
  /\ counters' = [counters EXCEPT ![n][w] = 0]
  /\ UNCHANGED <<clientVars, minute, late, request, kingdee>>

RequestStep(r) ==
  \/ Arrive(r) \/ Identify(r) \/ Count(r) \/ LimiterFails(r)
  \/ Authenticate(r) \/ Breaks(r) \/ GetToken(r) \/ Post(r)

Next ==
  \/ ClientsNext /\ UNCHANGED gatewayVars
  \/ \E r \in Requests : RequestStep(r)
  \/ \E n \in Names, w \in Minutes : Expire(n, w)
  \/ Tick

Spec == Init /\ [][Next]_vars

-----------------------------------------------------------------------------

TypeOK ==
  /\ ClientsTypeOK
  /\ minute \in Minutes
  /\ counters \in [Names -> [Minutes -> Nat]]
  /\ late \subseteq Requests
  /\ request \in [Requests -> Request]
  /\ kingdee \subseteq Requests

Counted(n, w) ==
  {r \in Requests : request[r].client = n /\ request[r].window = w /\ request[r].rank > 0}

\* Of the requests counted for a client in one minute, before the minute's counter
\* was due to go, no more reach Kingdee than the limit that one of them found its
\* client to have, a limit the client was given: whatever worker counts them,
\* whatever is removed, deleted and created meanwhile.  An $inc that takes longer
\* than that is not limited with the others (middleware.py 43-78).
LimitHolds ==
  \A n \in Names, w \in Minutes :
    LET through == (Counted(n, w) \ late) \intersect kingdee IN
    through # {} => \E r \in through : /\ Cardinality(through) <= request[r].limit
                                      /\ request[r].limit \in granted[n]

\* A request is turned away only if more requests than its client's limit were
\* counted in the same minute, itself included, however late the counts: no minute
\* inherits the count of another (middleware.py 59-78).
RefusedOnlyOverLimit ==
  \A r \in Requests : At(r, "429") =>
    Cardinality(Counted(request[r].client, request[r].window)) > request[r].limit

\* The limiter and the authentication look a request's client up one after the
\* other and agree on it: what reaches Kingdee was counted for the very client it
\* is from, unless that client was created between the two look-ups, or the index
\* that keeps keys unique was not there yet (middleware.py 46-57, auth.py 53-60).
CountedAsItsClient ==
  \A r \in kingdee :
    LET q == request[r] IN
    \/ q.found = q.doc /\ q.rank > 0
    \/ q.doc > q.born
    \/ ~q.sure

\* What RateLimit calls the verdict on a request.
VerdictOn(r) ==
  IF request[r].client = Null \/ At(r, "count") THEN "none"
  ELSE IF At(r, "429") THEN "refused"
  ELSE IF At(r, "error") THEN "failed"
  ELSE "through"

Limiter == INSTANCE RateLimit WITH
  Clients <- Names, Limits <- {Applied(limit) : limit \in Limits}, NoClient <- Null,
  over <- IF minute < CounterLife THEN 0 ELSE minute - CounterLife + 1,
  ask <- [r \in Requests |-> [client |-> request[r].client, minute |-> request[r].window,
                              limit |-> request[r].limit]],
  counted <- {r \in Requests : request[r].rank > 0},
  verdict <- [r \in Requests |-> VerdictOn(r)],
  reached <- {r \in kingdee : request[r].client # Null}

\* Counters that expire and are counted in by every worker limit requests as if
\* each request counted those before it, until its minute's counter is due to go
\* (middleware.py 43-80, indexes.py 72-76).
ImplementsRateLimit == Limiter!Spec
=============================================================================
