--------------------------- MODULE Gateway_proofs ---------------------------
(* Proofs about Gateway: types, the limit, and which client a request is      *)
(* counted for, for any number of clients, admin calls, requests and minutes. *)
EXTENDS Gateway, FiniteSetTheorems, TLAPS

-----------------------------------------------------------------------------
(* The registry *)

\* What a creation is about to insert is a client (admin.py 63-74).
AdminInv == \A a \in Admins : admin[a].pc \in {"name", "insert"} => admin[a].new \in Client

\* Once the unique index is there, no two clients share a key.
KeyInv ==
  "api_key" \in indexed =>
    \A o, p \in Stored : clients[o].key = clients[p].key => o = p

\* The limit of a client that is there is one it was given.
GrantInv == \A o \in Stored : Applied(clients[o].limit) \in granted[clients[o].id]

\* A limit in force is a number (middleware.py 51).
LEMMA AppliedType == \A limit \in Limits : Applied(limit) \in Nat
BY ClientsAssumption DEF Applied

\* A document that is there is a client.
LEMMA StoredTypes ==
  ASSUME ClientsTypeOK
  PROVE  \A o \in Stored : o \in Docs /\ clients[o] \in Client
BY DEF ClientsTypeOK, Stored

\* What an admin call may do to the registry as far as requests can tell: limits
\* are added to those given, numbers are not reused, and a document with a given
\* key had it before or is new.
Grows ==
  /\ \A n \in Names : granted[n] \subseteq granted'[n]
  /\ made <= made'
  /\ \A o \in Stored' : \/ o \in Stored /\ clients'[o].key = clients[o].key
                        \/ o > made

\* An admin call's answer (admin.py 57-76, 118-130).
LEMMA ReplyTypes ==
  ASSUME ClientsTypeOK, AdminInv, NEW a \in Admins, Reply(a)
  PROVE  admin' \in [Admins -> AdminCall] /\ AdminInv'
<1>1. [pc |-> "answered", new |-> Null] \in AdminCall
  BY DEF AdminCall
<1> QED BY <1>1 DEF Reply, ClientsTypeOK, AdminInv

\* create_proxy_client up to its insert.
LEMMA LookTypes ==
  ASSUME ClientsTypeOK, AdminInv, KeyInv, GrantInv, NEW a \in Admins,
         CreateLooksForKey(a) \/ CreateLooksForName(a)
  PROVE  ClientsTypeOK' /\ AdminInv' /\ KeyInv' /\ GrantInv' /\ Grows
<1>1. UNCHANGED <<clients, made, indexed, granted>>
  BY DEF CreateLooksForKey, CreateLooksForName
<1>2. KeyInv' /\ GrantInv' /\ Grows
  BY <1>1, ClientsAssumption DEF KeyInv, GrantInv,  Stored, Grows, ClientsTypeOK
<1>3. admin' \in [Admins -> AdminCall] /\ AdminInv'
  <2>1. CASE CreateLooksForKey(a)
    <3>1. CASE Reply(a)
      BY <3>1, ReplyTypes
    <3>2. CASE \E n \in Names, k \in Keys, s \in Secrets, l \in Limits, w \in Scopes :
                 admin' = [admin EXCEPT ![a] =
                   [pc |-> "name",
                    new |-> [id |-> n, key |-> k, secret |-> s, limit |-> l, scope |-> w,
                             status |-> "active"]]]
      <4>1. PICK c \in Client : admin' = [admin EXCEPT ![a] = [pc |-> "name", new |-> c]]
        BY <3>2 DEF Client
      <4>2. [pc |-> "name", new |-> c] \in AdminCall
        BY DEF AdminCall
      <4> QED BY <4>1, <4>2 DEF ClientsTypeOK, AdminInv
    <3> QED BY <2>1, <3>1, <3>2 DEF CreateLooksForKey
  <2>2. CASE CreateLooksForName(a)
    <3>1. CASE Reply(a)
      BY <3>1, ReplyTypes
    <3>2. CASE admin' = [admin EXCEPT ![a].pc = "insert"]
      <4>1. admin[a] \in AdminCall /\ admin[a].new \in Client
        BY <2>2 DEF CreateLooksForName, ClientsTypeOK, AdminInv
      <4>2. [admin[a] EXCEPT !.pc = "insert"] \in AdminCall
        BY <4>1 DEF AdminCall
      <4>3. /\ [admin[a] EXCEPT !.pc = "insert"].new = admin[a].new
            /\ admin' = [admin EXCEPT ![a] = [admin[a] EXCEPT !.pc = "insert"]]
        BY <4>1, <3>2 DEF AdminCall, ClientsTypeOK
      <4> QED BY <4>1, <4>2, <4>3 DEF ClientsTypeOK, AdminInv
    <3> QED BY <2>2, <3>1, <3>2 DEF CreateLooksForName
  <2> QED BY <2>1, <2>2
<1> QED BY <1>1, <1>2, <1>3 DEF ClientsTypeOK

\* Its insert.
LEMMA InsertTypes ==
  ASSUME ClientsTypeOK, AdminInv, KeyInv, GrantInv, NEW a \in Admins, CreateInserts(a)
  PROVE  ClientsTypeOK' /\ AdminInv' /\ KeyInv' /\ GrantInv' /\ Grows
<1> DEFINE doc == admin[a].new
<1>1. doc \in Client /\ doc.key \in Keys /\ doc.id \in Names /\ doc.limit \in Limits
  BY DEF CreateInserts, AdminInv, Client
<1>2. admin' \in [Admins -> AdminCall] /\ AdminInv'
  BY ReplyTypes DEF CreateInserts
<1>3. CASE Duplicate(doc) /\ UNCHANGED <<clients, made, granted>>
  <2>1. KeyInv' /\ GrantInv' /\ Grows
    BY <1>3, ClientsAssumption DEF KeyInv, GrantInv,  Stored, Grows, ClientsTypeOK, CreateInserts
  <2> QED BY <1>2, <1>3, <2>1 DEF ClientsTypeOK, CreateInserts
<1>4. CASE /\ ~Duplicate(doc) /\ made < MaxClients
           /\ made' = made + 1
           /\ clients' = [clients EXCEPT ![made + 1] = doc]
           /\ granted' = [granted EXCEPT ![doc.id] = @ \union {Applied(doc.limit)}]
  <2>1. /\ made + 1 \in Docs /\ made \in Nat /\ made' \in 0..MaxClients /\ made <= made'
        /\ made' > made
    BY <1>4, ClientsAssumption DEF ClientsTypeOK, Docs
  <2>2. clients' \in [Docs -> Client \union {Null}]
    BY <1>1, <1>4, <2>1 DEF ClientsTypeOK
  <2>3. granted' \in [Names -> SUBSET Nat] /\ \A n \in Names : granted[n] \subseteq granted'[n]
    BY <1>1, <1>4, AppliedType DEF ClientsTypeOK
  <2>4. \A o \in Stored' : \/ o = made + 1 /\ clients'[o] = doc
                           \/ o # made + 1 /\ o \in Stored /\ clients'[o] = clients[o]
    BY <1>4, <2>1 DEF ClientsTypeOK, Stored
  <2>5. Grows
    BY <2>1, <2>3, <2>4 DEF Grows
  <2>6. indexed' = indexed
    BY DEF CreateInserts
  <2>7. KeyInv'
    BY <1>4, <2>4, <2>6 DEF KeyInv, Duplicate, WithKey
  <2>8. GrantInv'
    <3>1. Applied(doc.limit) \in granted'[doc.id]
      BY <1>1, <1>4 DEF ClientsTypeOK
    <3>2. \A o \in Stored : clients[o].id \in Names
      BY StoredTypes DEF Client
    <3> QED BY <2>3, <2>4, <3>1, <3>2 DEF GrantInv
  <2> QED BY <1>2, <2>1, <2>2, <2>3, <2>5, <2>6, <2>7, <2>8 DEF ClientsTypeOK
<1> QED BY <1>3, <1>4 DEF CreateInserts

\* update_proxy_client.
LEMMA UpdateTypes ==
  ASSUME ClientsTypeOK, AdminInv, KeyInv, GrantInv, NEW a \in Admins, Update(a)
  PROVE  ClientsTypeOK' /\ AdminInv' /\ KeyInv' /\ GrantInv' /\ Grows
<1>1. admin' \in [Admins -> AdminCall] /\ AdminInv'
  BY ReplyTypes DEF Update
<1>0. UNCHANGED <<made, indexed>>
  BY DEF Update
<1>2. UNCHANGED <<made, indexed>> /\ made <= made'
  BY <1>0, ClientsAssumption DEF ClientsTypeOK
<1>3. CASE UNCHANGED <<clients, granted>>
  <2>1. KeyInv' /\ GrantInv' /\ Grows
    BY <1>2, <1>3 DEF KeyInv, GrantInv, Stored, Grows
  <2> QED BY <1>1, <1>2, <1>3, <2>1 DEF ClientsTypeOK
<1>4. CASE \E n \in Names : SetFields(n)
  <2>0. PICK n \in Names : SetFields(n)
    BY <1>4
  <2>1. PICK o \in Held(n), s \in Secrets, l \in Limits, w \in Scopes,
             status \in {"active", "disabled"} :
            /\ clients' = [clients EXCEPT ![o] =
                 [@ EXCEPT !.secret = s, !.limit = l, !.scope = w, !.status = status]]
            /\ granted' = [granted EXCEPT ![n] = @ \union {Applied(l)}]
    BY <2>0 DEF SetFields
  <2>2. o \in Stored /\ o \in Docs /\ clients[o] \in Client
    BY StoredTypes DEF Held
  <2> DEFINE c == [clients[o] EXCEPT !.secret = s, !.limit = l, !.scope = w, !.status = status]
  <2>3. c \in Client /\ c.key = clients[o].key /\ c.id = n /\ c.limit = l
    BY <2>2 DEF Client, Held
  <2>4. clients' = [clients EXCEPT ![o] = c]
    BY <2>1
  <2> HIDE DEF c
  <2>5. clients' \in [Docs -> Client \union {Null}]
    BY <2>2, <2>3, <2>4 DEF ClientsTypeOK
  <2>6. granted' \in [Names -> SUBSET Nat] /\ \A m \in Names : granted[m] \subseteq granted'[m]
    BY <2>1, AppliedType DEF ClientsTypeOK
  <2>7. \A p \in Stored' : p \in Stored /\ clients'[p].key = clients[p].key
    BY <2>2, <2>3, <2>4 DEF ClientsTypeOK, Stored
  <2>8. KeyInv' /\ Grows
    BY <1>2, <2>6, <2>7 DEF KeyInv, Grows
  <2>9. GrantInv'
    <3>1. Applied(l) \in granted'[n]
      BY <2>1 DEF ClientsTypeOK
    <3>2. \A p \in Stored' : \/ p = o /\ clients'[p] = c
                             \/ p \in Stored /\ clients'[p] = clients[p]
      BY <2>2, <2>4 DEF ClientsTypeOK, Stored
    <3>3. \A p \in Stored : clients[p].id \in Names
      BY StoredTypes DEF Client
    <3> QED BY <2>3, <2>6, <3>1, <3>2, <3>3 DEF GrantInv
  <2> QED BY <1>1, <1>2, <2>5, <2>6, <2>8, <2>9 DEF ClientsTypeOK
<1> QED BY <1>3, <1>4 DEF Update

\* delete_proxy_client, and the index built by the other server.
LEMMA DeleteTypes ==
  ASSUME ClientsTypeOK, AdminInv, KeyInv, GrantInv, NEW a \in Admins, Delete(a)
  PROVE  ClientsTypeOK' /\ AdminInv' /\ KeyInv' /\ GrantInv' /\ Grows
<1>1. admin' \in [Admins -> AdminCall] /\ AdminInv'
  BY ReplyTypes DEF Delete
<1>2. UNCHANGED <<made, indexed, granted>> /\ made <= made'
  BY ClientsAssumption DEF Delete, ClientsTypeOK
<1>3. UNCHANGED clients \/ \E o \in Docs : clients' = [clients EXCEPT ![o] = Null]
  BY DEF Delete, Held, Stored
<1>4. /\ clients' \in [Docs -> Client \union {Null}]
      /\ \A p \in Stored' : p \in Stored /\ clients'[p] = clients[p]
  BY <1>3 DEF ClientsTypeOK, Stored
<1>5. KeyInv' /\ GrantInv' /\ Grows
  BY <1>2, <1>4 DEF KeyInv, GrantInv, Grows
<1> QED BY <1>1, <1>2, <1>4, <1>5 DEF ClientsTypeOK

\* ensure_indexes of the other server (server/app/db/indexes.py 60-61).
LEMMA BuildTypes ==
  ASSUME ClientsTypeOK, AdminInv, KeyInv, GrantInv, NEW field \in {"api_key", "client_id"},
         BuildIndex(field)
  PROVE  ClientsTypeOK' /\ AdminInv' /\ KeyInv' /\ GrantInv' /\ Grows
<1>1. UNCHANGED <<clients, made, granted, admin>> /\ made <= made'
  BY ClientsAssumption DEF BuildIndex, ClientsTypeOK
<1>2. Grows
  BY <1>1 DEF Grows, Stored
<1>3. KeyInv' /\ GrantInv'
  BY <1>1 DEF KeyInv, GrantInv, BuildIndex, Stored
<1> QED BY <1>1, <1>2, <1>3 DEF ClientsTypeOK, BuildIndex, AdminInv

\* Every step of the registry.
LEMMA ClientsStep ==
  ASSUME ClientsTypeOK, AdminInv, KeyInv, GrantInv, ClientsNext
  PROVE  ClientsTypeOK' /\ AdminInv' /\ KeyInv' /\ GrantInv' /\ Grows
BY LookTypes, InsertTypes, UpdateTypes, DeleteTypes, BuildTypes DEF ClientsNext

\* The registry as it is at the start.
LEMMA ClientsStart ==
  ASSUME ClientsInit
  PROVE  ClientsTypeOK /\ AdminInv /\ KeyInv /\ GrantInv
<1>1. /\ Len(Initial) \in Nat /\ MaxClients \in Nat /\ Len(Initial) <= MaxClients
      /\ \A o \in 1..Len(Initial) : Initial[o] \in Client /\ Initial[o].limit \in Limits
  <2>1. /\ Len(Initial) \in Nat /\ MaxClients \in Nat /\ Len(Initial) <= MaxClients
        /\ \A o \in 1..Len(Initial) : Initial[o] \in Client
    BY ClientsAssumption
  <2>2. \A c \in Client : c.limit \in Limits
    BY DEF Client
  <2> QED BY <2>1, <2>2
<1>2. clients \in [Docs -> Client \union {Null}]
  BY <1>1 DEF ClientsInit, Docs
<1>3. granted \in [Names -> SUBSET Nat]
  <2>1. \A o \in 1..Len(Initial) : Applied(Initial[o].limit) \in Nat
    BY <1>1, AppliedType
  <2> DEFINE S(n) == {Applied(Initial[o].limit) : o \in {p \in 1..Len(Initial) : Initial[p].id = n}}
  <2>2. \A n \in Names : S(n) \subseteq Nat
    BY <2>1
  <2>3. granted = [n \in Names |-> S(n)]
    BY DEF ClientsInit
  <2> HIDE DEF S
  <2> QED BY <2>2, <2>3
<1>4. admin \in [Admins -> AdminCall] /\ AdminInv
  BY DEF ClientsInit, AdminCall, AdminInv
<1>5. KeyInv
  <2>1. \A o \in Stored : o \in 1..Len(Initial) /\ clients[o] = Initial[o]
    BY <1>1 DEF Stored, ClientsInit, Docs
  <2> QED BY <2>1, ClientsAssumption DEF KeyInv
<1>6. GrantInv
  <2>1. \A o \in Stored : o \in 1..Len(Initial) /\ clients[o] = Initial[o]
    BY <1>1 DEF Stored, ClientsInit, Docs
  <2>2. \A o \in 1..Len(Initial) : Initial[o].id \in Names
    BY <1>1 DEF Client
  <2>3. ASSUME NEW o \in 1..Len(Initial)
        PROVE  Applied(Initial[o].limit) \in granted[Initial[o].id]
    <3> DEFINE n == Initial[o].id
    <3>1. o \in {p \in 1..Len(Initial) : Initial[p].id = n}
      OBVIOUS
    <3>2. granted[n] = {Applied(Initial[p].limit) : p \in {q \in 1..Len(Initial) : Initial[q].id = n}}
      BY <2>2 DEF ClientsInit
    <3> HIDE DEF n
    <3>3. Applied(Initial[o].limit) \in granted[n]
      BY <3>1, <3>2
    <3> QED BY <3>3 DEF n
  <2> QED BY <2>1, <2>3 DEF GrantInv
<1> QED BY <1>1, <1>2, <1>3, <1>4, <1>5, <1>6 DEF ClientsTypeOK, ClientsInit

-----------------------------------------------------------------------------
(* Types *)

RegistryInv == ClientsTypeOK /\ AdminInv /\ KeyInv /\ GrantInv

\* The clock and the times are natural numbers.
LEMMA Times ==
  /\ CounterLife \in Nat /\ CounterLife > 0 /\ MaxMinute \in Nat
  /\ MaxClients \in Nat /\ 0 \in Minutes
BY GatewayAssumption, ClientsAssumption DEF Minutes

\* A request nobody has sent is one.
LEMMA NoRequestType == NoRequest \in Request
BY Times DEF NoRequest, Request, Waiting, Answers

\* A step of a request touches the registry and the clock not at all, and one
\* request only.
LEMMA RequestSteps ==
  ASSUME NEW r \in Requests, RequestStep(r)
  PROVE  UNCHANGED clientVars /\ UNCHANGED minute
BY DEF RequestStep, Arrive, Identify, Count, LimiterFails, Authenticate, Breaks, GetToken, Post

\* A request is a request wherever its handler goes (middleware.py, auth.py).
LEMMA GotoType ==
  ASSUME TypeOK, NEW r \in Requests, NEW pc \in Waiting \union Answers, Goto(r, pc)
  PROVE  /\ request' \in [Requests -> Request]
         /\ request'[r] = [request[r] EXCEPT !.pc = pc]
         /\ \A s \in Requests \ {r} : request'[s] = request[s]
<1>1. request[r] \in Request /\ request' = [request EXCEPT ![r] = [request[r] EXCEPT !.pc = pc]]
  BY DEF TypeOK, Goto
<1>2. [request[r] EXCEPT !.pc = pc] \in Request
  BY <1>1 DEF Request
<1> QED BY <1>1, <1>2 DEF TypeOK

\* The counter a request is counted in takes one more, and the request may be late.
LEMMA IncrementType ==
  ASSUME TypeOK, NEW r \in Requests, Increment(r)
  PROVE  counters' \in [Names -> [Minutes -> Nat]] /\ late' \subseteq Requests
<1>1. \A n \in Names, w \in Minutes : counters[n][w] + 1 \in Nat
  BY DEF TypeOK
<1> QED BY <1>1 DEF TypeOK, Increment

\* What a request's steps do to it, field by field.
Untouched(q, p) ==
  /\ p.key = q.key
  /\ p.client = q.client /\ p.limit = q.limit /\ p.window = q.window
  /\ p.found = q.found /\ p.born = q.born /\ p.sure = q.sure

\* The limiter's look-up.
Looked(q, p) ==
  /\ p.key = q.key
  /\ p.rank = q.rank /\ p.doc = q.doc
  /\ p.born = made /\ p.sure = ("api_key" \in indexed)
  /\ \/ /\ WithKey(q.key) = {}
        /\ p.pc = "authenticate"
        /\ p.client = q.client /\ p.limit = q.limit /\ p.window = q.window /\ p.found = q.found
     \/ /\ p.found \in WithKey(q.key)
        /\ p.pc = "count" /\ p.client = clients[p.found].id /\ p.window = minute
        /\ p.limit = Applied(clients[p.found].limit)

\* One request changes, into a request.
Becomes(r, p) ==
  /\ p \in Request
  /\ request' \in [Requests -> Request]
  /\ request'[r] = p
  /\ \A s \in Requests \ {r} : request'[s] = request[s]

\* To replace a request by another is to become it.
LEMMA BecomesWhat ==
  ASSUME TypeOK, NEW r \in Requests, NEW p \in Request, request' = [request EXCEPT ![r] = p]
  PROVE  Becomes(r, p)
BY DEF Becomes, TypeOK

\* A request arrives (middleware.py 33-41).
LEMMA ArriveDoes ==
  ASSUME TypeOK, NEW r \in Requests, Arrive(r)
  PROVE  \E p : /\ Becomes(r, p)
                /\ p = [request[r] EXCEPT !.pc = p.pc, !.key = p.key]
                /\ \/ p.pc = "authenticate" /\ p.key = Null
                   \/ p.pc = "identify" /\ p.key \in Keys
<1>1. PICK k \in Keys \union {Null} :
        request' = [request EXCEPT ![r] =
         [@ EXCEPT !.pc = IF k = Null THEN "authenticate" ELSE "identify", !.key = k]]
  BY DEF Arrive
<1> DEFINE pc == IF k = Null THEN "authenticate" ELSE "identify"
           p == [request[r] EXCEPT !.pc = pc, !.key = k]
<1>a. pc \in {"authenticate", "identify"} /\ request[r] \in Request
  BY DEF TypeOK
<1>b. (pc = "authenticate" /\ k = Null) \/ (pc = "identify" /\ k \in Keys)
  OBVIOUS
<1> HIDE DEF pc
<1>2. p \in Request
  BY <1>a DEF Request, Waiting
<1>3. Becomes(r, p)
  BY <1>1, <1>2, BecomesWhat DEF pc
<1>4. /\ p = [request[r] EXCEPT !.pc = p.pc, !.key = p.key]
      /\ \/ p.pc = "authenticate" /\ p.key = Null
         \/ p.pc = "identify" /\ p.key \in Keys
  BY <1>a, <1>b DEF Request
<1> QED BY <1>3, <1>4

\* What the limiter's look-up leaves is a request.
LEMMA BornType ==
  ASSUME TypeOK, NEW q \in Request, NEW sure \in BOOLEAN
  PROVE  [q EXCEPT !.born = made, !.sure = sure] \in Request
BY DEF Request, TypeOK, ClientsTypeOK

\* What the limiter learns from a client it found is of its type.
LEMMA FoundType ==
  ASSUME TypeOK, NEW q \in Request, NEW o \in Docs, NEW n \in Names, NEW l \in Nat
  PROVE  [q EXCEPT !.pc = "count", !.client = n, !.found = o, !.limit = l,
                   !.window = minute] \in Request
<1>0. minute \in Minutes
  BY DEF TypeOK
<1>1. ASSUME NEW p \in Request PROVE [p EXCEPT !.limit = l, !.window = minute] \in Request
  <2>1. [p EXCEPT !.limit = l] \in Request
    BY DEF Request
  <2>2. ASSUME NEW x \in Request PROVE [x EXCEPT !.window = minute] \in Request
    BY <1>0 DEF Request
  <2> QED BY <2>1, <2>2
<1>2. [q EXCEPT !.pc = "count", !.client = n, !.found = o] \in Request
  BY DEF Request, Waiting
<1> QED BY <1>1, <1>2

\* The limiter's look-up leaves a request (middleware.py 43-57).
LEMMA LookedType ==
  ASSUME TypeOK, NEW r \in Requests, NEW sure \in BOOLEAN
  PROVE  /\ [request[r] EXCEPT !.pc = "authenticate", !.born = made, !.sure = sure] \in Request
         /\ \A o \in Docs, n \in Names, l \in Nat :
              [request[r] EXCEPT !.pc = "count", !.client = n, !.found = o, !.limit = l,
                                 !.window = minute, !.born = made, !.sure = sure] \in Request
<1>1. request[r] \in Request
  BY DEF TypeOK
<1>2. [request[r] EXCEPT !.pc = "authenticate"] \in Request
  BY <1>1 DEF Request, Waiting
<1>3. ASSUME NEW o \in Docs, NEW n \in Names, NEW l \in Nat
      PROVE  [request[r] EXCEPT !.pc = "count", !.client = n, !.found = o, !.limit = l,
                                 !.window = minute, !.born = made, !.sure = sure] \in Request
  <2> DEFINE p == [request[r] EXCEPT !.pc = "count", !.client = n, !.found = o, !.limit = l,
                                     !.window = minute]
  <2>1. p \in Request
    BY <1>1, FoundType
  <2> HIDE DEF p
  <2>2. [p EXCEPT !.born = made, !.sure = sure] \in Request
    BY <2>1, BornType
  <2> QED BY <2>2 DEF p
<1>4. [request[r] EXCEPT !.pc = "authenticate", !.born = made, !.sure = sure] \in Request
  BY <1>2, BornType
<1> QED BY <1>3, <1>4

\* The limiter looks the client up (middleware.py 43-57).
LEMMA IdentifyDoes ==
  ASSUME TypeOK, NEW r \in Requests, Identify(r)
  PROVE  \E p : Becomes(r, p) /\ Looked(request[r], p)
<1>1. CASE /\ WithKey(request[r].key) = {}
           /\ request' = [request EXCEPT ![r] =
                [@ EXCEPT !.pc = "authenticate", !.born = made, !.sure = "api_key" \in indexed]]
  <2> DEFINE p == [request[r] EXCEPT !.pc = "authenticate", !.born = made,
                                     !.sure = "api_key" \in indexed]
  <2>0. ("api_key" \in indexed) \in BOOLEAN
    OBVIOUS
  <2>1. p \in Request
    BY <2>0, LookedType, Zenon
  <2>2. Looked(request[r], p)
    BY <1>1 DEF TypeOK, Request, Looked
  <2> QED BY <1>1, <2>1, <2>2, BecomesWhat, Zenon
<1>2. CASE \E o \in WithKey(request[r].key) :
             request' = [request EXCEPT ![r] =
               [@ EXCEPT !.pc = "count", !.client = clients[o].id, !.found = o,
                         !.limit = Applied(clients[o].limit), !.window = minute,
                         !.born = made, !.sure = "api_key" \in indexed]]
  <2>1. PICK o \in WithKey(request[r].key) :
             request' = [request EXCEPT ![r] =
               [@ EXCEPT !.pc = "count", !.client = clients[o].id, !.found = o,
                         !.limit = Applied(clients[o].limit), !.window = minute,
                         !.born = made, !.sure = "api_key" \in indexed]]
    BY <1>2
  <2> DEFINE p == [request[r] EXCEPT !.pc = "count", !.client = clients[o].id, !.found = o,
                                     !.limit = Applied(clients[o].limit), !.window = minute,
                                     !.born = made, !.sure = "api_key" \in indexed]
  <2>2. o \in Docs /\ clients[o].id \in Names /\ Applied(clients[o].limit) \in Nat
    BY StoredTypes, AppliedType DEF TypeOK, WithKey, Client
  <2>3. ("api_key" \in indexed) \in BOOLEAN
    OBVIOUS
  <2>4. p \in Request
    BY <2>2, <2>3, LookedType, Zenon
  <2>5. Looked(request[r], p)
    BY <2>1 DEF TypeOK, Request, Looked
  <2> QED BY <2>1, <2>4, <2>5, BecomesWhat, Zenon
<1> QED BY <1>1, <1>2 DEF Identify

\* A step that changes pc, rank and doc only leaves all that is known of the client.
Moves(r, pc, rank, doc) ==
  request' = [request EXCEPT ![r] = [@ EXCEPT !.pc = pc, !.rank = rank, !.doc = doc]]

\* So do the steps behind it.
LEMMA LaterType ==
  ASSUME TypeOK, NEW r \in Requests, NEW pc \in Waiting \union Answers, NEW rank \in Nat,
         NEW doc \in Docs \union {0}, Moves(r, pc, rank, doc)
  PROVE  \E p : /\ Becomes(r, p) /\ Untouched(request[r], p)
                /\ p.pc = pc /\ p.rank = rank /\ p.doc = doc
<1> DEFINE p == [request[r] EXCEPT !.pc = pc, !.rank = rank, !.doc = doc]
<1>1. request[r] \in Request
  BY DEF TypeOK
<1>2. p \in Request
  BY <1>1 DEF Request
<1>3. Untouched(request[r], p) /\ p.pc = pc /\ p.rank = rank /\ p.doc = doc
  BY <1>1 DEF Request, Untouched
<1>4. Becomes(r, p)
  BY <1>2, BecomesWhat DEF Moves
<1> QED BY <1>3, <1>4

\* The next count of a request's counter is a number (middleware.py 60-69).
LEMMA RankType ==
  ASSUME TypeOK, NEW r \in Requests, request[r].client \in Names
  PROVE  Rank(r) \in Nat /\ Rank(r) > 0
BY DEF TypeOK, Rank, Request

\* The count, and the count whose answer is lost (middleware.py 60-78).
LEMMA CountDoes ==
  ASSUME TypeOK, NEW r \in Requests, request[r].client \in Names, Count(r)
  PROVE  \E p : /\ Becomes(r, p) /\ Untouched(request[r], p)
                /\ p.rank = Rank(r) /\ p.doc = request[r].doc
                /\ \/ p.pc = "429" /\ p.rank > p.limit
                   \/ p.pc = "authenticate" /\ p.rank <= p.limit
<1> DEFINE pc == IF Over(Rank(r), request[r].limit) THEN "429" ELSE "authenticate"
<1>1. request[r] \in Request /\ request[r].doc \in Docs \union {0} /\ request[r].limit \in Nat
  BY DEF TypeOK, Request
<1>2. pc \in Waiting \union Answers
  BY DEF Waiting, Answers
<1>3. Moves(r, pc, Rank(r), request[r].doc)
  <2>1. [request[r] EXCEPT !.rank = Rank(r), !.pc = pc]
          = [request[r] EXCEPT !.pc = pc, !.rank = Rank(r), !.doc = request[r].doc]
    BY <1>1 DEF Request
  <2> QED BY <2>1 DEF Count, Moves
<1>4. PICK p : /\ Becomes(r, p) /\ Untouched(request[r], p)
               /\ p.pc = pc /\ p.rank = Rank(r) /\ p.doc = request[r].doc
  <2> HIDE DEF pc
  <2> QED BY <1>1, <1>2, <1>3, RankType, LaterType
<1>5. \/ p.pc = "429" /\ p.rank > p.limit
      \/ p.pc = "authenticate" /\ p.rank <= p.limit
  BY <1>1, <1>4, RankType DEF Untouched, Over
<1> QED BY <1>4, <1>5

\* Steps that only go on to another place.
LEMMA GotoDoes ==
  ASSUME TypeOK, NEW r \in Requests, NEW pc \in Waiting \union Answers, Goto(r, pc)
  PROVE  \E p : /\ Becomes(r, p) /\ Untouched(request[r], p)
                /\ p.pc = pc /\ p.rank = request[r].rank /\ p.doc = request[r].doc
<1>1. request[r] \in Request
  BY DEF TypeOK
<1>2. request' = [request EXCEPT ![r] = [request[r] EXCEPT !.pc = pc]]
  BY <1>1 DEF Goto, TypeOK
<1> DEFINE p == [request[r] EXCEPT !.pc = pc]
<1>3. p \in Request
  BY <1>1 DEF Request
<1>4. Untouched(request[r], p) /\ p.pc = pc /\ p.rank = request[r].rank /\ p.doc = request[r].doc
  BY <1>1 DEF Request, Untouched
<1>5. Becomes(r, p)
  BY <1>2, <1>3, BecomesWhat
<1> QED BY <1>4, <1>5

\* A limiter that fails has counted the request or has not (middleware.py 43-68).
LEMMA LimiterFailsDoes ==
  ASSUME TypeOK, NEW r \in Requests, At(r, "count") => request[r].client \in Names,
         LimiterFails(r)
  PROVE  \E p : /\ Becomes(r, p) /\ Untouched(request[r], p) /\ p.pc = "error"
                /\ p.doc = request[r].doc
                /\ \/ p.rank = request[r].rank /\ UNCHANGED counts
                   \/ At(r, "count") /\ p.rank = Rank(r) /\ Increment(r)
<1>1. "error" \in Waiting \union Answers
  BY DEF Answers
<1>2. CASE Goto(r, "error") /\ UNCHANGED counts
  BY <1>1, <1>2, GotoDoes
<1>3. CASE /\ At(r, "count") /\ Increment(r)
           /\ request' = [request EXCEPT ![r] = [@ EXCEPT !.pc = "error", !.rank = Rank(r)]]
  <2>1. request[r] \in Request /\ request[r].doc \in Docs \union {0}
    BY DEF TypeOK, Request
  <2>2. Moves(r, "error", Rank(r), request[r].doc)
    BY <1>3, <2>1 DEF Request, Moves
  <2>3. PICK p : /\ Becomes(r, p) /\ Untouched(request[r], p)
                 /\ p.pc = "error" /\ p.rank = Rank(r) /\ p.doc = request[r].doc
    BY <1>1, <1>3, <2>1, <2>2, RankType, LaterType
  <2> QED BY <1>3, <2>3
<1> QED BY <1>2, <1>3 DEF LimiterFails

\* The authentication lets a request on as the client it found (auth.py 53-112).
LEMMA AuthenticateDoes ==
  ASSUME TypeOK, NEW r \in Requests, Authenticate(r)
  PROVE  \E p : /\ Becomes(r, p) /\ Untouched(request[r], p)
                /\ p.rank = request[r].rank
                /\ \/ p.pc \in {"401", "403"}
                   \/ p.pc = "token" /\ p.doc \in WithKey(request[r].key)
<1>1. request[r] \in Request /\ request[r].rank \in Nat
  BY DEF TypeOK, Request
<1>2. CASE Goto(r, "401")
  BY <1>2, GotoDoes DEF Answers
<1>3. CASE \E o \in WithKey(request[r].key), path \in Endpoints,
              secret \in Secrets \union {Null} :
             LET verdict == Verdict(path, secret, clients[o]) IN
             request' = [request EXCEPT ![r] =
               [@ EXCEPT !.pc = verdict, !.doc = IF verdict = "token" THEN o ELSE 0]]
  <2>1. PICK o \in WithKey(request[r].key), path \in Endpoints,
            secret \in Secrets \union {Null} :
             LET verdict == Verdict(path, secret, clients[o]) IN
             request' = [request EXCEPT ![r] =
               [@ EXCEPT !.pc = verdict, !.doc = IF verdict = "token" THEN o ELSE 0]]
    BY <1>3
  <2> DEFINE pc == Verdict(path, secret, clients[o])
             doc == IF pc = "token" THEN o ELSE 0
  <2>2. pc \in {"401", "403", "token"} /\ pc \in Waiting \union Answers
    BY DEF Verdict, Waiting, Answers
  <2>3. doc \in Docs \union {0}
    BY DEF WithKey, Stored
  <2>4. request' = [request EXCEPT ![r] = [@ EXCEPT !.pc = pc, !.doc = doc]]
    BY <2>1
  <2>5. pc = "token" => doc = o
    OBVIOUS
  <2> HIDE DEF pc, doc
  <2>6. Moves(r, pc, request[r].rank, doc)
    BY <1>1, <2>4 DEF Request, Moves
  <2>7. PICK p : /\ Becomes(r, p) /\ Untouched(request[r], p)
                 /\ p.pc = pc /\ p.rank = request[r].rank /\ p.doc = doc
    BY <1>1, <2>2, <2>3, <2>6, LaterType
  <2> QED BY <2>2, <2>5, <2>7
<1> QED BY <1>2, <1>3 DEF Authenticate

-----------------------------------------------------------------------------
(* The inductive invariant *)

\* Where the limiter has let a request through.
Passed == {"authenticate", "token", "post", "answered"}

\* A request on its way: it passes only with a rank within a limit its client was
\* given, and reaches Kingdee at the end.
Progress(q) ==
  /\ q.pc \in {"idle", "identify"} => q.client = Null /\ ~q.sure
  /\ q.client = Null => q.rank = 0 /\ q.found = 0
  /\ q.client # Null => q.limit \in granted[q.client] /\ q.window <= minute
  /\ q.pc = "count" => q.client # Null /\ q.rank = 0
  /\ q.pc \in Passed /\ q.client # Null => q.rank > 0 /\ q.rank <= q.limit
  /\ q.pc = "429" => q.client # Null /\ q.rank > q.limit

ProgressInv ==
  \A r \in Requests :
    /\ Progress(request[r])
    /\ r \in kingdee => request[r].pc = "answered"

\* The two look-ups: if keys were unique at the first, a document with the key is
\* the one it found, or was made after it.
Look(q) ==
  /\ q.born <= made
  /\ q.pc \notin {"idle", "identify"} /\ q.sure =>
       \A o \in WithKey(q.key) : o = q.found \/ o > q.born
  /\ q.pc \in {"token", "post", "answered"} /\ q.sure =>
       q.doc # 0 /\ (q.doc = q.found \/ q.doc > q.born)

LookInv == \A r \in Requests : Look(request[r])

\* The ranks of one counter: neither the counter nor a rank is above the number of
\* requests counted, and until the counter is due to go, no rank is above it.  Only
\* a request counted after that may share its rank with another.
RankInv ==
  /\ \A r \in late : request[r].rank > 0 /\ Due(request[r].window)
  /\ \A n \in Names, w \in Minutes :
       /\ counters[n][w] <= Cardinality(Counted(n, w))
       /\ \A r \in Counted(n, w) : /\ request[r].rank <= Cardinality(Counted(n, w))
                                   /\ ~Due(w) => request[r].rank <= counters[n][w]
       /\ \A r, s \in Counted(n, w) \ late : request[r].rank = request[s].rank => r = s

Inv == TypeOK /\ RegistryInv /\ ProgressInv /\ LookInv /\ RankInv

-----------------------------------------------------------------------------
(* Ranks *)

\* Any set of requests is finite, and so is what is counted.
LEMMA CountedFinite ==
  \A n, w : IsFiniteSet(Counted(n, w)) /\ Cardinality(Counted(n, w)) \in Nat
<1>1. \A S \in SUBSET Requests : IsFiniteSet(S) /\ Cardinality(S) \in Nat
  BY GatewayAssumption, FS_Subset, FS_CardinalityType
<1> QED BY <1>1 DEF Counted

\* A step that counts nobody leaves the ranks as they are.
LEMMA RanksStay ==
  ASSUME TypeOK, RankInv, UNCHANGED <<counters, late, minute>>,
         \A s \in Requests :
           \/ request'[s].rank = 0 /\ request[s].rank = 0
           \/ /\ request'[s].rank = request[s].rank /\ request'[s].client = request[s].client
              /\ request'[s].window = request[s].window
  PROVE  RankInv'
<1>1. ASSUME NEW n \in Names, NEW w \in Minutes
      PROVE  /\ Counted(n, w)' = Counted(n, w)
             /\ \A s \in Counted(n, w) : request'[s].rank = request[s].rank
  BY DEF Counted
<1>2. ASSUME NEW s \in late
      PROVE  request'[s].rank > 0 /\ request'[s].window = request[s].window
  BY DEF RankInv, TypeOK
<1> QED BY <1>1, <1>2 DEF RankInv, Due

\* Until the counter of its minute is due to go, a count gives a rank nobody has: the
\* counter is still the one that counted all others (middleware.py 56-69).
LEMMA RankIsNew ==
  ASSUME Inv, NEW r \in Requests, At(r, "count"), NEW n, NEW w,
         n = request[r].client, w = request[r].window
  PROVE  /\ n \in Names /\ w \in Minutes /\ request[r].rank = 0 /\ r \notin late
         /\ Rank(r) = counters[n][w] + 1 /\ counters[n][w] \in Nat
         /\ ~Due(w) => \A s \in Counted(n, w) : request[s].rank < Rank(r) /\ s \notin late
<1>1. n # Null /\ request[r].rank = 0
  BY DEF Inv, ProgressInv, Progress, At
<1>2. n \in Names /\ w \in Minutes /\ r \notin late
  BY <1>1 DEF Inv, TypeOK, Request, RankInv
<1>3. counters[n][w] \in Nat /\ Rank(r) = counters[n][w] + 1
  BY <1>2 DEF Inv, TypeOK, Rank
<1>4. ASSUME ~Due(w), NEW s \in Counted(n, w)
      PROVE  /\ request[s].rank <= counters[n][w] /\ request[s].rank \in Nat
             /\ s \notin late
  BY <1>2, <1>4 DEF Inv, RankInv, TypeOK, Request, Counted
<1> QED BY <1>1, <1>2, <1>3, <1>4

\* A count adds the request to those counted, and one to their number.
LEMMA CountedGrows ==
  ASSUME Inv, NEW r \in Requests, At(r, "count"),
         NEW p, Becomes(r, p), Untouched(request[r], p), p.rank = Rank(r),
         NEW n \in Names, NEW w \in Minutes
  PROVE  IF n = request[r].client /\ w = request[r].window
         THEN /\ Counted(n, w)' = Counted(n, w) \union {r}
              /\ Cardinality(Counted(n, w)') = Cardinality(Counted(n, w)) + 1
         ELSE Counted(n, w)' = Counted(n, w)
<1>1. \A s \in Requests \ {r} : request'[s] = request[s]
  BY DEF Becomes
<1>2. /\ request'[r].client = request[r].client /\ request'[r].window = request[r].window
      /\ request'[r].rank > 0 /\ request[r].rank = 0
  BY RankIsNew DEF Becomes, Untouched
<1>3. CASE n = request[r].client /\ w = request[r].window
  <2>1. Counted(n, w)' = Counted(n, w) \union {r}
    BY <1>1, <1>2, <1>3 DEF Counted
  <2>2. r \notin Counted(n, w)
    BY <1>2 DEF Counted
  <2>3. Cardinality(Counted(n, w) \union {r}) = Cardinality(Counted(n, w)) + 1
    BY <2>2, CountedFinite, FS_AddElement
  <2> QED BY <1>3, <2>1, <2>3
<1>4. CASE ~(n = request[r].client /\ w = request[r].window)
  BY <1>1, <1>2, <1>4 DEF Counted
<1> QED BY <1>3, <1>4

\* A count keeps the ranks in order, and tells who is late.
LEMMA RanksGrow ==
  ASSUME Inv, NEW r \in Requests, At(r, "count"), Increment(r), UNCHANGED minute,
         NEW p, Becomes(r, p), Untouched(request[r], p), p.rank = Rank(r)
  PROVE  RankInv'
<1>1. /\ \A s \in Requests \ {r} : request'[s] = request[s]
      /\ request'[r].rank = Rank(r) /\ request'[r].window = request[r].window
  BY DEF Becomes, Untouched
<1>2. \A w : Due(w)' <=> Due(w)
  BY DEF Due
<1>3. /\ request[r].client \in Names /\ request[r].window \in Minutes /\ r \notin late
      /\ Rank(r) \in Nat /\ Rank(r) > 0
  BY RankIsNew
<1>4. ASSUME NEW s \in late' PROVE request'[s].rank > 0 /\ Due(request'[s].window)
  <2>1. CASE s = r
    BY <1>1, <1>3, <1>4, <2>1 DEF Increment
  <2>2. CASE s # r
    BY <1>1, <1>4, <2>2 DEF Increment, Inv, TypeOK, RankInv
  <2> QED BY <2>1, <2>2
<1>5. ASSUME NEW n \in Names, NEW w \in Minutes
      PROVE  /\ counters'[n][w] <= Cardinality(Counted(n, w)')
             /\ \A s \in Counted(n, w)' : /\ request'[s].rank <= Cardinality(Counted(n, w)')
                                          /\ ~Due(w) => request'[s].rank <= counters'[n][w]
             /\ \A s, t \in Counted(n, w)' \ late' : request'[s].rank = request'[t].rank => s = t
  <2>1. \A s \in Counted(n, w) : request[s].rank \in Nat /\ s \in Requests
    BY DEF Inv, TypeOK, Request, Counted
  <2>2. /\ counters[n][w] <= Cardinality(Counted(n, w))
        /\ \A s \in Counted(n, w) : /\ request[s].rank <= Cardinality(Counted(n, w))
                                    /\ ~Due(w) => request[s].rank <= counters[n][w]
        /\ \A s, t \in Counted(n, w) \ late : request[s].rank = request[t].rank => s = t
    BY DEF Inv, RankInv
  <2>3. Cardinality(Counted(n, w)) \in Nat
    BY CountedFinite
  <2>4. CASE n = request[r].client /\ w = request[r].window
    <3>1. /\ Rank(r) = counters[n][w] + 1 /\ counters[n][w] \in Nat
          /\ ~Due(w) => \A s \in Counted(n, w) : request[s].rank < Rank(r)
          /\ r \notin Counted(n, w)
      BY <2>4, RankIsNew DEF Counted
    <3>2. counters'[n][w] = Rank(r)
      BY <1>3, <2>4, <3>1 DEF Increment, Inv, TypeOK
    <3>3. /\ Counted(n, w)' = Counted(n, w) \union {r}
          /\ Cardinality(Counted(n, w)') = Cardinality(Counted(n, w)) + 1
      BY <2>4, CountedGrows
    <3>4. \A s \in Counted(n, w) : request'[s].rank = request[s].rank
      BY <1>1, <2>1, <3>1
    <3>5. \A s \in Counted(n, w)' : \/ s = r /\ request'[s].rank = Rank(r)
                                    \/ s \in Counted(n, w) /\ request'[s].rank = request[s].rank
      BY <1>1, <3>3, <3>4
    <3>6. counters'[n][w] <= Cardinality(Counted(n, w)')
      BY <2>2, <2>3, <3>1, <3>2, <3>3
    <3>7. \A s \in Counted(n, w)' : /\ request'[s].rank <= Cardinality(Counted(n, w)')
                                    /\ ~Due(w) => request'[s].rank <= counters'[n][w]
      BY <2>1, <2>2, <2>3, <3>1, <3>2, <3>3, <3>5
    <3>8. ASSUME NEW s \in Counted(n, w)' \ late', NEW t \in Counted(n, w)' \ late',
                 request'[s].rank = request'[t].rank
          PROVE  s = t
      <4>1. CASE Due(w)
        BY <2>2, <2>4, <3>3, <3>4, <3>8, <4>1 DEF Increment
      <4>2. CASE ~Due(w)
        <5>1. late' = late
          BY <2>4, <4>2 DEF Increment
        <5>2. \A q \in Counted(n, w) : request[q].rank # Rank(r)
          BY <2>1, <3>1, <4>2
        <5> QED BY <2>2, <3>5, <3>8, <5>1, <5>2
      <4> QED BY <4>1, <4>2
    <3> QED BY <3>6, <3>7, <3>8
  <2>5. CASE ~(n = request[r].client /\ w = request[r].window)
    <3>1. Counted(n, w)' = Counted(n, w)
      BY <2>5, CountedGrows
    <3>2. counters'[n][w] = counters[n][w] /\ late \subseteq late'
      BY <1>3, <2>5 DEF Increment, Inv, TypeOK
    <3>3. r \notin Counted(n, w)
      BY <2>5 DEF Counted
    <3>4. \A s \in Counted(n, w) : request'[s].rank = request[s].rank
      BY <1>1, <2>1, <3>3
    <3> QED BY <2>2, <3>1, <3>2, <3>4
  <2> QED BY <2>4, <2>5
<1> QED BY <1>2, <1>4, <1>5 DEF RankInv

-----------------------------------------------------------------------------
(* Every step *)

\* A step of the registry.
LEMMA RegistryKeepsInv ==
  ASSUME Inv, ClientsNext, UNCHANGED gatewayVars
  PROVE  Inv'
<1>1. RegistryInv' /\ Grows
  BY ClientsStep DEF Inv, RegistryInv
<1>2. UNCHANGED <<minute, counters, late, request, kingdee>>
  BY DEF gatewayVars, counts
<1>3. TypeOK'
  BY <1>1, <1>2 DEF Inv, TypeOK, RegistryInv
<1>4. \A r \in Requests : request[r] \in Request
  BY DEF Inv, TypeOK
<1>5. ProgressInv'
  <2>1. \A r \in Requests : request[r].client # Null => request[r].client \in Names
    BY <1>4 DEF Request
  <2>2. \A r \in Requests : request[r].client # Null /\ request[r].limit \in granted[request[r].client]
          => request[r].limit \in granted'[request[r].client]
    BY <1>1, <2>1 DEF Grows
  <2> QED BY <1>2, <2>2 DEF Inv, ProgressInv, Progress
<1>6. LookInv'
  <2>1. \A k : \A o \in WithKey(k)' : o \in WithKey(k) \/ o > made
    BY <1>1 DEF Grows, WithKey
  <2>2. \A o \in Stored' : o \in Nat
    BY <1>3 DEF Stored, Docs
  <2>3. made \in Nat /\ made' \in Nat /\ made <= made'
    BY <1>1, <1>3, Times DEF Grows, Inv, TypeOK, ClientsTypeOK
  <2>4. \A r \in Requests : request[r].born \in Nat
    BY <1>4, Times DEF Request
  <2>5. \A k : \A o \in WithKey(k)' : o \in Nat
    BY <2>2 DEF WithKey
  <2> QED BY <1>2, <2>1, <2>3, <2>4, <2>5 DEF Inv, LookInv, Look
<1>7. RankInv'
  BY <1>2, RanksStay DEF Inv
<1> QED BY <1>1, <1>3, <1>5, <1>6, <1>7 DEF Inv

\* A step of one request that the registry and the clock sit out: what is left to
\* show is about that request, the counters and Kingdee.
LEMMA OneRequest ==
  ASSUME Inv, NEW r \in Requests, UNCHANGED clientVars, UNCHANGED minute,
         NEW p, Becomes(r, p), Progress(p), Look(p), RankInv',
         UNCHANGED counts \/ Increment(r),
         \/ UNCHANGED kingdee /\ r \notin kingdee
         \/ kingdee' \in {kingdee, kingdee \union {r}} /\ p.pc = "answered"
  PROVE  Inv'
<1>1. UNCHANGED <<clients, made, indexed, granted, admin>>
  BY DEF clientVars
<1>2. RegistryInv' /\ ClientsTypeOK'
  BY <1>1 DEF Inv, RegistryInv, ClientsTypeOK, AdminInv, KeyInv, GrantInv, Stored
<1>3. TypeOK'
  <2>1. counters' \in [Names -> [Minutes -> Nat]] /\ late' \subseteq Requests
    BY IncrementType DEF Inv, TypeOK, counts
  <2> QED BY <1>2, <2>1 DEF Inv, TypeOK, Becomes
<1>4. /\ \A s \in Requests \ {r} : request'[s] = request[s]
      /\ request'[r] = p
  BY DEF Becomes
<1>5. ProgressInv'
  <2>1. ASSUME NEW s \in Requests
        PROVE  /\ Progress(request[s])'
               /\ s \in kingdee' => request'[s].pc = "answered"
    <3>1. Progress(request[s])' <=> Progress(request'[s])
      BY <1>1 DEF Progress
    <3>2. s # r => /\ Progress(request[s])
                   /\ s \in kingdee => request[s].pc = "answered"
      BY DEF Inv, ProgressInv
    <3> QED BY <1>4, <3>1, <3>2
  <2> QED BY <2>1 DEF ProgressInv
<1>6. LookInv'
  <2>1. ASSUME NEW s \in Requests PROVE Look(request[s])'
    <3>1. Look(request[s])' <=> Look(request'[s])
      BY <1>1 DEF Look, WithKey, Stored
    <3>2. s # r => Look(request[s])
      BY DEF Inv, LookInv
    <3> QED BY <1>4, <3>1, <3>2
  <2> QED BY <2>1 DEF LookInv
<1> QED BY <1>2, <1>3, <1>5, <1>6 DEF Inv

\* What is known of a request before it takes a step.
LEMMA RequestFacts ==
  ASSUME Inv, NEW r \in Requests
  PROVE  /\ request[r] \in Request /\ Progress(request[r]) /\ Look(request[r])
         /\ request[r].pc # "answered" => r \notin kingdee
         /\ TypeOK /\ RankInv
         /\ request[r].client # Null => request[r].client \in Names
BY DEF Inv, ProgressInv, LookInv, TypeOK, Request

\* A request that has not been counted, or keeps its rank, client and window, leaves
\* the ranks alone.
LEMMA RankKept ==
  ASSUME Inv, NEW r \in Requests, NEW p, Becomes(r, p), UNCHANGED <<counts, minute>>,
         \/ p.rank = 0 /\ request[r].rank = 0
         \/ p.rank = request[r].rank /\ Untouched(request[r], p)
  PROVE  RankInv'
BY RanksStay DEF Inv, Becomes, Untouched, counts

\* A request arrives (middleware.py 33-41).
LEMMA ArriveKeepsInv ==
  ASSUME Inv, NEW r \in Requests, Arrive(r)
  PROVE  Inv'
<1>1. /\ request[r].pc = "idle" /\ UNCHANGED clientVars
      /\ UNCHANGED minute /\ UNCHANGED counts /\ UNCHANGED kingdee
  BY DEF Arrive, At
<1>2. PICK p : /\ Becomes(r, p)
               /\ p = [request[r] EXCEPT !.pc = p.pc, !.key = p.key]
               /\ \/ p.pc = "authenticate" /\ p.key = Null
                  \/ p.pc = "identify" /\ p.key \in Keys
  BY RequestFacts, ArriveDoes
<1>3. /\ p.client = request[r].client /\ p.limit = request[r].limit
      /\ p.window = request[r].window /\ p.rank = request[r].rank /\ p.found = request[r].found
      /\ p.doc = request[r].doc /\ p.born = request[r].born /\ p.sure = request[r].sure
  BY <1>2, RequestFacts DEF Request
<1>4. p.client = Null /\ p.rank = 0 /\ p.found = 0 /\ ~p.sure /\ p.born <= made
  BY <1>1, <1>3, RequestFacts DEF Progress, Look
<1>5. Progress(p)
  BY <1>2, <1>4 DEF Progress
<1>6. Look(p)
  BY <1>2, <1>4 DEF Look
<1>7. RankInv'
  BY <1>1, <1>2, <1>3, <1>4, RankKept
<1> QED BY <1>1, <1>2, <1>5, <1>6, <1>7, OneRequest, RequestFacts

\* The limiter's look-up (middleware.py 43-57).
LEMMA IdentifyKeepsInv ==
  ASSUME Inv, NEW r \in Requests, Identify(r)
  PROVE  Inv'
<1>1. /\ request[r].pc = "identify" /\ UNCHANGED clientVars
      /\ UNCHANGED minute /\ UNCHANGED counts /\ UNCHANGED kingdee
  BY DEF Identify, At
<1>2. PICK p : Becomes(r, p) /\ Looked(request[r], p)
  BY RequestFacts, IdentifyDoes
<1>3. /\ request[r].client = Null /\ request[r].rank = 0 /\ request[r].found = 0
      /\ p.rank = 0 /\ p.key = request[r].key /\ p.born = made
      /\ p.sure = ("api_key" \in indexed)
  BY <1>1, <1>2, RequestFacts DEF Progress, Looked
<1>4. made \in Nat /\ minute \in Nat
  BY Times DEF Inv, TypeOK, ClientsTypeOK, Minutes
<1>5. CASE p.pc = "authenticate"
  <2>1. WithKey(p.key) = {} /\ p.client = Null /\ p.found = 0
    BY <1>2, <1>3, <1>5 DEF Looked
  <2>2. Progress(p)
    BY <1>3, <1>5, <2>1 DEF Progress
  <2>3. Look(p)
    BY <1>3, <1>4, <1>5, <2>1 DEF Look
  <2>4. RankInv'
    BY <1>1, <1>2, <1>3, RankKept
  <2> QED BY <1>1, <1>2, <2>2, <2>3, <2>4, OneRequest, RequestFacts
<1>6. CASE p.pc = "count"
  <2>1. /\ p.found \in WithKey(p.key) /\ p.client = clients[p.found].id /\ p.window = minute
        /\ p.limit = Applied(clients[p.found].limit)
    BY <1>2, <1>3, <1>6 DEF Looked
  <2>2. p.found \in Stored /\ clients[p.found] \in Client /\ p.found # 0
    BY <2>1, StoredTypes DEF Inv, TypeOK, WithKey, Docs
  <2>3. p.client # Null /\ p.limit \in granted[p.client]
    BY <2>1, <2>2, ClientsAssumption DEF Client, Inv, RegistryInv, GrantInv
  <2>4. Progress(p)
    BY <1>3, <1>4, <1>6, <2>1, <2>3 DEF Progress, Passed
  <2>5. "api_key" \in indexed => \A o \in WithKey(p.key) : o = p.found
    BY <2>1 DEF Inv, RegistryInv, KeyInv, WithKey
  <2>6. Look(p)
    <3>1. p.sure => \A o \in WithKey(p.key) : o = p.found
      BY <1>3, <2>5, Zenon
    <3>2. p.born <= made
      BY <1>3, <1>4
    <3> QED BY <1>6, <3>1, <3>2 DEF Look
  <2>7. RankInv'
    BY <1>1, <1>2, <1>3, RankKept
  <2> QED BY <1>1, <1>2, <2>4, <2>6, <2>7, OneRequest, RequestFacts
<1> QED BY <1>2, <1>5, <1>6 DEF Looked

\* The count (middleware.py 60-78).
LEMMA CountKeepsInv ==
  ASSUME Inv, NEW r \in Requests, Count(r)
  PROVE  Inv'
<1>1. /\ request[r].pc = "count" /\ At(r, "count") /\ Increment(r) /\ UNCHANGED clientVars
      /\ UNCHANGED minute /\ UNCHANGED kingdee
  BY DEF Count, At
<1>2. request[r].client \in Names /\ request[r].sure \in BOOLEAN
  BY <1>1, RequestFacts DEF Progress, Request
<1>3. PICK p : /\ Becomes(r, p) /\ Untouched(request[r], p)
               /\ p.rank = Rank(r) /\ p.doc = request[r].doc
               /\ \/ p.pc = "429" /\ p.rank > p.limit
                  \/ p.pc = "authenticate" /\ p.rank <= p.limit
  BY <1>2, RequestFacts, CountDoes
<1>4. Rank(r) > 0 /\ p.client # Null
  BY <1>1, <1>2, <1>3, RequestFacts, RankType DEF Untouched, Progress
<1>5. Progress(p)
  BY <1>1, <1>3, <1>4, RequestFacts DEF Progress, Untouched, Passed
<1>6. Look(p)
  BY <1>1, <1>3, RequestFacts DEF Look, Untouched
<1>7. RankInv'
  BY <1>1, <1>3, RanksGrow
<1> QED BY <1>1, <1>3, <1>5, <1>6, <1>7, OneRequest, RequestFacts

\* The limiter fails (middleware.py 43-68).
LEMMA LimiterFailsKeepsInv ==
  ASSUME Inv, NEW r \in Requests, LimiterFails(r)
  PROVE  Inv'
<1>1. /\ request[r].pc \in {"identify", "count"} /\ UNCHANGED clientVars
      /\ UNCHANGED minute /\ UNCHANGED kingdee
  BY DEF LimiterFails, At
<1>2. At(r, "count") => request[r].client \in Names
  BY RequestFacts DEF Progress, At
<1>3. PICK p : /\ Becomes(r, p) /\ Untouched(request[r], p) /\ p.pc = "error"
               /\ p.doc = request[r].doc
               /\ \/ p.rank = request[r].rank /\ UNCHANGED counts
                  \/ At(r, "count") /\ p.rank = Rank(r) /\ Increment(r)
  BY <1>2, RequestFacts, LimiterFailsDoes
<1>4. request[r].pc = "identify" => ~request[r].sure
  BY RequestFacts DEF Progress
<1>5. Look(p)
  BY <1>1, <1>3, <1>4, RequestFacts DEF Look, Untouched
<1>6. CASE p.rank = request[r].rank /\ UNCHANGED counts
  <2>1. Progress(p)
    BY <1>1, <1>3, <1>6, RequestFacts DEF Progress, Untouched, Passed
  <2>2. RankInv'
    BY <1>1, <1>3, <1>6, RankKept
  <2> QED BY <1>1, <1>3, <1>5, <1>6, <2>1, <2>2, OneRequest, RequestFacts
<1>7. CASE At(r, "count") /\ p.rank = Rank(r) /\ Increment(r)
  <2>1. p.client # Null
    BY <1>3, <1>7, RequestFacts DEF Progress, Untouched, At
  <2>2. Progress(p)
    BY <1>1, <1>3, <2>1, RequestFacts DEF Progress, Untouched, Passed
  <2>3. RankInv'
    BY <1>1, <1>3, <1>7, RanksGrow
  <2> QED BY <1>1, <1>3, <1>5, <1>7, <2>2, <2>3, OneRequest, RequestFacts
<1> QED BY <1>3, <1>6, <1>7

\* The authentication (auth.py 53-112).
LEMMA AuthenticateKeepsInv ==
  ASSUME Inv, NEW r \in Requests, Authenticate(r)
  PROVE  Inv'
<1>1. /\ request[r].pc = "authenticate" /\ UNCHANGED clientVars
      /\ UNCHANGED minute /\ UNCHANGED counts /\ UNCHANGED kingdee
  BY DEF Authenticate, At
<1>2. PICK p : /\ Becomes(r, p) /\ Untouched(request[r], p)
               /\ p.rank = request[r].rank
               /\ \/ p.pc \in {"401", "403"}
                  \/ p.pc = "token" /\ p.doc \in WithKey(request[r].key)
  BY RequestFacts, AuthenticateDoes
<1>3. Progress(p)
  BY <1>1, <1>2, RequestFacts DEF Progress, Untouched, Passed
<1>4. p.doc \in WithKey(request[r].key) => p.doc # 0
  BY DEF WithKey, Stored, Docs
<1>5. Look(p)
  BY <1>1, <1>2, <1>4, RequestFacts DEF Look, Untouched
<1>6. RankInv'
  BY <1>1, <1>2, RankKept
<1> QED BY <1>1, <1>2, <1>3, <1>5, <1>6, OneRequest, RequestFacts

\* A request goes on, or ends, behind the authentication (auth.py 72-76; the
\* handlers; kdcloud_client.py 199-223).
LEMMA BehindKeepsInv ==
  ASSUME Inv, NEW r \in Requests, Breaks(r) \/ GetToken(r) \/ Post(r)
  PROVE  Inv'
<1>1. /\ request[r].pc \in {"authenticate", "token", "post"} /\ UNCHANGED clientVars
      /\ UNCHANGED minute /\ UNCHANGED counts
  BY DEF Breaks, GetToken, Post, At
<1>2. \E pc \in {"error", "post", "answered"} :
        /\ Goto(r, pc)
        /\ pc = "post" => request[r].pc = "token"
        /\ pc = "answered" => request[r].pc = "post"
        /\ \/ UNCHANGED kingdee /\ pc \in {"error", "post"}
           \/ kingdee' \in {kingdee, kingdee \union {r}} /\ pc = "answered"
  BY DEF Breaks, GetToken, Post, At
<1>3. PICK pc \in {"error", "post", "answered"} :
        /\ Goto(r, pc)
        /\ pc = "post" => request[r].pc = "token"
        /\ pc = "answered" => request[r].pc = "post"
        /\ \/ UNCHANGED kingdee /\ pc \in {"error", "post"}
           \/ kingdee' \in {kingdee, kingdee \union {r}} /\ pc = "answered"
  BY <1>2
<1>4. PICK p : /\ Becomes(r, p) /\ Untouched(request[r], p)
               /\ p.pc = pc /\ p.rank = request[r].rank /\ p.doc = request[r].doc
  BY <1>3, RequestFacts, GotoDoes DEF Waiting, Answers
<1>5. Progress(p)
  BY <1>1, <1>3, <1>4, RequestFacts DEF Progress, Untouched, Passed
<1>6. Look(p)
  BY <1>1, <1>3, <1>4, RequestFacts DEF Look, Untouched
<1>7. RankInv'
  BY <1>1, <1>4, RankKept
<1>8. r \notin kingdee
  BY <1>1, RequestFacts
<1> QED BY <1>1, <1>3, <1>4, <1>5, <1>6, <1>7, <1>8, OneRequest, RequestFacts

\* A minute passes.
LEMMA TickKeepsInv ==
  ASSUME Inv, Tick
  PROVE  Inv'
<1>1. /\ UNCHANGED <<clients, made, indexed, granted, admin, counters, late, request, kingdee>>
      /\ minute' = minute + 1 /\ minute < MaxMinute /\ minute \in Nat /\ minute' \in Minutes
  BY Times DEF Tick, clientVars, counts, Inv, TypeOK, Minutes
<1>2. RegistryInv' /\ TypeOK' /\ LookInv'
  BY <1>1 DEF Inv, RegistryInv, TypeOK, ClientsTypeOK, AdminInv, KeyInv, GrantInv, Stored,
              LookInv, Look, WithKey
<1>3. ProgressInv'
  <2>1. ASSUME NEW r \in Requests
        PROVE  /\ Progress(request[r])'
               /\ r \in kingdee' => request'[r].pc = "answered"
    <3>1. request[r].window \in Nat
      BY RequestFacts DEF Request, Minutes
    <3>2. request[r].window <= minute => request[r].window <= minute'
      BY <1>1, <3>1
    <3> QED BY <1>1, <3>2 DEF Inv, ProgressInv, Progress
  <2> QED BY <2>1 DEF ProgressInv
<1>4. RankInv'
  <2>1. \A w \in Minutes : Due(w) => Due(w)'
    BY <1>1, Times DEF Minutes, Due
  <2>2. \A n, w : Counted(n, w)' = Counted(n, w)
    BY <1>1 DEF Counted
  <2>3. \A r \in late : request[r].window \in Minutes /\ Due(request[r].window)
    BY DEF Inv, RankInv, TypeOK, Request
  <2>4. \A r \in late' : request'[r].rank > 0 /\ Due(request[r].window)'
    BY <1>1, <2>1, <2>3 DEF Inv, RankInv
  <2> QED BY <1>1, <2>1, <2>2, <2>4 DEF Inv, RankInv
<1> QED BY <1>2, <1>3, <1>4 DEF Inv

\* A counter is removed (server/app/db/indexes.py 72-76).
LEMMA ExpireKeepsInv ==
  ASSUME Inv, NEW n \in Names, NEW w \in Minutes, Expire(n, w)
  PROVE  Inv'
<1>1. /\ UNCHANGED <<clients, made, indexed, granted, admin, minute, late, request, kingdee>>
      /\ counters' = [counters EXCEPT ![n][w] = 0] /\ Due(w)
  BY DEF Expire, clientVars
<1>2. RegistryInv' /\ LookInv' /\ ProgressInv'
  BY <1>1 DEF Inv, RegistryInv, ClientsTypeOK, AdminInv, KeyInv, GrantInv, Stored,
              LookInv, Look, WithKey, ProgressInv, Progress
<1>3. TypeOK'
  BY <1>1 DEF Inv, TypeOK, ClientsTypeOK
<1>4. RankInv'
  <2>1. ASSUME NEW m \in Names, NEW v \in Minutes
        PROVE  counters'[m][v] = IF m = n /\ v = w THEN 0 ELSE counters[m][v]
    BY <1>1 DEF Inv, TypeOK
  <2>0. \A m, v : Counted(m, v)' = Counted(m, v)
    BY <1>1 DEF Counted
  <2>2. \A m, v : Counted(m, v)' = Counted(m, v) /\ Cardinality(Counted(m, v)) \in Nat
    BY <2>0, CountedFinite
  <2>3. ASSUME NEW m \in Names, NEW v \in Minutes
        PROVE  /\ counters'[m][v] <= Cardinality(Counted(m, v))
               /\ \A r \in Counted(m, v) :
                    /\ request[r].rank <= Cardinality(Counted(m, v))
                    /\ ~Due(v) => request[r].rank <= counters'[m][v]
               /\ \A r, s \in Counted(m, v) \ late : request[r].rank = request[s].rank => r = s
    <3>1. Cardinality(Counted(m, v)) \in Nat
      BY <2>2
    <3> QED BY <1>1, <2>1, <3>1 DEF Inv, RankInv
  <2>4. \A v : Due(v)' <=> Due(v)
    BY <1>1 DEF Due
  <2> QED BY <1>1, <2>2, <2>3, <2>4 DEF Inv, RankInv
<1> QED BY <1>2, <1>3, <1>4 DEF Inv

-----------------------------------------------------------------------------
(* The theorems *)

\* The invariant holds at the start.
LEMMA InvInit ==
  ASSUME Init
  PROVE  Inv
<1>1. RegistryInv
  BY ClientsStart DEF Init, RegistryInv
<1>2. TypeOK
  BY <1>1, NoRequestType, Times DEF Init, TypeOK, RegistryInv
<1>3. \A r \in Requests : request[r] = NoRequest
  BY DEF Init
<1>4. made \in Nat
  BY <1>2, Times DEF TypeOK, ClientsTypeOK
<1>5. ProgressInv
  BY <1>3 DEF ProgressInv, Progress, NoRequest, Passed, Init
<1>6. LookInv
  BY <1>3, <1>4 DEF LookInv, Look, NoRequest
<1>7. RankInv
  <2>1. \A n, w : Counted(n, w) = {}
    BY <1>3 DEF Counted, NoRequest
  <2>2. \A n \in Names, w \in Minutes : counters[n][w] = 0
    BY DEF Init
  <2>3. late = {}
    BY DEF Init
  <2> QED BY <2>1, <2>2, <2>3, FS_EmptySet DEF RankInv
<1> QED BY <1>1, <1>2, <1>5, <1>6, <1>7 DEF Inv

\* Every step keeps it.
LEMMA InvStep == Inv /\ [Next]_vars => Inv'
<1> SUFFICES ASSUME Inv, [Next]_vars PROVE Inv'
  OBVIOUS
<1>1. CASE ClientsNext /\ UNCHANGED gatewayVars
  BY <1>1, RegistryKeepsInv
<1>2. ASSUME NEW r \in Requests, RequestStep(r) PROVE Inv'
  BY <1>2, ArriveKeepsInv, IdentifyKeepsInv, CountKeepsInv, LimiterFailsKeepsInv,
     AuthenticateKeepsInv, BehindKeepsInv DEF RequestStep
<1>3. ASSUME NEW n \in Names, NEW w \in Minutes, Expire(n, w) PROVE Inv'
  BY <1>3, ExpireKeepsInv
<1>4. CASE Tick
  BY <1>4, TickKeepsInv
<1>5. CASE UNCHANGED vars
  <2>1. /\ UNCHANGED <<clients, made, indexed, granted, admin>>
        /\ UNCHANGED <<minute, counters, late, request, kingdee>>
    BY <1>5 DEF vars, clientVars, gatewayVars, counts
  <2>2. RegistryInv' /\ TypeOK' /\ ProgressInv' /\ LookInv'
    BY <2>1 DEF Inv, RegistryInv, TypeOK, ClientsTypeOK, AdminInv, KeyInv, GrantInv, Stored,
                ProgressInv, Progress, LookInv, Look, WithKey
  <2>3. RankInv'
    BY <2>1, RanksStay DEF Inv
  <2> QED BY <2>2, <2>3 DEF Inv
<1> QED BY <1>1, <1>2, <1>3, <1>4, <1>5 DEF Next

\* The invariant holds in every state.
LEMMA InvAlways == Spec => []Inv
<1>1. Init => Inv
  BY InvInit
<1> QED BY <1>1, InvStep, PTL DEF Spec

\* The registry, the counters and the requests have their types, whatever admin
\* calls run between the steps of a request.
THEOREM Types == Spec => []TypeOK
<1>1. Inv => TypeOK
  BY DEF Inv
<1> QED BY <1>1, InvAlways, PTL

\* Requests of different ranks are no more than the rank of one of them: were all
\* ranks below their number, too few would be left to go round.
LEMMA RanksBound ==
  ASSUME NEW S \in SUBSET Requests, S # {},
         \A r \in S : request[r].rank \in Nat \ {0},
         \A r, s \in S : request[r].rank = request[s].rank => r = s
  PROVE  \E r \in S : Cardinality(S) <= request[r].rank
<1> SUFFICES ASSUME \A r \in S : ~(Cardinality(S) <= request[r].rank) PROVE FALSE
  OBVIOUS
<1>1. IsFiniteSet(S) /\ Cardinality(S) \in Nat /\ Cardinality(S) # 0
  BY GatewayAssumption, FS_Subset, FS_CardinalityType, FS_EmptySet
<1> DEFINE u == Cardinality(S) - 1
           f == [s \in S |-> request[s].rank]
<1>2. u \in Nat /\ \A s \in S : request[s].rank \in 1..u
  BY <1>1
<1>3. f \in Injection(S, 1..u)
  <2>1. f \in [S -> 1..u]
    BY <1>2
  <2>2. \A r, s \in S : f[r] = f[s] => r = s
    OBVIOUS
  <2> QED BY <2>1, <2>2 DEF Injection, IsInjective
<1>4. IsFiniteSet(1..u) /\ Cardinality(1..u) = u
  BY <1>2, FS_Interval
<1>5. Cardinality(S) <= u
  <2> HIDE DEF u, f
  <2> QED BY <1>3, <1>4, FS_Injection
<1> QED BY <1>1, <1>5

\* No more requests of one client and minute, counted before their counter was due to
\* go, reach Kingdee than the limit that one of them found (middleware.py 43-78): each
\* has a rank of its own, and none has one above its limit.
THEOREM Limit == Spec => []LimitHolds
<1>1. Inv => LimitHolds
  <2> SUFFICES ASSUME Inv, NEW n \in Names, NEW w \in Minutes,
                      (Counted(n, w) \ late) \intersect kingdee # {}
               PROVE  \E r \in (Counted(n, w) \ late) \intersect kingdee :
                        /\ Cardinality((Counted(n, w) \ late) \intersect kingdee) <= request[r].limit
                        /\ request[r].limit \in granted[n]
    BY DEF LimitHolds
  <2> DEFINE S == (Counted(n, w) \ late) \intersect kingdee
  <2>1. S \in SUBSET Requests /\ S # {}
    BY DEF Counted
  <2>2. \A r \in S : /\ request[r].rank \in Nat \ {0}
                     /\ request[r].rank <= Cardinality(Counted(n, w))
                     /\ request[r].rank <= request[r].limit /\ request[r].limit \in granted[n]
                     /\ request[r].limit \in Nat
    <3>1. ASSUME NEW r \in S
          PROVE  /\ request[r].rank \in Nat \ {0}
                 /\ request[r].rank <= Cardinality(Counted(n, w))
                 /\ request[r].rank <= request[r].limit /\ request[r].limit \in granted[n]
                 /\ request[r].limit \in Nat
      <4>1. r \in Requests /\ request[r].client = n /\ n # Null /\ request[r].rank > 0
        BY ClientsAssumption DEF Counted
      <4>2. request[r].pc \in Passed
        BY <4>1 DEF Inv, ProgressInv, Passed
      <4>3. request[r].rank \in Nat /\ request[r].limit \in Nat
        BY <4>1, RequestFacts DEF Request
      <4> QED BY <4>1, <4>2, <4>3, RequestFacts DEF Inv, RankInv, Progress
    <3> QED BY <3>1
  <2>3. \A r, s \in S : request[r].rank = request[s].rank => r = s
    BY DEF Inv, RankInv
  <2>4. Cardinality(Counted(n, w)) \in Nat /\ IsFiniteSet(S) /\ Cardinality(S) \in Nat
    BY <2>1, CountedFinite, GatewayAssumption, FS_Subset, FS_CardinalityType
  <2> HIDE DEF S
  <2>5. PICK r \in S : Cardinality(S) <= request[r].rank
    BY <2>1, <2>2, <2>3, RanksBound
  <2>6. Cardinality(S) <= request[r].limit
    BY <2>2, <2>4, <2>5
  <2> QED BY <2>2, <2>5, <2>6 DEF S
<1> QED BY <1>1, InvAlways, PTL

\* Nobody is turned away whose client has not sent more than its limit in the same
\* minute (middleware.py 59-78): a rank never exceeds the number of requests counted.
THEOREM Refused == Spec => []RefusedOnlyOverLimit
<1>1. Inv => RefusedOnlyOverLimit
  <2> SUFFICES ASSUME Inv, NEW r \in Requests, At(r, "429")
               PROVE  Cardinality(Counted(request[r].client, request[r].window))
                        > request[r].limit
    BY DEF RefusedOnlyOverLimit
  <2>1. /\ request[r].client \in Names /\ request[r].window \in Minutes
        /\ request[r].rank > request[r].limit
        /\ request[r].rank \in Nat /\ request[r].limit \in Nat
    BY RequestFacts DEF Progress, At, Request
  <2>2. r \in Counted(request[r].client, request[r].window)
    BY <2>1 DEF Counted
  <2>3. request[r].rank <= Cardinality(Counted(request[r].client, request[r].window))
    BY <2>1, <2>2 DEF Inv, RankInv
  <2>4. Cardinality(Counted(request[r].client, request[r].window)) \in Nat
    BY CountedFinite
  <2> QED BY <2>1, <2>3, <2>4
<1> QED BY <1>1, InvAlways, PTL

\* What reaches Kingdee was counted for the client it is from, or that client was
\* created between the two look-ups, or keys were not yet unique (middleware.py
\* 46-57, auth.py 53-60).
THEOREM Attribution == Spec => []CountedAsItsClient
<1>1. Inv => CountedAsItsClient
  <2> SUFFICES ASSUME Inv, NEW r \in kingdee, request[r].sure, ~(request[r].doc > request[r].born)
               PROVE  request[r].found = request[r].doc /\ request[r].rank > 0
    BY DEF CountedAsItsClient
  <2>1. r \in Requests /\ request[r].pc = "answered"
    BY DEF Inv, TypeOK, ProgressInv
  <2>2. request[r].doc # 0 /\ request[r].doc = request[r].found
    BY <2>1 DEF Inv, LookInv, Look
  <2>3. request[r].client # Null
    BY <2>1, <2>2 DEF Inv, ProgressInv, Progress
  <2>4. request[r].rank > 0
    BY <2>1, <2>3 DEF Inv, ProgressInv, Progress, Passed
  <2> QED BY <2>2, <2>4
<1> QED BY <1>1, InvAlways, PTL

-----------------------------------------------------------------------------
(* Refinement of RateLimit *)

\* The variables of RateLimit, as Gateway has them.
Elapsed == IF minute < CounterLife THEN 0 ELSE minute - CounterLife + 1
Asked == [r \in Requests |-> [client |-> request[r].client, minute |-> request[r].window,
                              limit |-> request[r].limit]]
Ranked == {r \in Requests : request[r].rank > 0}
Verdicts == [r \in Requests |-> VerdictOn(r)]
Reached == {r \in kingdee : request[r].client # Null}

\* VerdictOn, of a request as it is or is going to be.
Judged(q) ==
  IF q.client = Null \/ q.pc = "count" THEN "none"
  ELSE IF q.pc = "429" THEN "refused"
  ELSE IF q.pc = "error" THEN "failed"
  ELSE "through"

\* RateLimit counts as Gateway does.
LEMMA LimiterCardinality == \A S : Limiter!Cardinality(S) = Cardinality(S)
BY DEF Limiter!Cardinality, Limiter!IsFiniteSet, Cardinality, IsFiniteSet

\* A minute is long over for RateLimit once its counter is due to go.
LEMMA DueIsOver ==
  ASSUME minute \in Nat
  PROVE  Elapsed <= minute /\ \A w \in Minutes : Due(w) => w < Elapsed
BY Times DEF Elapsed, Due, Minutes

\* Before the first request nobody has asked for anything.
LEMMA LimiterInit == Init => Limiter!Init
BY Times DEF Init, NoRequest, VerdictOn, At, Limiter!Init

\* What RateLimit sees of a step of one request.
LEMMA MappedStep ==
  ASSUME Inv, NEW r \in Requests, NEW p, Becomes(r, p)
  PROVE  /\ Asked' = [Asked EXCEPT ![r] =
                        [client |-> p.client, minute |-> p.window, limit |-> p.limit]]
         /\ Ranked' = IF p.rank > 0 THEN Ranked \union {r} ELSE Ranked \ {r}
         /\ Verdicts[r] = Judged(request[r])
         /\ Verdicts' = [Verdicts EXCEPT ![r] = Judged(p)]
         /\ /\ p.client = request[r].client /\ p.window = request[r].window
            /\ p.limit = request[r].limit
            => Asked' = Asked
         /\ (p.rank > 0 <=> request[r].rank > 0) => Ranked' = Ranked
         /\ Judged(p) = Judged(request[r]) => Verdicts' = Verdicts
<1>1. /\ \A s \in Requests \ {r} : request'[s] = request[s]
      /\ request'[r] = p
  BY DEF Becomes
<1>2. Asked' = [Asked EXCEPT ![r] =
                 [client |-> p.client, minute |-> p.window, limit |-> p.limit]]
  BY <1>1 DEF Asked
<1>3. Ranked' = IF p.rank > 0 THEN Ranked \union {r} ELSE Ranked \ {r}
  BY <1>1 DEF Ranked
<1>4. /\ \A s : VerdictOn(s) = Judged(request[s])
      /\ \A s : VerdictOn(s)' = Judged(request'[s])
  BY DEF VerdictOn, Judged, At
<1>5. Verdicts' = [Verdicts EXCEPT ![r] = Judged(p)]
  BY <1>1, <1>4 DEF Verdicts
<1>6. ASSUME p.client = request[r].client, p.window = request[r].window,
             p.limit = request[r].limit
      PROVE  Asked' = Asked
  BY <1>1, <1>6 DEF Asked
<1>7. (p.rank > 0 <=> request[r].rank > 0) => Ranked' = Ranked
  BY <1>1 DEF Ranked
<1>8. Judged(p) = Judged(request[r]) => Verdicts' = Verdicts
  BY <1>1, <1>4 DEF Verdicts
<1>9. Verdicts[r] = Judged(request[r])
  BY <1>4 DEF Verdicts
<1> QED BY <1>2, <1>3, <1>5, <1>6, <1>7, <1>8, <1>9

\* A step that leaves a request's client, limit and minute, whether it is counted
\* and the verdict on it, is none of RateLimit's business.
LEMMA MappedStutter ==
  ASSUME Inv, NEW r \in Requests, NEW p, Becomes(r, p), UNCHANGED <<minute, kingdee>>,
         p.client = request[r].client, p.window = request[r].window,
         p.limit = request[r].limit, p.rank > 0 <=> request[r].rank > 0,
         Judged(p) = Judged(request[r])
  PROVE  UNCHANGED Limiter!vars
<1>1. Asked' = Asked /\ Ranked' = Ranked /\ Verdicts' = Verdicts
  BY MappedStep
<1>4. Reached' = Reached
  BY DEF Reached, Becomes, Inv, TypeOK
<1> QED BY <1>1, <1>4 DEF Limiter!vars, Asked, Ranked, Verdicts, Reached

\* Until it is due to go, a counter is the number of requests counted, for the ranks
\* are all different and none is above it; it is never more (middleware.py 56-69).
LEMMA RankIsNext ==
  ASSUME Inv, NEW r \in Requests, At(r, "count")
  PROVE  LET c == Cardinality(Counted(request[r].client, request[r].window)) IN
         /\ Rank(r) \in Nat /\ Rank(r) <= c + 1
         /\ ~Due(request[r].window) => Rank(r) = c + 1
<1> DEFINE n == request[r].client
           w == request[r].window
           S == Counted(n, w)
<1>1. /\ n \in Names /\ w \in Minutes
      /\ Rank(r) = counters[n][w] + 1 /\ counters[n][w] \in Nat
      /\ ~Due(w) => \A s \in S : request[s].rank < Rank(r) /\ s \notin late
  BY RankIsNew
<1>2. counters[n][w] <= Cardinality(S) /\ Cardinality(S) \in Nat
  BY <1>1, CountedFinite DEF Inv, RankInv
<1>3. \A s \in S : request[s].rank \in Nat \ {0}
  BY DEF Counted, Inv, TypeOK, Request
<1>4. ASSUME ~Due(w) PROVE Cardinality(S) <= counters[n][w]
  <2>1. CASE S = {}
    BY <1>1, <2>1, FS_EmptySet
  <2>2. CASE S # {}
    <3>1. S \in SUBSET Requests
      BY DEF Counted
    <3>2. \A s, t \in S : request[s].rank = request[t].rank => s = t
      BY <1>1, <1>4 DEF Inv, RankInv
    <3>3. \A s \in S : request[s].rank < Rank(r)
      BY <1>1, <1>4
    <3> HIDE DEF S
    <3>4. PICK s \in S : Cardinality(S) <= request[s].rank
      BY <1>3, <2>2, <3>1, <3>2, RanksBound
    <3> QED BY <1>1, <1>2, <1>3, <3>3, <3>4
  <2> QED BY <2>1, <2>2
<1> QED BY <1>1, <1>2, <1>4

-----------------------------------------------------------------------------
(* What the steps are to RateLimit *)

\* An arrival is nothing to it, and the look-up is nothing or an Ask
\* (middleware.py 33-57).
LEMMA LookUpAsks ==
  ASSUME Inv, NEW r \in Requests, Arrive(r) \/ Identify(r)
  PROVE  Limiter!Next \/ UNCHANGED Limiter!vars
<1>1. CASE Arrive(r)
  <2>1. UNCHANGED <<minute, kingdee>> /\ request[r].pc = "idle"
    BY <1>1 DEF Arrive, At
  <2>2. PICK p : /\ Becomes(r, p)
                 /\ p = [request[r] EXCEPT !.pc = p.pc, !.key = p.key]
    BY <1>1, RequestFacts, ArriveDoes
  <2>3. /\ p.client = request[r].client /\ p.limit = request[r].limit
        /\ p.window = request[r].window /\ p.rank = request[r].rank
    BY <2>2, RequestFacts DEF Request
  <2>4. p.client = Null /\ request[r].client = Null
    BY <2>1, <2>3, RequestFacts DEF Progress
  <2> QED BY <2>1, <2>2, <2>3, <2>4, MappedStutter DEF Judged
<1>2. CASE Identify(r)
  <2>1. UNCHANGED <<minute, kingdee>> /\ request[r].pc = "identify"
    BY <1>2 DEF Identify, At
  <2>2. PICK p : Becomes(r, p) /\ Looked(request[r], p)
    BY <1>2, RequestFacts, IdentifyDoes
  <2>3. request[r].client = Null /\ request[r].rank = 0 /\ p.rank = 0
    BY <2>1, <2>2, RequestFacts DEF Progress, Looked
  <2>4. CASE p.pc = "authenticate"
    <3>1. /\ p.client = request[r].client /\ p.limit = request[r].limit
          /\ p.window = request[r].window
      BY <2>2, <2>4 DEF Looked
    <3> QED BY <2>1, <2>2, <2>3, <3>1, MappedStutter DEF Judged
  <2>5. CASE p.pc = "count"
    <3>1. /\ p.found \in Stored /\ p.client = clients[p.found].id /\ p.window = minute
          /\ p.limit = Applied(clients[p.found].limit)
      BY <2>2, <2>5 DEF Looked, WithKey
    <3>2. clients[p.found] \in Client
      BY <3>1, StoredTypes DEF Inv, TypeOK
    <3>3. /\ p.client \in Names /\ p.window \in Minutes
          /\ p.limit \in {Applied(limit) : limit \in Limits}
      BY <3>1, <3>2 DEF Client, Inv, TypeOK
    <3>4. /\ Asked' = [Asked EXCEPT ![r] =
                         [client |-> p.client, minute |-> p.window, limit |-> p.limit]]
          /\ Ranked' = Ranked
          /\ Verdicts' = Verdicts
      <4>1. Judged(p) = "none" /\ Judged(request[r]) = "none"
        BY <2>3, <2>5 DEF Judged
      <4> QED BY <2>2, <2>3, <4>1, MappedStep
    <3>5. Reached' = Reached
      BY <2>1, <2>2, RequestFacts DEF Reached, Becomes, Inv, TypeOK
    <3>6. Asked[r].client = Null /\ Asked'[r] = [client |-> p.client, minute |-> p.window,
                                                limit |-> p.limit]
      BY <2>3, <3>4 DEF Asked
    <3>7. p.window >= Elapsed /\ Elapsed' = Elapsed
      BY <2>1, <3>1, DueIsOver, Times DEF Inv, TypeOK, Minutes, Elapsed
    <3>8. Asked' = [Asked EXCEPT ![r] = Asked'[r]] /\ Asked'[r].minute >= Elapsed
      <4>1. Asked' = [Asked EXCEPT ![r] = Asked'[r]]
        BY <3>4, <3>6, Zenon
      <4>2. Asked'[r].minute = p.window
        BY <3>6
      <4> QED BY <3>7, <4>1, <4>2
    <3>9. Limiter!Ask(r)
      BY <3>3, <3>4, <3>5, <3>6, <3>7, <3>8
         DEF Limiter!Ask, Limiter!Asks, Elapsed, Asked, Ranked, Verdicts, Reached
    <3> QED BY <3>9 DEF Limiter!Next
  <2> QED BY <2>2, <2>4, <2>5 DEF Looked
<1> QED BY <1>1, <1>2

\* The count counts, and judges by those counted before it (middleware.py 59-78).
LEMMA CountCounts ==
  ASSUME Inv, NEW r \in Requests, Count(r)
  PROVE  Limiter!Count(r)
<1>1. At(r, "count") /\ request[r].pc = "count" /\ UNCHANGED <<minute, kingdee>>
  BY DEF Count, At
<1>2. request[r].client \in Names /\ request[r].client # Null /\ request[r].limit \in Nat
  BY <1>1, RequestFacts DEF Progress, Request
<1>3. PICK p : /\ Becomes(r, p) /\ Untouched(request[r], p)
               /\ p.rank = Rank(r)
               /\ \/ p.pc = "429" /\ p.rank > p.limit
                  \/ p.pc = "authenticate" /\ p.rank <= p.limit
  BY <1>2, RequestFacts, CountDoes
<1> DEFINE c == Cardinality(Counted(request[r].client, request[r].window))
<1>4. /\ p.rank > 0 /\ p.rank <= c + 1 /\ c \in Nat /\ p.rank \in Nat
      /\ ~Due(request[r].window) => p.rank = c + 1
  BY <1>1, <1>2, <1>3, RankIsNext, CountedFinite, RankType, RequestFacts
<1>5. /\ request[r].window \in Minutes /\ minute \in Nat /\ Elapsed' = Elapsed
      /\ Due(request[r].window) => request[r].window < Elapsed
  BY <1>1, DueIsOver, RequestFacts DEF Request, Inv, TypeOK, Minutes, Elapsed
<1>6. \/ Judged(p) = "through" /\ (c < request[r].limit \/ request[r].window < Elapsed)
      \/ Judged(p) = "refused" /\ c >= request[r].limit
  <2> HIDE DEF c
  <2> QED BY <1>2, <1>3, <1>4, <1>5 DEF Judged, Untouched
<1>7. Limiter!Alike(r) = Counted(request[r].client, request[r].window)
  BY DEF Limiter!Alike, Counted
<1>8. /\ Asked' = Asked /\ Ranked' = Ranked \union {r}
      /\ Verdicts[r] = "none" /\ Verdicts' = [Verdicts EXCEPT ![r] = Judged(p)]
  <2>1. Judged(request[r]) = "none"
    BY <1>1 DEF Judged
  <2> HIDE DEF c
  <2> QED BY <1>3, <1>4, <2>1, MappedStep DEF Untouched
<1>9. Reached' = Reached
  BY <1>1, <1>3 DEF Reached, Becomes, Untouched, Inv, TypeOK
<1>10. /\ Asked[r].client # Null /\ Asked[r].limit = request[r].limit
       /\ Asked[r].minute = request[r].window
  BY <1>2 DEF Asked
<1> HIDE DEF c
<1>11. Limiter!Cardinality(Limiter!Alike(r)) = c
  BY <1>7, LimiterCardinality DEF c
<1>12. Verdicts'[r] = Judged(p)
  BY <1>8 DEF Verdicts
<1>13. Limiter!Judge(r, Judged(p))
  BY <1>8, <1>12 DEF Limiter!Judge, Verdicts
<1>14. Limiter!Count(r)
  <2>1. \/ /\ Limiter!Cardinality(Limiter!Alike(r)) < Asked[r].limit \/ Asked[r].minute < Elapsed
           /\ Limiter!Judge(r, "through")
        \/ /\ Limiter!Cardinality(Limiter!Alike(r)) >= Asked[r].limit
           /\ Limiter!Judge(r, "refused")
    BY <1>6, <1>10, <1>11, <1>13
  <2> QED BY <1>5, <1>8, <1>9, <1>10, <2>1
          DEF Limiter!Count, Limiter!Asks, Elapsed, Asked, Ranked, Verdicts, Reached
<1> QED BY <1>14

\* An error fails the request if it had asked: with the count, before it or after it
\* (middleware.py 43-68, auth.py 72-76).
LEMMA ErrorsFail ==
  ASSUME Inv, NEW r \in Requests, LimiterFails(r) \/ Breaks(r)
  PROVE  Limiter!Next \/ UNCHANGED Limiter!vars
<1>1. /\ request[r].pc \in {"identify", "count", "authenticate", "token"}
      /\ UNCHANGED <<minute, kingdee>>
  BY DEF LimiterFails, Breaks, At
<1>2. At(r, "count") => request[r].client \in Names
  BY RequestFacts DEF Progress, At
<1>3. \E p : /\ Becomes(r, p) /\ Untouched(request[r], p) /\ p.pc = "error"
             /\ \/ p.rank = request[r].rank
                \/ At(r, "count") /\ p.rank = Rank(r)
  <2>1. CASE LimiterFails(r)
    BY <1>2, <2>1, RequestFacts, LimiterFailsDoes
  <2>2. CASE Breaks(r)
    BY <2>2, RequestFacts, GotoDoes DEF Breaks, Answers
  <2> QED BY <2>1, <2>2
<1>4. PICK p : /\ Becomes(r, p) /\ Untouched(request[r], p) /\ p.pc = "error"
               /\ \/ p.rank = request[r].rank
                  \/ At(r, "count") /\ p.rank = Rank(r)
  BY <1>3
<1>5. CASE request[r].client = Null
  <2>1. ~At(r, "count")
    BY <1>5, RequestFacts DEF Progress, At
  <2> QED BY <1>1, <1>4, <1>5, <2>1, MappedStutter DEF Untouched, Judged
<1>6. CASE request[r].client # Null
  <2>1. Asked' = Asked /\ Verdicts[r] \in {"none", "through"}
        /\ Verdicts' = [Verdicts EXCEPT ![r] = "failed"]
    <3>1. Judged(p) = "failed" /\ Judged(request[r]) \in {"none", "through"}
      BY <1>1, <1>4, <1>6 DEF Untouched, Judged
    <3> QED BY <1>4, <3>1, MappedStep DEF Untouched
  <2>2. Ranked' = Ranked \/ Ranked' = Ranked \union {r}
    <3>1. CASE p.rank = request[r].rank
      BY <1>4, <3>1, MappedStep DEF Ranked
    <3>2. CASE At(r, "count") /\ p.rank = Rank(r)
      BY <1>2, <1>4, <3>2, RequestFacts, RankType, MappedStep
    <3> QED BY <1>4, <3>1, <3>2
  <2>3. Reached' = Reached /\ r \notin Reached
    BY <1>1, <1>4, RequestFacts DEF Reached, Becomes, Untouched, Inv, TypeOK
  <2>4. Asked[r].client # Null
    BY <1>6 DEF Asked
  <2>5. Limiter!Judge(r, "failed") /\ Elapsed' = Elapsed
    BY <1>1, <2>1 DEF Limiter!Judge, Verdicts, Elapsed
  <2>6. Limiter!Fail(r)
    BY <2>1, <2>2, <2>3, <2>4, <2>5
       DEF Limiter!Fail, Limiter!Asks, Elapsed, Asked, Ranked, Verdicts, Reached
  <2> QED BY <2>6 DEF Limiter!Next
<1> QED BY <1>5, <1>6

\* The rest of a request's way is nothing to the limiter until it reaches Kingdee
\* (auth.py 53-112; the handlers; kdcloud_client.py 199-223).
LEMMA PostReaches ==
  ASSUME Inv, NEW r \in Requests, Authenticate(r) \/ GetToken(r) \/ Post(r)
  PROVE  Limiter!Next \/ UNCHANGED Limiter!vars
<1>1. request[r].pc \in {"authenticate", "token", "post"} /\ UNCHANGED minute
  BY DEF Authenticate, GetToken, Post, At
<1>2. \E p : /\ Becomes(r, p) /\ Untouched(request[r], p) /\ p.rank = request[r].rank
             /\ p.pc \in {"401", "403", "token", "post", "answered"}
  <2>1. CASE Authenticate(r)
    BY <2>1, RequestFacts, AuthenticateDoes
  <2>2. CASE GetToken(r) \/ Post(r)
    BY <2>2, RequestFacts, GotoDoes DEF GetToken, Post, Waiting, Answers
  <2> QED BY <2>1, <2>2
<1>3. PICK p : /\ Becomes(r, p) /\ Untouched(request[r], p) /\ p.rank = request[r].rank
               /\ p.pc \in {"401", "403", "token", "post", "answered"}
  BY <1>2
<1>4. Judged(p) = Judged(request[r])
  BY <1>1, <1>3 DEF Judged, Untouched
<1>5. CASE UNCHANGED kingdee
  BY <1>1, <1>3, <1>4, <1>5, MappedStutter DEF Untouched
<1>6. CASE kingdee' = kingdee \union {r}
  <2>1. Asked' = Asked /\ Ranked' = Ranked /\ Verdicts' = Verdicts
    BY <1>3, <1>4, MappedStep DEF Untouched
  <2>2. Reached' = IF request[r].client = Null THEN Reached ELSE Reached \union {r}
    BY <1>3, <1>6 DEF Reached, Becomes, Untouched, Inv, TypeOK
  <2>0. Elapsed' = Elapsed
    BY <1>1 DEF Elapsed
  <2>3. CASE request[r].client = Null
    BY <2>0, <2>1, <2>2, <2>3 DEF Limiter!vars, Elapsed, Asked, Ranked, Verdicts, Reached
  <2>4. CASE request[r].client # Null
    <3>1. Verdicts[r] = "through"
      BY <1>1, <1>3, <2>4, MappedStep DEF Judged
    <3>2. r \notin Reached
      BY <1>1, RequestFacts DEF Reached
    <3>3. Limiter!Reach(r)
      BY <2>0, <2>1, <2>2, <2>4, <3>1, <3>2
         DEF Limiter!Reach, Elapsed, Asked, Ranked, Verdicts, Reached
    <3> QED BY <3>3 DEF Limiter!Next
  <2> QED BY <2>3, <2>4
<1>7. UNCHANGED kingdee \/ kingdee' = kingdee \union {r}
  BY DEF Authenticate, GetToken, Post
<1> QED BY <1>5, <1>6, <1>7

\* Every step is one of RateLimit's, or none.
LEMMA LimiterStep == Inv /\ [Next]_vars => [Limiter!Next]_(Limiter!vars)
<1> SUFFICES ASSUME Inv, [Next]_vars PROVE Limiter!Next \/ UNCHANGED Limiter!vars
  OBVIOUS
<1>1. CASE UNCHANGED <<minute, request, kingdee>>
  BY <1>1 DEF Limiter!vars, VerdictOn, At
<1>2. ASSUME NEW r \in Requests, RequestStep(r)
      PROVE  Limiter!Next \/ UNCHANGED Limiter!vars
  <2>1. CASE Count(r)
    BY <2>1, CountCounts DEF Limiter!Next
  <2> QED BY <1>2, <2>1, LookUpAsks, ErrorsFail, PostReaches DEF RequestStep
<1>3. CASE Tick
  <2>1. UNCHANGED <<request, kingdee>> /\ minute' = minute + 1 /\ minute \in Nat
    BY <1>3 DEF Tick, Inv, TypeOK, Minutes
  <2>2. Asked' = Asked /\ Ranked' = Ranked /\ Verdicts' = Verdicts /\ Reached' = Reached
    BY <2>1 DEF Asked, Ranked, Verdicts, Reached, VerdictOn, At
  <2>3. Elapsed' = Elapsed \/ Elapsed' = Elapsed + 1
    BY <2>1, Times DEF Elapsed
  <2>4. CASE Elapsed' = Elapsed
    BY <2>2, <2>4 DEF Limiter!vars, Elapsed, Asked, Ranked, Verdicts, Reached
  <2>5. CASE Elapsed' = Elapsed + 1
    <3>1. Limiter!Pass
      BY <2>2, <2>5 DEF Limiter!Pass, Elapsed, Asked, Ranked, Verdicts, Reached
    <3> QED BY <3>1 DEF Limiter!Next
  <2> QED BY <2>3, <2>4, <2>5
<1>4. CASE \/ ClientsNext /\ UNCHANGED gatewayVars
           \/ \E n \in Names, w \in Minutes : Expire(n, w)
           \/ UNCHANGED vars
  BY <1>1, <1>4 DEF gatewayVars, Expire, vars
<1> QED BY <1>2, <1>3, <1>4 DEF Next

\* The gateway limits requests as RateLimit says, although its counters are removed,
\* its limits are read before they are used, and clients come and go.
THEOREM RefinesRateLimit == Spec => ImplementsRateLimit
<1>1. Init => Limiter!Init
  BY LimiterInit
<1> QED BY <1>1, LimiterStep, InvAlways, PTL DEF Spec, ImplementsRateLimit, Limiter!Spec
=============================================================================
