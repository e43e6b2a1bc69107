--------------------------- MODULE RuntimeConfig ---------------------------
(***************************************************************************)
(* The auto-forward switch (proxy-server/app/runtime_config.py).           *)
(*                                                                         *)
(* The switch is one MongoDB document shared by all gunicorn workers; each *)
(* worker process keeps a private copy of it with an expiry time.  A read  *)
(* (get_auto_forward_enabled) samples the clock, may suspend in find_one,  *)
(* and stores what it got together with an expiry computed from the clock  *)
(* sample taken BEFORE it suspended.  A PUT writes the document and then   *)
(* clears the copy of the worker that served the request, no other.        *)
(*                                                                         *)
(* Time is kept as what is left of each copy and as the age of each read   *)
(* in flight, so that the clock needs no bound: Tick is one second.        *)
(***************************************************************************)
EXTENDS Naturals

CONSTANTS
  Workers,    \* gunicorn worker processes of the proxy
  Reads,      \* concurrent calls of get_auto_forward_enabled
  Puts,       \* concurrent PUT /api/admin/forwarding-config requests
  Home,       \* [read or PUT -> the worker whose event loop runs it]
  CacheTTL    \* _CACHE_TTL, in ticks

ASSUME HomeAssumption == Home \in [Reads \union Puts -> Workers]
ASSUME TTLAssumption == CacheTTL \in Nat \ {0}

VARIABLES
  flag,       \* auto_forward_enabled of the shared document; "off" if there is none
  cache,      \* [worker -> what _cache holds: value and ticks left]
  read,       \* [read -> its control state, age of its clock sample, what it found]
  put,        \* [put -> its control state]
  sinceChange \* ticks since flag last changed, up to CacheTTL

vars == <<flag, cache, read, put, sinceChange>>

Switch == {"on", "off"}

\* What a query finds; "error" is the False of a failed query.
Found == Switch \union {"error"}

Entry == [value : Found, left : 0..CacheTTL]

NoEntry == [value |-> "off", left |-> 0]

ReadState == [at : {"idle", "query", "store"}, age : 0..CacheTTL, value : Found]

IdleRead == [at |-> "idle", age |-> 0, value |-> "off"]

TypeOK ==
  /\ flag \in Switch
  /\ cache \in [Workers -> Entry]
  /\ read \in [Reads -> ReadState]
  /\ put \in [Puts -> {"idle", "clear", "failed"}]
  /\ sinceChange \in 0..CacheTTL

Init ==
  /\ flag = "off"
  /\ cache = [w \in Workers |-> NoEntry]
  /\ read = [r \in Reads |-> IdleRead]
  /\ put = [p \in Puts |-> "idle"]
  /\ sinceChange = CacheTTL

-----------------------------------------------------------------------------
(* get_auto_forward_enabled *)

\* Mutant: the expiry time of an "on" copy is not looked at.
FreshForever(w) == cache[w].left > 0 \/ cache[w].value = "on"

\* A copy is served as long as its expiry time lies ahead.
Fresh(w) == cache[w].left > 0

ServesOn(w) == Fresh(w) /\ cache[w].value = "on"

\* A miss: the clock is sampled and the coroutine suspends in find_one.  A hit
\* returns at once and changes nothing.
GetMiss(r) ==
  /\ read[r].at = "idle"
  /\ ~Fresh(Home[r])
  /\ read' = [read EXCEPT ![r] = [@ EXCEPT !.at = "query"]]
  /\ UNCHANGED <<flag, cache, put, sinceChange>>

\* Mutant: a failed query counts as on.
GetQueryFailsOpen(r) ==
  /\ read[r].at = "query"
  /\ \E found \in {flag, "on"} :
       read' = [read EXCEPT ![r] = [@ EXCEPT !.at = "store", !.value = found]]
  /\ UNCHANGED <<flag, cache, put, sinceChange>>

\* Mutant: a failed query is answered from the copy that has expired.
GetQueryFallsBack(r) ==
  /\ read[r].at = "query"
  /\ \E found \in {flag, cache[Home[r]].value} :
       read' = [read EXCEPT ![r] = [@ EXCEPT !.at = "store", !.value = found]]
  /\ UNCHANGED <<flag, cache, put, sinceChange>>

\* MongoDB answers the query with the document's current value, or the query
\* fails and the switch counts as off.
GetQuery(r) ==
  /\ read[r].at = "query"
  /\ \E found \in {flag, "error"} :
       read' = [read EXCEPT ![r] = [@ EXCEPT !.at = "store", !.value = found]]
  /\ UNCHANGED <<flag, cache, put, sinceChange>>

\* Mutants: the expiry is computed from the clock at the time of the store, or
\* the time the query took is added to it.
TicksLeftFromStore(age) == CacheTTL
TicksLeftPlusQuery(age) == CacheTTL + age

\* What the expiry now + _CACHE_TTL leaves of a copy whose clock sample is age old.
TicksLeft(age) == CacheTTL - age

\* The coroutine resumes: it overwrites its worker's copy and returns.
GetStore(r) ==
  /\ read[r].at = "store"
  /\ cache' = [cache EXCEPT ![Home[r]] =
                 [value |-> read[r].value, left |-> TicksLeft(read[r].age)]]
  /\ read' = [read EXCEPT ![r] = IdleRead]
  /\ UNCHANGED <<flag, put, sinceChange>>

-----------------------------------------------------------------------------
(* set_auto_forward_enabled *)

\* The upsert reaches MongoDB and the coroutine suspends until it is confirmed.
SetWrite(p, enabled) ==
  /\ put[p] # "clear"
  /\ flag' = enabled
  /\ sinceChange' = IF enabled = flag THEN sinceChange ELSE 0
  /\ put' = [put EXCEPT ![p] = "clear"]
  /\ UNCHANGED <<cache, read>>

\* _clear_cache empties the copy of the worker that runs the request.
SetClear(p) ==
  /\ put[p] = "clear"
  /\ cache' = [cache EXCEPT ![Home[p]] = NoEntry]
  /\ put' = [put EXCEPT ![p] = "idle"]
  /\ UNCHANGED <<flag, read, sinceChange>>

\* The confirmation never arrives: the exception skips _clear_cache and the
\* request ends in an error.
SetFails(p) ==
  /\ put[p] = "clear"
  /\ put' = [put EXCEPT ![p] = "failed"]
  /\ UNCHANGED <<flag, cache, read, sinceChange>>

-----------------------------------------------------------------------------

Older(age) == IF age < CacheTTL THEN age + 1 ELSE age

Tick ==
  /\ cache' = [w \in Workers |-> [cache[w] EXCEPT !.left = IF @ > 0 THEN @ - 1 ELSE 0]]
  /\ read' = [r \in Reads |-> [read[r] EXCEPT !.age = IF read[r].at = "idle" THEN 0
                                                     ELSE Older(@)]]
  /\ sinceChange' = Older(sinceChange)
  /\ UNCHANGED <<flag, put>>

ReadStep(r) == GetMiss(r) \/ GetQuery(r) \/ GetStore(r)

PutStep(p) == (\E enabled \in Switch : SetWrite(p, enabled)) \/ SetClear(p) \/ SetFails(p)

Next == (\E r \in Reads : ReadStep(r)) \/ (\E p \in Puts : PutStep(p)) \/ Tick

\* A started read or PUT is driven on by its event loop; time passes.
Fairness ==
  /\ \A r \in Reads : WF_vars(GetQuery(r)) /\ WF_vars(GetStore(r))
  /\ \A p \in Puts : WF_vars(SetClear(p) \/ SetFails(p))
  /\ WF_vars(Tick)

Spec == Init /\ [][Next]_vars /\ Fairness

-----------------------------------------------------------------------------

\* Once the switch has not changed for _CACHE_TTL, no worker serves a copy that
\* disagrees with MongoDB, whatever reads were in flight when it changed; the
\* one exception is the conservative "off" kept after a failed query
\* (runtime_config.py 27-37).
StaleAtMostTTL ==
  \A w \in Workers :
    /\ Fresh(w)
    /\ sinceChange = CacheTTL
    => cache[w].value \in {flag, "error"}

\* A worker that forwards does so because the document said so at most _CACHE_TTL
\* ago: no failed query, cleared copy or missing document ever turns forwarding
\* on (runtime_config.py 33-36).
ServedOnWasOn ==
  \A w \in Workers :
    ServesOn(w) => flag = "on" \/ cache[w].left + sinceChange <= CacheTTL

\* A callback that has to wait for the query is forwarded only if the document said
\* "on" after the callback came: with ServedOnWasOn, none that comes _CACHE_TTL after
\* the switch was turned off is forwarded, unless its query takes longer than that
\* (runtime_config.py 27-37, callbacks.py 232-234).
AnswersSawItOn ==
  \A r \in Reads :
    read[r].at = "store" /\ read[r].value = "on" =>
      flag = "on" \/ sinceChange <= read[r].age

\* A switch that stays off is off everywhere for good from some time on: no read
\* left in flight brings "on" back (runtime_config.py 31-37).
OffSettles ==
  <>[](flag = "off") => <>[](\A w \in Workers : ~ServesOn(w))
=============================================================================
