---------------------------- MODULE TokenManager ----------------------------
(***************************************************************************)
(* The Kingdee access tokens of the proxy gateway                          *)
(* (proxy-server/app/token_manager.py).                                    *)
(*                                                                         *)
(* One document per environment holds an app token and an access token;    *)
(* all worker processes read and overwrite it.  A call looks at the        *)
(* document, and if the token is about to expire takes the lock of its     *)
(* worker process, looks again with a smaller margin, logs in and upserts  *)
(* the result.  Callers are the gateway's requests and, in every worker,   *)
(* the lifespan's prefetch followed by the background refresh loop, which  *)
(* the worker itself stands for.                                           *)
(*                                                                         *)
(* A token is what is left of its life.  Tick is one unit of time.  Looking*)
(* and waiting for the lock may take any number of them; what a token has  *)
(* to outlive, Kingdee's answers and the upsert, is taken to end within    *)
(* MaxWait.  httpx's timeouts limit the former, nothing in the code the    *)
(* latter, so for the upsert it is an assumption.                          *)
(***************************************************************************)
EXTENDS Naturals

CONSTANTS
  Workers,     \* gunicorn worker processes, each the caller of its own loop
  Requests,    \* gateway requests that need a token
  Home,        \* [request -> the worker that serves it]
  Nobody,      \* holder of a free lock; writer of a missing document
  NEnvs,       \* environments a request may name: X-Proxy-Env is any string
  NLooped,     \* those that are prefetched and refreshed: 1 is "test", 2 is "prod"
  Life,        \* of an access token: 2 hours
  AppLife,     \* of an app token
  Margin,      \* proxy_token_refresh_margin: 10 minutes
  InnerMargin, \* of the check under the lock: 1 minute
  AppMargin,   \* of a reused app token: 5 minutes
  Interval,    \* of the loop: 7200 - proxy_token_refresh_margin - 60 seconds
  MaxWait,     \* the longest a timed await takes; for the upsert, an assumption
  Faults       \* what may go wrong: "kingdee", "mongo", "crash"

ASSUME CallersAssumption ==
  /\ Workers \intersect Requests = {}
  /\ Nobody \notin Workers \union Requests
  /\ Home \in [Requests -> Workers]
ASSUME TimeAssumption ==
  /\ {NEnvs, Life, AppLife, Margin, InnerMargin, AppMargin, Interval} \subseteq Nat \ {0}
  /\ NLooped \in 1..NEnvs
  /\ MaxWait \in Nat
  /\ MaxWait <= InnerMargin /\ InnerMargin <= Margin
  /\ MaxWait <= AppMargin /\ 2 * MaxWait < AppLife /\ 3 * MaxWait < Life

VARIABLES
  docs,     \* the environments with a document in kdcloud_tokens
  access,   \* [environment -> what is left of the stored access_token]
  app,      \* [environment -> what is left of the stored app_token]
  unique,   \* whether the unique index on account_id alone exists
  writer,   \* [environment -> the worker whose refresh wrote the document last]
  call,     \* [caller -> its control state and locals]
  lock,     \* [worker -> the caller that holds TokenManager._lock]
  sleep,    \* [worker -> ticks until its loop wakes]
  serving   \* the workers that have started up

store == <<docs, access, app, unique, writer>>
loop == <<sleep, serving>>
vars == <<store, call, lock, loop>>

Envs == 1..NEnvs
Looped == 1..NLooped
Callers == Workers \union Requests
WorkerOf(c) == IF c \in Workers THEN c ELSE Home[c]

Refreshing == {"reuse", "app", "login", "write"}
Holding == Refreshing \union {"recheck"}
Awaiting == Holding \union {"read", "use"}
Timed == {"app", "login", "write", "use"}

\* old is the token to fall back on, new the one obtained or returned, via how it
\* was come by, waited the ticks a timed await has taken.
Call == [pc : Awaiting \union {"idle", "wait"}, env : Envs, hasOld : {"yes", "no"},
         old : 0..Life, new : 0..Life, app : 0..AppLife,
         via : {"none", "cached", "fresh", "fallback"}, waited : 0..MaxWait]

IdleCall == [pc |-> "idle", env |-> 1, hasOld |-> "no", old |-> 0, new |-> 0, app |-> 0,
             via |-> "none", waited |-> 0]

TypeOK ==
  /\ docs \in SUBSET Envs
  /\ access \in [Envs -> 0..Life]
  /\ app \in [Envs -> 0..AppLife]
  /\ unique \in {"yes", "no"}
  /\ writer \in [Envs -> Workers \union {Nobody}]
  /\ call \in [Callers -> Call]
  /\ lock \in [Workers -> Callers \union {Nobody}]
  /\ sleep \in [Workers -> 0..Interval]
  /\ serving \in SUBSET Workers

Init ==
  /\ docs = {}
  /\ access = [e \in Envs |-> 0]
  /\ app = [e \in Envs |-> 0]
  /\ unique = "no"
  /\ writer = [e \in Envs |-> Nobody]
  /\ call = [c \in Callers |-> IdleCall]
  /\ lock = [w \in Workers |-> Nobody]
  /\ sleep = [w \in Workers |-> 0]
  /\ serving = {}

-----------------------------------------------------------------------------
(* Callers *)

Begin(e) == [IdleCall EXCEPT !.pc = "read", !.env = e]

At(c, pc) == call[c].pc = pc

Goto(c, pc) == call' = [call EXCEPT ![c] = [@ EXCEPT !.pc = pc, !.waited = 0]]

\* Mutant: one environment too many.
LoopGoesOnOffByOne(w) ==
  \/ /\ call[w].env <= NLooped
     /\ call' = [call EXCEPT ![w] = Begin(call[w].env + 1)]
     /\ UNCHANGED loop
  \/ /\ call[w].env > NLooped
     /\ call' = [call EXCEPT ![w] = IdleCall]
     /\ sleep' = [sleep EXCEPT ![w] = Interval]
     /\ serving' = serving \union {w}

\* The loop asks for the next environment, then sleeps; after the first round the
\* worker serves requests.
LoopGoesOn(w) ==
  \/ /\ call[w].env < NLooped
     /\ call' = [call EXCEPT ![w] = Begin(call[w].env + 1)]
     /\ UNCHANGED loop
  \/ /\ call[w].env = NLooped
     /\ call' = [call EXCEPT ![w] = IdleCall]
     /\ sleep' = [sleep EXCEPT ![w] = Interval]
     /\ serving' = serving \union {w}

\* get_valid_access_token returns a token; the loop has no use for it.
Return(c, left, via) ==
  \/ /\ c \in Requests
     /\ call' = [call EXCEPT ![c] = [IdleCall EXCEPT !.pc = "use", !.env = call[c].env,
                                                      !.new = left, !.via = via]]
     /\ UNCHANGED loop
  \/ c \in Workers /\ LoopGoesOn(c)

\* It raises: the request is answered with a 500, ensure_fresh logs it.
Raise(c) ==
  \/ c \in Requests /\ call' = [call EXCEPT ![c] = IdleCall] /\ UNCHANGED loop
  \/ c \in Workers /\ LoopGoesOn(c)

\* Start-up, and the end of the loop's sleep.
Wake(w) ==
  /\ At(w, "idle") /\ sleep[w] = 0
  /\ call' = [call EXCEPT ![w] = Begin(1)]
  /\ UNCHANGED <<store, lock, loop>>

Request(c, e) ==
  /\ At(c, "idle") /\ Home[c] \in serving
  /\ call' = [call EXCEPT ![c] = Begin(e)]
  /\ UNCHANGED <<store, lock, loop>>

\* The request's POST reaches Kingdee.
Use(c) ==
  /\ At(c, "use")
  /\ call' = [call EXCEPT ![c] = IdleCall]
  /\ UNCHANGED <<store, lock, loop>>

-----------------------------------------------------------------------------
(* get_valid_access_token *)

Release(c) == lock' = [lock EXCEPT ![WorkerOf(c)] = Nobody]

\* The first look, without the lock.
Read(c) ==
  LET left == access[call[c].env] IN
  /\ At(c, "read")
  /\ \/ left > Margin /\ Return(c, left, "cached")
     \/ left <= Margin /\ Goto(c, "wait") /\ UNCHANGED loop
  /\ UNCHANGED <<store, lock>>

\* Mutant: no lock.
AcquireAny(c) ==
  /\ At(c, "wait")
  /\ lock' = [lock EXCEPT ![WorkerOf(c)] = c]
  /\ Goto(c, "recheck")
  /\ UNCHANGED <<store, loop>>

Acquire(c) ==
  /\ At(c, "wait")
  /\ lock[WorkerOf(c)] = Nobody
  /\ lock' = [lock EXCEPT ![WorkerOf(c)] = c]
  /\ Goto(c, "recheck")
  /\ UNCHANGED <<store, loop>>

\* Mutant: under the lock any token that has not expired will do.
StillGoodUnexpired(left) == left > 0

StillGood(left) == left > InnerMargin

\* The second look; the token found is kept to fall back on.
Recheck(c) ==
  LET e == call[c].env IN
  /\ At(c, "recheck")
  /\ \/ StillGood(access[e]) /\ Return(c, access[e], "cached") /\ Release(c)
     \/ /\ ~StillGood(access[e])
        /\ call' = [call EXCEPT ![c] = [@ EXCEPT !.pc = "reuse", !.waited = 0,
                      !.old = access[e], !.hasOld = IF e \in docs THEN "yes" ELSE "no"]]
        /\ UNCHANGED <<lock, loop>>
  /\ UNCHANGED store

\* A find_one outside the try block fails.
LookFails(c) ==
  /\ "mongo" \in Faults
  /\ \/ At(c, "read") /\ UNCHANGED lock
     \/ At(c, "recheck") /\ Release(c)
  /\ Raise(c)
  /\ UNCHANGED store

-----------------------------------------------------------------------------
(* _do_full_refresh *)

\* The third look: the stored app token is reused if it will do.
Reuse(c) ==
  LET left == app[call[c].env] IN
  /\ At(c, "reuse")
  /\ \/ /\ left > AppMargin
        /\ call' = [call EXCEPT ![c] = [@ EXCEPT !.pc = "login", !.waited = 0, !.app = left]]
     \/ left <= AppMargin /\ Goto(c, "app")
  /\ UNCHANGED <<store, lock, loop>>

\* A token is minted at some moment of the await for it, and its life runs from there.
Minted(c, life) == {life - age : age \in 0..call[c].waited}

GetAppToken(c) ==
  /\ At(c, "app")
  /\ \E left \in Minted(c, AppLife) :
       call' = [call EXCEPT ![c] = [@ EXCEPT !.pc = "login", !.waited = 0, !.app = left]]
  /\ UNCHANGED <<store, lock, loop>>

Login(c) ==
  /\ At(c, "login") /\ call[c].app > 0
  /\ \E left \in Minted(c, Life) :
       call' = [call EXCEPT ![c] = [@ EXCEPT !.pc = "write", !.waited = 0, !.new = left]]
  /\ UNCHANGED <<store, lock, loop>>

\* The upsert needs a second document of the account, which the unique index on
\* account_id (server/app/db/indexes.py) does not admit.
Rejected(e) == unique = "yes" /\ e \notin docs /\ docs # {}

\* Mutant: the access token is stored with the expiry of the app token.
UpsertAppExpiry(c) ==
  LET e == call[c].env IN
  /\ ~Rejected(e)
  /\ docs' = docs \union {e}
  /\ access' = [access EXCEPT ![e] = call[c].app]
  /\ app' = [app EXCEPT ![e] = call[c].app]
  /\ writer' = [writer EXCEPT ![e] = WorkerOf(c)]
  /\ UNCHANGED unique

Upsert(c) ==
  LET e == call[c].env IN
  /\ ~Rejected(e)
  /\ docs' = docs \union {e}
  /\ access' = [access EXCEPT ![e] = call[c].new]
  /\ app' = [app EXCEPT ![e] = call[c].app]
  /\ writer' = [writer EXCEPT ![e] = WorkerOf(c)]
  /\ UNCHANGED unique

Write(c) ==
  /\ At(c, "write")
  /\ Upsert(c)
  /\ Return(c, call[c].new, "fresh")
  /\ Release(c)

\* Mutant: an exception leaves the lock held.
FallBackKeepsLock(c) ==
  /\ UNCHANGED lock
  /\ \/ call[c].hasOld = "yes" /\ Return(c, call[c].old, "fallback")
     \/ call[c].hasOld = "no" /\ Raise(c)

\* An exception of the refresh: the old token is returned if there is one.
FallBack(c) ==
  /\ Release(c)
  /\ \/ call[c].hasOld = "yes" /\ Return(c, call[c].old, "fallback")
     \/ call[c].hasOld = "no" /\ Raise(c)

\* Kingdee refuses or does not answer, a query or the upsert fails, or the upsert
\* is confirmed too late.
RefreshFails(c) ==
  /\ \/ At(c, "app") /\ "kingdee" \in Faults /\ UNCHANGED store
     \/ At(c, "login") /\ ("kingdee" \in Faults \/ call[c].app = 0) /\ UNCHANGED store
     \/ call[c].pc \in {"reuse", "write"} /\ "mongo" \in Faults /\ UNCHANGED store
     \/ At(c, "write") /\ Rejected(call[c].env) /\ UNCHANGED store
     \/ At(c, "write") /\ "mongo" \in Faults /\ Upsert(c)
  /\ FallBack(c)

-----------------------------------------------------------------------------

\* gunicorn replaces a worker: nothing of it is left but what it has stored.
Restart(w) ==
  /\ "crash" \in Faults
  /\ call' = [c \in Callers |-> IF WorkerOf(c) = w THEN IdleCall ELSE call[c]]
  /\ lock' = [lock EXCEPT ![w] = Nobody]
  /\ sleep' = [sleep EXCEPT ![w] = 0]
  /\ serving' = serving \ {w}
  /\ UNCHANGED store

\* The other server starts and creates its indexes; it fails, and only says so in
\* the log, once there are two documents.
BuildIndex ==
  /\ unique = "no"
  /\ \E e \in Envs : docs \subseteq {e}
  /\ unique' = "yes"
  /\ UNCHANGED <<docs, access, app, writer, call, lock, loop>>

Less(n) == IF n > 0 THEN n - 1 ELSE 0

Aged(k) == [k EXCEPT !.old = Less(@), !.new = Less(@), !.app = Less(@),
                     !.waited = IF k.pc \in Timed THEN @ + 1 ELSE 0]

Tick ==
  /\ \A c \in Callers : call[c].pc \in Timed => call[c].waited < MaxWait
  /\ \A w \in Workers : At(w, "idle") => sleep[w] > 0
  /\ access' = [e \in Envs |-> Less(access[e])]
  /\ app' = [e \in Envs |-> Less(app[e])]
  /\ call' = [c \in Callers |-> Aged(call[c])]
  /\ sleep' = [w \in Workers |-> Less(sleep[w])]
  /\ UNCHANGED <<docs, unique, writer, lock, serving>>

CallStep(c) ==
  \/ Read(c) \/ Recheck(c) \/ LookFails(c)
  \/ Reuse(c) \/ GetAppToken(c) \/ Login(c) \/ Write(c) \/ RefreshFails(c)

Next ==
  \/ \E w \in Workers : Wake(w) \/ Restart(w)
  \/ \E c \in Requests : Use(c) \/ \E e \in Envs : Request(c, e)
  \/ \E c \in Callers : CallStep(c) \/ Acquire(c)
  \/ BuildIndex
  \/ Tick

\* The event loop runs what is ready; asyncio.Lock wakes its waiters in turn.
Fairness ==
  /\ \A c \in Callers : WF_vars(CallStep(c)) /\ SF_vars(Acquire(c))

Spec == Init /\ [][Next]_vars /\ Fairness

-----------------------------------------------------------------------------

\* A token that was not returned for want of a better one is still valid when
\* the request's POST reaches Kingdee, and so is the app token of a login, though
\* neither was looked at after the await that followed (token_manager.py 50-72,
\* 108-134).
HandedOutIsValid ==
  \A c \in Callers :
    /\ At(c, "use") /\ call[c].via # "fallback" => call[c].new > 0
    /\ At(c, "login") => call[c].app > 0

\* A worker does not log in again on top of its own login: while a call refreshes
\* an environment its worker was the last to write, the stored token is within a
\* minute of its end.  Only another worker can make a login superfluous
\* (token_manager.py 58-72).
LoginsAreNeeded ==
  \A c \in Callers :
    call[c].pc \in Refreshing /\ writer[call[c].env] = WorkerOf(c)
      => access[call[c].env] <= InnerMargin

\* Logins of two workers may be written in either order, and the last write wins.
\* Whichever it is, no write takes from an environment more of the life its token
\* still had than two awaits can last: the rest of the login's, once the token is
\* minted, and the upsert's (token_manager.py 127-153).
LateWriteLosesLittle ==
  [][\A e \in Envs : access'[e] # Less(access[e]) => access[e] <= access'[e] + 2 * MaxWait]_vars

\* No call waits for the lock, or refreshes under it, for ever, whatever becomes of
\* the call that holds it: time and again it has returned, raised or gone on to
\* the next environment (token_manager.py 58-85).
WaitersGetOn == \A c \in Callers : []<>(call[c].pc \in {"idle", "use", "read"})

\* "the background task refreshes actively, so that requests need not wait on the
\* critical path" (token_manager.py 7): no request logs in itself.
RequestsNeverLogIn == \A c \in Requests : call[c].pc \notin Refreshing

\* "prefetches the tokens of test and prod" (token_manager.py 173): a worker that
\* has started up without a fault has them both.
PrefetchFillsAll == serving # {} => Looped \subseteq docs
=============================================================================
