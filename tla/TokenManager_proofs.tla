------------------------ MODULE TokenManager_proofs -------------------------
(***************************************************************************)
(* Proofs about TokenManager: types, the lock that makes logins of one     *)
(* worker follow each other, and the time that is left of what is handed   *)
(* out.                                                                    *)
(***************************************************************************)
EXTENDS TokenManager, TLAPS

\* The callers of TokenManager are its workers and requests, and each belongs to
\* a worker (the process whose lock it takes).
LEMMA CallersHaveWorkers ==
  \A c \in Callers : WorkerOf(c) \in Workers /\ c # Nobody
BY CallersAssumption DEF Callers, WorkerOf

\* The times are natural numbers, and the ranges that start at none are not empty.
LEMMA Times ==
  /\ NEnvs \in Nat /\ NEnvs > 0 /\ Life \in Nat /\ Life > 0 /\ AppLife \in Nat
  /\ Margin \in Nat /\ InnerMargin \in Nat /\ AppMargin \in Nat /\ Interval \in Nat
  /\ MaxWait \in Nat /\ NLooped \in Nat /\ NLooped > 0 /\ NLooped <= NEnvs
  /\ MaxWait < AppLife /\ MaxWait < Life
  /\ 0 \in 0..MaxWait /\ 0 \in 0..Life /\ 0 \in 0..AppLife
  /\ Life \in 0..Life /\ AppLife \in 0..AppLife
  /\ 0 \in 0..Interval /\ Interval \in 0..Interval
BY TimeAssumption

\* What is left stays within its range as time passes.
LEMMA LessTypes == \A m \in Nat : \A n \in 0..m : Less(n) \in 0..m
BY DEF Less

\* A fresh call and one that has just begun are calls (token_manager.py 36).
LEMMA CallTypes == IdleCall \in Call /\ \A e \in Envs : Begin(e) \in Call
<1>1. IdleCall \in Call
  BY Times DEF IdleCall, Call, Envs
<1>2. \A e \in Envs : Begin(e) \in Call
  BY <1>1 DEF Begin, Call, Awaiting
<1> QED BY <1>1, <1>2

\* What a call looks like when get_valid_access_token has returned or raised.
Done(k) == k \in Call /\ k.pc \in {"idle", "read", "use"}

\* A token is minted while it is awaited, and has lost no more than the await lasted
\* (token_manager.py 111-132).
LEMMA MintedLives ==
  ASSUME TypeOK, NEW c \in Callers, NEW life \in Nat, MaxWait < life,
         NEW left \in Minted(c, life)
  PROVE  left \in 0..life /\ left + MaxWait >= life
<1>1. call[c].waited \in 0..MaxWait
  BY DEF TypeOK, Call
<1>2. PICK age \in 0..call[c].waited : left = life - age
  BY DEF Minted
<1> QED BY <1>1, <1>2, Times

\* The loop goes on with a call that has just begun, or sleeps.
LEMMA LoopEnds ==
  ASSUME TypeOK, NEW w \in Workers, LoopGoesOn(w)
  PROVE  /\ sleep' \in [Workers -> 0..Interval] /\ serving' \in SUBSET Workers
         /\ \E k : Done(k) /\ k.pc # "use" /\ call' = [call EXCEPT ![w] = k]
<1>1. call[w] \in Call
  BY DEF TypeOK, Callers
<1>2. CASE call[w].env < NLooped /\ call' = [call EXCEPT ![w] = Begin(call[w].env + 1)]
           /\ UNCHANGED loop
  <2>1. call[w].env + 1 \in Envs
    BY <1>1, <1>2, TimeAssumption DEF Call, Envs
  <2>2. Done(Begin(call[w].env + 1)) /\ Begin(call[w].env + 1).pc # "use"
    BY <2>1, CallTypes DEF Done, Begin, IdleCall
  <2> QED BY <1>2, <2>2 DEF loop, TypeOK
<1>3. CASE /\ call' = [call EXCEPT ![w] = IdleCall]
           /\ sleep' = [sleep EXCEPT ![w] = Interval]
           /\ serving' = serving \union {w}
  <2>1. Done(IdleCall) /\ IdleCall.pc # "use"
    BY CallTypes DEF Done, IdleCall
  <2>2. sleep' \in [Workers -> 0..Interval]
    BY <1>3, Times DEF TypeOK
  <2> QED BY <1>3, <2>1, <2>2 DEF TypeOK
<1> QED BY <1>2, <1>3 DEF LoopGoesOn

\* Returning ends the call with the token that is returned.
LEMMA ReturnEnds ==
  ASSUME TypeOK, NEW c \in Callers, NEW left \in 0..Life,
         NEW via \in {"cached", "fresh", "fallback"}, Return(c, left, via)
  PROVE  /\ sleep' \in [Workers -> 0..Interval] /\ serving' \in SUBSET Workers
         /\ \E k : /\ Done(k) /\ call' = [call EXCEPT ![c] = k]
                   /\ k.pc = "use" => k.new = left /\ k.via = via /\ k.waited = 0
<1>1. CASE c \in Workers /\ LoopGoesOn(c)
  BY <1>1, LoopEnds
<1>2. CASE c \in Requests /\ UNCHANGED loop
           /\ call' = [call EXCEPT ![c] = [IdleCall EXCEPT !.pc = "use", !.env = call[c].env,
                                                            !.new = left, !.via = via]]
  <2> DEFINE k == [IdleCall EXCEPT !.pc = "use", !.env = call[c].env,
                                   !.new = left, !.via = via]
  <2>1. call[c].env \in Envs
    BY DEF TypeOK, Call
  <2>2. k \in Call
    BY <2>1, CallTypes DEF Call, Awaiting
  <2>3. k.pc = "use" /\ k.new = left /\ k.via = via /\ k.waited = 0
    BY DEF IdleCall
  <2>4. call' = [call EXCEPT ![c] = k]
    BY <1>2
  <2> HIDE DEF k
  <2> QED BY <1>2, <2>2, <2>3, <2>4 DEF loop, TypeOK, Done
<1> QED BY <1>1, <1>2 DEF Return

\* So does raising.
LEMMA RaiseEnds ==
  ASSUME TypeOK, NEW c \in Callers, Raise(c)
  PROVE  /\ sleep' \in [Workers -> 0..Interval] /\ serving' \in SUBSET Workers
         /\ \E k : Done(k) /\ k.pc # "use" /\ call' = [call EXCEPT ![c] = k]
<1>1. Done(IdleCall) /\ IdleCall.pc # "use"
  BY CallTypes DEF Done, IdleCall
<1> QED BY <1>1, LoopEnds DEF Raise, TypeOK, loop

\* A refresh that fails ends the call with the old token, or raises, and frees the
\* lock.
LEMMA FallBackEnds ==
  ASSUME TypeOK, NEW c \in Callers, FallBack(c)
  PROVE  /\ sleep' \in [Workers -> 0..Interval] /\ serving' \in SUBSET Workers
         /\ lock' = [lock EXCEPT ![WorkerOf(c)] = Nobody]
         /\ \E k : /\ Done(k) /\ call' = [call EXCEPT ![c] = k]
                   /\ k.pc = "use" => k.via = "fallback"
<1>1. call[c].old \in 0..Life
  BY DEF TypeOK, Call
<1> QED BY <1>1, ReturnEnds, RaiseEnds DEF FallBack, Release

\* The upsert keeps the types of the store.
LEMMA UpsertTypes ==
  ASSUME TypeOK, NEW c \in Callers, Upsert(c)
  PROVE  /\ docs' \in SUBSET Envs /\ access' \in [Envs -> 0..Life]
         /\ app' \in [Envs -> 0..AppLife] /\ unique' \in {"yes", "no"}
         /\ writer' \in [Envs -> Workers \union {Nobody}]
<1>1. call[c].env \in Envs /\ call[c].new \in 0..Life /\ call[c].app \in 0..AppLife
  BY DEF TypeOK, Call
<1> QED BY <1>1, CallersHaveWorkers DEF Upsert, TypeOK

\* Every step keeps the types, over every state and every caller of the module.
LEMMA TypeStep == TypeOK /\ [Next]_vars => TypeOK'
<1> SUFFICES ASSUME TypeOK, [Next]_vars PROVE TypeOK'
  OBVIOUS
<1>a. ASSUME NEW c \in Callers, NEW k \in Call, call' = [call EXCEPT ![c] = k]
      PROVE  call' \in [Callers -> Call]
  BY <1>a DEF TypeOK
<1>b. ASSUME NEW c \in Callers
      PROVE  [lock EXCEPT ![WorkerOf(c)] = Nobody] \in [Workers -> Callers \union {Nobody}]
  BY DEF TypeOK
<1>c. ASSUME NEW c \in Callers, NEW pc \in Awaiting \union {"wait"}
      PROVE  [call[c] EXCEPT !.pc = pc, !.waited = 0] \in Call
  <2>1. call[c] \in Call
    BY DEF TypeOK
  <2> QED BY <2>1, Times, Zenon DEF Call
<1>d. ASSUME NEW c \in Callers, Done(call'[c]), call' = [call EXCEPT ![c] = call'[c]]
      PROVE  call' \in [Callers -> Call]
  BY <1>d, <1>a DEF Done
<1>1. ASSUME NEW w \in Workers, Wake(w) PROVE TypeOK'
  <2>1. w \in Callers /\ Begin(1) \in Call
    BY CallTypes, Times DEF Callers, Envs
  <2> QED BY <1>1, <2>1, <1>a DEF Wake, TypeOK, store, loop
<1>2. ASSUME NEW c \in Requests, NEW e \in Envs, Request(c, e) PROVE TypeOK'
  <2>1. c \in Callers /\ Begin(e) \in Call
    BY CallTypes DEF Callers
  <2> QED BY <1>2, <2>1, <1>a DEF Request, TypeOK, store, loop
<1>3. ASSUME NEW c \in Requests, Use(c) PROVE TypeOK'
  <2>1. c \in Callers /\ IdleCall \in Call
    BY CallTypes DEF Callers
  <2> QED BY <1>3, <2>1, <1>a DEF Use, TypeOK, store, loop
<1>4. ASSUME NEW c \in Callers, Read(c) PROVE TypeOK'
  <2>0. call[c].env \in Envs /\ access[call[c].env] \in 0..Life
    BY DEF TypeOK, Call
  <2>1. CASE Return(c, access[call[c].env], "cached")
    <3>1. PICK k : Done(k) /\ call' = [call EXCEPT ![c] = k]
      BY <2>0, <2>1, ReturnEnds
    <3>2. sleep' \in [Workers -> 0..Interval] /\ serving' \in SUBSET Workers
      BY <2>0, <2>1, ReturnEnds
    <3>3. call' \in [Callers -> Call]
      BY <3>1, <1>a DEF Done
    <3> QED BY <1>4, <3>2, <3>3 DEF Read, TypeOK, store
  <2>2. CASE Goto(c, "wait") /\ UNCHANGED loop
    <3>1. [call[c] EXCEPT !.pc = "wait", !.waited = 0] \in Call
      BY <1>c
    <3>2. call' \in [Callers -> Call]
      BY <2>2, <3>1, <1>a DEF Goto
    <3> QED BY <1>4, <2>2, <3>2 DEF Read, TypeOK, store, loop
  <2> QED BY <1>4, <2>1, <2>2 DEF Read
<1>5. ASSUME NEW c \in Callers, Acquire(c) PROVE TypeOK'
  <2>1. [call[c] EXCEPT !.pc = "recheck", !.waited = 0] \in Call
    BY <1>c DEF Awaiting, Holding
  <2>2. call' \in [Callers -> Call]
    BY <1>5, <2>1, <1>a DEF Acquire, Goto
  <2> QED BY <1>5, <2>2 DEF Acquire, TypeOK, store, loop
<1>6. ASSUME NEW c \in Callers, Recheck(c) PROVE TypeOK'
  <2>0. call[c].env \in Envs /\ access[call[c].env] \in 0..Life
    BY DEF TypeOK, Call
  <2>1. CASE Return(c, access[call[c].env], "cached") /\ Release(c)
    <3>1. PICK k : Done(k) /\ call' = [call EXCEPT ![c] = k]
      BY <2>0, <2>1, ReturnEnds
    <3>2. sleep' \in [Workers -> 0..Interval] /\ serving' \in SUBSET Workers
      BY <2>0, <2>1, ReturnEnds
    <3>3. call' \in [Callers -> Call]
      BY <3>1, <1>a DEF Done
    <3> QED BY <1>6, <2>1, <3>2, <3>3, <1>b DEF Recheck, Release, TypeOK, store
  <2>2. CASE /\ call' = [call EXCEPT ![c] = [@ EXCEPT !.pc = "reuse", !.waited = 0,
                      !.old = access[call[c].env],
                      !.hasOld = IF call[c].env \in docs THEN "yes" ELSE "no"]]
             /\ UNCHANGED <<lock, loop>>
    <3>1. [call[c] EXCEPT !.pc = "reuse", !.waited = 0, !.old = access[call[c].env],
             !.hasOld = IF call[c].env \in docs THEN "yes" ELSE "no"] \in Call
      <4>1. call[c] \in Call
        BY DEF TypeOK
      <4>2. "reuse" \in Awaiting \union {"idle", "wait"}
        BY DEF Awaiting, Holding, Refreshing
      <4> QED BY <4>1, <4>2, <2>0, Times, Zenon DEF Call
    <3>2. call' \in [Callers -> Call]
      BY <2>2, <3>1, <1>a
    <3> QED BY <1>6, <2>2, <3>2 DEF Recheck, TypeOK, store, loop
  <2> QED BY <1>6, <2>1, <2>2 DEF Recheck
<1>7. ASSUME NEW c \in Callers, LookFails(c) PROVE TypeOK'
  <2>0. Raise(c) /\ UNCHANGED store
    BY <1>7 DEF LookFails
  <2>1. PICK k : Done(k) /\ call' = [call EXCEPT ![c] = k]
    BY <2>0, RaiseEnds
  <2>2. sleep' \in [Workers -> 0..Interval] /\ serving' \in SUBSET Workers
    BY <2>0, RaiseEnds
  <2>3. call' \in [Callers -> Call]
    BY <2>1, <1>a DEF Done
  <2>4. lock' \in [Workers -> Callers \union {Nobody}]
    BY <1>7, <1>b DEF LookFails, Release, TypeOK
  <2> QED BY <2>0, <2>2, <2>3, <2>4 DEF TypeOK, store
<1>8. ASSUME NEW c \in Callers, Reuse(c) \/ GetAppToken(c) \/ Login(c) PROVE TypeOK'
  <2>0. call[c] \in Call /\ call[c].env \in Envs /\ app[call[c].env] \in 0..AppLife
    BY DEF TypeOK, Call
  <2>00. {"login", "write"} \subseteq Awaiting \union {"idle", "wait"}
    BY DEF Awaiting, Holding, Refreshing
  <2>1. ASSUME NEW a \in 0..AppLife
        PROVE  [call[c] EXCEPT !.pc = "login", !.waited = 0, !.app = a] \in Call
    BY <2>0, Times, <2>00, Zenon DEF Call
  <2>2. ASSUME NEW n \in 0..Life
        PROVE  [call[c] EXCEPT !.pc = "write", !.waited = 0, !.new = n] \in Call
    BY <2>0, Times, <2>00, Zenon DEF Call
  <2>3. [call[c] EXCEPT !.pc = "app", !.waited = 0] \in Call
    BY <1>c DEF Awaiting, Holding, Refreshing
  <2>4. Minted(c, AppLife) \subseteq 0..AppLife /\ Minted(c, Life) \subseteq 0..Life
    BY MintedLives, Times
  <2>5. \E k \in Call : call' = [call EXCEPT ![c] = k]
    <3>1. CASE Reuse(c)
      BY <3>1, <2>0, <2>1, <2>3 DEF Reuse, Goto
    <3>2. CASE GetAppToken(c)
      BY <3>2, <2>1, <2>4 DEF GetAppToken
    <3>3. CASE Login(c)
      BY <3>3, <2>2, <2>4 DEF Login
    <3> QED BY <1>8, <3>1, <3>2, <3>3
  <2>6. call' \in [Callers -> Call]
    BY <2>5, <1>a
  <2> QED BY <1>8, <2>6 DEF Reuse, GetAppToken, Login, TypeOK, store, loop
<1>9. ASSUME NEW c \in Callers, Write(c) PROVE TypeOK'
  <2>0. call[c].new \in 0..Life
    BY DEF TypeOK, Call
  <2>1. Upsert(c) /\ Return(c, call[c].new, "fresh") /\ Release(c)
    BY <1>9 DEF Write
  <2>2. PICK k : Done(k) /\ call' = [call EXCEPT ![c] = k]
    BY <2>0, <2>1, ReturnEnds
  <2>3. sleep' \in [Workers -> 0..Interval] /\ serving' \in SUBSET Workers
    BY <2>0, <2>1, ReturnEnds
  <2>4. call' \in [Callers -> Call]
    BY <2>2, <1>a DEF Done
  <2> QED BY <2>1, <2>3, <2>4, <1>b, UpsertTypes DEF Release, TypeOK
<1>10. ASSUME NEW c \in Callers, RefreshFails(c) PROVE TypeOK'
  <2>1. FallBack(c) /\ (UNCHANGED store \/ Upsert(c))
    BY <1>10 DEF RefreshFails
  <2>2. PICK k : Done(k) /\ call' = [call EXCEPT ![c] = k]
    BY <2>1, FallBackEnds
  <2>3. /\ sleep' \in [Workers -> 0..Interval] /\ serving' \in SUBSET Workers
        /\ lock' \in [Workers -> Callers \union {Nobody}]
    BY <2>1, FallBackEnds, <1>b
  <2>4. call' \in [Callers -> Call]
    BY <2>2, <1>a DEF Done
  <2> QED BY <2>1, <2>3, <2>4, UpsertTypes DEF TypeOK, store
<1>11. ASSUME NEW w \in Workers, Restart(w) PROVE TypeOK'
  <2>1. /\ call' \in [Callers -> Call] /\ lock' \in [Workers -> Callers \union {Nobody}]
        /\ sleep' \in [Workers -> 0..Interval] /\ serving' \in SUBSET Workers
    BY <1>11, CallTypes, Times, Zenon DEF Restart, TypeOK
  <2> QED BY <1>11, <2>1 DEF Restart, TypeOK, store
<1>12. CASE BuildIndex
  BY <1>12 DEF BuildIndex, TypeOK, loop
<1>13. CASE Tick
  <2>1. ASSUME NEW c \in Callers PROVE Aged(call[c]) \in Call
    <3>1. call[c] \in Call /\ (call[c].pc \in Timed => call[c].waited < MaxWait)
      BY <1>13 DEF Tick, TypeOK
    <3>4. call[c].waited \in 0..MaxWait
      BY <3>1 DEF Call
    <3>2. Less(call[c].old) \in 0..Life /\ Less(call[c].new) \in 0..Life
          /\ Less(call[c].app) \in 0..AppLife
      BY <3>1, Times, LessTypes DEF Call
    <3>3. (IF call[c].pc \in Timed THEN call[c].waited + 1 ELSE 0) \in 0..MaxWait
      BY <3>1, Times, <3>4
    <3> QED BY <3>1, <3>2, <3>3 DEF Aged, Call
  <2>2. access' \in [Envs -> 0..Life] /\ app' \in [Envs -> 0..AppLife]
        /\ sleep' \in [Workers -> 0..Interval]
    BY <1>13, LessTypes, Times, Zenon DEF Tick, TypeOK
  <2>3. call' \in [Callers -> Call]
    BY <1>13, <2>1 DEF Tick
  <2> QED BY <1>13, <2>2, <2>3 DEF Tick, TypeOK
<1>14. CASE UNCHANGED vars
  BY <1>14 DEF vars, store, loop, TypeOK
<1> QED
  BY <1>1, <1>2, <1>3, <1>4, <1>5, <1>6, <1>7, <1>8, <1>9, <1>10, <1>11, <1>12, <1>13, <1>14
  DEF Next, CallStep

\* The empty collection and the idle calls are typed.
LEMMA TypeInit == Init => TypeOK
BY CallTypes, TimeAssumption, CallersAssumption DEF Init, TypeOK, Callers

\* The store, the locks, the loops and every caller keep their types, for any
\* workers, requests, environments and times (token_manager.py 25-201).
THEOREM TypeCorrect == Spec => []TypeOK
<1> QED BY TypeInit, TypeStep, PTL DEF Spec

-----------------------------------------------------------------------------
(* Logins of one worker *)

\* A call between Acquire and Release is the one that holds its worker's lock.
HoldersHold == \A c \in Callers : call[c].pc \in Holding => lock[WorkerOf(c)] = c

LoginsInv == TypeOK /\ HoldersHold /\ LoginsAreNeeded

\* No login has been made at the start.
LEMMA LoginsInit == Init => LoginsInv
<1>1. Init => HoldersHold /\ LoginsAreNeeded
  BY DEF Init, HoldersHold, LoginsAreNeeded, IdleCall, Holding, Refreshing
<1> QED BY <1>1, TypeInit DEF LoginsInv

\* A step that ends the call of one caller and at most frees its lock.
LEMMA EndKeepsLogins ==
  ASSUME LoginsInv, NEW c \in Callers, NEW k, Done(k), call' = [call EXCEPT ![c] = k],
         \/ UNCHANGED lock
         \/ lock' = [lock EXCEPT ![WorkerOf(c)] = Nobody] /\ call[c].pc \in Holding
  PROVE  /\ HoldersHold'
         /\ UNCHANGED store => LoginsAreNeeded'
<1>0. k.pc \notin Holding /\ call'[c].pc \notin Holding
  BY DEF Done, Holding, Refreshing, LoginsInv, TypeOK
<1>1. ASSUME NEW d \in Callers, d # c
      PROVE  call'[d] = call[d] /\ (call[d].pc \in Holding => lock'[WorkerOf(d)] = lock[WorkerOf(d)])
  BY <1>1, CallersHaveWorkers DEF LoginsInv, TypeOK, HoldersHold
<1>2. HoldersHold'
  BY <1>0, <1>1 DEF LoginsInv, HoldersHold
<1>3. UNCHANGED store => LoginsAreNeeded'
  BY <1>0, <1>1 DEF LoginsInv, LoginsAreNeeded, Holding, store
<1> QED BY <1>2, <1>3

\* The upsert of the call that holds the lock: no other call of its worker
\* refreshes, and for the calls of other workers the writer is someone else.
LEMMA UpsertKeepsLogins ==
  ASSUME LoginsInv, NEW c \in Callers, At(c, "write"), Upsert(c),
         NEW k, Done(k), call' = [call EXCEPT ![c] = k]
  PROVE  LoginsAreNeeded'
<1> SUFFICES ASSUME NEW d \in Callers, (call[d].pc \in Refreshing)',
                    (writer[call[d].env] = WorkerOf(d))'
             PROVE  (access[call[d].env] <= InnerMargin)'
  BY DEF LoginsAreNeeded, WorkerOf
<1>1. d # c /\ call'[d] = call[d]
  BY DEF Done, Refreshing, LoginsInv, TypeOK
<1>2. WorkerOf(d) # WorkerOf(c)
  BY <1>1 DEF LoginsInv, HoldersHold, Holding, Refreshing, At
<1>3. call[c].env \in Envs /\ call[d].env \in Envs
  BY DEF LoginsInv, TypeOK, Call
<1>4. call[d].env # call[c].env
  BY <1>1, <1>2, <1>3 DEF Upsert, LoginsInv, TypeOK, WorkerOf
<1>5. access'[call[d].env] = access[call[d].env] /\ writer'[call[d].env] = writer[call[d].env]
  BY <1>3, <1>4 DEF Upsert, LoginsInv, TypeOK
<1> QED BY <1>1, <1>5 DEF LoginsInv, LoginsAreNeeded, WorkerOf

\* A step within a call: it changes nothing but the call, which stays under the
\* lock it held, and starts to refresh only on a token that is about to end.
LEMMA GoKeepsLogins ==
  ASSUME LoginsInv, NEW c \in Callers, NEW k \in Call, call' = [call EXCEPT ![c] = k],
         UNCHANGED <<store, lock>>, k.env = call[c].env,
         k.pc \in Holding => call[c].pc \in Holding,
         k.pc \in Refreshing => \/ call[c].pc \in Refreshing
                                \/ access[k.env] <= InnerMargin
  PROVE  HoldersHold' /\ LoginsAreNeeded'
<1>1. \A d \in Callers : call'[d] = IF d = c THEN k ELSE call[d]
  BY DEF LoginsInv, TypeOK
<1>2. HoldersHold'
  BY <1>1 DEF LoginsInv, HoldersHold
<1>3. LoginsAreNeeded'
  BY <1>1 DEF LoginsInv, LoginsAreNeeded, store
<1> QED BY <1>2, <1>3

\* Every step keeps what is known of the logins (token_manager.py).
LEMMA LoginsStep == LoginsInv /\ [Next]_vars => LoginsInv'
<1> SUFFICES ASSUME LoginsInv, [Next]_vars PROVE HoldersHold' /\ LoginsAreNeeded'
  BY TypeStep DEF LoginsInv
<1>0. TypeOK /\ Requests \subseteq Callers /\ Workers \subseteq Callers
  BY DEF LoginsInv, Callers
<1>a. \A c \in Callers : call[c] \in Call /\ call[c].env \in Envs
  BY <1>0 DEF TypeOK, Call
<1>b. Done(IdleCall) /\ \A e \in Envs : Done(Begin(e))
  BY CallTypes DEF Done, IdleCall, Begin
<1>1. ASSUME NEW w \in Workers, Wake(w) PROVE HoldersHold' /\ LoginsAreNeeded'
  <2>1. 1 \in Envs
    BY Times DEF Envs
  <2> QED BY <1>1, <2>1, <1>0, <1>b, EndKeepsLogins DEF Wake
<1>2. ASSUME NEW c \in Requests, NEW e \in Envs, Request(c, e)
      PROVE  HoldersHold' /\ LoginsAreNeeded'
  BY <1>2, <1>0, <1>b, EndKeepsLogins DEF Request
<1>3. ASSUME NEW c \in Requests, Use(c) PROVE HoldersHold' /\ LoginsAreNeeded'
  BY <1>3, <1>0, <1>b, EndKeepsLogins DEF Use
<1>4. ASSUME NEW c \in Callers, Read(c) PROVE HoldersHold' /\ LoginsAreNeeded'
  <2>1. CASE Return(c, access[call[c].env], "cached")
    <3>1. access[call[c].env] \in 0..Life
      BY <1>0, <1>a DEF TypeOK
    <3>2. PICK k : Done(k) /\ call' = [call EXCEPT ![c] = k]
      BY <2>1, <3>1, <1>0, ReturnEnds
    <3> QED BY <1>4, <3>2, EndKeepsLogins DEF Read
  <2>2. CASE Goto(c, "wait")
    <3> DEFINE k == [call[c] EXCEPT !.pc = "wait", !.waited = 0]
    <3>1. k \in Call
      BY <1>a, Times, Zenon DEF Call
    <3>2. k.pc = "wait" /\ k.env = call[c].env
      BY <1>a DEF Call
    <3>3. call' = [call EXCEPT ![c] = k]
      BY <2>2 DEF Goto
    <3> HIDE DEF k
    <3> QED BY <1>4, <3>1, <3>2, <3>3, GoKeepsLogins DEF Read, Holding, Refreshing
  <2> QED BY <1>4, <2>1, <2>2 DEF Read
<1>5. ASSUME NEW c \in Callers, Acquire(c) PROVE HoldersHold' /\ LoginsAreNeeded'
  <2>1. call'[c].pc = "recheck" /\ call'[c].env = call[c].env
    BY <1>5, <1>0, <1>a DEF Acquire, Goto, TypeOK, Call
  <2>2. \A d \in Callers : d # c => call'[d] = call[d]
    BY <1>5, <1>0 DEF Acquire, Goto, TypeOK
  <2>3. \A d \in Callers : d # c /\ call[d].pc \in Holding => WorkerOf(d) # WorkerOf(c)
    BY <1>5, CallersHaveWorkers DEF Acquire, LoginsInv, HoldersHold
  <2>4. \A d \in Callers :
          lock'[WorkerOf(d)] = IF WorkerOf(d) = WorkerOf(c) THEN c ELSE lock[WorkerOf(d)]
    BY <1>5, <1>0, CallersHaveWorkers DEF Acquire, TypeOK
  <2>5. HoldersHold'
    BY <2>2, <2>3, <2>4 DEF HoldersHold, LoginsInv, WorkerOf
  <2>6. LoginsAreNeeded'
    BY <1>5, <2>1, <2>2 DEF LoginsAreNeeded, LoginsInv, Acquire, store, Refreshing, WorkerOf
  <2> QED BY <2>5, <2>6
<1>6. ASSUME NEW c \in Callers, Recheck(c) PROVE HoldersHold' /\ LoginsAreNeeded'
  <2>0. access[call[c].env] \in 0..Life /\ call[c].pc \in Holding
    BY <1>6, <1>0, <1>a DEF TypeOK, Recheck, At, Holding
  <2>1. CASE Return(c, access[call[c].env], "cached") /\ Release(c)
    <3>1. PICK k : Done(k) /\ call' = [call EXCEPT ![c] = k]
      BY <2>0, <2>1, <1>0, ReturnEnds
    <3> QED BY <1>6, <2>0, <2>1, <3>1, EndKeepsLogins DEF Recheck, Release
  <2>2. CASE /\ ~StillGood(access[call[c].env])
             /\ call' = [call EXCEPT ![c] = [@ EXCEPT !.pc = "reuse", !.waited = 0,
                      !.old = access[call[c].env],
                      !.hasOld = IF call[c].env \in docs THEN "yes" ELSE "no"]]
             /\ UNCHANGED <<lock, loop>>
    <3> DEFINE k == [call[c] EXCEPT !.pc = "reuse", !.waited = 0,
                      !.old = access[call[c].env],
                      !.hasOld = IF call[c].env \in docs THEN "yes" ELSE "no"]
    <3>1. "reuse" \in Awaiting \union {"idle", "wait"}
      BY DEF Awaiting, Holding, Refreshing
    <3>2. k \in Call
      BY <3>1, <2>0, <1>a, Times, Zenon DEF Call
    <3>3. k.env = call[c].env
      BY <1>a DEF Call
    <3>4. access[k.env] <= InnerMargin
      BY <2>2, <2>0, <3>3, Times DEF StillGood
    <3>5. call' = [call EXCEPT ![c] = k]
      BY <2>2
    <3> HIDE DEF k
    <3> QED BY <1>6, <2>0, <2>2, <3>2, <3>3, <3>4, <3>5, GoKeepsLogins DEF Recheck
  <2> QED BY <1>6, <2>1, <2>2 DEF Recheck
<1>7. ASSUME NEW c \in Callers, LookFails(c) PROVE HoldersHold' /\ LoginsAreNeeded'
  <2>1. PICK k : Done(k) /\ call' = [call EXCEPT ![c] = k]
    BY <1>7, <1>0, RaiseEnds DEF LookFails
  <2> QED BY <1>7, <2>1, EndKeepsLogins DEF LookFails, Release, At, Holding
<1>8. ASSUME NEW c \in Callers, Reuse(c) \/ GetAppToken(c) \/ Login(c)
      PROVE  HoldersHold' /\ LoginsAreNeeded'
  <2>1. call[c].pc \in Refreshing
    BY <1>8 DEF Reuse, GetAppToken, Login, At, Refreshing
  <2>2. app[call[c].env] \in 0..AppLife
    BY <1>0, <1>a DEF TypeOK
  <2>3. {"login", "write", "app"} \subseteq Awaiting \union {"idle", "wait"}
    BY DEF Awaiting, Holding, Refreshing
  <2>4. ASSUME NEW a \in 0..AppLife
        PROVE  /\ [call[c] EXCEPT !.pc = "login", !.waited = 0, !.app = a] \in Call
               /\ [call[c] EXCEPT !.pc = "login", !.waited = 0, !.app = a].env = call[c].env
    <3>1. [call[c] EXCEPT !.pc = "login", !.waited = 0, !.app = a] \in Call
      BY <1>a, <2>3, Times, Zenon DEF Call
    <3> QED BY <3>1, <1>a DEF Call
  <2>5. ASSUME NEW n \in 0..Life
        PROVE  /\ [call[c] EXCEPT !.pc = "write", !.waited = 0, !.new = n] \in Call
               /\ [call[c] EXCEPT !.pc = "write", !.waited = 0, !.new = n].env = call[c].env
    <3>1. [call[c] EXCEPT !.pc = "write", !.waited = 0, !.new = n] \in Call
      BY <1>a, <2>3, Times, Zenon DEF Call
    <3> QED BY <3>1, <1>a DEF Call
  <2>6. /\ [call[c] EXCEPT !.pc = "app", !.waited = 0] \in Call
        /\ [call[c] EXCEPT !.pc = "app", !.waited = 0].env = call[c].env
    <3>1. [call[c] EXCEPT !.pc = "app", !.waited = 0] \in Call
      BY <1>a, <2>3, Times, Zenon DEF Call
    <3> QED BY <3>1, <1>a DEF Call
  <2>7. PICK k \in Call : k.env = call[c].env /\ call' = [call EXCEPT ![c] = k]
    <3>1. CASE Reuse(c)
      BY <3>1, <2>2, <2>4, <2>6 DEF Reuse, Goto
    <3>2. CASE GetAppToken(c)
      <4>1. Minted(c, AppLife) \subseteq 0..AppLife
        BY <1>0, MintedLives, Times
      <4> QED BY <3>2, <2>4, <4>1 DEF GetAppToken
    <3>3. CASE Login(c)
      <4>1. Minted(c, Life) \subseteq 0..Life
        BY <1>0, MintedLives, Times
      <4> QED BY <3>3, <2>5, <4>1 DEF Login
    <3> QED BY <1>8, <3>1, <3>2, <3>3
  <2> QED BY <1>8, <2>1, <2>7, GoKeepsLogins DEF Reuse, GetAppToken, Login, Holding
<1>9. ASSUME NEW c \in Callers, Write(c) PROVE HoldersHold' /\ LoginsAreNeeded'
  <2>1. At(c, "write") /\ Upsert(c) /\ Release(c) /\ call[c].pc \in Holding
    BY <1>9 DEF Write, At, Holding, Refreshing
  <2>2. PICK k : Done(k) /\ call' = [call EXCEPT ![c] = k]
    BY <1>9, <1>0, <1>a, ReturnEnds DEF Write, Call
  <2> QED BY <2>1, <2>2, EndKeepsLogins, UpsertKeepsLogins DEF Release
<1>10. ASSUME NEW c \in Callers, RefreshFails(c) PROVE HoldersHold' /\ LoginsAreNeeded'
  <2>1. FallBack(c) /\ call[c].pc \in Holding /\ (UNCHANGED store \/ (At(c, "write") /\ Upsert(c)))
    <3>1. FallBack(c) /\ (UNCHANGED store \/ (At(c, "write") /\ Upsert(c)))
      BY <1>10 DEF RefreshFails
    <3>2. call[c].pc \in {"reuse", "app", "login", "write"}
      BY <1>10 DEF RefreshFails, At
    <3> QED BY <3>1, <3>2 DEF Holding, Refreshing
  <2>2. PICK k : Done(k) /\ call' = [call EXCEPT ![c] = k]
    BY <2>1, <1>0, FallBackEnds
  <2> QED BY <2>1, <2>2, <1>0, FallBackEnds, EndKeepsLogins, UpsertKeepsLogins
<1>11. ASSUME NEW w \in Workers, Restart(w) PROVE HoldersHold' /\ LoginsAreNeeded'
  <2>1. \A d \in Callers : \/ call'[d] = IdleCall
                           \/ call'[d] = call[d] /\ WorkerOf(d) # w
    BY <1>11 DEF Restart
  <2>2. \A d \in Callers : WorkerOf(d) # w => lock'[WorkerOf(d)] = lock[WorkerOf(d)]
    BY <1>11, <1>0, CallersHaveWorkers DEF Restart, TypeOK
  <2>3. IdleCall.pc \notin Holding
    BY DEF IdleCall, Holding, Refreshing
  <2>4. HoldersHold'
    BY <2>1, <2>2, <2>3 DEF HoldersHold, LoginsInv, WorkerOf
  <2>5. LoginsAreNeeded'
    BY <1>11, <2>1, <2>3 DEF Restart, store, LoginsAreNeeded, LoginsInv, Holding, WorkerOf
  <2> QED BY <2>4, <2>5
<1>12. CASE BuildIndex
  BY <1>12 DEF BuildIndex, LoginsInv, HoldersHold, LoginsAreNeeded, loop, WorkerOf
<1>13. CASE Tick
  <2>1. \A d \in Callers : call'[d].pc = call[d].pc /\ call'[d].env = call[d].env
    <3> TAKE d \in Callers
    <3>1. call'[d] = Aged(call[d])
      BY <1>13 DEF Tick
    <3> QED BY <3>1, <1>a DEF Aged, Call
  <2>2. \A e \in Envs : access[e] \in Nat /\ access'[e] = Less(access[e])
    BY <1>13, <1>0, Times DEF Tick, TypeOK
  <2>3. \A e \in Envs : access[e] <= InnerMargin => access'[e] <= InnerMargin
    BY <2>2, Times DEF Less
  <2>4. HoldersHold'
    BY <1>13, <2>1 DEF Tick, LoginsInv, HoldersHold, WorkerOf
  <2>5. LoginsAreNeeded'
    BY <1>13, <1>a, <2>1, <2>3 DEF Tick, LoginsInv, LoginsAreNeeded, WorkerOf
  <2> QED BY <2>4, <2>5
<1>14. CASE UNCHANGED vars
  BY <1>14 DEF vars, store, loop, LoginsInv, HoldersHold, LoginsAreNeeded, WorkerOf
<1> QED
  BY <1>1, <1>2, <1>3, <1>4, <1>5, <1>6, <1>7, <1>8, <1>9, <1>10, <1>11, <1>12, <1>13, <1>14
  DEF Next, CallStep

\* However calls, restarts and other workers interleave, no worker logs in on top
\* of a token it stored itself that still has more than InnerMargin to live: the
\* lock and the second look are enough (token_manager.py 58-72).
THEOREM NoRepeatedLogin == Spec => []LoginsAreNeeded
<1>1. LoginsInv => LoginsAreNeeded
  BY DEF LoginsInv
<1> QED BY <1>1, LoginsInit, LoginsStep, PTL DEF Spec

-----------------------------------------------------------------------------
(* What is left of a token when it is used *)

\* What an await has used up is made up for by the margin it was checked with; a
\* token to be written has aged over two awaits, the login's and the upsert's.
InTime(k) ==
  /\ k.pc = "use" /\ k.via # "fallback" => k.new + k.waited > MaxWait
  /\ k.pc = "login" => k.app + k.waited > MaxWait
  /\ k.pc = "write" => k.new + k.waited + MaxWait >= Life

TimeInv == TypeOK /\ \A c \in Callers : InTime(call[c])

\* No token has been given out at the start.
LEMMA TimeInit == Init => TimeInv
<1>1. InTime(IdleCall)
  BY DEF InTime, IdleCall
<1> QED BY <1>1, TypeInit DEF Init, TimeInv

\* A call that is replaced by one in time.
LEMMA OneInTime ==
  ASSUME TimeInv, NEW c \in Callers, NEW k, InTime(k), call' = [call EXCEPT ![c] = k]
  PROVE  \A d \in Callers : InTime(call[d])'
<1>1. \A d \in Callers : call'[d] = IF d = c THEN k ELSE call[d]
  BY DEF TimeInv, TypeOK
<1> QED BY <1>1 DEF TimeInv, InTime

\* A call that has ended with a token long enough to live.
LEMMA ReturnInTime ==
  ASSUME TimeInv, NEW c \in Callers, NEW left \in 0..Life, NEW via \in {"cached", "fresh"},
         left > MaxWait, Return(c, left, via)
  PROVE  \A d \in Callers : InTime(call[d])'
<1>1. PICK k : /\ Done(k) /\ call' = [call EXCEPT ![c] = k]
               /\ k.pc = "use" => k.new = left /\ k.via = via /\ k.waited = 0
  BY ReturnEnds DEF TimeInv
<1>2. InTime(k)
  BY <1>1, Times DEF Done, InTime
<1> QED BY <1>1, <1>2, OneInTime

\* Every step keeps what is known of expiries, the passage of time included.
LEMMA TimeStep == TimeInv /\ [Next]_vars => TimeInv'
<1> SUFFICES ASSUME TimeInv, [Next]_vars PROVE \A d \in Callers : InTime(call[d])'
  BY TypeStep DEF TimeInv
<1>0. TypeOK /\ Requests \subseteq Callers /\ Workers \subseteq Callers
  BY DEF TimeInv, Callers
<1>a. \A c \in Callers : /\ call[c] \in Call /\ call[c].env \in Envs
                         /\ access[call[c].env] \in 0..Life /\ app[call[c].env] \in 0..AppLife
  BY <1>0 DEF TypeOK, Call
<1>b. InTime(IdleCall) /\ \A e \in Envs : InTime(Begin(e))
  BY DEF InTime, IdleCall, Begin
<1>c. /\ Life \in Nat /\ Margin \in Nat /\ InnerMargin \in Nat /\ AppMargin \in Nat
      /\ MaxWait \in Nat /\ AppLife \in Nat
      /\ MaxWait <= InnerMargin /\ MaxWait <= Margin /\ MaxWait <= AppMargin
      /\ 2 * MaxWait < AppLife /\ 3 * MaxWait < Life
  BY TimeAssumption
<1>1. ASSUME NEW w \in Workers, Wake(w) PROVE \A d \in Callers : InTime(call[d])'
  <2>1. 1 \in Envs
    BY Times DEF Envs
  <2> QED BY <1>1, <2>1, <1>0, <1>b, OneInTime DEF Wake
<1>2. ASSUME NEW c \in Requests, NEW e \in Envs, Request(c, e)
      PROVE  \A d \in Callers : InTime(call[d])'
  BY <1>2, <1>0, <1>b, OneInTime DEF Request
<1>3. ASSUME NEW c \in Requests, Use(c) PROVE \A d \in Callers : InTime(call[d])'
  BY <1>3, <1>0, <1>b, OneInTime DEF Use
<1>4. ASSUME NEW c \in Callers, Read(c) PROVE \A d \in Callers : InTime(call[d])'
  <2>1. CASE access[call[c].env] > Margin /\ Return(c, access[call[c].env], "cached")
    <3>1. access[call[c].env] > MaxWait
      BY <2>1, <1>a, <1>c
    <3> QED BY <2>1, <3>1, <1>a, ReturnInTime
  <2>2. CASE Goto(c, "wait")
    <3>1. InTime([call[c] EXCEPT !.pc = "wait", !.waited = 0])
      BY <1>a DEF Call, InTime
    <3> QED BY <2>2, <3>1, OneInTime DEF Goto
  <2> QED BY <1>4, <2>1, <2>2 DEF Read
<1>5. ASSUME NEW c \in Callers, Acquire(c) PROVE \A d \in Callers : InTime(call[d])'
  <2>1. InTime([call[c] EXCEPT !.pc = "recheck", !.waited = 0])
    BY <1>a DEF Call, InTime
  <2> QED BY <1>5, <2>1, OneInTime DEF Acquire, Goto
<1>6. ASSUME NEW c \in Callers, Recheck(c) PROVE \A d \in Callers : InTime(call[d])'
  <2>1. CASE StillGood(access[call[c].env]) /\ Return(c, access[call[c].env], "cached")
    <3>1. access[call[c].env] > MaxWait
      BY <2>1, <1>a, <1>c DEF StillGood
    <3> QED BY <2>1, <3>1, <1>a, ReturnInTime
  <2>2. CASE call' = [call EXCEPT ![c] = [@ EXCEPT !.pc = "reuse", !.waited = 0,
                      !.old = access[call[c].env],
                      !.hasOld = IF call[c].env \in docs THEN "yes" ELSE "no"]]
    <3> DEFINE k == [call[c] EXCEPT !.pc = "reuse", !.waited = 0,
                      !.old = access[call[c].env],
                      !.hasOld = IF call[c].env \in docs THEN "yes" ELSE "no"]
    <3>1. k.pc = "reuse"
      BY <1>a DEF Call
    <3>2. call' = [call EXCEPT ![c] = k]
      BY <2>2
    <3> HIDE DEF k
    <3>3. InTime(k)
      BY <3>1 DEF InTime
    <3> QED BY <3>2, <3>3, OneInTime
  <2> QED BY <1>6, <2>1, <2>2 DEF Recheck
<1>7. ASSUME NEW c \in Callers, LookFails(c) PROVE \A d \in Callers : InTime(call[d])'
  <2>1. PICK k : Done(k) /\ k.pc # "use" /\ call' = [call EXCEPT ![c] = k]
    BY <1>7, <1>0, RaiseEnds DEF LookFails
  <2>2. InTime(k)
    BY <2>1 DEF Done, InTime
  <2> QED BY <2>1, <2>2, OneInTime
<1>8. ASSUME NEW c \in Callers, Reuse(c) \/ GetAppToken(c) \/ Login(c)
      PROVE  \A d \in Callers : InTime(call[d])'
  <2>1. ASSUME NEW a \in 0..AppLife, a > MaxWait,
               call' = [call EXCEPT ![c] = [@ EXCEPT !.pc = "login", !.waited = 0, !.app = a]]
        PROVE  \A d \in Callers : InTime(call[d])'
    <3> DEFINE k == [call[c] EXCEPT !.pc = "login", !.waited = 0, !.app = a]
    <3>1. k.pc = "login" /\ k.waited = 0 /\ k.app = a
      BY <1>a DEF Call
    <3>2. call' = [call EXCEPT ![c] = k]
      BY <2>1
    <3> HIDE DEF k
    <3>3. InTime(k)
      BY <2>1, <3>1, <1>c DEF InTime
    <3> QED BY <3>2, <3>3, OneInTime
  <2>2. CASE Reuse(c)
    <3>1. CASE Goto(c, "app")
      <4>1. InTime([call[c] EXCEPT !.pc = "app", !.waited = 0])
        BY <1>a DEF Call, InTime
      <4> QED BY <3>1, <4>1, OneInTime DEF Goto
    <3>2. CASE app[call[c].env] > AppMargin
      <4>1. app[call[c].env] > MaxWait
        BY <3>2, <1>a, <1>c
      <4>2. ~ (app[call[c].env] <= AppMargin)
        BY <3>2, <1>a, <1>c
      <4> QED BY <2>2, <2>1, <4>1, <4>2, <1>a DEF Reuse
    <3> QED BY <2>2, <3>1, <3>2 DEF Reuse
  <2>3. CASE GetAppToken(c)
    <3>1. PICK left \in Minted(c, AppLife) :
            call' = [call EXCEPT ![c] = [@ EXCEPT !.pc = "login", !.waited = 0, !.app = left]]
      BY <2>3 DEF GetAppToken
    <3>2. left \in 0..AppLife /\ left + MaxWait >= AppLife
      BY <1>0, MintedLives, Times
    <3>3. left > MaxWait
      BY <3>2, <1>c
    <3> QED BY <2>1, <3>1, <3>2, <3>3
  <2>4. CASE Login(c)
    <3>0. PICK left \in Minted(c, Life) :
            call' = [call EXCEPT ![c] = [@ EXCEPT !.pc = "write", !.waited = 0, !.new = left]]
      BY <2>4 DEF Login
    <3>a. left \in 0..Life /\ left + MaxWait >= Life
      BY <1>0, MintedLives, Times
    <3> DEFINE k == [call[c] EXCEPT !.pc = "write", !.waited = 0, !.new = left]
    <3>1. k.pc = "write" /\ k.waited = 0 /\ k.new = left
      BY <1>a DEF Call
    <3>2. call' = [call EXCEPT ![c] = k]
      BY <3>0
    <3> HIDE DEF k
    <3>3. InTime(k)
      BY <3>a, <3>1, <1>c DEF InTime
    <3> QED BY <3>2, <3>3, OneInTime
  <2> QED BY <1>8, <2>2, <2>3, <2>4
<1>9. ASSUME NEW c \in Callers, Write(c) PROVE \A d \in Callers : InTime(call[d])'
  <2>1. At(c, "write") /\ Return(c, call[c].new, "fresh")
    BY <1>9 DEF Write
  <2>2. call[c].new \in 0..Life /\ call[c].waited \in 0..MaxWait
    BY <1>a DEF Call
  <2>3. call[c].new + call[c].waited + MaxWait >= Life
    BY <2>1 DEF At, TimeInv, InTime
  <2>4. call[c].new > MaxWait
    BY <2>2, <2>3, <1>c
  <2> QED BY <2>1, <2>2, <2>4, ReturnInTime
<1>10. ASSUME NEW c \in Callers, RefreshFails(c) PROVE \A d \in Callers : InTime(call[d])'
  <2>1. PICK k : /\ Done(k) /\ call' = [call EXCEPT ![c] = k]
                 /\ k.pc = "use" => k.via = "fallback"
    BY <1>10, <1>0, FallBackEnds DEF RefreshFails
  <2>2. InTime(k)
    BY <2>1 DEF Done, InTime
  <2> QED BY <2>1, <2>2, OneInTime
<1>11. ASSUME NEW w \in Workers, Restart(w) PROVE \A d \in Callers : InTime(call[d])'
  <2>1. \A d \in Callers : call'[d] \in {IdleCall, call[d]}
    BY <1>11 DEF Restart
  <2> QED BY <2>1, <1>b DEF TimeInv, InTime
<1>12. CASE BuildIndex
  BY <1>12 DEF BuildIndex, TimeInv, InTime
<1>13. CASE Tick
  <2> SUFFICES ASSUME NEW d \in Callers PROVE InTime(call'[d])
    BY DEF InTime
  <2> DEFINE k == call[d]
  <2>1. k \in Call /\ call'[d] = Aged(k) /\ (k.pc \in Timed => k.waited < MaxWait)
    BY <1>13, <1>a DEF Tick
  <2>2. k.new \in Nat /\ k.app \in Nat /\ k.waited \in Nat /\ InTime(k)
    BY <2>1, <1>c DEF Call, TimeInv
  <2>3. /\ Aged(k).pc = k.pc /\ Aged(k).via = k.via
        /\ Aged(k).new = Less(k.new) /\ Aged(k).app = Less(k.app)
        /\ Aged(k).waited = IF k.pc \in Timed THEN k.waited + 1 ELSE 0
    BY <2>1 DEF Aged, Call
  <2>4. {"use", "login", "write"} \subseteq Timed
    BY DEF Timed
  <2> HIDE DEF k
  <2>5. InTime(Aged(k))
    <3>1. ASSUME k.pc = "use", k.via # "fallback" PROVE Less(k.new) + k.waited + 1 > MaxWait
      BY <3>1, <2>1, <2>2, <2>4, <1>c DEF InTime, Less
    <3>2. ASSUME k.pc = "login" PROVE Less(k.app) + k.waited + 1 > MaxWait
      BY <3>2, <2>1, <2>2, <2>4, <1>c DEF InTime, Less
    <3>3. ASSUME k.pc = "write" PROVE Less(k.new) + k.waited + 1 + MaxWait >= Life
      BY <3>3, <2>1, <2>2, <2>4, <1>c DEF InTime, Less
    <3>4. Less(k.new) \in Nat /\ Less(k.app) \in Nat
      BY <2>2 DEF Less
    <3> QED BY <3>1, <3>2, <3>3, <3>4, <2>2, <2>3, <2>4, <1>c DEF InTime
  <2> QED BY <2>1, <2>5
<1>14. CASE UNCHANGED vars
  BY <1>14 DEF vars, TimeInv, InTime
<1> QED
  BY <1>1, <1>2, <1>3, <1>4, <1>5, <1>6, <1>7, <1>8, <1>9, <1>10, <1>11, <1>12, <1>13, <1>14
  DEF Next, CallStep

\* If Kingdee's answers and the upsert end within the margins (httpx limits the one,
\* nothing in the code the other), a token that was checked before an
\* await is still valid after it, for any lives, margins and number of workers
\* (token_manager.py 50-72, 108-134).
THEOREM TokensOutliveTheirUse == Spec => []HandedOutIsValid
<1>1. TimeInv => HandedOutIsValid
  <2> SUFFICES ASSUME TimeInv, NEW c \in Callers
               PROVE  /\ At(c, "use") /\ call[c].via # "fallback" => call[c].new > 0
                      /\ At(c, "login") => call[c].app > 0
    BY DEF HandedOutIsValid
  <2>1. /\ call[c].new \in 0..Life /\ call[c].app \in 0..AppLife
        /\ call[c].waited \in 0..MaxWait /\ InTime(call[c])
    BY DEF TimeInv, TypeOK, Call
  <2> QED BY <2>1, Times DEF At, InTime
<1> QED BY <1>1, TimeInit, TimeStep, PTL DEF Spec

\* Of two logins the later write wins, but no write takes from an environment more
\* of the stored token's life than two awaits can last: what is left of the login's
\* when the token has been minted, and the upsert's.  That the upsert ends within
\* MaxWait is an assumption (token_manager.py 127-153).
THEOREM NoWriteLosesMuch == Spec => LateWriteLosesLittle
<1>1. TimeInv /\ [Next]_vars
        => [\A e \in Envs : access'[e] # Less(access[e]) => access[e] <= access'[e] + 2 * MaxWait]_vars
  <2> SUFFICES ASSUME TimeInv, Next, NEW e \in Envs, access'[e] # Less(access[e])
               PROVE  access[e] <= access'[e] + 2 * MaxWait
    OBVIOUS
  <2>0. /\ access \in [Envs -> 0..Life] /\ Life \in Nat /\ MaxWait \in Nat
        /\ access[e] \in 0..Life
    BY Times DEF TimeInv, TypeOK
  <2>1. CASE access'[e] = access[e]
    BY <2>0, <2>1
  <2>2. ASSUME NEW c \in Callers, At(c, "write"), Upsert(c), access'[e] # access[e]
        PROVE  access[e] <= access'[e] + 2 * MaxWait
    <3>1. /\ call[c].new \in 0..Life /\ call[c].waited \in 0..MaxWait
          /\ call[c].new + call[c].waited + MaxWait >= Life
      BY <2>2 DEF TimeInv, TypeOK, Call, At, InTime
    <3>2. access'[e] = call[c].new
      BY <2>0, <2>2 DEF Upsert
    <3> QED BY <2>0, <3>1, <3>2
  <2>3. ASSUME NEW c \in Callers, CallStep(c), access'[e] # access[e]
        PROVE  At(c, "write") /\ Upsert(c)
    BY <2>3 DEF CallStep, Read, Recheck, LookFails, Reuse, GetAppToken, Login, Write, RefreshFails,
                store
  <2>4. ASSUME access'[e] # access[e] PROVE \E c \in Callers : CallStep(c)
    <3>1. ~Tick
      BY DEF Tick
    <3> QED BY <2>4, <3>1 DEF Next, Wake, Restart, Use, Request, Acquire, BuildIndex, store
  <2> QED BY <2>1, <2>2, <2>3, <2>4
<1> QED BY <1>1, TimeInit, TimeStep, PTL DEF Spec, LateWriteLosesLittle

-----------------------------------------------------------------------------
(* The prefetch while the other server has not built its index *)

\* A token that lives is in a document; a loop leaves an environment with one; and a
\* worker serves when it has been through them all.
Filled(w) == \A e \in Envs : e < call[w].env => e \in docs

PrefetchInv ==
  /\ TimeInv
  /\ \A e \in Envs : access[e] > 0 => e \in docs
  /\ unique = "no" => /\ \A w \in Workers : Filled(w)
                      /\ PrefetchFillsAll

\* A worker's loop stays where it is, begins again, or leaves an environment that
\* has its document.
Advances(w) ==
  \/ call'[w].env \in {1, call[w].env}
  \/ call'[w].env = call[w].env + 1 /\ call[w].env \in docs'

\* No document exists at the start, and no worker serves.
LEMMA PrefetchInit == Init => PrefetchInv
BY TimeInit, Times DEF Init, PrefetchInv, Filled, IdleCall, Envs, Callers, PrefetchFillsAll

\* Documents stay; what a step may do to the loops and the workers that serve.
LEMMA PrefetchGoesOn ==
  ASSUME PrefetchInv, TimeInv', docs \subseteq docs', unique' = "no" => unique = "no",
         \A e \in Envs : access'[e] > 0 => access[e] > 0 \/ e \in docs',
         unique' = "no" => /\ \A w \in Workers : Advances(w)
                           /\ serving' \subseteq serving \/ Looped \subseteq docs'
  PROVE  PrefetchInv'
<1>1. \A e \in Envs : access'[e] > 0 => e \in docs'
  BY DEF PrefetchInv
<1>2. ASSUME unique' = "no", NEW w \in Workers PROVE Filled(w)'
  <2>1. Filled(w) /\ Advances(w)
    BY <1>2 DEF PrefetchInv
  <2>2. call[w].env \in Nat
    BY DEF PrefetchInv, TimeInv, TypeOK, Callers, Call, Envs
  <2>3. \A e \in Envs : e \in Nat /\ e >= 1
    BY Times DEF Envs
  <2> QED BY <2>1, <2>2, <2>3 DEF Filled, Advances
<1>3. unique' = "no" => PrefetchFillsAll'
  BY DEF PrefetchInv, PrefetchFillsAll, TimeInv, TypeOK
<1> QED BY <1>1, <1>2, <1>3 DEF PrefetchInv

\* A call that returns for an environment with a document lets its loop go on.
LEMMA ReturnAdvances ==
  ASSUME PrefetchInv, unique = "no", NEW c \in Callers, NEW left, NEW via, Return(c, left, via),
         docs \subseteq docs', docs' \subseteq Envs, call[c].env \in docs'
  PROVE  /\ \A w \in Workers : Advances(w)
         /\ serving' \subseteq serving \/ Looped \subseteq docs'
<1>0. /\ call \in [Callers -> Call] /\ Workers \subseteq Callers /\ call[c].env \in Envs
      /\ \A w \in Workers : call[w].env \in Envs
  BY DEF PrefetchInv, TimeInv, TypeOK, Callers, Call
<1>1. CASE c \in Requests
  <2>1. c \notin Workers
    BY <1>1, CallersAssumption
  <2>2. UNCHANGED serving /\ \A w \in Workers : call'[w] = call[w]
    BY <1>0, <1>1, <2>1 DEF Return, loop
  <2> QED BY <2>2 DEF Advances
<1>2. CASE c \in Workers /\ call[c].env < NLooped
           /\ call' = [call EXCEPT ![c] = Begin(call[c].env + 1)] /\ UNCHANGED loop
  <2>1. call'[c].env = call[c].env + 1 /\ \A w \in Workers \ {c} : call'[w] = call[w]
    BY <1>0, <1>2 DEF Begin, IdleCall
  <2> QED BY <1>2, <2>1 DEF Advances, loop
<1>3. CASE c \in Workers /\ call[c].env = NLooped /\ call' = [call EXCEPT ![c] = IdleCall]
  <2>1. call'[c].env = 1 /\ \A w \in Workers \ {c} : call'[w] = call[w]
    BY <1>0, <1>3 DEF IdleCall
  <2>2. Filled(c)
    BY <1>3 DEF PrefetchInv
  <2>3. \A e \in Looped : e \in docs'
    <3> TAKE e \in Looped
    <3>1. e \in Envs /\ (e < NLooped \/ e = NLooped)
      BY Times DEF Envs, Looped
    <3> QED BY <1>3, <2>2, <3>1 DEF Filled
  <2> QED BY <2>1, <2>3 DEF Advances
<1> QED BY <1>1, <1>2, <1>3 DEF Return, LoopGoesOn, Callers

\* Without a fault of Kingdee or MongoDB a refresh fails only when the index turns
\* its document away, so every step leaves what it has been through filled.
LEMMA PrefetchStep ==
  ASSUME Faults \intersect {"kingdee", "mongo"} = {}, PrefetchInv, [Next]_vars
  PROVE  PrefetchInv'
<1>0. /\ TypeOK /\ TimeInv /\ TimeInv' /\ Requests \subseteq Callers /\ Workers \subseteq Callers
      /\ call \in [Callers -> Call] /\ docs \subseteq Envs
      /\ \A c \in Callers : call[c] \in Call /\ call[c].env \in Envs
  BY TimeStep DEF PrefetchInv, TimeInv, TypeOK, Callers, Call
<1>1. ASSUME UNCHANGED <<docs, access, unique, serving>>,
             \A w \in Workers : call'[w].env \in {1, call[w].env}
      PROVE  PrefetchInv'
  BY <1>0, <1>1, PrefetchGoesOn DEF Advances
<1>2. ASSUME NEW c \in Callers, call'[c].env \in {1, call[c].env},
             \A d \in Callers \ {c} : call'[d] = call[d],
             UNCHANGED <<docs, access, unique, serving>>
      PROVE  PrefetchInv'
  BY <1>0, <1>1, <1>2
<1>3. ASSUME NEW c \in Callers, Read(c) \/ Recheck(c) PROVE PrefetchInv'
  <2>0. UNCHANGED <<docs, access, app, unique, writer>>
    BY <1>3 DEF Read, Recheck, store
  <2>1. CASE access[call[c].env] > 0 /\ Return(c, access[call[c].env], "cached")
    <3>1. call[c].env \in docs
      BY <1>0, <2>1 DEF PrefetchInv
    <3>2. unique = "no" => /\ \A w \in Workers : Advances(w)
                           /\ serving' \subseteq serving \/ Looped \subseteq docs'
      BY <1>0, <2>0, <2>1, <3>1, ReturnAdvances
    <3> QED BY <1>0, <2>0, <3>2, PrefetchGoesOn
  <2>2. CASE Goto(c, "wait") /\ UNCHANGED loop
    <3> DEFINE k == [call[c] EXCEPT !.pc = "wait", !.waited = 0]
    <3>1. k.env = call[c].env /\ call' = [call EXCEPT ![c] = k]
      BY <1>0, <2>2 DEF Goto, Call
    <3>2. UNCHANGED <<docs, access, unique, serving>>
      BY <2>0, <2>2 DEF loop
    <3> HIDE DEF k
    <3>3. call'[c].env = call[c].env /\ \A d \in Callers \ {c} : call'[d] = call[d]
      BY <1>0, <3>1
    <3> QED BY <1>2, <3>2, <3>3
  <2>3. CASE /\ call' = [call EXCEPT ![c] = [@ EXCEPT !.pc = "reuse", !.waited = 0,
                      !.old = access[call[c].env],
                      !.hasOld = IF call[c].env \in docs THEN "yes" ELSE "no"]]
             /\ UNCHANGED loop
    <3> DEFINE k == [call[c] EXCEPT !.pc = "reuse", !.waited = 0,
                      !.old = access[call[c].env],
                      !.hasOld = IF call[c].env \in docs THEN "yes" ELSE "no"]
    <3>1. k.env = call[c].env /\ call' = [call EXCEPT ![c] = k]
      BY <1>0, <2>3 DEF Call
    <3>2. UNCHANGED <<docs, access, unique, serving>>
      BY <2>0, <2>3 DEF loop
    <3> HIDE DEF k
    <3>3. call'[c].env = call[c].env /\ \A d \in Callers \ {c} : call'[d] = call[d]
      BY <1>0, <3>1
    <3> QED BY <1>2, <3>2, <3>3
  <2>4. access[call[c].env] \in Nat /\ Margin \in Nat /\ InnerMargin \in Nat
    BY <1>0, Times DEF TypeOK
  <2> QED BY <1>3, <2>1, <2>2, <2>3, <2>4 DEF Read, Recheck, StillGood
<1>4. ASSUME NEW c \in Callers, Reuse(c) \/ GetAppToken(c) \/ Login(c) PROVE PrefetchInv'
  <2>1. UNCHANGED <<docs, access, unique, serving>>
    BY <1>4 DEF Reuse, GetAppToken, Login, store, loop
  <2>2. PICK k : k.env = call[c].env /\ call' = [call EXCEPT ![c] = k]
    <3>1. call[c] \in Call
      BY <1>0
    <3>2. ASSUME NEW a, call' = [call EXCEPT ![c] = [@ EXCEPT !.pc = "login", !.waited = 0, !.app = a]]
          PROVE  \E k : k.env = call[c].env /\ call' = [call EXCEPT ![c] = k]
      BY <3>1, <3>2 DEF Call
    <3>3. CASE Reuse(c)
      <4>1. CASE Goto(c, "app")
        BY <3>1, <4>1 DEF Goto, Call
      <4> QED BY <3>2, <3>3, <4>1 DEF Reuse
    <3>4. CASE GetAppToken(c)
      BY <3>2, <3>4 DEF GetAppToken
    <3>5. CASE Login(c)
      <4>1. PICK left : call' = [call EXCEPT ![c] = [@ EXCEPT !.pc = "write", !.waited = 0,
                                                             !.new = left]]
        BY <3>5 DEF Login
      <4> QED BY <3>1, <4>1 DEF Call
    <3> QED BY <1>4, <3>3, <3>4, <3>5
  <2>3. call'[c].env = call[c].env /\ \A d \in Callers \ {c} : call'[d] = call[d]
    BY <1>0, <2>2
  <2> QED BY <1>2, <2>1, <2>3
<1>5. ASSUME NEW c \in Callers, Write(c) PROVE PrefetchInv'
  <2>1. Upsert(c) /\ Return(c, call[c].new, "fresh")
    BY <1>5 DEF Write
  <2>2. docs \subseteq docs' /\ docs' \subseteq Envs /\ call[c].env \in docs' /\ unique' = unique
    BY <1>0, <2>1 DEF Upsert
  <2>3. \A e \in Envs : access'[e] > 0 => access[e] > 0 \/ e \in docs'
    BY <1>0, <2>1, <2>2 DEF Upsert, TypeOK
  <2>4. unique = "no" => /\ \A w \in Workers : Advances(w)
                         /\ serving' \subseteq serving \/ Looped \subseteq docs'
    BY <2>1, <2>2, ReturnAdvances
  <2> QED BY <1>0, <2>2, <2>3, <2>4, PrefetchGoesOn
<1>6. ASSUME NEW c \in Callers, RefreshFails(c) PROVE PrefetchInv'
  <2>1. ~(At(c, "login") /\ call[c].app = 0)
    BY <1>0, Times DEF TimeInv, TypeOK, Call, At, InTime
  <2>2. Rejected(call[c].env) /\ UNCHANGED store
    BY <1>6, <2>1 DEF RefreshFails
  <2>3. unique = "yes" /\ UNCHANGED <<docs, access, unique>>
    BY <2>2 DEF Rejected, store
  <2> QED BY <1>0, <2>3, PrefetchGoesOn
<1>7. ASSUME NEW c \in Callers, LookFails(c) PROVE FALSE
  BY <1>7 DEF LookFails
<1>8. ASSUME NEW c \in Callers, Acquire(c) PROVE PrefetchInv'
  <2> DEFINE k == [call[c] EXCEPT !.pc = "recheck", !.waited = 0]
  <2>1. k.env = call[c].env /\ call' = [call EXCEPT ![c] = k]
    BY <1>0, <1>8 DEF Acquire, Goto, Call
  <2>2. UNCHANGED <<docs, access, unique, serving>>
    BY <1>8 DEF Acquire, store, loop
  <2> HIDE DEF k
  <2>3. call'[c].env = call[c].env /\ \A d \in Callers \ {c} : call'[d] = call[d]
    BY <1>0, <2>1
  <2> QED BY <1>2, <2>2, <2>3
<1>9. ASSUME NEW w \in Workers, Wake(w) PROVE PrefetchInv'
  <2>1. Begin(1).env = 1
    BY DEF Begin, IdleCall
  <2>2. w \in Callers /\ call' = [call EXCEPT ![w] = Begin(1)]
    BY <1>0, <1>9 DEF Wake
  <2>3. UNCHANGED <<docs, access, unique, serving>>
    BY <1>9 DEF Wake, store, loop
  <2>4. call'[w].env = 1 /\ \A d \in Callers \ {w} : call'[d] = call[d]
    BY <1>0, <2>1, <2>2
  <2> QED BY <1>2, <2>2, <2>3, <2>4
<1>10. ASSUME NEW c \in Requests, Use(c) \/ \E e \in Envs : Request(c, e) PROVE PrefetchInv'
  <2>1. \A w \in Workers : call'[w] = call[w]
    BY <1>0, <1>10, CallersAssumption DEF Use, Request
  <2>2. UNCHANGED <<docs, access, unique, serving>>
    BY <1>10 DEF Use, Request, store, loop
  <2> QED BY <1>1, <2>1, <2>2
<1>11. ASSUME NEW w \in Workers, Restart(w) PROVE PrefetchInv'
  <2>1. \A v \in Workers : call'[v].env \in {1, call[v].env}
    BY <1>0, <1>11 DEF Restart, IdleCall
  <2>2. UNCHANGED <<docs, access, unique>> /\ serving' \subseteq serving
    BY <1>11 DEF Restart, store
  <2> QED BY <1>0, <2>1, <2>2, PrefetchGoesOn DEF Advances
<1>12. CASE BuildIndex
  BY <1>0, <1>12, PrefetchGoesOn DEF BuildIndex
<1>13. CASE Tick
  <2>1. \A w \in Workers : call'[w].env = call[w].env
    BY <1>0, <1>13 DEF Tick, Aged, Call
  <2>2. \A e \in Envs : access'[e] > 0 => access[e] > 0
    BY <1>0, <1>13, Times DEF Tick, Less, TypeOK
  <2>3. UNCHANGED <<docs, unique, serving>>
    BY <1>13 DEF Tick
  <2> QED BY <1>0, <2>1, <2>2, <2>3, PrefetchGoesOn DEF Advances
<1>14. CASE UNCHANGED vars
  BY <1>1, <1>14 DEF vars, store, loop
<1> QED
  BY <1>3, <1>4, <1>5, <1>6, <1>7, <1>8, <1>9, <1>10, <1>11, <1>12, <1>13, <1>14 DEF Next, CallStep

\* "prefetches the tokens of test and prod" (token_manager.py 173) is true, without a
\* fault of Kingdee or MongoDB and however workers restart, for as long as the other
\* server has not created its index: the index is the only thing in its way.
THEOREM PrefetchFillsAllUntilIndexed ==
  ASSUME Faults \intersect {"kingdee", "mongo"} = {}
  PROVE  Spec => [](unique = "no" => PrefetchFillsAll)
<1>1. PrefetchInv /\ [Next]_vars => PrefetchInv'
  BY PrefetchStep
<1>2. PrefetchInv => (unique = "no" => PrefetchFillsAll)
  BY DEF PrefetchInv
<1> QED BY <1>1, <1>2, PrefetchInit, PTL DEF Spec
=============================================================================
