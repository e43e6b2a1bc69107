------------------------ MODULE RuntimeConfig_proofs ------------------------
(***************************************************************************)
(* The staleness bound of the auto-forward switch, for any number of       *)
(* workers, reads and PUTs and any _CACHE_TTL.                             *)
(***************************************************************************)
EXTENDS RuntimeConfig, TLAPS

\* What a read carries from its query to its store: if the document has changed
\* since, it changed no longer ago than the read sampled the clock.
ReadsSampledFirst ==
  \A r \in Reads :
    /\ read[r].at = "store"
    /\ read[r].value # "error"
    /\ read[r].value # flag
    => sinceChange <= read[r].age

\* The same for a copy: it outlives a change of the document by what is left of
\* _CACHE_TTL at most.
CopiesExpireInTime ==
  \A w \in Workers :
    /\ cache[w].left > 0
    /\ cache[w].value # "error"
    /\ cache[w].value # flag
    => cache[w].left + sinceChange <= CacheTTL

IInv == TypeOK /\ ReadsSampledFirst /\ CopiesExpireInTime

-----------------------------------------------------------------------------

\* The invariant holds before anything is cached.
LEMMA InitIInv == Init => IInv
  BY TTLAssumption
     DEF Init, IInv, TypeOK, ReadsSampledFirst, CopiesExpireInTime,
         Entry, NoEntry, Found, Switch, ReadState, IdleRead, Found, Switch

\* A miss notes the time before the query (runtime_config.py).
LEMMA GetMissIInv ==
  ASSUME IInv, NEW r \in Reads, GetMiss(r)
  PROVE  IInv'
  BY DEF IInv, TypeOK, ReadsSampledFirst, CopiesExpireInTime, GetMiss, ReadState, Found, Switch

\* The query reads the document as it is now (runtime_config.py).
LEMMA GetQueryIInv ==
  ASSUME IInv, NEW r \in Reads, GetQuery(r)
  PROVE  IInv'
<1> PICK found \in {flag, "error"} :
      read' = [read EXCEPT ![r] = [@ EXCEPT !.at = "store", !.value = found]]
  BY DEF GetQuery
<1>0. found \in Found
  BY DEF IInv, TypeOK, Found
<1>1. TypeOK'
  BY <1>0 DEF IInv, TypeOK, GetQuery, ReadState
<1>2. ReadsSampledFirst'
  BY DEF IInv, TypeOK, ReadsSampledFirst, GetQuery, ReadState
<1>3. CopiesExpireInTime'
  BY DEF IInv, CopiesExpireInTime, GetQuery
<1> QED
  BY <1>1, <1>2, <1>3 DEF IInv

\* The copy stored expires one lifetime after it was read (runtime_config.py).
LEMMA GetStoreIInv ==
  ASSUME IInv, NEW r \in Reads, GetStore(r)
  PROVE  IInv'
<1> USE TTLAssumption, HomeAssumption
<1>1. Home[r] \in Workers
  OBVIOUS
<1>2. TypeOK'
  BY <1>1 DEF IInv, TypeOK, GetStore, TicksLeft, ReadState, Entry, IdleRead, Found, Switch
<1>3. ReadsSampledFirst'
  BY DEF IInv, TypeOK, ReadsSampledFirst, GetStore, ReadState, IdleRead
<1>4. CopiesExpireInTime'
  BY <1>1 DEF IInv, TypeOK, ReadsSampledFirst, CopiesExpireInTime, GetStore, TicksLeft,
              ReadState, Entry
<1> QED
  BY <1>2, <1>3, <1>4 DEF IInv

\* The write changes the document and no copy (runtime_config.py).
LEMMA SetWriteIInv ==
  ASSUME IInv, NEW p \in Puts, NEW enabled \in Switch, SetWrite(p, enabled)
  PROVE  IInv'
<1> USE TTLAssumption
<1>1. TypeOK'
  BY DEF IInv, TypeOK, SetWrite
<1>2. CASE enabled = flag
  BY <1>1, <1>2 DEF IInv, ReadsSampledFirst, CopiesExpireInTime, SetWrite
<1>3. CASE enabled # flag
  <2>1. sinceChange' = 0
    BY <1>3 DEF SetWrite
  <2>2. ReadsSampledFirst'
    BY <2>1 DEF IInv, TypeOK, ReadsSampledFirst, SetWrite, ReadState
  <2>3. CopiesExpireInTime'
    BY <2>1 DEF IInv, TypeOK, CopiesExpireInTime, SetWrite, Entry
  <2> QED
    BY <1>1, <2>2, <2>3 DEF IInv, SetWrite
<1> QED
  BY <1>2, <1>3

\* The worker that wrote drops its own copy (runtime_config.py).
LEMMA SetClearIInv ==
  ASSUME IInv, NEW p \in Puts, SetClear(p)
  PROVE  IInv'
<1>1. Home[p] \in Workers
  BY HomeAssumption
<1>2. NoEntry \in Entry /\ NoEntry.left = 0
  BY TTLAssumption DEF NoEntry, Entry, Found, Switch
<1>3. TypeOK'
  BY <1>1, <1>2 DEF IInv, TypeOK, SetClear
<1>4. ReadsSampledFirst'
  BY DEF IInv, ReadsSampledFirst, SetClear
<1>5. CopiesExpireInTime'
  BY <1>1, <1>2 DEF IInv, TypeOK, CopiesExpireInTime, SetClear
<1> QED
  BY <1>3, <1>4, <1>5 DEF IInv

\* A write that is not confirmed leaves the copy of its worker (runtime_config.py).
LEMMA SetFailsIInv ==
  ASSUME IInv, NEW p \in Puts, SetFails(p)
  PROVE  IInv'
  BY DEF IInv, TypeOK, ReadsSampledFirst, CopiesExpireInTime, SetFails

\* The only step on which time itself is at work: a copy loses the tick that the
\* change gains, and a read gains it too.
LEMMA TickIInv ==
  ASSUME IInv, Tick
  PROVE  IInv'
<1> USE TTLAssumption
<1>1. TypeOK'
  <2>1. cache' \in [Workers -> Entry]
    BY DEF IInv, TypeOK, Tick, Entry
  <2>2. ASSUME NEW r \in Reads
        PROVE  [read[r] EXCEPT !.age = IF read[r].at = "idle" THEN 0 ELSE Older(@)] \in ReadState
    BY DEF IInv, TypeOK, Older, ReadState
  <2>3. read' \in [Reads -> ReadState]
    BY <2>2 DEF Tick
  <2>4. sinceChange' \in 0..CacheTTL
    BY DEF IInv, TypeOK, Tick, Older
  <2> QED
    BY <2>1, <2>3, <2>4 DEF IInv, TypeOK, Tick
<1>2. ReadsSampledFirst'
  BY DEF IInv, TypeOK, ReadsSampledFirst, Tick, Older, ReadState
<1>3. CopiesExpireInTime'
  BY DEF IInv, TypeOK, CopiesExpireInTime, Tick, Older, Entry
<1> QED
  BY <1>1, <1>2, <1>3 DEF IInv

\* Every step keeps the invariant.
LEMMA NextIInv == IInv /\ [Next]_vars => IInv'
<1> SUFFICES ASSUME IInv, [Next]_vars PROVE IInv'
  OBVIOUS
<1>1. ASSUME NEW r \in Reads, ReadStep(r) PROVE IInv'
  BY <1>1, GetMissIInv, GetQueryIInv, GetStoreIInv DEF ReadStep
<1>2. ASSUME NEW p \in Puts, PutStep(p) PROVE IInv'
  BY <1>2, SetWriteIInv, SetClearIInv, SetFailsIInv DEF PutStep
<1>3. CASE Tick
  BY <1>3, TickIInv
<1>4. CASE UNCHANGED vars
  BY <1>4 DEF vars, IInv, TypeOK, ReadsSampledFirst, CopiesExpireInTime
<1> QED
  BY <1>1, <1>2, <1>3, <1>4 DEF Next

\* The invariant holds in every reachable state.
LEMMA Invariance == Spec => []IInv
  BY InitIInv, NextIInv, PTL DEF Spec

\* The variables of the switch keep their types (runtime_config.py 14-50).
THEOREM TypeCorrect == Spec => []TypeOK
<1>1. IInv => TypeOK
  BY DEF IInv
<1> QED
  BY Invariance, <1>1, PTL

\* The switch is at most _CACHE_TTL stale in every worker, for any number of
\* workers and of reads in flight when it changes (runtime_config.py 25-50).
THEOREM BoundedStaleness == Spec => []StaleAtMostTTL
<1>1. IInv => StaleAtMostTTL
  BY TTLAssumption DEF IInv, TypeOK, CopiesExpireInTime, StaleAtMostTTL, Fresh, Entry
<1> QED
  BY Invariance, <1>1, PTL

\* A worker that serves "on" serves what the document said within _CACHE_TTL; a
\* failed query never does (runtime_config.py 33-36).
THEOREM OnOnlyFromDocument == Spec => []ServedOnWasOn
<1>1. IInv => ServedOnWasOn
  BY TTLAssumption DEF IInv, TypeOK, CopiesExpireInTime, ServedOnWasOn, ServesOn, Fresh, Entry
<1> QED
  BY Invariance, <1>1, PTL

\* A read that is about to answer "on" found the document so since it began
\* (runtime_config.py 27-37): what it found is as young as its clock sample.
THEOREM AnswersAreYoung == Spec => []AnswersSawItOn
<1>1. IInv => AnswersSawItOn
  BY DEF IInv, ReadsSampledFirst, AnswersSawItOn
<1> QED
  BY Invariance, <1>1, PTL
=============================================================================
