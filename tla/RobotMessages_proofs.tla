------------------------ MODULE RobotMessages_proofs ------------------------
(* Proofs about RobotMessages.  What is proved of the registry holds of the    *)
(* whole, whose steps are steps of the registry or leave it alone.  For the    *)
(* command logs the inductive invariant says where a call is when its log, or  *)
(* one it has settled, has the status it has.                                  *)
EXTENDS RobotMessages, RobotRegistry_proofs, FiniteSetTheorems

Early == {"idle", "api", "sid", "gate", "company", "save", "count", "log", "insert"}
Ended == {"done", "died"}
Settling == {"lookup", "push", "fail"} \union Ended

\* Where a call is, and what it has done by then.
RunIsSound(d) ==
  /\ call[d].pc = "idle" => work[d].pc = "idle"
  /\ work[d].pc = "idle" => work[d].due = "none"
  /\ work[d].pc \in {"api", "sid", "gate", "company", "log"} => call[d].handler # "ai"
  /\ work[d].due \in {"success", "failed"} => call[d].handler # "ai"
  /\ work[d].due = "ai" => call[d].handler = "ai"
  /\ work[d].pc \in {"insert", "chat", "succeed", "lookup", "push", "fail"}
       => call[d].handler = "ai"
  /\ work[d].pc = "log" => work[d].due \in {"success", "failed"}
  /\ work[d].pc \in Early => log[d] = NoLog /\ "log" \notin work[d].slips
  /\ work[d].pc = "succeed" => work[d].chatted = "yes"
  /\ d \in pushed => work[d].pc \in Ended
  /\ work[d].pc \notin {"idle", "api", "sid", "gate", "company", "save", "died"}
       => Msg(d) \in stored \/ "save" \in work[d].slips

\* Who settled a log, and where that call is now.
LogIsSound(e) ==
  /\ log[e].status \in {"success", "failed"} => work[log[e].by].pc \in Settling
                                                /\ log[e].by \in Deliveries
  /\ log[e].status \in {"absent", "pending"} => log[e].by = Null
  /\ log[e].status = "success" /\ call[e].handler = "ai" => work[log[e].by].chatted = "yes"
  /\ log[e].status = "failed" => work[log[e].by].pc \in Ended /\ log[e].by \notin pushed

\* No call says of two logs that they succeeded.
OneSuccessEach ==
  \A e, f \in Deliveries :
    /\ log[e].status = "success" /\ call[e].handler = "ai"
    /\ log[f].status = "success" /\ call[f].handler = "ai"
    /\ log[e].by = log[f].by
    => e = f

\* The calls a pending log may still be settled by, or has been lost with.
Answerable(m) == {d \in Deliver(m) : Owes(d) \/ Lost(d)}

BackTyped ==
  /\ work \in [Deliveries -> Work]
  /\ stored \subseteq Messages
  /\ sessions \in [Sessions -> Nat]
  /\ log \in [Deliveries -> Log]
  /\ passes \in [Messages -> Nat]
  /\ pushed \subseteq Deliveries

MInv ==
  /\ IInv
  /\ BackTyped
  /\ \A d \in Deliveries : RunIsSound(d)
  /\ \A e \in Deliveries : LogIsSound(e)
  /\ OneSuccessEach
  /\ PendingIsUnderway

-----------------------------------------------------------------------------

(* Counting.                                                                   *)

\* The property in terms of Answerable.
LEMMA PendingAnswered ==
  PendingIsUnderway <=>
    \A m \in Messages : Cardinality(Pending(m)) <= Cardinality(Answerable(m))
BY DEF PendingIsUnderway, Answerable

\* Both counts are numbers, before a step and after it.
LEMMA FiniteCounts ==
  ASSUME NEW m
  PROVE  /\ IsFiniteSet(Pending(m)) /\ Cardinality(Pending(m)) \in Nat
         /\ IsFiniteSet(Answerable(m)) /\ Cardinality(Answerable(m)) \in Nat
         /\ IsFiniteSet(Pending(m)') /\ Cardinality(Pending(m)') \in Nat
         /\ IsFiniteSet(Answerable(m)') /\ Cardinality(Answerable(m)') \in Nat
<1>1. /\ Pending(m) \subseteq Deliveries /\ Answerable(m) \subseteq Deliveries
      /\ Pending(m)' \subseteq Deliveries /\ Answerable(m)' \subseteq Deliveries
  BY DEF Pending, Answerable, Deliver
<1>2. QED
  BY <1>1, MessagesAssumption, FS_Subset, FS_CardinalityType

\* A set with one element more.
LEMMA CountWith ==
  ASSUME NEW S, IsFiniteSet(S), NEW x
  PROVE  /\ IsFiniteSet(S \union {x}) /\ Cardinality(S \union {x}) \in Nat
         /\ Cardinality(S \union {x}) <= Cardinality(S) + 1
         /\ x \notin S => Cardinality(S \union {x}) = Cardinality(S) + 1
<1>1. Cardinality(S) \in Nat
  BY FS_CardinalityType
<1>2. IsFiniteSet(S \union {x}) /\ Cardinality(S \union {x}) \in Nat
  BY FS_AddElement, FS_CardinalityType
<1>3. Cardinality(S \union {x}) = IF x \in S THEN Cardinality(S) ELSE Cardinality(S) + 1
  BY FS_AddElement
<1>4. QED
  BY <1>1, <1>2, <1>3

\* A set with one element less.
LEMMA CountWithout ==
  ASSUME NEW S, IsFiniteSet(S), NEW x
  PROVE  /\ IsFiniteSet(S \ {x}) /\ Cardinality(S \ {x}) \in Nat
         /\ Cardinality(S) - 1 <= Cardinality(S \ {x})
         /\ x \in S => Cardinality(S \ {x}) = Cardinality(S) - 1
<1>1. Cardinality(S) \in Nat
  BY FS_CardinalityType
<1>2. IsFiniteSet(S \ {x}) /\ Cardinality(S \ {x}) \in Nat
  BY FS_RemoveElement, FS_CardinalityType
<1>3. Cardinality(S \ {x}) = IF x \in S THEN Cardinality(S) - 1 ELSE Cardinality(S)
  BY FS_RemoveElement
<1>4. QED
  BY <1>1, <1>2, <1>3

\* Fewer logs pend and more calls answer for them.
LEMMA CountsWiden ==
  ASSUME NEW m, Cardinality(Pending(m)) <= Cardinality(Answerable(m)),
         Pending(m)' \subseteq Pending(m), Answerable(m) \subseteq Answerable(m)'
  PROVE  Cardinality(Pending(m)') <= Cardinality(Answerable(m)')
<1>1. Cardinality(Pending(m)') <= Cardinality(Pending(m))
  BY FiniteCounts, FS_Subset
<1>2. Cardinality(Answerable(m)) <= Cardinality(Answerable(m)')
  BY FiniteCounts, FS_Subset
<1>3. QED
  BY <1>1, <1>2, FiniteCounts

\* One log more pends, and one call more answers for it.
LEMMA CountsAdd ==
  ASSUME NEW m, NEW d, Cardinality(Pending(m)) <= Cardinality(Answerable(m)),
         Pending(m)' \subseteq Pending(m) \union {d},
         d \notin Answerable(m), Answerable(m) \union {d} \subseteq Answerable(m)'
  PROVE  Cardinality(Pending(m)') <= Cardinality(Answerable(m)')
<1> DEFINE P == Pending(m) \union {d}
           A == Answerable(m) \union {d}
<1>1. IsFiniteSet(P) /\ Cardinality(P) \in Nat /\ Cardinality(P) <= Cardinality(Pending(m)) + 1
  BY FiniteCounts, CountWith
<1>2. Cardinality(Pending(m)') <= Cardinality(P)
  BY <1>1, FS_Subset
<1>3. Cardinality(A) \in Nat /\ Cardinality(A) = Cardinality(Answerable(m)) + 1
  BY FiniteCounts, CountWith
<1>4. Cardinality(A) <= Cardinality(Answerable(m)')
  BY FiniteCounts, FS_Subset
<1> HIDE DEF P, A
<1>5. QED
  BY <1>1, <1>2, <1>3, <1>4, FiniteCounts

\* A log is settled, and a call answers for no other.
LEMMA CountsRemove ==
  ASSUME NEW m, NEW d, NEW e \in Pending(m),
         Cardinality(Pending(m)) <= Cardinality(Answerable(m)),
         Pending(m)' \subseteq Pending(m) \ {e},
         Answerable(m) \ {d} \subseteq Answerable(m)'
  PROVE  Cardinality(Pending(m)') <= Cardinality(Answerable(m)')
<1> DEFINE P == Pending(m) \ {e}
           A == Answerable(m) \ {d}
<1>1. IsFiniteSet(P) /\ Cardinality(P) \in Nat /\ Cardinality(P) = Cardinality(Pending(m)) - 1
  BY FiniteCounts, CountWithout
<1>2. Cardinality(Pending(m)') <= Cardinality(P)
  BY <1>1, FS_Subset
<1>3. Cardinality(A) \in Nat /\ Cardinality(Answerable(m)) - 1 <= Cardinality(A)
  BY FiniteCounts, CountWithout
<1>4. Cardinality(A) <= Cardinality(Answerable(m)')
  BY FiniteCounts, FS_Subset
<1> HIDE DEF P, A
<1>5. QED
  BY <1>1, <1>2, <1>3, <1>4, FiniteCounts

\* No log pends.
LEMMA CountsNone ==
  ASSUME NEW m, Pending(m)' = {}
  PROVE  Cardinality(Pending(m)') <= Cardinality(Answerable(m)')
<1>1. Cardinality(Pending(m)') = 0
  BY FS_EmptySet
<1>2. QED
  BY <1>1, FiniteCounts

-----------------------------------------------------------------------------

(* The registry.                                                               *)

\* Every step of the whole is a step of the registry or leaves it alone.
LEMMA StepsOfRegistry == [Next]_vars => [RegistryNext]_registryVars
<1> SUFFICES ASSUME [Next]_vars PROVE [RegistryNext]_registryVars
  OBVIOUS
<1>1. CASE AdminStep
  BY <1>1 DEF RegistryNext
<1>2. ASSUME NEW d \in Deliveries, Post(d) PROVE RegistryNext
  BY <1>2 DEF Post, RegistryNext
<1>3. ASSUME NEW d \in Deliveries, LookUp(d) PROVE RegistryNext
  BY <1>3 DEF LookUp, RegistryNext
<1>4. ASSUME NEW d \in Deliveries, Proceed(d) PROVE UNCHANGED registryVars
  BY <1>4 DEF Proceed, Handle, CallApi, GetSid, CallGate, MakeCard, SaveMessage, UpsertSession,
              WriteLog, InsertPending, Chat, Succeed, LookUpAddress, Push, Fail
<1>5. ASSUME NEW d \in Deliveries, Die(d) PROVE UNCHANGED registryVars
  BY <1>5 DEF Die
<1>6. CASE UNCHANGED vars
  BY <1>6 DEF vars
<1>7. QED
  BY <1>1, <1>2, <1>3, <1>4, <1>5, <1>6 DEF Next

\* The calls of RobotMessages and the administrators use the registry as
\* RobotRegistry specifies it (yunzhijia.py 30-92, admin.py).
THEOREM ImplementsRegistry == Spec => RegistrySpec
<1>1. Init => RegistryInit
  BY DEF Init
<1>2. QED
  BY <1>1, StepsOfRegistry, PTL DEF Spec, RegistrySpec

\* So what is proved of the registry holds while messages are handled, delivered
\* again and dropped: the secrets stay with their robots, messages count only under
\* them, and a rotation is lost to the migration only (deps.py 42-74).
THEOREM SecretsStayWhileMessagesRun ==
  Spec => [](SecretBelongsToDoc /\ AcceptedUnderOwnSecret /\ RotationLostOnlyToPlain)
  BY ImplementsRegistry, SecretsStayAtHome, SignaturesCount, RotationsAreLostToThePlainSecret, PTL

\* The invariant holds before any message has arrived.
LEMMA InitMInv == Init => MInv
<1> SUFFICES ASSUME Init PROVE MInv
  OBVIOUS
<1>1. IInv
  BY InitIInv DEF Init
<1>2. BackTyped
  <2>1. [pc |-> "idle", answer |-> "none", due |-> "none", heard |-> "no", chatted |-> "no",
         slips |-> {}] \in Work
    BY Zenon DEF Work, Answers
  <2>2. NoLog \in Log
    BY DEF NoLog, Log
  <2>3. QED
    BY <2>1, <2>2 DEF Init, BackTyped
<1>3. \A d \in Deliveries : RunIsSound(d)
  BY DEF Init, RunIsSound
<1>4. \A e \in Deliveries : LogIsSound(e)
  BY DEF Init, LogIsSound, NoLog
<1>5. OneSuccessEach
  BY DEF Init, OneSuccessEach, NoLog
<1>6. PendingIsUnderway
  <2>1. ASSUME NEW m \in Messages PROVE Pending(m) = {}
    BY DEF Init, Pending, Deliver, NoLog
  <2>2. QED
    BY <2>1, PendingAnswered, FiniteCounts, FS_EmptySet
<1>7. QED
  BY <1>1, <1>2, <1>3, <1>4, <1>5, <1>6 DEF MInv

\* A step of the registry changes no handler of a call that has begun.
LEMMA RegistryStepMInv ==
  ASSUME MInv, IInv', UNCHANGED backVars,
         \A e \in Deliveries : /\ call'[e].pc = "idle" => call[e].pc = "idle"
                               /\ call'[e].handler = call[e].handler \/ call[e].pc = "idle"
  PROVE  MInv'
<1>1. \A e \in Deliveries : RunIsSound(e) /\ LogIsSound(e)
  BY DEF MInv
<1>2. \A e \in Deliveries : call[e].pc = "idle" => log[e] = NoLog /\ work[e].pc = "idle"
                                                  /\ work[e].due = "none"
  BY <1>1 DEF RunIsSound, Early
<1>3. UNCHANGED <<work, stored, sessions, log, passes, pushed>>
  BY DEF backVars
<1>4. BackTyped'
  BY <1>3 DEF MInv, BackTyped
<1>5. \A d \in Deliveries : RunIsSound(d)'
  BY <1>1, <1>2, <1>3 DEF RunIsSound, Msg
<1>6. \A e \in Deliveries : LogIsSound(e)'
  BY <1>1, <1>2, <1>3 DEF LogIsSound, NoLog
<1>7. OneSuccessEach'
  BY <1>2, <1>3 DEF MInv, OneSuccessEach, NoLog
<1>8. PendingIsUnderway'
  <2>1. ASSUME NEW m \in Messages
        PROVE  Cardinality(Pending(m)') <= Cardinality(Answerable(m)')
    <3>1. Pending(m)' \subseteq Pending(m)
      BY <1>2, <1>3 DEF Pending, Deliver, NoLog
    <3>2. Answerable(m) \subseteq Answerable(m)'
      BY <1>3 DEF Deliver, Answerable, Owes, Lost, Doing
    <3>3. Cardinality(Pending(m)) <= Cardinality(Answerable(m))
      BY PendingAnswered DEF MInv
    <3>4. QED
      BY <3>1, <3>2, <3>3, CountsWiden
  <2>2. QED
    BY <2>1 DEF PendingIsUnderway, Answerable
<1>9. QED
  BY <1>4, <1>5, <1>6, <1>7, <1>8 DEF MInv

\* A look-up keeps the handler of the message, and no call goes back to its start.
LEMMA LookupKeeps ==
  ASSUME IInv, NEW d \in Deliveries, Lookup(d), NEW e \in Deliveries
  PROVE  /\ call'[e].pc = "idle" => call[e].pc = "idle"
         /\ call'[e].handler = call[e].handler
<1>1. call \in [Deliveries -> Call] /\ call[d] \in Call
  BY DEF IInv, RegistryTypeOK
<1>2. CASE Resolve(d)
  <2>1. CASE \E c \in Holder(call[d].robotId) :
               call' = [call EXCEPT ![d] =
                          [call[d] EXCEPT !.pc = "secret", !.code = c, !.allow = robots[c].allow]]
    BY <1>1, <2>1 DEF Call
  <2>2. CASE call' = [call EXCEPT ![d] = [call[d] EXCEPT !.pc = "secret", !.code = call[d].url]]
    BY <1>1, <2>2 DEF Call
  <2>3. QED
    BY <1>2, <2>1, <2>2 DEF Resolve
<1>3. CASE ReadSecret(d)
  <2>1. CASE call' = [call EXCEPT ![d].pc = "401"]
    BY <1>1, <2>1 DEF Call
  <2>2. ASSUME NEW o, NEW s, NEW pc, pc # "idle",
               call' = [call EXCEPT ![d] = [call[d] EXCEPT !.oid = o, !.secret = s, !.pc = pc]]
        PROVE  /\ call'[e].pc = "idle" => call[e].pc = "idle"
               /\ call'[e].handler = call[e].handler
    BY <1>1, <2>2 DEF Call
  <2>3. CASE \E c \in SecretDocs(d) :
               LET doc == robots[c] IN
               call' = [call EXCEPT ![d] =
                 [call[d] EXCEPT !.oid = doc.oid, !.secret = Effective(doc),
                                 !.pc = IF doc.enc # Null THEN Verdict(call[d], doc.enc)
                                        ELSE IF doc.plain # Null THEN "migrate" ELSE "500"]]
    <3>1. PICK c \in SecretDocs(d) :
            LET doc == robots[c] IN
            call' = [call EXCEPT ![d] =
              [call[d] EXCEPT !.oid = doc.oid, !.secret = Effective(doc),
                              !.pc = IF doc.enc # Null THEN Verdict(call[d], doc.enc)
                                     ELSE IF doc.plain # Null THEN "migrate" ELSE "500"]]
      BY <2>3
    <3> DEFINE doc == robots[c]
               pc == IF doc.enc # Null THEN Verdict(call[d], doc.enc)
                     ELSE IF doc.plain # Null THEN "migrate" ELSE "500"
    <3>2. pc # "idle"
      BY VerdictTyped
    <3>3. call' = [call EXCEPT ![d] = [call[d] EXCEPT !.oid = doc.oid,
                                         !.secret = Effective(doc), !.pc = pc]]
      BY <3>1
    <3> HIDE DEF pc, doc
    <3>4. QED
      BY <2>2, <3>2, <3>3
  <2>4. QED
    BY <1>3, <2>1, <2>3 DEF ReadSecret
<1>4. CASE Migrate(d)
  BY <1>1, <1>4, VerdictTyped DEF Migrate, Call
<1>5. CASE LookupFails(d)
  BY <1>1, <1>5 DEF LookupFails, Call
<1>6. QED
  BY <1>2, <1>3, <1>4, <1>5 DEF Lookup

-----------------------------------------------------------------------------

(* Steps of a call that write no log.                                          *)

\* A step that takes the work of d to n, forward, and writes no log.
LEMMA QuietStep ==
  ASSUME MInv, NEW d \in Deliveries, NEW n \in Work,
         work' = [work EXCEPT ![d] = n], UNCHANGED <<registryVars, log>>,
         stored \subseteq stored', stored' \subseteq Messages,
         sessions' \in [Sessions -> Nat], passes' \in [Messages -> Nat],
         \/ pushed' = pushed
         \/ pushed' = pushed \union {d} /\ work[d].pc = "push",
         RunIsSound(d)',
         work[d].pc \in Settling => n.pc \in Settling,
         work[d].pc \in Ended => n.pc \in Ended,
         work[d].chatted = "yes" => n.chatted = "yes",
         Owes(d) \/ Lost(d) => n.pc \in {"chat", "succeed", "fail", "died"} \/ "log" \in n.slips
  PROVE  MInv'
<1>1. /\ \A e \in Deliveries : RunIsSound(e) /\ LogIsSound(e)
      /\ work \in [Deliveries -> Work] /\ BackTyped
  BY DEF MInv, BackTyped
<1>2. work' \in [Deliveries -> Work] /\ work'[d] = n
      /\ \A e \in Deliveries \ {d} : work'[e] = work[e]
  BY <1>1
<1>3. UNCHANGED <<robots, books, made, admin, call, log>>
  BY DEF registryVars
<1>4. IInv'
  BY <1>3, NextIInv DEF registryVars, MInv
<1>5. BackTyped'
  BY <1>1, <1>2, <1>3 DEF BackTyped
<1>6. \A e \in Deliveries : RunIsSound(e)'
  <2>1. ASSUME NEW e \in Deliveries, e # d PROVE RunIsSound(e)'
    <3>1. work'[e] = work[e] /\ (e \in pushed' => e \in pushed)
      BY <1>2, <2>1
    <3>2. QED
      BY <1>1, <1>3, <3>1 DEF RunIsSound, Msg
  <2>2. QED
    BY <2>1
<1>7. \A e \in Deliveries : LogIsSound(e)'
  <2> SUFFICES ASSUME NEW e \in Deliveries PROVE LogIsSound(e)'
    OBVIOUS
  <2>1. CASE log[e].status \in {"success", "failed"}
    <3> DEFINE b == log[e].by
    <3>1. b \in Deliveries /\ work[b].pc \in Settling
      BY <1>1, <2>1 DEF LogIsSound
    <3>2. work'[b].pc \in Settling
      BY <1>2, <3>1
    <3>3. log[e].status = "success" /\ call[e].handler = "ai" => work'[b].chatted = "yes"
      BY <1>1, <1>2, <3>1 DEF LogIsSound
    <3>4. log[e].status = "failed" => work[b].pc \in Ended /\ b \notin pushed
      BY <1>1 DEF LogIsSound
    <3>5. log[e].status = "failed" => work'[b].pc \in Ended /\ b \notin pushed'
      BY <1>2, <3>1, <3>4 DEF Ended
    <3>6. QED
      BY <1>3, <2>1, <3>1, <3>2, <3>3, <3>5 DEF LogIsSound
  <2>2. CASE log[e].status \notin {"success", "failed"}
    BY <1>1, <1>3, <2>2 DEF LogIsSound
  <2>3. QED
    BY <2>1, <2>2
<1>8. OneSuccessEach'
  BY <1>3 DEF MInv, OneSuccessEach
<1>9. PendingIsUnderway'
  <2>1. ASSUME NEW m \in Messages
        PROVE  Cardinality(Pending(m)') <= Cardinality(Answerable(m)')
    <3>1. Pending(m)' \subseteq Pending(m)
      BY <1>3 DEF Pending, Deliver
    <3>2. Answerable(m) \subseteq Answerable(m)'
      BY <1>2 DEF Deliver, Answerable, Owes, Lost, Doing
    <3>3. Cardinality(Pending(m)) <= Cardinality(Answerable(m))
      BY PendingAnswered DEF MInv
    <3>4. QED
      BY <3>1, <3>2, <3>3, CountsWiden
  <2>2. QED
    BY <2>1 DEF PendingIsUnderway, Answerable
<1>10. QED
  BY <1>4, <1>5, <1>6, <1>7, <1>8, <1>9 DEF MInv

Answering == {"idle", "api", "sid", "gate", "company"}

\* The answer goes out with the log that is due for the handler.
LEMMA AnswerMInv ==
  ASSUME MInv, NEW d \in Deliveries, NEW a \in Answers, NEW due \in {"none", "success", "failed", "ai"},
         Answer(d, a, due), UNCHANGED <<registryVars, stored, sessions, log, pushed>>,
         passes' \in [Messages -> Nat],
         work[d].pc \in Answering, call[d].pc # "idle",
         due \in {"success", "failed"} => call[d].handler # "ai",
         due = "ai" => call[d].handler = "ai"
  PROVE  MInv'
<1>1. PICK h \in {"no", "yes"} :
        work' = [work EXCEPT ![d] = [work[d] EXCEPT !.pc = "save", !.answer = a, !.due = due,
                                                    !.heard = h]]
  BY DEF Answer
<1> DEFINE n == [work[d] EXCEPT !.pc = "save", !.answer = a, !.due = due, !.heard = h]
<1>2. work \in [Deliveries -> Work] /\ work[d] \in Work /\ BackTyped /\ RunIsSound(d)
  BY DEF MInv, BackTyped
<1>3. n \in Work
  BY <1>2, Zenon DEF Work
<1>4. work'[d] = n /\ n.pc = "save" /\ n.due = due /\ n.slips = work[d].slips
      /\ n.chatted = work[d].chatted
  BY <1>1, <1>2 DEF Work
<1>5. work' = [work EXCEPT ![d] = n]
  BY <1>1
<1> HIDE DEF n
<1>6. UNCHANGED <<call, log, pushed>>
  BY DEF registryVars
<1>7. RunIsSound(d)'
  BY <1>2, <1>4, <1>6 DEF RunIsSound, Answering, Early, Ended
<1>8. work[d].pc \notin Settling /\ ~Owes(d) /\ work[d].pc \notin Ended
      /\ (Lost(d) => "log" \in n.slips)
  BY <1>4 DEF Answering, Settling, Ended, Owes, Lost, Doing
<1>9. QED
  BY <1>2, <1>3, <1>4, <1>5, <1>6, <1>7, <1>8, QuietStep DEF BackTyped

\* The work of d may go on with n: where to from where, and what has failed.
Follows(d, n) ==
  /\ n.due = work[d].due
  /\ "log" \in n.slips <=> "log" \in work[d].slips
  /\ work[d].slips \subseteq n.slips
  /\ work[d].chatted = "yes" => n.chatted = "yes"
  /\ \/ n.pc \in {"api", "sid", "gate", "company"}
        /\ work[d].pc \in Answering /\ call[d].handler # "ai"
     \/ n.pc = "count" /\ work[d].pc = "save" /\ (Msg(d) \in stored' \/ "save" \in n.slips)
     \/ n.pc = "log" /\ work[d].pc = "count" /\ work[d].due \in {"success", "failed"}
     \/ n.pc = "insert" /\ work[d].pc = "count" /\ work[d].due = "ai"
     \/ n.pc = "succeed" /\ work[d].pc = "chat" /\ n.chatted = "yes"
     \/ n.pc = "fail" /\ work[d].pc \in {"chat", "lookup"}
     \/ n.pc = "push" /\ work[d].pc = "lookup"
     \/ n.pc = "done" /\ work[d].pc \in {"count", "push"}
     \/ n.pc = "died"

\* A call that goes on in one of these ways, and writes no log, breaks nothing.
LEMMA GoOnMInv ==
  ASSUME MInv, NEW d \in Deliveries, NEW n \in Work, Follows(d, n),
         work' = [work EXCEPT ![d] = n], UNCHANGED <<registryVars, log>>,
         stored \subseteq stored', stored' \subseteq Messages,
         sessions' \in [Sessions -> Nat], passes' \in [Messages -> Nat],
         \/ pushed' = pushed
         \/ pushed' = pushed \union {d} /\ work[d].pc = "push",
         call[d].pc # "idle", d \in pushed' => n.pc \in Ended
  PROVE  MInv'
<1>1. work \in [Deliveries -> Work] /\ work[d] \in Work /\ RunIsSound(d)
  BY DEF MInv, BackTyped
<1>2. work'[d] = n
  BY <1>1
<1>3. UNCHANGED <<call, log>>
  BY DEF registryVars
<1>4. RunIsSound(d)'
  BY <1>1, <1>2, <1>3 DEF RunIsSound, Answering, Early, Ended, Msg, Follows
<1>5. /\ work[d].pc \in Settling => n.pc \in Settling
      /\ work[d].pc \in Ended => n.pc \in Ended
      /\ Owes(d) \/ Lost(d) => n.pc \in {"chat", "succeed", "fail", "died"} \/ "log" \in n.slips
  BY DEF Settling, Ended, Owes, Lost, Doing, Answering, Follows
<1>6. QED
  BY <1>4, <1>5, QuietStep DEF Follows

\* What the invariant says of the types, and of one call.
LEMMA BackOf ==
  ASSUME MInv, NEW d \in Deliveries
  PROVE  /\ work \in [Deliveries -> Work] /\ work[d] \in Work /\ stored \subseteq Messages
         /\ sessions \in [Sessions -> Nat] /\ passes \in [Messages -> Nat]
         /\ pushed \subseteq Deliveries /\ log \in [Deliveries -> Log]
         /\ RunIsSound(d) /\ Msg(d) \in Messages /\ SessionOf[Msg(d)] \in Sessions
         /\ call[d].pc # "idle" \/ work[d].pc = "idle"
BY MessagesAssumption DEF MInv, BackTyped, RunIsSound, Msg, Sessions

\* A step that changes no more of the work than where it is.
LEMMA MoveMInv ==
  ASSUME MInv, NEW d \in Deliveries, NEW pc, Step(d, pc),
         UNCHANGED <<registryVars, log>>,
         stored \subseteq stored', stored' \subseteq Messages,
         sessions' \in [Sessions -> Nat], passes' \in [Messages -> Nat],
         \/ pushed' = pushed
         \/ pushed' = pushed \union {d} /\ work[d].pc = "push",
         call[d].pc # "idle", d \in pushed' => pc \in Ended,
         \/ pc \in {"api", "sid", "gate", "company"}
            /\ work[d].pc \in Answering /\ call[d].handler # "ai"
         \/ pc = "count" /\ work[d].pc = "save" /\ Msg(d) \in stored'
         \/ pc = "log" /\ work[d].pc = "count" /\ work[d].due \in {"success", "failed"}
         \/ pc = "insert" /\ work[d].pc = "count" /\ work[d].due = "ai"
         \/ pc = "fail" /\ work[d].pc \in {"chat", "lookup"}
         \/ pc = "push" /\ work[d].pc = "lookup"
         \/ pc = "done" /\ work[d].pc \in {"count", "push"}
         \/ pc = "died"
  PROVE  MInv'
<1> DEFINE n == [work[d] EXCEPT !.pc = pc]
<1>1. work[d] \in Work
  BY BackOf
<1>2. pc \in {"api", "sid", "gate", "company", "count", "log", "insert", "fail", "push", "done",
              "died"}
  OBVIOUS
<1>3. n \in Work
  BY <1>1, <1>2, Zenon DEF Work
<1>4. /\ n.pc = pc /\ n.due = work[d].due /\ n.slips = work[d].slips
      /\ n.chatted = work[d].chatted
  BY <1>1 DEF Work
<1>5. work' = [work EXCEPT ![d] = n]
  BY DEF Step
<1> HIDE DEF n
<1>6. Follows(d, n)
  BY <1>4 DEF Follows
<1>7. QED
  BY <1>3, <1>4, <1>5, <1>6, GoOnMInv

\* A step to one of the handlers' awaits.
LEMMA HandlerStepMInv ==
  ASSUME MInv, NEW d \in Deliveries, NEW pc \in {"api", "sid", "gate", "company"}, Step(d, pc),
         UNCHANGED <<registryVars, stored, sessions, log, pushed>>,
         passes' \in [Messages -> Nat],
         work[d].pc \in Answering, call[d].pc # "idle", call[d].handler # "ai"
  PROVE  MInv'
<1>1. d \notin pushed
  BY BackOf DEF RunIsSound, Answering, Ended
<1>2. QED
  BY <1>1, BackOf, MoveMInv

\* The handler answers or awaits (message_processor.py, services/handlers/).
LEMMA HandleMInv ==
  ASSUME MInv, NEW d \in Deliveries, Handle(d) PROVE MInv'
<1>1. work[d].pc \in Answering /\ passes' \in [Messages -> Nat]
      /\ UNCHANGED <<registryVars, stored, sessions, log, pushed>>
  BY BackOf DEF Handle, Doing, Answering
<1>2. CASE At(d, "test") /\ Answer(d, "hello", "none")
  BY <1>1, <1>2, AnswerMInv DEF Answers, At
<1>3. CASE At(d, "banned") /\ Answer(d, "unsupported", "none")
  BY <1>1, <1>3, AnswerMInv DEF Answers, At
<1>4. CASE At(d, "accepted") /\ call[d].handler = "echo" /\ Answer(d, "echo", "success")
  BY <1>1, <1>4, AnswerMInv DEF Answers, At
<1>5. CASE At(d, "accepted") /\ call[d].handler = "ai" /\ Answer(d, "thinking", "ai")
  BY <1>1, <1>5, AnswerMInv DEF Answers, At
<1>6. CASE At(d, "accepted") /\ call[d].handler = "api_call" /\ Step(d, "api")
  BY <1>1, <1>6, HandlerStepMInv DEF At
<1>7. CASE At(d, "accepted") /\ call[d].handler = "mys4s" /\ Step(d, "sid")
  BY <1>1, <1>7, HandlerStepMInv DEF At
<1>8. CASE At(d, "accepted") /\ call[d].handler = "mys4s" /\ Answer(d, "help", "none")
  BY <1>1, <1>8, AnswerMInv DEF Answers, At
<1>9. QED
  BY <1>2, <1>3, <1>4, <1>5, <1>6, <1>7, <1>8 DEF Handle

\* The demo API returns or raises (api_handler.py).
LEMMA CallApiMInv ==
  ASSUME MInv, NEW d \in Deliveries, CallApi(d) PROVE MInv'
<1>1. /\ work[d].pc \in Answering /\ passes' \in [Messages -> Nat]
      /\ UNCHANGED <<registryVars, stored, sessions, log, pushed>>
      /\ call[d].pc # "idle" /\ call[d].handler # "ai"
  BY BackOf DEF CallApi, Doing, Answering, RunIsSound
<1>2. QED
  BY <1>1, AnswerMInv DEF CallApi, Answers

\* The store is found, is not found, or the look-up raises (mys4s_handler.py).
LEMMA GetSidMInv ==
  ASSUME MInv, NEW d \in Deliveries, GetSid(d) PROVE MInv'
<1>1. /\ work[d].pc \in Answering /\ passes' \in [Messages -> Nat]
      /\ UNCHANGED <<registryVars, stored, sessions, log, pushed>>
      /\ call[d].pc # "idle" /\ call[d].handler # "ai"
  BY BackOf DEF GetSid, Doing, Answering, RunIsSound
<1>2. CASE Step(d, "gate")
  BY <1>1, <1>2, HandlerStepMInv
<1>3. CASE Answer(d, "noSid", "none") \/ Answer(d, "fallback", "none")
  BY <1>1, <1>3, AnswerMInv DEF Answers
<1>4. QED
  BY <1>2, <1>3 DEF GetSid

\* The gate issues a pass, refuses or does not answer (mys4s_handler.py).
LEMMA CallGateMInv ==
  ASSUME MInv, NEW d \in Deliveries, CallGate(d) PROVE MInv'
<1>1. /\ work[d].pc \in Answering
      /\ UNCHANGED <<registryVars, stored, sessions, log, pushed>>
      /\ call[d].pc # "idle" /\ call[d].handler # "ai"
  BY BackOf DEF CallGate, Doing, Answering, RunIsSound
<1>2. Issue(d) => passes' \in [Messages -> Nat]
  BY BackOf DEF Issue
<1>3. passes' \in [Messages -> Nat]
  BY <1>2, BackOf DEF CallGate
<1>4. CASE Step(d, "company")
  BY <1>1, <1>3, <1>4, HandlerStepMInv
<1>5. CASE \/ Answer(d, "sent", "success") \/ Answer(d, "refused", "success")
           \/ Answer(d, "gateFailed", "failed")
  BY <1>1, <1>3, <1>5, AnswerMInv DEF Answers
<1>6. QED
  BY <1>4, <1>5 DEF CallGate, GateAnswers

\* The card is made, or the text is sent (mys4s_handler.py).
LEMMA MakeCardMInv ==
  ASSUME MInv, NEW d \in Deliveries, MakeCard(d) PROVE MInv'
<1>1. /\ work[d].pc \in Answering /\ passes' \in [Messages -> Nat]
      /\ UNCHANGED <<registryVars, stored, sessions, log, pushed>>
      /\ call[d].pc # "idle" /\ call[d].handler # "ai"
  BY BackOf DEF MakeCard, Doing, Answering, RunIsSound
<1>2. QED
  BY <1>1, AnswerMInv DEF MakeCard, Answers

\* The message is stored, or a slip is noted (storage.py).
LEMMA SaveMessageMInv ==
  ASSUME MInv, NEW d \in Deliveries, SaveMessage(d) PROVE MInv'
<1>1. /\ UNCHANGED <<registryVars, sessions, log, passes, pushed>> /\ work[d].pc = "save"
      /\ call[d].pc # "idle" /\ d \notin pushed
  BY BackOf DEF SaveMessage, Doing, RunIsSound, Ended
<1>2. CASE stored' = stored \union {Msg(d)} /\ Step(d, "count")
  <2>1. stored \subseteq stored' /\ stored' \subseteq Messages /\ Msg(d) \in stored'
    BY <1>2, BackOf
  <2>2. QED
    BY <1>1, <1>2, <2>1, BackOf, MoveMInv
<1>3. CASE Slip(d, "count", "save") /\ UNCHANGED stored
  <2> DEFINE n == [work[d] EXCEPT !.pc = "count", !.slips = work[d].slips \union {"save"}]
  <2>1. work[d].slips \union {"save"} \in SUBSET {"save", "log"}
    BY BackOf DEF Work
  <2>2. n \in Work
    BY <2>1, BackOf, Zenon DEF Work
  <2>3. /\ n.pc = "count" /\ n.due = work[d].due /\ n.slips = work[d].slips \union {"save"}
        /\ n.chatted = work[d].chatted
    BY BackOf DEF Work
  <2>4. work' = [work EXCEPT ![d] = n]
    BY <1>3 DEF Slip
  <2> HIDE DEF n
  <2>5. /\ "save" \in n.slips /\ work[d].slips \subseteq n.slips
        /\ ("log" \in n.slips <=> "log" \in work[d].slips)
    BY <2>3
  <2>6. work[d].chatted = "yes" => n.chatted = "yes"
    BY <2>3
  <2>7. Follows(d, n)
    BY <1>1, <2>3, <2>5, <2>6, Zenon DEF Follows
  <2>8. QED
    BY <1>1, <1>3, <2>2, <2>4, <2>7, BackOf, GoOnMInv
<1>4. QED
  BY <1>2, <1>3 DEF SaveMessage

\* The session is counted and the next task chosen (storage.py).
LEMMA UpsertSessionMInv ==
  ASSUME MInv, NEW d \in Deliveries, UpsertSession(d) PROVE MInv'
<1> DEFINE pc == AfterSession(work[d].due)
<1>1. /\ UNCHANGED <<registryVars, stored, log, passes, pushed>> /\ work[d].pc = "count"
      /\ call[d].pc # "idle" /\ d \notin pushed /\ Step(d, pc)
  BY BackOf DEF UpsertSession, Doing, RunIsSound, Ended
<1>2. sessions' \in [Sessions -> Nat]
  BY BackOf DEF UpsertSession
<1>3. /\ pc \in {"done", "insert", "log"}
      /\ pc = "log" => work[d].due \in {"success", "failed"}
      /\ pc = "insert" => work[d].due = "ai"
  BY BackOf DEF AfterSession, Work
<1> HIDE DEF pc
<1>4. QED
  BY <1>1, <1>2, <1>3, BackOf, MoveMInv

\* The model replies or fails (ai_handler.py).
LEMMA ChatMInv ==
  ASSUME MInv, NEW d \in Deliveries, Chat(d) PROVE MInv'
<1>1. /\ UNCHANGED <<registryVars, stored, sessions, log, passes, pushed>> /\ work[d].pc = "chat"
      /\ call[d].pc # "idle" /\ d \notin pushed
  BY BackOf DEF Chat, Doing, RunIsSound, Ended
<1>2. CASE work' = [work EXCEPT ![d] = [@ EXCEPT !.pc = "succeed", !.chatted = "yes"]]
  <2> DEFINE n == [work[d] EXCEPT !.pc = "succeed", !.chatted = "yes"]
  <2>1. n \in Work
    BY BackOf, Zenon DEF Work
  <2>2. /\ n.pc = "succeed" /\ n.due = work[d].due /\ n.slips = work[d].slips
        /\ n.chatted = "yes"
    BY BackOf DEF Work
  <2>3. work' = [work EXCEPT ![d] = n]
    BY <1>2
  <2> HIDE DEF n
  <2>4. Follows(d, n)
    BY <1>1, <2>2 DEF Follows
  <2>5. QED
    BY <1>1, <2>1, <2>3, <2>4, BackOf, GoOnMInv
<1>3. CASE Step(d, "fail")
  BY <1>1, <1>3, BackOf, MoveMInv
<1>4. QED
  BY <1>2, <1>3 DEF Chat

\* The address is found or the look-up raises (outbound.py).
LEMMA LookUpAddressMInv ==
  ASSUME MInv, NEW d \in Deliveries, LookUpAddress(d) PROVE MInv'
<1>1. /\ UNCHANGED <<registryVars, stored, sessions, log, passes, pushed>>
      /\ work[d].pc = "lookup" /\ call[d].pc # "idle" /\ d \notin pushed
  BY BackOf DEF LookUpAddress, Doing, RunIsSound, Ended
<1>2. QED
  BY <1>1, BackOf, MoveMInv DEF LookUpAddress

\* The push is the last step of a run (outbound.py).
LEMMA PushMInv ==
  ASSUME MInv, NEW d \in Deliveries, Push(d) PROVE MInv'
<1>1. /\ UNCHANGED <<registryVars, stored, sessions, log, passes>> /\ Step(d, "done")
      /\ work[d].pc = "push" /\ call[d].pc # "idle"
      /\ pushed' = pushed \/ pushed' = pushed \union {d}
  BY BackOf DEF Push, Doing, RunIsSound
<1>2. QED
  BY <1>1, BackOf, MoveMInv DEF Ended

\* A worker dies, and the call leaves its logs as they are.
LEMMA DieMInv ==
  ASSUME MInv, NEW d \in Deliveries, Die(d) PROVE MInv'
<1>1. /\ UNCHANGED <<registryVars, stored, sessions, log, passes, pushed>>
      /\ Step(d, "died") /\ call[d].pc # "idle"
  BY DEF Die, At
<1>2. QED
  BY <1>1, BackOf, MoveMInv DEF Ended

-----------------------------------------------------------------------------

(* Steps that write a log.                                                     *)

\* A step that takes the work of d to n, and the logs to others of which the
\* invariant's parts hold.
LEMMA LoudStep ==
  ASSUME MInv, NEW d \in Deliveries, NEW n \in Work,
         work' = [work EXCEPT ![d] = n],
         UNCHANGED <<registryVars, stored, sessions, passes, pushed>>,
         log' \in [Deliveries -> Log],
         \A e \in Deliveries : log'[e] = log[e] \/ work[e].pc \notin Early \/ e = d,
         RunIsSound(d)', \A e \in Deliveries : LogIsSound(e)', OneSuccessEach',
         \A m \in Messages : Cardinality(Pending(m)') <= Cardinality(Answerable(m)')
  PROVE  MInv'
<1>1. /\ \A e \in Deliveries : RunIsSound(e)
      /\ work \in [Deliveries -> Work] /\ BackTyped
  BY DEF MInv, BackTyped
<1>2. work' \in [Deliveries -> Work] /\ \A e \in Deliveries \ {d} : work'[e] = work[e]
  BY <1>1
<1>3. UNCHANGED <<robots, books, made, admin, call>>
  BY DEF registryVars
<1>4. IInv'
  BY <1>3, NextIInv DEF registryVars, MInv
<1>5. BackTyped'
  BY <1>1, <1>2 DEF BackTyped
<1>6. \A e \in Deliveries : RunIsSound(e)'
  <2>1. ASSUME NEW e \in Deliveries, e # d PROVE RunIsSound(e)'
    <3>1. work'[e] = work[e] /\ (work[e].pc \in Early => log'[e] = log[e])
      BY <1>2, <2>1
    <3>2. QED
      BY <1>1, <1>3, <3>1 DEF RunIsSound, Msg
  <2>2. QED
    BY <2>1
<1>7. PendingIsUnderway'
  BY DEF PendingIsUnderway, Answerable
<1>8. QED
  BY <1>4, <1>5, <1>6, <1>7 DEF MInv

\* A log is inserted with its outcome, by a call that is not /ai (storage.py).
LEMMA WriteLogMInv ==
  ASSUME MInv, NEW d \in Deliveries, WriteLog(d) PROVE MInv'
<1> DEFINE n == [work[d] EXCEPT !.pc = "done"]
<1>1. /\ UNCHANGED <<registryVars, stored, sessions, passes, pushed>> /\ work[d].pc = "log"
      /\ UNCHANGED <<robots, books, made, admin, call>>
      /\ work' = [work EXCEPT ![d] = n]
  BY DEF WriteLog, Doing, Step, registryVars
<1>2. /\ work[d].due \in {"success", "failed"} /\ call[d].handler # "ai" /\ log[d] = NoLog
      /\ d \notin pushed /\ call[d].pc # "idle" /\ (Msg(d) \in stored \/ "save" \in work[d].slips)
      /\ "log" \notin work[d].slips
  BY <1>1, BackOf DEF RunIsSound, Ended, Early
<1>3. n \in Work
  BY BackOf, Zenon DEF Work
<1>4. /\ n.pc = "done" /\ n.due = work[d].due /\ n.slips = work[d].slips
      /\ n.chatted = work[d].chatted
  BY BackOf DEF Work
<1>5. work'[d] = n /\ \A e \in Deliveries \ {d} : work'[e] = work[e]
  BY <1>1, BackOf
<1> HIDE DEF n
<1>6. log' = [log EXCEPT ![d] = [status |-> work[d].due, by |-> d]] \/ log' = log
  BY DEF WriteLog
<1>7. log' \in [Deliveries -> Log]
  BY <1>2, <1>6, BackOf DEF Log
<1>8. RunIsSound(d)'
  BY <1>1, <1>2, <1>4, <1>5 DEF RunIsSound, Early, Ended, Msg
<1>9. \A e \in Deliveries \ {d} : log'[e] = log[e]
  BY <1>6, BackOf
<1>10. log'[d] = [status |-> work[d].due, by |-> d] \/ log'[d] = NoLog
  BY <1>2, <1>6, BackOf
<1>11. \A e \in Deliveries : LogIsSound(e)'
  <2>1. LogIsSound(d)'
    BY <1>1, <1>2, <1>4, <1>5, <1>10 DEF LogIsSound, Settling, Ended, NoLog
  <2>2. ASSUME NEW e \in Deliveries, e # d PROVE LogIsSound(e)'
    <3>1. LogIsSound(e) /\ log'[e] = log[e]
      BY <1>9, <2>2 DEF MInv
    <3>2. QED
      BY <1>1, <1>4, <1>5, <3>1 DEF LogIsSound, Settling, Ended
  <2>3. QED
    BY <2>1, <2>2
<1>12. OneSuccessEach'
  BY <1>1, <1>2, <1>9 DEF MInv, OneSuccessEach
<1>13. ASSUME NEW m \in Messages
       PROVE  Cardinality(Pending(m)') <= Cardinality(Answerable(m)')
  <2>1. Pending(m)' \subseteq Pending(m)
    BY <1>1, <1>2, <1>9 DEF Pending, Deliver
  <2>2. Answerable(m) \subseteq Answerable(m)'
    BY <1>1, <1>2, <1>5 DEF Answerable, Deliver, Owes, Lost, Doing
  <2>3. Cardinality(Pending(m)) <= Cardinality(Answerable(m))
    BY PendingAnswered DEF MInv
  <2>4. QED
    BY <2>1, <2>2, <2>3, CountsWiden
<1>14. QED
  BY <1>1, <1>3, <1>7, <1>8, <1>9, <1>11, <1>12, <1>13, LoudStep

\* A log is inserted as pending, and its call answers for it (ai_handler.py).
LEMMA InsertPendingMInv ==
  ASSUME MInv, NEW d \in Deliveries, InsertPending(d) PROVE MInv'
<1> DEFINE n == [work[d] EXCEPT !.pc = "chat"]
<1>1. /\ UNCHANGED <<registryVars, stored, sessions, passes, pushed>> /\ work[d].pc = "insert"
      /\ UNCHANGED <<robots, books, made, admin, call>>
      /\ work' = [work EXCEPT ![d] = n]
  BY DEF InsertPending, Doing, Step, registryVars
<1>2. /\ call[d].handler = "ai" /\ log[d] = NoLog /\ work[d].due \notin {"success", "failed"}
      /\ d \notin pushed /\ call[d].pc # "idle" /\ (Msg(d) \in stored \/ "save" \in work[d].slips)
      /\ "log" \notin work[d].slips
  BY <1>1, BackOf DEF RunIsSound, Ended, Early
<1>3. n \in Work
  BY BackOf, Zenon DEF Work
<1>4. /\ n.pc = "chat" /\ n.due = work[d].due /\ n.slips = work[d].slips
      /\ n.chatted = work[d].chatted
  BY BackOf DEF Work
<1>5. work'[d] = n /\ \A e \in Deliveries \ {d} : work'[e] = work[e]
  BY <1>1, BackOf
<1> HIDE DEF n
<1>6. log' = [log EXCEPT ![d].status = "pending"] \/ log' = log
  BY DEF InsertPending
<1>7. log' \in [Deliveries -> Log]
  <2>1. [log[d] EXCEPT !.status = "pending"] \in Log
    BY BackOf DEF Log
  <2>2. QED
    BY <1>6, <2>1, BackOf
<1>8. RunIsSound(d)'
  BY <1>1, <1>2, <1>4, <1>5 DEF RunIsSound, Early, Ended, Msg
<1>9. \A e \in Deliveries \ {d} : log'[e] = log[e]
  BY <1>6, BackOf
<1>10. log'[d].status \in {"pending", "absent"} /\ log'[d].by = Null
  BY <1>2, <1>6, BackOf DEF NoLog
<1>11. \A e \in Deliveries : LogIsSound(e)'
  <2>1. LogIsSound(d)'
    BY <1>10 DEF LogIsSound
  <2>2. ASSUME NEW e \in Deliveries, e # d PROVE LogIsSound(e)'
    <3>1. LogIsSound(e) /\ log'[e] = log[e]
      BY <1>9, <2>2 DEF MInv
    <3>2. QED
      BY <1>1, <1>4, <1>5, <3>1 DEF LogIsSound, Settling, Ended
  <2>3. QED
    BY <2>1, <2>2
<1>12. OneSuccessEach'
  BY <1>1, <1>9, <1>10 DEF MInv, OneSuccessEach
<1>13. ASSUME NEW m \in Messages
       PROVE  Cardinality(Pending(m)') <= Cardinality(Answerable(m)')
  <2>1. Cardinality(Pending(m)) <= Cardinality(Answerable(m))
    BY PendingAnswered DEF MInv
  <2>2. CASE m = Msg(d)
    <3>1. Pending(m)' \subseteq Pending(m) \union {d}
      BY <1>1, <1>9 DEF Pending, Deliver
    <3>2. d \notin Answerable(m)
      BY <1>1, <1>2 DEF Answerable, Owes, Lost, Doing
    <3>3. Answerable(m) \union {d} \subseteq Answerable(m)'
      BY <1>4, <1>5, <2>2 DEF Answerable, Deliver, Owes, Lost, Doing, Msg
    <3>4. QED
      BY <2>1, <3>1, <3>2, <3>3, CountsAdd
  <2>3. CASE m # Msg(d)
    <3>1. Pending(m)' \subseteq Pending(m)
      BY <1>1, <1>9, <2>3 DEF Pending, Deliver, Msg
    <3>2. Answerable(m) \subseteq Answerable(m)'
      BY <1>5, <2>3 DEF Answerable, Deliver, Owes, Lost, Doing, Msg
    <3>3. QED
      BY <2>1, <3>1, <3>2, CountsWiden
  <2>4. QED
    BY <2>2, <2>3
<1>14. QED
  BY <1>1, <1>3, <1>7, <1>8, <1>9, <1>11, <1>12, <1>13, LoudStep

\* An update settles a pending log of the message, finds none, or fails.
LEMMA UpdateLogMInv ==
  ASSUME MInv, NEW d \in Deliveries,
         NEW status \in {"success", "failed"}, NEW pc \in {"lookup", "done"},
         UpdateLog(d, status, pc),
         UNCHANGED <<registryVars, stored, sessions, passes, pushed>>,
         \/ status = "success" /\ pc = "lookup" /\ work[d].pc = "succeed"
         \/ status = "failed" /\ pc = "done" /\ work[d].pc = "fail"
  PROVE  MInv'
<1>1. PICK n \in Work :
        /\ work' = [work EXCEPT ![d] = n]
        /\ n.pc = pc /\ n.due = work[d].due /\ n.chatted = work[d].chatted
        /\ work[d].slips \subseteq n.slips
        /\ \/ /\ \E e \in Pending(Msg(d)) : log' = [log EXCEPT ![e] = [status |-> status, by |-> d]]
           \/ Pending(Msg(d)) = {} /\ UNCHANGED log
           \/ "log" \in n.slips /\ UNCHANGED log
  <2>1. CASE /\ Step(d, pc)
             /\ \/ \E e \in Pending(Msg(d)) :
                     log' = [log EXCEPT ![e] = [status |-> status, by |-> d]]
                \/ Pending(Msg(d)) = {} /\ UNCHANGED log
    <3> DEFINE n == [work[d] EXCEPT !.pc = pc]
    <3>1. n \in Work
      BY BackOf, Zenon DEF Work
    <3>2. /\ n.pc = pc /\ n.due = work[d].due /\ n.chatted = work[d].chatted
          /\ work[d].slips \subseteq n.slips
      BY BackOf DEF Work
    <3>3. work' = [work EXCEPT ![d] = n]
      BY <2>1 DEF Step
    <3> HIDE DEF n
    <3>4. QED
      BY <2>1, <3>1, <3>2, <3>3
  <2>2. CASE Slip(d, pc, "log") /\ UNCHANGED log
    <3> DEFINE n == [work[d] EXCEPT !.pc = pc, !.slips = work[d].slips \union {"log"}]
    <3>1. work[d].slips \union {"log"} \in SUBSET {"save", "log"}
      BY BackOf DEF Work
    <3>2. n \in Work
      BY <3>1, BackOf, Zenon DEF Work
    <3>3. /\ n.pc = pc /\ n.due = work[d].due /\ n.chatted = work[d].chatted
          /\ n.slips = work[d].slips \union {"log"}
      BY BackOf DEF Work
    <3>4. work' = [work EXCEPT ![d] = n]
      BY <2>2 DEF Slip
    <3> HIDE DEF n
    <3>5. QED
      BY <2>2, <3>2, <3>3, <3>4
  <2>3. QED
    BY <2>1, <2>2 DEF UpdateLog
<1>2. UNCHANGED <<robots, books, made, admin, call>>
  BY DEF registryVars
<1>3. /\ call[d].handler = "ai" /\ work[d].due \notin {"success", "failed"} /\ d \notin pushed
      /\ call[d].pc # "idle" /\ (Msg(d) \in stored \/ "save" \in work[d].slips)
      /\ work[d].pc = "succeed" => work[d].chatted = "yes"
  BY BackOf DEF RunIsSound, Ended
<1>4. work'[d] = n /\ \A e \in Deliveries \ {d} : work'[e] = work[e]
  BY <1>1, BackOf
<1>5. RunIsSound(d)'
  BY <1>1, <1>2, <1>3, <1>4 DEF RunIsSound, Early, Ended, Msg
<1>6. ASSUME NEW e \in Deliveries, log'[e] = log[e] PROVE LogIsSound(e)'
  <2>1. LogIsSound(e)
    BY DEF MInv
  <2>2. ASSUME NEW b \in Deliveries, work[b].pc \in Settling
        PROVE  work'[b].pc \in Settling /\ (work[b].pc \in Ended => work'[b].pc \in Ended)
               /\ (work[b].chatted = "yes" => work'[b].chatted = "yes")
    BY <1>1, <1>4, <2>2 DEF Settling, Ended
  <2>3. QED
    BY <1>2, <1>6, <2>1, <2>2 DEF LogIsSound
<1>7. CASE UNCHANGED log
  <2>1. \A e \in Deliveries : LogIsSound(e)'
    BY <1>6, <1>7
  <2>2. OneSuccessEach'
    BY <1>2, <1>7 DEF MInv, OneSuccessEach
  <2>3. ASSUME NEW m \in Messages
        PROVE  Cardinality(Pending(m)') <= Cardinality(Answerable(m)')
    <3>1. Cardinality(Pending(m)) <= Cardinality(Answerable(m))
      BY PendingAnswered DEF MInv
    <3>2. Pending(m)' = Pending(m)
      BY <1>2, <1>7 DEF Pending, Deliver
    <3>3. CASE m = Msg(d) /\ Pending(m) = {}
      BY <3>2, <3>3, CountsNone
    <3>4. CASE m # Msg(d) \/ "log" \in n.slips
      <4>1. Answerable(m) \subseteq Answerable(m)'
        BY <1>4, <3>4 DEF Answerable, Deliver, Owes, Lost, Doing, Msg
      <4>2. QED
        BY <3>1, <3>2, <4>1, CountsWiden
    <3>5. QED
      <4>1. Pending(Msg(d)) = {} \/ "log" \in n.slips
        <5>1. ASSUME NEW e \in Pending(Msg(d)),
                     log' = [log EXCEPT ![e] = [status |-> status, by |-> d]]
              PROVE  FALSE
          <6>1. e \in Deliveries /\ log[e].status = "pending"
            BY DEF Pending, Deliver
          <6>2. log'[e].status = status
            BY <5>1, <6>1, BackOf
          <6>3. QED
            BY <1>7, <6>1, <6>2
        <5>2. QED
          BY <1>1, <5>1
      <4>2. QED
        BY <3>3, <3>4, <4>1
  <2>4. log' \in [Deliveries -> Log]
    BY <1>7, BackOf
  <2>5. QED
    BY <1>1, <1>5, <1>7, <2>1, <2>2, <2>3, <2>4, LoudStep
<1>8. ASSUME NEW e \in Pending(Msg(d)),
             log' = [log EXCEPT ![e] = [status |-> status, by |-> d]]
      PROVE  MInv'
  <2>1. e \in Deliveries /\ call[e].handler = "ai" /\ log[e].status = "pending"
        /\ MessageOf[e] = Msg(d)
    BY DEF Pending, Deliver
  <2>2. log'[e] = [status |-> status, by |-> d] /\ \A f \in Deliveries \ {e} : log'[f] = log[f]
    BY <1>8, <2>1, BackOf
  <2>3. log' \in [Deliveries -> Log]
    BY <1>8, <2>1, BackOf DEF Log
  <2>4. LogIsSound(e)'
    BY <1>1, <1>2, <1>3, <1>4, <2>2 DEF LogIsSound, Settling, Ended
  <2>5. \A f \in Deliveries : LogIsSound(f)'
    BY <1>6, <2>2, <2>4
  <2>6. OneSuccessEach'
    <3>1. ASSUME NEW f \in Deliveries, log[f].status = "success", status = "success"
          PROVE  log[f].by # d
      <4>1. work[log[f].by].pc \in Settling
        BY <3>1 DEF MInv, LogIsSound
      <4>2. work[d].pc = "succeed"
        BY <3>1
      <4>3. QED
        BY <4>1, <4>2 DEF Settling, Ended
    <3>2. QED
      BY <1>2, <2>2, <3>1 DEF MInv, OneSuccessEach
  <2>7. ASSUME NEW m \in Messages
        PROVE  Cardinality(Pending(m)') <= Cardinality(Answerable(m)')
    <3>1. Cardinality(Pending(m)) <= Cardinality(Answerable(m))
      BY PendingAnswered DEF MInv
    <3>2. CASE m = Msg(d)
      <4>1. Pending(m)' \subseteq Pending(m) \ {e}
        BY <1>2, <2>2 DEF Pending, Deliver
      <4>2. Answerable(m) \ {d} \subseteq Answerable(m)'
        BY <1>4 DEF Answerable, Deliver, Owes, Lost, Doing
      <4>3. QED
        BY <3>1, <3>2, <4>1, <4>2, CountsRemove
    <3>3. CASE m # Msg(d)
      <4>1. Pending(m)' \subseteq Pending(m)
        BY <1>2, <2>1, <2>2, <3>3 DEF Pending, Deliver
      <4>2. Answerable(m) \subseteq Answerable(m)'
        BY <1>4, <3>3 DEF Answerable, Deliver, Owes, Lost, Doing, Msg
      <4>3. QED
        BY <3>1, <4>1, <4>2, CountsWiden
    <3>4. QED
      BY <3>2, <3>3
  <2>8. \A f \in Deliveries : log'[f] = log[f] \/ work[f].pc \notin Early \/ f = d
    <3>1. work[e].pc \notin Early
      BY <2>1 DEF MInv, RunIsSound, NoLog
    <3>2. QED
      BY <2>2, <3>1
  <2>9. QED
    BY <1>1, <1>5, <2>3, <2>5, <2>6, <2>7, <2>8, LoudStep
<1>9. QED
  BY <1>1, <1>7, <1>8

\* A run the model has replied to settles a log (ai_handler.py).
LEMMA SucceedMInv ==
  ASSUME MInv, NEW d \in Deliveries, Succeed(d) PROVE MInv'
BY UpdateLogMInv DEF Succeed, Doing

\* A run that failed settles a log (ai_handler.py).
LEMMA FailMInv ==
  ASSUME MInv, NEW d \in Deliveries, Fail(d) PROVE MInv'
BY UpdateLogMInv DEF Fail, Doing

-----------------------------------------------------------------------------

(* The theorems.                                                               *)

\* A message arrives at a call that has done nothing yet (yunzhijia.py).
LEMMA PostMInv ==
  ASSUME MInv, NEW d \in Deliveries, Post(d) PROVE MInv'
<1>1. PICK id \in RobotIds \union {TestRobotId}, url \in Codes, s \in Secrets, h \in Handlers :
        Arrive(d, id, url, s, h)
  BY DEF Post
<1>2. UNCHANGED backVars
  BY DEF Post
<1>3. IInv'
  BY <1>1, ArriveIInv DEF MInv
<1>4. call[d].pc = "idle"
  BY <1>1 DEF Arrive, At
<1>5. \A e \in Deliveries \ {d} : call'[e] = call[e]
  BY <1>1 DEF Arrive, MInv, IInv, RegistryTypeOK
<1>6. QED
  BY <1>2, <1>3, <1>4, <1>5, RegistryStepMInv

\* Every step keeps the invariant.
LEMMA NextMInv == MInv /\ [Next]_vars => MInv'
<1> SUFFICES ASSUME MInv, [Next]_vars PROVE MInv'
  OBVIOUS
<1>1. IInv'
  BY StepsOfRegistry, NextIInv DEF MInv
<1>2. CASE AdminStep /\ UNCHANGED backVars
  <2>1. UNCHANGED call
    BY <1>2 DEF AdminStep, CreateLooks, CreateInserts, Update, Delete
  <2>2. QED
    BY <1>1, <1>2, <2>1, RegistryStepMInv
<1>3. ASSUME NEW d \in Deliveries, LookUp(d) PROVE MInv'
  <2>1. \A e \in Deliveries : /\ call'[e].pc = "idle" => call[e].pc = "idle"
                              /\ call'[e].handler = call[e].handler
    BY <1>3, LookupKeeps DEF LookUp, MInv
  <2>2. QED
    BY <1>1, <1>3, <2>1, RegistryStepMInv DEF LookUp
<1>4. ASSUME NEW d \in Deliveries, Proceed(d) PROVE MInv'
  BY <1>4, HandleMInv, CallApiMInv, GetSidMInv, CallGateMInv, MakeCardMInv, SaveMessageMInv,
     UpsertSessionMInv, WriteLogMInv, InsertPendingMInv, ChatMInv, SucceedMInv,
     LookUpAddressMInv, PushMInv, FailMInv DEF Proceed
<1>5. CASE UNCHANGED vars
  <2>1. UNCHANGED <<backVars, call>>
    BY <1>5 DEF vars, registryVars
  <2>2. QED
    BY <1>1, <2>1, RegistryStepMInv
<1>6. QED
  BY <1>2, <1>3, <1>4, <1>5, PostMInv, DieMInv DEF Next

\* The invariant holds in every reachable state.
LEMMA MessagesInvariance == Spec => []MInv
BY InitMInv, NextMInv, PTL DEF Spec

\* The whole keeps its types (message_processor.py, storage.py).
THEOREM MessagesTypeCorrect == Spec => []TypeOK
<1>1. MInv => TypeOK
  BY DEF MInv, IInv, BackTyped, TypeOK
<1>2. QED
  BY <1>1, MessagesInvariance, PTL

\* No more logs of a message are pending than /ai runs have yet to settle one or
\* were lost, for any number of deliveries (ai_handler.py 82-118).
THEOREM NoLogIsLeftOver == Spec => []PendingIsUnderway
<1>1. MInv => PendingIsUnderway
  BY DEF MInv
<1>2. QED
  BY <1>1, MessagesInvariance, PTL

\* A success stands for a reply of the model, of one run each (ai_handler.py 95-119).
THEOREM SuccessIsEarned == Spec => []SuccessHasReply
<1>1. MInv => SuccessHasReply
  BY DEF MInv, LogIsSound, OneSuccessEach, SuccessHasReply
<1>2. QED
  BY <1>1, MessagesInvariance, PTL

\* What was pushed is in no log a failure of the run that pushed it (outbound.py
\* 51-62).
THEOREM PushIsTheLastStep == Spec => []PushedIsNotFailed
<1>1. MInv => PushedIsNotFailed
  <2> SUFFICES ASSUME MInv, NEW d \in pushed, NEW e \in Deliveries, log[e].by = d
               PROVE  log[e].status # "failed"
    BY DEF PushedIsNotFailed
  <2>1. LogIsSound(e)
    BY DEF MInv
  <2>2. QED
    BY <2>1 DEF LogIsSound
<1>2. QED
  BY <1>1, MessagesInvariance, PTL

\* Whatever the handler did, the message of a call that is through is stored unless
\* MongoDB refused it (message_processor.py 58-71, yunzhijia.py 97-104).
THEOREM NoMessageIsLost == Spec => []VerifiedIsStored
<1>1. MInv => VerifiedIsStored
  BY DEF MInv, RunIsSound, VerifiedIsStored, Doing
<1>2. QED
  BY <1>1, MessagesInvariance, PTL

\* A settled log is never changed again (ai_handler.py 98-118).
THEOREM SettledLogsStay == Spec => SettledStays
<1>1. MInv /\ [Next]_vars
        => [\A d \in Deliveries :
              log[d].status \in {"success", "failed"} => log'[d] = log[d]]_vars
  <2> SUFFICES ASSUME MInv, Next, NEW e \in Deliveries, log[e].status \in {"success", "failed"}
               PROVE  log'[e] = log[e]
    OBVIOUS
  <2>1. log \in [Deliveries -> Log] /\ work[e].pc \notin Early
    BY BackOf DEF RunIsSound, NoLog
  <2>2. ASSUME NEW d \in Deliveries, WriteLog(d) \/ InsertPending(d) PROVE log'[e] = log[e]
    <3>1. d # e
      BY <2>1, <2>2 DEF WriteLog, InsertPending, Doing, Early
    <3>2. QED
      BY <2>1, <2>2, <3>1 DEF WriteLog, InsertPending
  <2>3. ASSUME NEW d \in Deliveries, Succeed(d) \/ Fail(d) PROVE log'[e] = log[e]
    <3>1. e \notin Pending(Msg(d))
      BY DEF Pending
    <3>2. QED
      BY <2>1, <2>3, <3>1 DEF Succeed, Fail, UpdateLog
  <2>4. ASSUME NEW d \in Deliveries, Proceed(d) PROVE log'[e] = log[e]
    BY <2>2, <2>3, <2>4 DEF Proceed, Handle, CallApi, GetSid, CallGate, MakeCard, SaveMessage,
       UpsertSession, Chat, LookUpAddress, Push
  <2>5. ASSUME NEW d \in Deliveries, Post(d) \/ LookUp(d) \/ Die(d) PROVE log'[e] = log[e]
    BY <2>5 DEF Post, LookUp, Die, backVars
  <2>6. CASE AdminStep /\ UNCHANGED backVars
    BY <2>6 DEF backVars
  <2>7. QED
    BY <2>4, <2>5, <2>6 DEF Next
<1>2. QED
  BY <1>1, MessagesInvariance, PTL DEF Spec, SettledStays
-----------------------------------------------------------------------------

(* Passes.  The calls that have asked the gate become one more at the step that  *)
(* may have a pass issued, and none of them ever ceases to be one.              *)

Asked(m) == {d \in Deliver(m) : AskedGate(d)}

\* What is known of a call that has not answered, and of one at the gate.
GateIsSound(d) ==
  /\ work[d].pc \in {"idle", "api", "sid", "gate", "company"} => work[d].answer = "none"
  /\ work[d].pc \in {"sid", "gate", "company"} =>
       call[d].pc = "accepted" /\ call[d].handler = "mys4s" /\ Msg(d) \in Plated

GInv ==
  /\ \A d \in Deliveries : GateIsSound(d)
  /\ PassesHaveOwners

\* The counts are numbers, before a step and after it.
LEMMA FinitePasses ==
  ASSUME NEW m
  PROVE  /\ IsFiniteSet(Asked(m)) /\ Cardinality(Asked(m)) \in Nat
         /\ IsFiniteSet(Asked(m)') /\ Cardinality(Asked(m)') \in Nat
<1>1. Asked(m) \subseteq Deliveries /\ Asked(m)' \subseteq Deliveries
  BY DEF Asked, Deliver
<1>2. QED
  BY <1>1, MessagesAssumption, FS_Subset, FS_CardinalityType

\* The property in terms of the set.
LEMMA PassesCounted ==
  PassesHaveOwners <=> \A m \in Messages : passes[m] <= Cardinality(Asked(m))
BY DEF PassesHaveOwners, Asked

\* No pass is issued, and no call ceases to have asked the gate.
LEMMA NoPassIssued ==
  ASSUME GInv, MInv, UNCHANGED passes,
         \A e \in Deliveries : AskedGate(e) => AskedGate(e)'
  PROVE  PassesHaveOwners'
<1> SUFFICES ASSUME NEW m \in Messages
             PROVE  passes'[m] <= Cardinality(Asked(m)')
  BY DEF PassesHaveOwners, Asked
<1>1. Asked(m) \subseteq Asked(m)'
  BY DEF Asked, Deliver
<1>2. Cardinality(Asked(m)) <= Cardinality(Asked(m)')
  BY <1>1, FinitePasses, FS_Subset
<1>3. passes[m] <= Cardinality(Asked(m)) /\ passes[m] \in Nat
  BY PassesCounted DEF GInv, MInv, BackTyped
<1>4. QED
  BY <1>2, <1>3, FinitePasses

\* A pass is issued for a call that had not asked the gate and now has.
LEMMA PassIssued ==
  ASSUME GInv, MInv, NEW d \in Deliveries, Issue(d), ~AskedGate(d), AskedGate(d)',
         \A e \in Deliveries \ {d} : AskedGate(e) => AskedGate(e)'
  PROVE  PassesHaveOwners'
<1> SUFFICES ASSUME NEW m \in Messages
             PROVE  passes'[m] <= Cardinality(Asked(m)')
  BY DEF PassesHaveOwners, Asked
<1>1. passes[m] <= Cardinality(Asked(m)) /\ passes[m] \in Nat
  BY PassesCounted DEF GInv, MInv, BackTyped
<1>2. passes \in [Messages -> Nat]
  BY DEF MInv, BackTyped
<1>3. CASE m = Msg(d)
  <2>1. passes'[m] = passes[m] + 1
    BY <1>2, <1>3 DEF Issue
  <2>2. Asked(m) \union {d} \subseteq Asked(m)' /\ d \notin Asked(m)
    BY <1>3 DEF Asked, Deliver, Msg
  <2>3. /\ Cardinality(Asked(m) \union {d}) \in Nat
        /\ Cardinality(Asked(m) \union {d}) = Cardinality(Asked(m)) + 1
    BY <2>2, FinitePasses, CountWith
  <2>4. Cardinality(Asked(m) \union {d}) <= Cardinality(Asked(m)')
    BY <2>2, FinitePasses, FS_Subset
  <2>5. QED
    BY <1>1, <2>1, <2>3, <2>4, FinitePasses
<1>4. CASE m # Msg(d)
  <2>1. passes'[m] = passes[m]
    BY <1>2, <1>4 DEF Issue
  <2>2. Asked(m) \subseteq Asked(m)'
    BY <1>4 DEF Asked, Deliver, Msg
  <2>3. Cardinality(Asked(m)) <= Cardinality(Asked(m)')
    BY <2>2, FinitePasses, FS_Subset
  <2>4. QED
    BY <1>1, <2>1, <2>3, FinitePasses
<1>5. QED
  BY <1>3, <1>4

\* A call that was accepted stays as it is, whatever the registry does.
LEMMA AcceptedStays ==
  ASSUME IInv, [RegistryNext]_registryVars, NEW e \in Deliveries, call[e].pc = "accepted"
  PROVE  call'[e] = call[e]
<1>1. call \in [Deliveries -> Call]
  BY DEF IInv, RegistryTypeOK
<1>2. CASE AdminStep
  BY <1>2 DEF AdminStep, CreateLooks, CreateInserts, Update, Delete
<1>3. ASSUME NEW d \in Deliveries, Lookup(d) PROVE call'[e] = call[e]
  <2>1. d # e
    BY <1>3 DEF Lookup, Resolve, ReadSecret, Migrate, LookupFails, At
  <2>2. QED
    BY <1>1, <1>3, <2>1 DEF Lookup, Resolve, ReadSecret, Migrate, LookupFails
<1>4. ASSUME NEW d \in Deliveries, NEW id \in RobotIds \union {TestRobotId}, NEW url \in Codes,
             NEW s \in Secrets, NEW h \in Handlers, Arrive(d, id, url, s, h)
      PROVE  call'[e] = call[e]
  <2>1. d # e
    BY <1>4 DEF Arrive, At
  <2>2. QED
    BY <1>1, <1>4, <2>1 DEF Arrive
<1>5. CASE UNCHANGED registryVars
  BY <1>5 DEF registryVars
<1>6. QED
  BY <1>2, <1>3, <1>4, <1>5 DEF RegistryNext

\* A step of the registry leaves the passes, and the calls that asked for one, alone.
LEMMA RegistryStepGInv ==
  ASSUME GInv, MInv, [RegistryNext]_registryVars, UNCHANGED backVars
  PROVE  GInv'
<1>1. \A e \in Deliveries : call[e].pc = "accepted" => call'[e] = call[e]
  BY AcceptedStays DEF MInv
<1>2. UNCHANGED <<work, passes>>
  BY DEF backVars
<1>3. ASSUME NEW e \in Deliveries
      PROVE  AskedGate(e) => AskedGate(e)'
  BY <1>1, <1>2 DEF AskedGate, Doing, At, Msg
<1>4. ASSUME NEW e \in Deliveries PROVE GateIsSound(e)'
  BY <1>1, <1>2 DEF GInv, GateIsSound, Msg
<1>5. QED
  BY <1>2, <1>3, <1>4, NoPassIssued DEF GInv

\* A step of call d that has no pass issued.
LEMMA GateStep ==
  ASSUME GInv, MInv, NEW d \in Deliveries, NEW n, work' = [work EXCEPT ![d] = n],
         UNCHANGED <<registryVars, passes>>, GateIsSound(d)',
         AskedGate(d) => AskedGate(d)'
  PROVE  GInv'
<1>1. UNCHANGED call
  BY DEF registryVars
<1>2. ASSUME NEW e \in Deliveries, e # d
      PROVE  (AskedGate(e) => AskedGate(e)') /\ work'[e] = work[e]
  BY <1>1, <1>2 DEF AskedGate, Doing, At, Msg
<1>3. ASSUME NEW e \in Deliveries PROVE GateIsSound(e)'
  BY <1>1, <1>2 DEF GInv, GateIsSound, Msg
<1>4. QED
  BY <1>2, <1>3, NoPassIssued DEF GInv

\* What an answer makes of a call.
LEMMA AnswerMakes ==
  ASSUME MInv, NEW d \in Deliveries, NEW a, NEW due, Answer(d, a, due)
  PROVE  /\ work'[d].pc = "save" /\ work'[d].answer = a
         /\ \E n : work' = [work EXCEPT ![d] = n]
         /\ \A e \in Deliveries \ {d} : work'[e] = work[e]
<1>1. work \in [Deliveries -> Work] /\ work[d] \in Work
  BY BackOf
<1>2. PICK h \in {"no", "yes"} :
        work' = [work EXCEPT ![d] = [work[d] EXCEPT !.pc = "save", !.answer = a, !.due = due,
                                                    !.heard = h]]
  BY DEF Answer
<1>3. QED
  BY <1>1, <1>2 DEF Work

\* What a step to another place makes of it, whether or not a write has failed.
LEMMA StepMakes ==
  ASSUME MInv, NEW d \in Deliveries, NEW pc, NEW w, Step(d, pc) \/ Slip(d, pc, w)
  PROVE  /\ work'[d].pc = pc /\ work'[d].answer = work[d].answer
         /\ \E n : work' = [work EXCEPT ![d] = n]
         /\ \A e \in Deliveries \ {d} : work'[e] = work[e]
<1>1. work \in [Deliveries -> Work] /\ work[d] \in Work
  BY BackOf
<1>2. CASE Step(d, pc)
  BY <1>1, <1>2 DEF Step, Work
<1>3. CASE Slip(d, pc, w)
  BY <1>1, <1>3 DEF Slip, Work
<1>4. QED
  BY <1>2, <1>3

\* An answer of a call that has had no pass issued.
LEMMA AnswerGInv ==
  ASSUME GInv, MInv, NEW d \in Deliveries, NEW a, NEW due, Answer(d, a, due),
         work[d].pc \in {"idle", "api", "sid", "gate"},
         UNCHANGED <<registryVars, passes>>
  PROVE  GInv'
<1>1. work'[d].pc = "save" /\ work'[d].answer = a
  BY AnswerMakes
<1>2. PICK n : work' = [work EXCEPT ![d] = n]
  BY AnswerMakes
<1>3. GateIsSound(d)'
  BY <1>1 DEF GateIsSound
<1>4. ~AskedGate(d)
  BY DEF GInv, GateIsSound, AskedGate, Doing
<1>5. QED
  BY <1>2, <1>3, <1>4, GateStep

\* A step on the way to the gate, or past it.
LEMMA TowardsGateGInv ==
  ASSUME GInv, MInv, NEW d \in Deliveries, NEW pc \in {"api", "sid", "gate", "company"},
         Step(d, pc), work[d].pc \in {"idle", "sid", "gate"}, UNCHANGED <<registryVars, passes>>,
         pc # "api" =>
           call[d].pc = "accepted" /\ call[d].handler = "mys4s" /\ Msg(d) \in Plated
  PROVE  GInv'
<1>1. work'[d].pc = pc /\ work'[d].answer = work[d].answer /\ UNCHANGED call
  BY StepMakes DEF registryVars
<1>2. PICK n : work' = [work EXCEPT ![d] = n]
  BY StepMakes
<1>3. work[d].answer = "none"
  BY DEF GInv, GateIsSound
<1>4. GateIsSound(d)' /\ ~AskedGate(d)
  BY <1>1, <1>3 DEF GateIsSound, AskedGate, Doing, Msg
<1>5. QED
  BY <1>2, <1>4, GateStep

\* A step after the answer keeps the answer.
LEMMA AfterAnswerGInv ==
  ASSUME GInv, MInv, NEW d \in Deliveries, NEW n, work' = [work EXCEPT ![d] = n],
         n.answer = work[d].answer,
         n.pc \notin {"idle", "api", "sid", "gate", "company", "died"},
         work[d].pc \notin {"idle", "api", "sid", "gate", "company", "died"},
         UNCHANGED <<registryVars, passes>>
  PROVE  GInv'
<1>1. work'[d] = n /\ UNCHANGED call
  BY BackOf DEF registryVars
<1>2. AskedGate(d) => AskedGate(d)'
  BY <1>1 DEF AskedGate, Doing, At, Msg
<1>3. GateIsSound(d)'
  BY <1>1 DEF GateIsSound
<1>4. QED
  BY <1>2, <1>3, GateStep

\* The same of a step that only moves on.
LEMMA MoveOnGInv ==
  ASSUME GInv, MInv, NEW d \in Deliveries, NEW pc, NEW w, Step(d, pc) \/ Slip(d, pc, w),
         pc \notin {"idle", "api", "sid", "gate", "company", "died"},
         work[d].pc \notin {"idle", "api", "sid", "gate", "company", "died"},
         UNCHANGED <<registryVars, passes>>
  PROVE  GInv'
<1>1. work'[d].pc = pc /\ work'[d].answer = work[d].answer
  BY StepMakes
<1>2. PICK n : work' = [work EXCEPT ![d] = n]
  BY StepMakes
<1>3. work'[d] = n
  BY <1>2, BackOf
<1>4. QED
  BY <1>1, <1>2, <1>3, AfterAnswerGInv

\* The handlers up to the gate (message_processor.py 30-71).
LEMMA HandleGInv ==
  ASSUME GInv, MInv, NEW d \in Deliveries, Handle(d) \/ CallApi(d) \/ GetSid(d)
  PROVE  GInv'
<1>1. CASE Handle(d)
  <2>1. work[d].pc = "idle" /\ UNCHANGED <<registryVars, passes>>
    BY <1>1 DEF Handle, Doing
  <2>2. ASSUME Step(d, "api") \/ (Step(d, "sid") /\ At(d, "accepted")
               /\ call[d].handler = "mys4s" /\ Msg(d) \in Plated)
        PROVE  GInv'
    BY <2>1, <2>2, TowardsGateGInv DEF At
  <2>3. ASSUME NEW a \in {"hello", "unsupported", "echo", "thinking", "help"}, NEW due,
               Answer(d, a, due)
        PROVE  GInv'
    BY <2>1, <2>3, AnswerGInv
  <2>4. QED
    BY <1>1, <2>2, <2>3 DEF Handle
<1>2. CASE CallApi(d)
  <2>1. work[d].pc = "api" /\ UNCHANGED <<registryVars, passes>>
    BY <1>2 DEF CallApi, Doing
  <2>2. ASSUME NEW a \in {"called", "notCalled"}, NEW due, Answer(d, a, due) PROVE GInv'
    BY <2>1, <2>2, AnswerGInv
  <2>3. QED
    BY <1>2, <2>2 DEF CallApi
<1>3. CASE GetSid(d)
  <2>1. work[d].pc = "sid" /\ UNCHANGED <<registryVars, passes>>
    BY <1>3 DEF GetSid, Doing
  <2>2. call[d].pc = "accepted" /\ call[d].handler = "mys4s" /\ Msg(d) \in Plated
    BY <2>1 DEF GInv, GateIsSound
  <2>3. ASSUME Step(d, "gate") PROVE GInv'
    BY <2>1, <2>2, <2>3, TowardsGateGInv
  <2>4. ASSUME NEW a \in {"noSid", "fallback"}, NEW due, Answer(d, a, due) PROVE GInv'
    BY <2>1, <2>4, AnswerGInv
  <2>5. QED
    BY <1>3, <2>3, <2>4 DEF GetSid
<1>4. QED
  BY <1>1, <1>2, <1>3

\* The gate is asked once, and the call is one that has asked it from then on,
\* whatever it is answered (mys4s_handler.py 71-156).
LEMMA CallGateGInv ==
  ASSUME GInv, MInv, NEW d \in Deliveries, CallGate(d) PROVE GInv'
<1>1. /\ work[d].pc = "gate" /\ work[d].answer = "none"
      /\ call[d].pc = "accepted" /\ call[d].handler = "mys4s" /\ Msg(d) \in Plated
  BY DEF CallGate, Doing, GInv, GateIsSound
<1>2. UNCHANGED registryVars /\ UNCHANGED call
  BY DEF CallGate, registryVars
<1>3. ~AskedGate(d)
  BY <1>1 DEF AskedGate, Doing
<1>4. \/ Step(d, "company")
      \/ \E a \in {"sent", "refused", "gateFailed"}, due \in {"success", "failed"} :
           Answer(d, a, due)
  BY DEF CallGate, GateAnswers
<1>5. CASE UNCHANGED passes
  BY <1>1, <1>2, <1>4, <1>5, AnswerGInv, TowardsGateGInv
<1>6. CASE Issue(d)
  <2>1. /\ \A e \in Deliveries \ {d} : work'[e] = work[e]
        /\ \/ work'[d].pc = "save" /\ work'[d].answer \in {"sent", "refused", "gateFailed"}
           \/ work'[d].pc = "company" /\ work'[d].answer = "none"
    BY <1>1, <1>4, AnswerMakes, StepMakes
  <2>2. AskedGate(d)'
    BY <1>1, <1>2, <2>1 DEF AskedGate, Doing, At, Msg
  <2>3. ASSUME NEW e \in Deliveries, e # d
        PROVE  (AskedGate(e) => AskedGate(e)') /\ work'[e] = work[e]
    BY <1>2, <2>1, <2>3 DEF AskedGate, Doing, At, Msg
  <2>4. ASSUME NEW e \in Deliveries PROVE GateIsSound(e)'
    <3>1. CASE e = d
      BY <1>1, <1>2, <2>1, <3>1 DEF GateIsSound, Msg
    <3>2. CASE e # d
      BY <1>2, <2>3, <3>2 DEF GInv, GateIsSound, Msg
    <3>3. QED
      BY <3>1, <3>2
  <2>5. PassesHaveOwners'
    BY <1>3, <1>6, <2>2, <2>3, PassIssued
  <2>6. QED
    BY <2>4, <2>5 DEF GInv
<1>7. QED
  BY <1>5, <1>6 DEF CallGate

\* The card or the text: the call has asked the gate already.
LEMMA MakeCardGInv ==
  ASSUME GInv, MInv, NEW d \in Deliveries, MakeCard(d) PROVE GInv'
<1>1. work[d].pc = "company" /\ UNCHANGED <<registryVars, passes>> /\ UNCHANGED call
  BY DEF MakeCard, Doing, registryVars
<1>2. call[d].pc = "accepted" /\ call[d].handler = "mys4s" /\ Msg(d) \in Plated
  BY <1>1 DEF GInv, GateIsSound
<1>3. ASSUME NEW a \in {"sent", "card"}, NEW due, Answer(d, a, due) PROVE GInv'
  <2>1. work'[d].pc = "save" /\ work'[d].answer = a
    BY <1>3, AnswerMakes
  <2>2. PICK n : work' = [work EXCEPT ![d] = n]
    BY <1>3, AnswerMakes
  <2>3. AskedGate(d)'
    BY <1>1, <1>2, <2>1 DEF AskedGate, Doing, At, Msg
  <2>4. GateIsSound(d)'
    BY <2>1 DEF GateIsSound
  <2>5. QED
    BY <1>1, <2>2, <2>3, <2>4, GateStep
<1>4. QED
  BY <1>3 DEF MakeCard

\* The background tasks (storage.py, ai_handler.py, outbound.py).
LEMMA TasksGInv ==
  ASSUME GInv, MInv, NEW d \in Deliveries,
         \/ SaveMessage(d) \/ UpsertSession(d) \/ WriteLog(d) \/ InsertPending(d)
         \/ Chat(d) \/ Succeed(d) \/ LookUpAddress(d) \/ Push(d) \/ Fail(d)
  PROVE  GInv'
<1>1. /\ work[d].pc \in {"save", "count", "log", "insert", "chat", "succeed", "lookup", "push",
                         "fail"}
      /\ UNCHANGED <<registryVars, passes>>
  BY DEF SaveMessage, UpsertSession, WriteLog, InsertPending, Chat, Succeed, LookUpAddress, Push,
         Fail, Doing
<1>2. ASSUME NEW pc \in {"count", "log", "insert", "chat", "succeed", "lookup", "push", "fail",
                         "done"},
             NEW w, Step(d, pc) \/ Slip(d, pc, w)
      PROVE  GInv'
  BY <1>1, <1>2, MoveOnGInv
<1>3. CASE SaveMessage(d) \/ WriteLog(d) \/ InsertPending(d) \/ LookUpAddress(d) \/ Push(d)
  BY <1>2, <1>3 DEF SaveMessage, WriteLog, InsertPending, LookUpAddress, Push
<1>4. CASE UpsertSession(d)
  <2>1. AfterSession(work[d].due) \in {"log", "insert", "done"}
    BY DEF AfterSession
  <2>2. QED
    BY <1>2, <1>4, <2>1 DEF UpsertSession
<1>5. CASE Succeed(d) \/ Fail(d)
  BY <1>2, <1>5 DEF Succeed, Fail, UpdateLog
<1>6. CASE Chat(d)
  <2>1. CASE Step(d, "fail")
    BY <1>2, <2>1
  <2>2. CASE work' = [work EXCEPT ![d] = [work[d] EXCEPT !.pc = "succeed", !.chatted = "yes"]]
    <3> DEFINE n == [work[d] EXCEPT !.pc = "succeed", !.chatted = "yes"]
    <3>1. n.pc = "succeed" /\ n.answer = work[d].answer
      BY BackOf DEF Work
    <3> HIDE DEF n
    <3>2. work' = [work EXCEPT ![d] = n]
      BY <2>2 DEF n
    <3>3. QED
      BY <1>1, <3>1, <3>2, AfterAnswerGInv
  <2>3. QED
    BY <1>6, <2>1, <2>2 DEF Chat
<1>7. QED
  BY <1>3, <1>4, <1>5, <1>6

\* A call that dies may have asked the gate.
LEMMA DieGInv ==
  ASSUME GInv, MInv, NEW d \in Deliveries, Die(d) PROVE GInv'
<1>1. work'[d].pc = "died" /\ work'[d].answer = work[d].answer
  BY StepMakes DEF Die
<1>2. PICK n : work' = [work EXCEPT ![d] = n]
  BY StepMakes DEF Die
<1>3. UNCHANGED <<registryVars, passes>> /\ UNCHANGED call
  BY DEF Die, registryVars
<1>4. AskedGate(d) => AskedGate(d)'
  BY <1>1, <1>3 DEF GInv, GateIsSound, AskedGate, Doing, At, Msg
<1>5. GateIsSound(d)'
  BY <1>1 DEF GateIsSound
<1>6. QED
  BY <1>2, <1>3, <1>4, <1>5, GateStep

\* No pass has been issued before a message has arrived.
LEMMA InitGInv == Init => GInv
<1> SUFFICES ASSUME Init PROVE GInv
  OBVIOUS
<1>1. \A d \in Deliveries : GateIsSound(d)
  BY DEF Init, GateIsSound
<1>2. ASSUME NEW m \in Messages PROVE passes[m] <= Cardinality(Asked(m))
  <2>1. passes[m] = 0
    BY DEF Init
  <2>2. QED
    BY <2>1, FinitePasses
<1>3. QED
  BY <1>1, <1>2, PassesCounted DEF GInv

\* Every step keeps the count.
LEMMA NextGInv == GInv /\ MInv /\ [Next]_vars => GInv'
<1> SUFFICES ASSUME GInv, MInv, [Next]_vars PROVE GInv'
  OBVIOUS
<1>1. [RegistryNext]_registryVars
  BY StepsOfRegistry
<1>2. CASE AdminStep /\ UNCHANGED backVars
  BY <1>1, <1>2, RegistryStepGInv
<1>3. ASSUME NEW d \in Deliveries, Post(d) \/ LookUp(d) PROVE GInv'
  BY <1>1, <1>3, RegistryStepGInv DEF Post, LookUp
<1>4. ASSUME NEW d \in Deliveries, Proceed(d) PROVE GInv'
  BY <1>4, HandleGInv, CallGateGInv, MakeCardGInv, TasksGInv DEF Proceed
<1>5. CASE UNCHANGED vars
  BY <1>1, <1>5, RegistryStepGInv DEF vars
<1>6. QED
  BY <1>2, <1>3, <1>4, <1>5, DieGInv DEF Next

\* Passes are counted in every reachable state.
LEMMA PassesInvariance == Spec => []GInv
BY InitGInv, NextGInv, MessagesInvariance, PTL DEF Spec

\* Every pass of a message is owed to a call of its own that was verified, is for a
\* car and asked the gate, whatever it was answered (mys4s_handler.py 71-156).
THEOREM EveryPassHasAnOwner == Spec => []PassesHaveOwners
<1>1. GInv => PassesHaveOwners
  BY DEF GInv
<1>2. QED
  BY <1>1, PassesInvariance, PTL

\* "deduplicated by msgId" (docs/v2_summary.md 186) is true as long as Yunzhijia
\* delivers every message once: a second pass takes a second delivery.
THEOREM OneDeliveryOnePass ==
  ASSUME \A d, e \in Deliveries : MessageOf[d] = MessageOf[e] => d = e
  PROVE  Spec => []OnePassPerMessage
<1>1. ASSUME GInv, MInv, NEW m \in Messages PROVE passes[m] <= 1
  <2>1. passes[m] <= Cardinality(Asked(m)) /\ passes[m] \in Nat
    BY <1>1, PassesCounted DEF GInv, MInv, BackTyped
  <2>2. Cardinality(Asked(m)) <= 1
    <3>1. CASE Asked(m) = {}
      BY <3>1, FS_EmptySet
    <3>2. CASE Asked(m) # {}
      <4>1. PICK d \in Asked(m) : TRUE
        BY <3>2
      <4>2. \A e \in Asked(m) : e = d
        BY <4>1 DEF Asked, Deliver
      <4>3. Asked(m) = {d}
        BY <4>1, <4>2
      <4>4. QED
        BY <4>3, FinitePasses, FS_Singleton
    <3>3. QED
      BY <3>1, <3>2
  <2>3. QED
    BY <2>1, <2>2, FinitePasses
<1>2. GInv /\ MInv => OnePassPerMessage
  BY <1>1 DEF OnePassPerMessage
<1>3. QED
  BY <1>2, PassesInvariance, MessagesInvariance, PTL
=============================================================================
