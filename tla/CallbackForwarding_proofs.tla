---------------------- MODULE CallbackForwarding_proofs ----------------------
(***************************************************************************)
(* The safety of callback forwarding for any number of callbacks, replays, *)
(* clients and bills, and the refinement of ForwardLedger.                 *)
(***************************************************************************)
EXTENDS CallbackForwarding, FiniteSetTheorems, TLAPS

BillsOf(j) == body[target[j]].bills

\* A successful by-invoice callback: what a job has checked before it resolves.
Cleared(e) == body[e].endpoint = "by-invoice" /\ body[e].code # "fail"

\* A task works for its own event.
Typed == TypeOK /\ \A e \in Events : target[e] = e

\* What the control state of a job says of the document it has read.
Gate ==
  /\ \A e \in Events : ingest[e] = "switch" => e \in stored
  /\ \A j \in Jobs : phase[j] # "idle" => target[j] \in stored
  /\ \A e \in Events : phase[e] # "idle" => ingest[e] = "acked" /\ body[e].endpoint = "by-invoice"
  /\ \A j \in Jobs : phase[j] \in {"resolve", "send", "record", "recorded"} => Cleared(target[j])
  /\ \A j \in Jobs : phase[j] \in {"send", "record", "recorded"} => BillsOf(j) # <<>>

\* How far a job is with its payloads.
Progress ==
  \A j \in Jobs :
    /\ phase[j] \in {"idle", "begin", "resolve"} => posted[j] = 0
    /\ phase[j] = "send" => posted[j] < Len(BillsOf(j))
    /\ phase[j] \in {"record", "recorded"} => posted[j] = Len(BillsOf(j))
    /\ posted[j] > 0 => /\ posted[j] <= Len(BillsOf(j))
                        /\ Cleared(target[j])
                        /\ BillsOf(j) # <<>>

\* The jobs whose post of a bill was taken, by System A or by what answered for it.
Took(b) == acceptedFrom[b] \union stray[b]

\* What was taken is what the jobs have posted.
Deliveries ==
  /\ \A b \in Bills : \A j \in acceptedFrom[b] : \E i \in 1..posted[j] : BillsOf(j)[i] = b
  /\ \A b \in Bills : \A j \in stray[b] : \E i \in 1..posted[j] : BillsOf(j)[i] = b
  /\ \A j \in Jobs : outcome[j] = "ok" => \A i \in 1..posted[j] : j \in Took(BillsOf(j)[i])
  /\ \A b \in Bills : eas[b] = "open" => acceptedFrom[b] = {}
  /\ \A b \in Bills : eas[b] # "open" => acceptedFrom[b] # {}
  /\ \A b \in Bills : eas[b] = "ioError" =>
       \/ \E j \in acceptedFrom[b] : NamesTwice(target[j], b)
       \/ \E i, j \in acceptedFrom[b] : i # j

\* One job has posted every bill of the event, and each was taken.
OneRun(e) ==
  \E j \in Jobs :
    /\ target[j] = e /\ posted[j] > 0
    /\ \A i \in 1..Len(body[e].bills) : j \in Took(body[e].bills[i])

\* What a document's forwarding fields say.
Records ==
  /\ \A e \in Events : attempts[e] > 0 => Cleared(e) /\ body[e].bills # <<>>
  /\ \A e \in Events : status[e] \in {"sent", "failed"} => attempts[e] > 0
  /\ \A e \in Events :
       status[e] = "sent" \/ (\E i \in 1..Len(history[e]) : history[e][i] = "ok") => OneRun(e)

IInv == Typed /\ Gate /\ Progress /\ Deliveries /\ Records

-----------------------------------------------------------------------------
(* Types *)

\* The empty collections the server starts with are typed.
LEMMA InitTyped == Init => Typed
<1> SUFFICES ASSUME Init PROVE Typed
  OBVIOUS
<1>1. (CHOOSE e \in Events : TRUE) \in Events
  BY JobsAssumption
<1> QED
  BY <1>1 DEF Init, Typed, TypeOK, Ledger!Statuses, Jobs

\* A job works for an event, and what it sends is a sequence of bills.
LEMMA BillsOfJob ==
  ASSUME Typed, NEW j \in Jobs
  PROVE  target[j] \in Events /\ BillsOf(j) \in Seq(Bills)
  BY SplitsAssumption DEF Typed, TypeOK, BillsOf, Body

\* A $push with a $slice leaves a list of results (forwarder.py 240-262).
LEMMA PushType ==
  ASSUME NEW h \in Seq({"ok", "error"}), NEW o \in {"ok", "error"}
  PROVE  Push(h, o) \in Seq({"ok", "error"})
  BY HistoryAssumption DEF Push

\* Every step keeps the types of the collections and of the tasks.
LEMMA StepTyped == Typed /\ [Next]_vars => Typed'
<1> SUFFICES ASSUME Typed, [Next]_vars PROVE Typed'
  OBVIOUS
<1> USE DEF Typed, TypeOK, Jobs, Active, Ended, docVars, jobVars, billVars
<1>1. ASSUME NEW e \in Events, IngestStep(e) PROVE Typed'
  <2>1. CASE Receive(e)
    BY <2>1 DEF Receive
  <2>5. CASE IngestDies(e)
    BY <2>5 DEF IngestDies
  <2>2. CASE Match(e)
    BY <2>2 DEF Match, Body
  <2>3. CASE Insert(e)
    <3>1. stored' \in SUBSET Events
      BY <2>3 DEF Insert
    <3>2. PICK s \in {"switch", "acked"} : ingest' = [ingest EXCEPT ![e] = s]
      BY <2>3 DEF Insert
    <3> QED
      BY <2>3, <3>1, <3>2 DEF Insert
  <2>4. CASE Schedule(e)
    BY <2>4 DEF Schedule
  <2> QED
    BY <1>1, <2>1, <2>2, <2>3, <2>4, <2>5 DEF IngestStep
<1>2. ASSUME NEW r \in Replays, NEW e \in Events, ReplayRequest(r, e) PROVE Typed'
  BY <1>2, JobsAssumption DEF ReplayRequest
<1>3. ASSUME NEW j \in Jobs, JobStep(j) \/ DbError(j) \/ Die(j) PROVE Typed'
  <2>1. CASE Begin(j) \/ NoTarget(j) \/ DbError(j) \/ Die(j)
    <3>1. PICK p \in Active \union Ended : phase' = [phase EXCEPT ![j] = p]
      BY <2>1 DEF Begin, NoTarget, DbError, Die
    <3> QED
      BY <2>1, <3>1 DEF Begin, NoTarget, DbError, Die
  <2>5. CASE Resolve(j)
    BY <2>5 DEF Resolve
  <2>2. CASE Refuse(j)
    <3>1. Refusal(j) \in Ledger!Statuses
      BY <2>2 DEF Refuse, Refusal, Ledger!Statuses
    <3> QED
      BY <2>2, <3>1 DEF Refuse
  <2>3. CASE Send(j)
    <3> PICK r \in {"ok", "error"} :
          /\ \/ Accept(BillsOf(j)[posted[j] + 1], j)
             \/ r = "error" /\ UNCHANGED billVars
             \/ r = "ok" /\ AnswerElsewhere(BillsOf(j)[posted[j] + 1], j)
          /\ outcome' = [outcome EXCEPT ![j] = AllOk(@, r)]
          /\ posted' = [posted EXCEPT ![j] = OneMore(@, r)]
      BY <2>3 DEF Send, BillsOf
    <3>1. outcome' \in [Jobs -> {"ok", "error"}] /\ posted' \in [Jobs -> Nat]
      BY DEF AllOk, OneMore
    <3>2. /\ acceptedFrom' \in [Bills -> SUBSET Jobs]
          /\ stray' \in [Bills -> SUBSET Jobs]
          /\ eas' \in [Bills -> {"open", "invoiced", "ioError"}]
      <4>1. CASE Accept(BillsOf(j)[posted[j] + 1], j)
        BY <4>1 DEF Accept
      <4>2. CASE UNCHANGED billVars
        BY <4>2
      <4>3. CASE AnswerElsewhere(BillsOf(j)[posted[j] + 1], j)
        BY <4>3 DEF AnswerElsewhere
      <4> QED
        BY <4>1, <4>2, <4>3
    <3>3. phase' \in [Jobs -> Active \union Ended \union {"idle"}]
      BY <2>3 DEF Send
    <3> QED
      BY <2>3, <3>1, <3>2, <3>3 DEF Send
  <2>4. CASE Record(j)
    <3>1. Push(history[target[j]], outcome[j]) \in Seq({"ok", "error"})
      BY PushType
    <3> QED
      BY <2>4, <3>1 DEF Record, Ledger!Statuses
  <2> QED
    BY <1>3, <2>1, <2>2, <2>3, <2>4, <2>5 DEF JobStep
<1>4. ASSUME NEW c \in Clients, ClientChanges(c) PROVE Typed'
  BY <1>4 DEF ClientChanges
<1>5. CASE UNCHANGED vars
  BY <1>5 DEF vars
<1> QED
  BY <1>1, <1>2, <1>3, <1>4, <1>5 DEF Next

-----------------------------------------------------------------------------
(* Control state *)

\* No step gives a task work that its event does not warrant (callbacks.py 175-190).
LEMMA StepGate == Typed /\ Gate /\ [Next]_vars => Gate'
<1> SUFFICES ASSUME Typed, Gate, [Next]_vars PROVE Gate'
  OBVIOUS
<1> USE DEF Typed, TypeOK, Gate, BillsOf, Cleared, Jobs, Active, docVars, jobVars, billVars
<1>1. ASSUME NEW e \in Events, IngestStep(e) PROVE Gate'
  <2>1. CASE Receive(e)
    BY <2>1 DEF Receive
  <2>2. CASE IngestDies(e)
    BY <2>2 DEF IngestDies
  <2>3. CASE Match(e)
    BY <2>3 DEF Match
  <2>4. CASE Insert(e)
    BY <2>4 DEF Insert
  <2>5. CASE Schedule(e)
    <3>1. CASE UNCHANGED phase
      BY <2>5, <3>1 DEF Schedule
    <3>2. CASE body[e].endpoint = "by-invoice" /\ phase' = [phase EXCEPT ![e] = "begin"]
      BY <2>5, <3>2 DEF Schedule
    <3> QED
      BY <2>5, <3>1, <3>2 DEF Schedule
  <2> QED
    BY <1>1, <2>1, <2>2, <2>3, <2>4, <2>5 DEF IngestStep
<1>2. ASSUME NEW r \in Replays, NEW e \in Events, ReplayRequest(r, e) PROVE Gate'
  BY <1>2, JobsAssumption DEF ReplayRequest
<1>3. ASSUME NEW j \in Jobs, JobStep(j) \/ DbError(j) \/ Die(j) PROVE Gate'
  <2>1. CASE Begin(j)
    <3>1. Cleared(target[j])
      <4>1. CASE j \in Replays
        BY <2>1, <4>1 DEF Begin, Refusal
      <4>2. CASE j \in Events
        BY <2>1, <4>2, JobsAssumption DEF Begin, Refusal
      <4> QED
        BY <4>1, <4>2
    <3> QED
      BY <2>1, <3>1 DEF Begin
  <2>2. CASE Refuse(j)
    BY <2>2 DEF Refuse
  <2>3. CASE Resolve(j)
    BY <2>3 DEF Resolve
  <2>4. CASE NoTarget(j)
    BY <2>4 DEF NoTarget
  <2>5. CASE Send(j)
    <3>1. PICK s \in {"send", "record"} : phase' = [phase EXCEPT ![j] = s]
      BY <2>5 DEF Send
    <3> QED
      BY <2>5, <3>1 DEF Send
  <2>6. CASE Record(j)
    BY <2>6 DEF Record
  <2>7. CASE DbError(j)
    BY <2>7 DEF DbError
  <2>8. CASE Die(j)
    BY <2>8 DEF Die
  <2> QED
    BY <1>3, <2>1, <2>2, <2>3, <2>4, <2>5, <2>6, <2>7, <2>8 DEF JobStep
<1>4. ASSUME NEW c \in Clients, ClientChanges(c) PROVE Gate'
  BY <1>4 DEF ClientChanges
<1>5. CASE UNCHANGED vars
  BY <1>5 DEF vars
<1> QED
  BY <1>1, <1>2, <1>3, <1>4, <1>5 DEF Next

\* No step lets a task get ahead of the results it has had (forwarder.py 193-267).
LEMMA StepProgress == Typed /\ Gate /\ Progress /\ [Next]_vars => Progress'
<1> SUFFICES ASSUME Typed, Gate, Progress, [Next]_vars PROVE Progress'
  OBVIOUS
<1> USE DEF Typed, TypeOK, Progress, BillsOf, Cleared, Jobs, Active, docVars, jobVars, billVars
<1>1. ASSUME NEW e \in Events, IngestStep(e) PROVE Progress'
  <2>1. CASE Receive(e) \/ IngestDies(e) \/ Match(e) \/ Insert(e)
    BY <2>1 DEF Receive, IngestDies, Match, Insert
  <2>2. CASE Schedule(e)
    <3>1. posted[e] = 0
      BY <2>2 DEF Schedule, Gate
    <3> QED
      BY <2>2, <3>1 DEF Schedule
  <2> QED
    BY <1>1, <2>1, <2>2 DEF IngestStep
<1>2. ASSUME NEW r \in Replays, NEW e \in Events, ReplayRequest(r, e) PROVE Progress'
  BY <1>2, JobsAssumption DEF ReplayRequest
<1>3. ASSUME NEW j \in Jobs, JobStep(j) \/ DbError(j) \/ Die(j) PROVE Progress'
  <2>1. CASE Begin(j)
    BY <2>1 DEF Begin
  <2>2. CASE Refuse(j)
    BY <2>2 DEF Refuse
  <2>3. CASE Resolve(j)
    BY <2>3, BillsOfJob DEF Resolve
  <2>4. CASE NoTarget(j)
    BY <2>4 DEF NoTarget
  <2>5. CASE Send(j)
    <3>1. posted' = [posted EXCEPT ![j] = @ + 1]
      BY <2>5 DEF Send, OneMore
    <3>2. phase' = [phase EXCEPT ![j] = IF posted[j] + 1 = Len(BillsOf(j)) THEN "record" ELSE "send"]
      BY <2>5, <3>1 DEF Send
    <3>3. posted[j] < Len(BillsOf(j)) /\ Cleared(target[j]) /\ BillsOf(j) # <<>>
      BY <2>5 DEF Send, Gate
    <3>4. Len(BillsOf(j)) \in Nat
      BY BillsOfJob
    <3> QED
      BY <2>5, <3>1, <3>2, <3>3, <3>4 DEF Send
  <2>6. CASE Record(j)
    BY <2>6 DEF Record
  <2>7. CASE DbError(j)
    BY <2>7 DEF DbError
  <2>8. CASE Die(j)
    BY <2>8 DEF Die
  <2> QED
    BY <1>3, <2>1, <2>2, <2>3, <2>4, <2>5, <2>6, <2>7, <2>8 DEF JobStep
<1>4. ASSUME NEW c \in Clients, ClientChanges(c) PROVE Progress'
  BY <1>4 DEF ClientChanges
<1>5. CASE UNCHANGED vars
  BY <1>5 DEF vars
<1> QED
  BY <1>1, <1>2, <1>3, <1>4, <1>5 DEF Next

-----------------------------------------------------------------------------
(* Deliveries and records *)

\* Only posting and starting a replay bear on the deliveries.
LEMMA StepDeliveries ==
  Typed /\ Gate /\ Progress /\ Deliveries /\ [Next]_vars => Deliveries'
<1> SUFFICES ASSUME Typed, Gate, Progress, Deliveries, [Next]_vars PROVE Deliveries'
  OBVIOUS
<1> USE DEF docVars, jobVars, billVars
<1>1. CASE UNCHANGED <<body, target, posted, outcome, billVars>>
  BY <1>1 DEF Deliveries, BillsOf, NamesTwice, Took
<1>2. ASSUME NEW r \in Replays, NEW e \in Events, ReplayRequest(r, e) PROVE Deliveries'
  <2>1. posted[r] = 0
    BY <1>2 DEF ReplayRequest, Progress, Jobs
  <2>2. \A b \in Bills : r \notin acceptedFrom[b] /\ r \notin stray[b]
    BY <2>1 DEF Deliveries
  <2>3. \A j \in Jobs : j # r => BillsOf(j)' = BillsOf(j)
    BY <1>2 DEF ReplayRequest, BillsOf, Typed, TypeOK
  <2>4. UNCHANGED <<posted, outcome, billVars>>
    BY <1>2 DEF ReplayRequest
  <2>5. ASSUME NEW b \in Bills, NEW j \in Took(b)
        PROVE  \E i \in 1..posted[j] : BillsOf(j)'[i] = b
    <3>1. j \in Jobs /\ j # r
      BY <2>2, <2>5 DEF Typed, TypeOK, Took
    <3> QED
      BY <2>3, <2>5, <3>1 DEF Deliveries, Took
  <2>6. ASSUME NEW j \in Jobs, outcome[j] = "ok", NEW i \in 1..posted[j]
        PROVE  j \in Took(BillsOf(j)'[i])
    <3>1. j # r
      BY <2>1, <2>6
    <3> QED
      BY <2>3, <2>6, <3>1 DEF Deliveries
  <2>7. ASSUME NEW b \in Bills, NEW j \in acceptedFrom[b]
        PROVE  NamesTwice(target[j], b) => NamesTwice(target[j], b)'
    <3>1. j \in Jobs /\ j # r
      BY <2>2, <2>7 DEF Typed, TypeOK
    <3>2. target'[j] = target[j] /\ UNCHANGED body
      BY <1>2, <3>1 DEF ReplayRequest, Typed, TypeOK
    <3> QED
      BY <3>2 DEF NamesTwice
  <2>8. \A b \in Bills : eas'[b] = "ioError" =>
          \/ \E j \in acceptedFrom'[b] : NamesTwice(target[j], b)'
          \/ \E i, j \in acceptedFrom'[b] : i # j
    BY <2>4, <2>7 DEF Deliveries
  <2> QED
    BY <2>4, <2>5, <2>6, <2>8 DEF Deliveries, Took
<1>3. ASSUME NEW j \in Jobs, Send(j) PROVE Deliveries'
  <2>1. /\ posted[j] \in Nat /\ posted[j] + 1 \in 1..Len(BillsOf(j))
        /\ BillsOf(j)[posted[j] + 1] \in Bills
    BY <1>3, BillsOfJob DEF Send, Progress, Typed, TypeOK
  <2>b. PICK b \in Bills : b = BillsOf(j)[posted[j] + 1]
    BY <2>1
  <2>2. j \in acceptedFrom[b] => NamesTwice(target[j], b)
    <3> SUFFICES ASSUME j \in acceptedFrom[b] PROVE NamesTwice(target[j], b)
      OBVIOUS
    <3>1. PICK i \in 1..posted[j] : BillsOf(j)[i] = b
      BY DEF Deliveries
    <3>2. i \in 1..Len(BillsOf(j)) /\ i # posted[j] + 1
      BY <2>1, <3>1, BillsOfJob
    <3> QED
      BY <2>1, <2>b, <3>1, <3>2 DEF NamesTwice, BillsOf
  <2>3. posted' = [posted EXCEPT ![j] = @ + 1] /\ UNCHANGED <<body, target>>
    BY <1>3 DEF Send, OneMore
  <2>4. PICK r \in {"ok", "error"} :
          /\ \/ Accept(b, j)
             \/ r = "error" /\ UNCHANGED billVars
             \/ r = "ok" /\ AnswerElsewhere(b, j)
          /\ outcome' = [outcome EXCEPT ![j] = IF @ = "ok" /\ r = "ok" THEN "ok" ELSE "error"]
    BY <1>3, <2>b DEF Send, BillsOf, AllOk
  \* What one more post adds, whoever answers it.
  <2>5. ASSUME NEW x \in Bills, NEW i \in Jobs, i \in Took(x) \/ (i = j /\ x = b)
        PROVE  \E k \in 1..posted'[i] : BillsOf(i)'[k] = x
    <3>1. CASE i \in Took(x)
      <4>1. PICK k \in 1..posted[i] : BillsOf(i)[k] = x
        BY <3>1 DEF Deliveries, Took
      <4>2. k \in 1..posted'[i]
        BY <4>1, <2>3 DEF Typed, TypeOK
      <4> QED
        BY <4>1, <4>2, <2>3 DEF BillsOf
    <3>2. CASE i = j /\ x = b
      <4>1. posted'[j] = posted[j] + 1
        BY <2>3 DEF Typed, TypeOK
      <4> QED
        BY <3>2, <4>1, <2>1, <2>b, <2>3 DEF BillsOf
    <3> QED
      BY <2>5, <3>1, <3>2
  <2>6. ASSUME \A x \in Bills : Took(x) \subseteq Took(x)',
               outcome'[j] = "ok" => j \in Took(b)',
               NEW i \in Jobs, outcome'[i] = "ok", NEW k \in 1..posted'[i]
        PROVE  i \in Took(BillsOf(i)[k])'
    <3>1. outcome[i] = "ok"
      BY <2>6, <2>4 DEF Typed, TypeOK
    <3>2. BillsOf(i)' = BillsOf(i)
      BY <2>3 DEF BillsOf
    <3>3. CASE k \in 1..posted[i]
      <4>1. i \in Took(BillsOf(i)[k])
        BY <3>1, <3>3 DEF Deliveries
      <4>2. BillsOf(i)[k] \in Bills
        <5>1. posted[i] \in Nat /\ BillsOf(i) \in Seq(Bills)
          BY BillsOfJob DEF Typed, TypeOK
        <5>2. posted[i] <= Len(BillsOf(i))
          BY <3>3, <5>1 DEF Progress
        <5> QED
          BY <3>3, <5>1, <5>2
      <4> QED
        BY <4>1, <4>2, <3>2, <2>6 DEF Took
    <3>4. CASE k \notin 1..posted[i]
      <4>1. i = j /\ k = posted[j] + 1
        BY <3>4, <2>3, <2>6, <2>1 DEF Typed, TypeOK
      <4> QED
        BY <4>1, <3>2, <2>6, <2>b DEF Took
    <3> QED
      BY <3>3, <3>4
  <2>7. CASE Accept(b, j)
    <3>1. /\ acceptedFrom' = [acceptedFrom EXCEPT ![b] = acceptedFrom[b] \union {j}]
          /\ stray' = stray
      BY <2>7 DEF Accept
    <3>2. \A x \in Bills : /\ Took(x) \subseteq Took(x)'
                          /\ \A i \in Took(x)' : i \in Jobs /\ (i \in Took(x) \/ (i = j /\ x = b))
      BY <3>1, <2>1 DEF Took, Typed, TypeOK
    <3>3. j \in Took(b)'
      BY <3>1, <2>1 DEF Took, Typed, TypeOK
    <3>4. eas' = [eas EXCEPT ![b] = IF @ = "open" THEN "invoiced" ELSE "ioError"]
      BY <2>7 DEF Accept
    <3>5. \A x \in Bills : eas'[x] = "open" => acceptedFrom'[x] = {}
      BY <3>1, <3>4, <2>1 DEF Deliveries, Typed, TypeOK
    <3>6. ASSUME NEW x \in Bills, eas'[x] # "open"
          PROVE  acceptedFrom'[x] # {}
      <4>1. CASE x = b
        BY <4>1, <3>1, <2>1 DEF Typed, TypeOK
      <4>2. CASE x # b
        BY <4>2, <3>1, <3>4, <3>6 DEF Deliveries, Typed, TypeOK
      <4> QED
        BY <4>1, <4>2
    <3>7. ASSUME NEW x \in Bills, eas'[x] = "ioError"
          PROVE  \/ \E i \in acceptedFrom'[x] : NamesTwice(target[i], x)'
                 \/ \E i, k \in acceptedFrom'[x] : i # k
      <4>1. CASE x = b
        <5>1. PICK i : i \in acceptedFrom[b]
          BY <3>4, <3>7, <4>1, <2>1 DEF Deliveries, Typed, TypeOK
        <5>2. i \in acceptedFrom'[x] /\ j \in acceptedFrom'[x]
          BY <5>1, <4>1, <3>1, <2>1 DEF Typed, TypeOK
        <5>3. i = j => NamesTwice(target[j], x)'
          BY <5>1, <4>1, <2>2, <2>3 DEF NamesTwice
        <5> QED
          BY <5>2, <5>3
      <4>2. CASE x # b
        <5>1. eas[x] = "ioError" /\ acceptedFrom'[x] = acceptedFrom[x]
          BY <4>2, <3>1, <3>4, <3>7 DEF Typed, TypeOK
        <5>2. \A i : NamesTwice(target[i], x)' <=> NamesTwice(target[i], x)
          BY <2>3 DEF NamesTwice
        <5> QED
          BY <5>1, <5>2 DEF Deliveries
      <4> QED
        BY <4>1, <4>2
    <3>8. \A x \in Bills : \A i \in Took(x)' : \E k \in 1..posted'[i] : BillsOf(i)'[k] = x
      BY <3>2, <2>5
    <3>9. \A i \in Jobs : outcome'[i] = "ok" =>
            \A k \in 1..posted'[i] : i \in Took(BillsOf(i)[k])'
      BY <3>2, <3>3, <2>6
    <3> QED
      BY <3>5, <3>6, <3>7, <3>8, <3>9 DEF Deliveries, Took
  <2>8. CASE r = "error" /\ UNCHANGED billVars
    <3>1. \A x \in Bills : \A i \in Took(x)' : i \in Jobs /\ i \in Took(x)
      BY <2>8 DEF Took, Typed, TypeOK
    <3>2. \A x \in Bills : \A i \in Took(x)' : \E k \in 1..posted'[i] : BillsOf(i)'[k] = x
      BY <3>1, <2>5
    <3>3. outcome'[j] # "ok" /\ \A x \in Bills : Took(x) \subseteq Took(x)'
      BY <2>4, <2>8 DEF Took, Typed, TypeOK
    <3>4. \A i \in Jobs : outcome'[i] = "ok" =>
            \A k \in 1..posted'[i] : i \in Took(BillsOf(i)[k])'
      BY <3>3, <2>6
    <3>5. \A x, i : NamesTwice(target[i], x)' <=> NamesTwice(target[i], x)
      BY <2>3 DEF NamesTwice
    <3> QED
      BY <2>8, <3>2, <3>4, <3>5 DEF Deliveries, Took
  <2>9. CASE AnswerElsewhere(b, j)
    <3>1. stray' = [stray EXCEPT ![b] = stray[b] \union {j}] /\ acceptedFrom' = acceptedFrom
      BY <2>9 DEF AnswerElsewhere
    <3>2. \A x \in Bills : /\ Took(x) \subseteq Took(x)'
                          /\ \A i \in Took(x)' : i \in Jobs /\ (i \in Took(x) \/ (i = j /\ x = b))
      BY <3>1, <2>1 DEF Took, Typed, TypeOK
    <3>3. j \in Took(b)'
      BY <3>1, <2>1 DEF Took, Typed, TypeOK
    <3>4. \A x \in Bills : \A i \in Took(x)' : \E k \in 1..posted'[i] : BillsOf(i)'[k] = x
      BY <3>2, <2>5
    <3>5. \A i \in Jobs : outcome'[i] = "ok" =>
            \A k \in 1..posted'[i] : i \in Took(BillsOf(i)[k])'
      BY <3>2, <3>3, <2>6
    <3>6. \A x, i : NamesTwice(target[i], x)' <=> NamesTwice(target[i], x)
      BY <2>3 DEF NamesTwice
    <3>7. UNCHANGED eas
      BY <2>9 DEF AnswerElsewhere
    <3>8. ASSUME NEW x \in Bills, eas'[x] = "ioError"
          PROVE  \/ \E i \in acceptedFrom'[x] : NamesTwice(target[i], x)'
                 \/ \E i, k \in acceptedFrom'[x] : i # k
      <4>1. eas[x] = "ioError" /\ acceptedFrom'[x] = acceptedFrom[x]
        BY <3>1, <3>7, <3>8
      <4>2. \A i : NamesTwice(target[i], x)' <=> NamesTwice(target[i], x)
        BY <3>6
      <4> QED
        BY <4>1, <4>2 DEF Deliveries
    <3> QED
      BY <3>1, <3>4, <3>5, <3>7, <3>8 DEF Deliveries, Took
  <2> QED
    BY <2>4, <2>7, <2>8, <2>9
<1> QED
  BY <1>1, <1>2, <1>3
     DEF Next, vars, IngestStep, JobStep, Receive, Match, Insert, Schedule, IngestDies,
         Begin, Refuse, Resolve, NoTarget, Record, DbError, Die, ClientChanges

\* What was taken stays taken.
LEMMA TookKept ==
  ASSUME Typed, [Next]_vars, NEW b \in Bills
  PROVE  Took(b) \subseteq Took(b)'
<1> USE DEF docVars, jobVars, billVars
<1>1. CASE UNCHANGED billVars
  BY <1>1 DEF Took
<1>2. ASSUME NEW k \in Jobs, Send(k) PROVE Took(b) \subseteq Took(b)'
  <2>1. PICK x : Accept(x, k) \/ UNCHANGED billVars \/ AnswerElsewhere(x, k)
    BY <1>2 DEF Send
  <2>2. acceptedFrom[b] \subseteq acceptedFrom'[b] /\ stray[b] \subseteq stray'[b]
    <3>1. CASE Accept(x, k)
      BY <3>1 DEF Accept, Typed, TypeOK
    <3>2. CASE UNCHANGED billVars
      BY <3>2
    <3>3. CASE AnswerElsewhere(x, k)
      BY <3>3 DEF AnswerElsewhere, Typed, TypeOK
    <3> QED
      BY <2>1, <3>1, <3>2, <3>3
  <2> QED
    BY <2>2 DEF Took
<1> QED
  BY <1>1, <1>2
     DEF Next, vars, IngestStep, JobStep, Receive, Match, Insert, Schedule, IngestDies,
         ReplayRequest, Begin, Refuse, Resolve, NoTarget, Record, DbError, Die, ClientChanges

\* Who had a bill taken is a job that has posted something.
LEMMA TookPosted ==
  ASSUME Typed, Deliveries, NEW b \in Bills, NEW j \in Took(b)
  PROVE  j \in Jobs /\ posted[j] > 0
<1>1. j \in Jobs
  BY DEF Took, Typed, TypeOK
<1>2. PICK i \in 1..posted[j] : BillsOf(j)[i] = b
  BY DEF Took, Deliveries
<1> QED
  BY <1>1, <1>2 DEF Typed, TypeOK

\* A job that has posted something keeps its event.
LEMMA TargetKept ==
  ASSUME Typed, Progress, [Next]_vars, NEW j \in Jobs, posted[j] > 0
  PROVE  posted'[j] > 0 /\ target'[j] = target[j]
<1> USE DEF docVars, jobVars, billVars
<1>2. CASE UNCHANGED <<target, posted>>
  BY <1>2
<1>3. ASSUME NEW r \in Replays, NEW e \in Events, ReplayRequest(r, e)
      PROVE  posted'[j] > 0 /\ target'[j] = target[j]
  <2>1. r # j
    BY <1>3 DEF ReplayRequest, Progress
  <2> QED
    BY <1>3, <2>1 DEF ReplayRequest, Typed, TypeOK
<1>4. ASSUME NEW k \in Jobs, Send(k)
      PROVE  posted'[j] > 0 /\ target'[j] = target[j]
  BY <1>4 DEF Send, OneMore, Typed, TypeOK
<1> QED
  BY <1>2, <1>3, <1>4
     DEF Next, vars, IngestStep, JobStep, Receive, Match, Insert, Schedule, IngestDies,
         Begin, Refuse, Resolve, NoTarget, Record, DbError, Die, ClientChanges

\* What is pushed or was in the history before is what is in it now.
LEMMA PushContents ==
  ASSUME NEW h \in Seq({"ok", "error"}), NEW o \in {"ok", "error"},
         NEW i \in 1..Len(Push(h, o)), Push(h, o)[i] = "ok"
  PROVE  o = "ok" \/ \E k \in 1..Len(h) : h[k] = "ok"
  BY HistoryAssumption DEF Push

\* What is recorded stays what the task has seen (forwarder.py 240-262).
LEMMA StepRecords ==
  Typed /\ Gate /\ Progress /\ Deliveries /\ Records /\ [Next]_vars => Records'
<1> SUFFICES ASSUME Typed, Gate, Progress, Deliveries, Records, [Next]_vars PROVE Records'
  OBVIOUS
<1> USE DEF docVars, jobVars, billVars
<1>1. body' = body
  BY DEF Next, vars, IngestStep, JobStep, Receive, Match, Insert, Schedule, IngestDies,
         ReplayRequest, Begin, Refuse, Resolve, NoTarget, Send, Record, DbError, Die,
         ClientChanges
<1>2. ASSUME NEW e \in Events, OneRun(e) PROVE OneRun(e)'
  <2>1. PICK j \in Jobs :
          /\ target[j] = e /\ posted[j] > 0
          /\ \A i \in 1..Len(body[e].bills) : j \in Took(body[e].bills[i])
    BY <1>2 DEF OneRun
  <2>2. posted'[j] > 0 /\ target'[j] = e
    BY <2>1, TargetKept
  <2>3. ASSUME NEW i \in 1..Len(body[e].bills) PROVE j \in Took(body[e].bills[i])'
    <3>1. body[e].bills[i] \in Bills
      BY SplitsAssumption DEF Typed, TypeOK, Body
    <3>2. Took(body[e].bills[i]) \subseteq Took(body[e].bills[i])'
      BY <1>1, <3>1, TookKept DEF Took
    <3> QED
      BY <2>1, <3>2
  <2> QED
    BY <1>1, <2>2, <2>3 DEF OneRun
<1>3. CASE UNCHANGED <<status, attempts, history>>
  BY <1>1, <1>2, <1>3 DEF Records, Cleared
<1>4. ASSUME NEW j \in Jobs, Refuse(j) PROVE Records'
  <2>1. UNCHANGED <<attempts, history>>
    BY <1>4 DEF Refuse
  <2>2. \A e \in Events : status'[e] \in {"sent", "failed"} => status'[e] = status[e]
    BY <1>4 DEF Refuse, Refusal, Typed, TypeOK
  <2> QED
    BY <1>1, <1>2, <2>1, <2>2 DEF Records, Cleared
<1>5. ASSUME NEW j \in Jobs, Record(j) PROVE Records'
  <2> DEFINE d == target[j]
  <2>1. /\ d \in Events
        /\ Cleared(d) /\ body[d].bills # <<>>
        /\ posted[j] = Len(body[d].bills)
    BY <1>5 DEF Record, Gate, Progress, BillsOf, Typed, TypeOK
  <2>2. outcome[j] = "ok" => OneRun(d)
    BY <2>1 DEF OneRun, Deliveries, BillsOf
  <2>3. /\ status' = [status EXCEPT ![d] = IF outcome[j] = "ok" THEN "sent" ELSE "failed"]
        /\ attempts' = [attempts EXCEPT ![d] = @ + 1]
        /\ history' = [history EXCEPT ![d] = Push(@, outcome[j])]
    BY <1>5 DEF Record
  <2>4. ASSUME NEW e \in Events, attempts'[e] > 0 PROVE Cleared(e) /\ body[e].bills # <<>>
    BY <2>1, <2>3, <2>4 DEF Records, Typed, TypeOK
  <2>5. ASSUME NEW e \in Events, status'[e] \in {"sent", "failed"} PROVE attempts'[e] > 0
    BY <2>1, <2>3, <2>5 DEF Records, Typed, TypeOK
  <2>6. ASSUME NEW e \in Events,
               status'[e] = "sent" \/ \E i \in 1..Len(history'[e]) : history'[e][i] = "ok"
        PROVE  OneRun(e)
    <3>1. CASE e = d
      <4>1. CASE outcome[j] = "ok"
        BY <2>2, <3>1, <4>1
      <4>2. CASE outcome[j] = "error"
        <5>1. status'[d] # "sent" /\ history'[d] = Push(history[d], outcome[j])
          BY <2>1, <2>3, <4>2 DEF Typed, TypeOK
        <5>2. PICK i \in 1..Len(Push(history[d], outcome[j])) : Push(history[d], outcome[j])[i] = "ok"
          BY <2>6, <3>1, <5>1
        <5>3. \E k \in 1..Len(history[d]) : history[d][k] = "ok"
          BY <2>1, <4>2, <5>2, PushContents DEF Typed, TypeOK
        <5> QED
          BY <2>1, <3>1, <5>3 DEF Records
      <4> QED
        BY <4>1, <4>2 DEF Typed, TypeOK
    <3>2. CASE e # d
      BY <2>3, <2>6, <3>2 DEF Records, Typed, TypeOK
    <3> QED
      BY <3>1, <3>2
  <2> QED
    BY <1>1, <1>2, <2>4, <2>5, <2>6 DEF Records, Cleared
<1> QED
  BY <1>3, <1>4, <1>5
     DEF Next, vars, IngestStep, JobStep, Receive, Match, Insert, Schedule, IngestDies,
         ReplayRequest, Begin, Resolve, NoTarget, Send, DbError, Die, ClientChanges

-----------------------------------------------------------------------------

\* The invariant holds of the empty collections.
LEMMA InitIInv == Init => IInv
<1> SUFFICES ASSUME Init PROVE IInv
  OBVIOUS
<1>1. Typed
  BY InitTyped
<1>2. Gate /\ Progress
  BY DEF Init, Gate, Progress, Jobs
<1>3. Deliveries
  BY DEF Init, Deliveries, Jobs
<1>4. Records
  BY DEF Init, Records
<1> QED
  BY <1>1, <1>2, <1>3, <1>4 DEF IInv

\* Every step keeps the invariant, part by part.
LEMMA StepIInv == IInv /\ [Next]_vars => IInv'
  BY StepTyped, StepGate, StepProgress, StepDeliveries, StepRecords DEF IInv

\* The invariant holds in every reachable state.
LEMMA Invariance == Spec => []IInv
  BY InitIInv, StepIInv, PTL DEF Spec

\* Every variable of the forwarding path keeps its type.
THEOREM TypeCorrect == Spec => []TypeOK
<1>1. IInv => TypeOK
  BY DEF IInv, Typed
<1> QED
  BY Invariance, <1>1, PTL

\* No bill of an unsuccessful, unconvertible or not by-invoice callback reaches
\* System A (callbacks.py 188-197, admin.py 262-272).
THEOREM ForwardsOnlyForwardable == Spec => []OnlyForwardableReachSystemA
<1>1. IInv => OnlyForwardableReachSystemA
  <2> SUFFICES ASSUME IInv, NEW b \in Bills, NEW j \in acceptedFrom[b]
               PROVE  /\ target[j] \in stored
                      /\ Ledger!Forwardable(body[target[j]])
                      /\ \E i \in 1..Len(body[target[j]].bills) : body[target[j]].bills[i] = b
    BY DEF OnlyForwardableReachSystemA
  <2>1. j \in Jobs
    BY DEF IInv, Typed, TypeOK
  <2>2. PICK i \in 1..posted[j] : BillsOf(j)[i] = b
    BY DEF IInv, Deliveries
  <2>3. posted[j] \in Nat /\ posted[j] > 0 /\ Len(BillsOf(j)) \in Nat
    BY <2>1, <2>2, BillsOfJob DEF IInv, Typed, TypeOK
  <2>4. /\ posted[j] <= Len(BillsOf(j)) /\ Cleared(target[j]) /\ BillsOf(j) # <<>>
        /\ phase[j] # "idle"
    BY <2>1, <2>3 DEF IInv, Progress
  <2>5. target[j] \in stored
    BY <2>1, <2>4 DEF IInv, Gate
  <2>6. i \in 1..Len(BillsOf(j))
    BY <2>3, <2>4
  <2> QED
    BY <2>2, <2>4, <2>5, <2>6 DEF Ledger!Forwardable, Cleared, BillsOf
<1> QED
  BY Invariance, <1>1, PTL

\* Whoever records a success, one job posted all the bills of the event and each
\* was taken, or said to be by something else (forwarder.py 193-267).
THEOREM SentIsTrue == Spec => []SentIsOneCompleteRun
<1>1. IInv => SentIsOneCompleteRun
  BY DEF IInv, Records, OneRun, Took, SentIsOneCompleteRun
<1> QED
  BY Invariance, <1>1, PTL

\* So a success is true of System A itself exactly as far as nothing else answers
\* in its place: if only System A answers, "sent" means it has every bill
\* (forwarder.py 204-210, 233-267).
THEOREM SystemAHasWhatIsSent ==
  ASSUME Elsewhere = {}
  PROVE  Spec => [](\A e \in Events : status[e] = "sent" =>
                      \A i \in 1..Len(body[e].bills) :
                        \E j \in acceptedFrom[body[e].bills[i]] : target[j] = e)
<1> DEFINE NoStray == \A b \in Bills : stray[b] = {}
           Has == \A e \in Events : status[e] = "sent" =>
                    \A i \in 1..Len(body[e].bills) :
                      \E j \in acceptedFrom[body[e].bills[i]] : target[j] = e
<1>1. Init => NoStray
  BY DEF Init
<1>2. NoStray /\ [Next]_vars => NoStray'
  <2> SUFFICES ASSUME NoStray, [Next]_vars PROVE stray' = stray
    OBVIOUS
  <2>1. ASSUME NEW j \in Jobs, Send(j) PROVE stray' = stray
    BY <2>1 DEF Send, Accept, AnswerElsewhere, billVars
  <2> QED
    BY <2>1 DEF Next, vars, docVars, jobVars, billVars, IngestStep, JobStep, Receive, Match,
                Insert, Schedule, IngestDies, ReplayRequest, Begin, Refuse, Resolve, NoTarget,
                Record, DbError, Die, ClientChanges
<1>3. IInv /\ NoStray => Has
  <2> SUFFICES ASSUME IInv, NoStray, NEW e \in Events, status[e] = "sent",
                      NEW i \in 1..Len(body[e].bills)
               PROVE  \E j \in acceptedFrom[body[e].bills[i]] : target[j] = e
    OBVIOUS
  <2>1. body[e].bills[i] \in Bills
    BY SplitsAssumption DEF IInv, Typed, TypeOK, Body
  <2>2. OneRun(e)
    BY DEF IInv, Records
  <2> QED
    BY <2>1, <2>2 DEF OneRun, Took
<1> QED
  BY Invariance, <1>1, <1>2, <1>3, PTL DEF Spec

\* The automatic path alone never delivers a callback twice (callbacks.py 177-234).
THEOREM AutomaticDeliversOnce == Spec => []RepeatNeedsReplayOrRepush
<1>1. ASSUME IInv, NEW b \in Bills, eas[b] = "ioError"
      PROVE  \/ \E j \in acceptedFrom[b] : NamesTwice(target[j], b)
             \/ \E i, j \in acceptedFrom[b] :
                  /\ i # j
                  /\ i \in Replays \/ j \in Replays \/ target[i] # target[j]
  <2>1. CASE \E j \in acceptedFrom[b] : NamesTwice(target[j], b)
    BY <2>1
  <2>2. CASE \E i, j \in acceptedFrom[b] : i # j
    BY <1>1, <2>2 DEF IInv, Typed, TypeOK, Jobs
  <2> QED
    BY <1>1, <2>1, <2>2 DEF IInv, Deliveries
<1>2. IInv => RepeatNeedsReplayOrRepush
  BY <1>1 DEF RepeatNeedsReplayOrRepush
<1> QED
  BY Invariance, <1>2, PTL

\* Without replays it takes Kingdee itself to deliver a bill twice: an invoice that
\* names it twice, or two callbacks that name it (callbacks.py 177-212, 233-234).
THEOREM AutomaticPathAlone ==
  ASSUME Replays = {}
  PROVE  Spec => [](\A b \in Bills : eas[b] = "ioError" =>
                      \/ \E e \in Events : NamesTwice(e, b)
                      \/ \E e, f \in Events :
                           /\ e # f
                           /\ \E i \in 1..Len(body[e].bills) : body[e].bills[i] = b
                           /\ \E i \in 1..Len(body[f].bills) : body[f].bills[i] = b)
<1> DEFINE Twice(b) == \/ \E e \in Events : NamesTwice(e, b)
                       \/ \E e, f \in Events :
                            /\ e # f
                            /\ \E i \in 1..Len(body[e].bills) : body[e].bills[i] = b
                            /\ \E i \in 1..Len(body[f].bills) : body[f].bills[i] = b
<1>1. ASSUME IInv, NEW b \in Bills, eas[b] = "ioError" PROVE Twice(b)
  <2>1. \A j \in acceptedFrom[b] :
          /\ j \in Events /\ target[j] = j
          /\ \E i \in 1..Len(body[j].bills) : body[j].bills[i] = b
    <3> SUFFICES ASSUME NEW j \in acceptedFrom[b]
                 PROVE  /\ j \in Events /\ target[j] = j
                        /\ \E i \in 1..Len(body[j].bills) : body[j].bills[i] = b
      OBVIOUS
    <3>1. j \in Events /\ target[j] = j /\ j \in Jobs
      BY <1>1 DEF IInv, Typed, TypeOK, Jobs
    <3>2. PICK i \in 1..posted[j] : BillsOf(j)[i] = b
      BY <1>1 DEF IInv, Deliveries
    <3>3. i \in 1..Len(BillsOf(j))
      <4>1. posted[j] \in Nat /\ Len(BillsOf(j)) \in Nat
        BY <1>1, <3>1, BillsOfJob DEF IInv, Typed, TypeOK
      <4>2. posted[j] <= Len(BillsOf(j))
        BY <1>1, <3>1, <3>2, <4>1 DEF IInv, Progress
      <4> QED
        BY <3>2, <4>1, <4>2
    <3> QED
      BY <3>1, <3>2, <3>3 DEF BillsOf
  <2>2. \/ \E j \in acceptedFrom[b] : NamesTwice(target[j], b)
        \/ \E i, j \in acceptedFrom[b] : i # j
    BY <1>1 DEF IInv, Deliveries
  <2> QED
    BY <2>1, <2>2
<1>2. IInv => \A b \in Bills : eas[b] = "ioError" => Twice(b)
  BY <1>1
<1> QED
  BY Invariance, <1>2, PTL

-----------------------------------------------------------------------------
(* Refinement *)

Landed == [e \in Events |-> {b \in Bills : \E j \in acceptedFrom[b] : target[j] = e}]

Told == [e \in Events |-> {b \in Bills : \E j \in stray[b] : target[j] = e}]

\* The empty collections are the empty ledger.
LEMMA InitLedger == Init => Ledger!Init
  BY DEF Init, Ledger!Init

\* The bills of an event, as the ledger sees them.
LEMMA RangeOfBills ==
  ASSUME Typed, NEW e \in Events
  PROVE  /\ Ledger!RangeOf(body[e].bills) \subseteq Bills
         /\ \A b : b \in Ledger!RangeOf(body[e].bills)
                     <=> \E i \in 1..Len(body[e].bills) : body[e].bills[i] = b
<1>1. body[e].bills \in Seq(Bills)
  BY SplitsAssumption DEF Typed, TypeOK, Body
<1> QED
  BY <1>1 DEF Ledger!RangeOf

\* Every step maps to a step of the ledger or leaves it alone.
LEMMA StepLedger == IInv /\ [Next]_vars => [Ledger!Next]_(Ledger!vars)
<1> SUFFICES ASSUME IInv, [Next]_vars PROVE Ledger!Next \/ UNCHANGED Ledger!vars
  OBVIOUS
<1> USE DEF docVars, jobVars, billVars
<1>1. CASE UNCHANGED <<body, stored, status, attempts, target, acceptedFrom, stray>>
  BY <1>1 DEF Ledger!vars
<1>2. ASSUME NEW e \in Events, Insert(e) PROVE Ledger!Next \/ UNCHANGED Ledger!vars
  <2>1. UNCHANGED <<body, status, attempts, target, acceptedFrom, stray>>
    BY <1>2 DEF Insert
  <2>2. CASE stored' = stored \union {e}
    BY <2>1, <2>2 DEF Ledger!Next, Ledger!Store
  <2>3. CASE stored' = stored
    BY <2>1, <2>3 DEF Ledger!vars
  <2> QED
    BY <1>2, <2>2, <2>3 DEF Insert
<1>3. ASSUME NEW r \in Replays, NEW e \in Events, ReplayRequest(r, e)
      PROVE  Ledger!Next \/ UNCHANGED Ledger!vars
  <2>1. UNCHANGED <<body, stored, status, attempts, acceptedFrom, stray>>
    BY <1>3 DEF ReplayRequest
  <2>2. \A b \in Bills : \A j \in Took(b) : target'[j] = target[j]
    BY TookPosted, TargetKept DEF IInv
  <2>3. Landed' = Landed /\ Told' = Told
    BY <2>1, <2>2 DEF Landed, Told, Took
  <2> QED
    BY <2>1, <2>3 DEF Ledger!vars, Landed, Told
<1>4. ASSUME NEW j \in Jobs, Refuse(j) PROVE Ledger!Next \/ UNCHANGED Ledger!vars
  <2> DEFINE d == target[j]
  <2>1. d \in Events /\ d \in stored
    BY <1>4 DEF Refuse, IInv, Typed, TypeOK, Gate
  <2>2. /\ Refusal(j) \in {"skipped", "unsupported"}
        /\ Refusal(j) = "unsupported" => body[d].endpoint # "by-invoice"
        /\ Refusal(j) = "skipped" => body[d].endpoint = "by-invoice" /\ body[d].code = "fail"
    <3>1. CASE j \in Replays
      BY <1>4, <3>1 DEF Refuse, Refusal
    <3>2. CASE j \in Events
      BY <1>4, <3>2, JobsAssumption DEF Refuse, Refusal, IInv, Gate, Typed
    <3> QED
      BY <3>1, <3>2 DEF Jobs
  <2>3. ~Cleared(d)
    BY <2>2 DEF Cleared
  <2>4. attempts[d] = 0
    BY <2>1, <2>3 DEF IInv, Records, Typed, TypeOK
  <2>5. Landed[d] = {} /\ Told[d] = {}
    <3> SUFFICES ASSUME NEW b \in Bills, NEW k \in Took(b), target[k] = d
                 PROVE  FALSE
      BY <2>1 DEF Landed, Told, Took
    <3>1. k \in Jobs
      BY TookPosted DEF IInv
    <3>2. posted[k] > 0
      BY <3>1, TookPosted DEF IInv
    <3> QED
      BY <2>3, <3>1, <3>2 DEF IInv, Progress
  <2>6. Ledger!Refuse(d, Refusal(j))
    BY <1>4, <2>1, <2>2, <2>4, <2>5 DEF Refuse, Ledger!Refuse, Landed, Told
  <2> QED
    BY <2>1, <2>2, <2>6 DEF Ledger!Next
<1>5. ASSUME NEW j \in Jobs, Send(j) PROVE Ledger!Next \/ UNCHANGED Ledger!vars
  <2> DEFINE d == target[j]
             b == BillsOf(j)[posted[j] + 1]
  <2>1. UNCHANGED <<body, stored, status, attempts, target>>
    BY <1>5 DEF Send
  <2>2. \/ Accept(b, j)
        \/ UNCHANGED billVars
        \/ AnswerElsewhere(b, j)
    BY <1>5 DEF Send, BillsOf
  <2>3. /\ d \in Events /\ d \in stored /\ Cleared(d) /\ BillsOf(j) # <<>>
        /\ posted[j] + 1 \in 1..Len(BillsOf(j))
    BY <1>5, BillsOfJob DEF Send, IInv, Gate, Progress, Typed, TypeOK
  <2>4. b \in Bills /\ b \in Ledger!RangeOf(body[d].bills)
    <3>1. BillsOf(j) \in Seq(Bills)
      BY BillsOfJob DEF IInv
    <3>2. b \in Bills
      BY <2>3, <3>1
    <3>3. \E i \in 1..Len(body[d].bills) : body[d].bills[i] = b
      BY <2>3 DEF BillsOf
    <3> QED
      BY <2>3, <3>2, <3>3, RangeOfBills DEF IInv
  <2> HIDE DEF b
  <2>5. Ledger!MayPost(d, b)
    BY <2>3, <2>4 DEF Ledger!MayPost, Ledger!Forwardable, Cleared, BillsOf
  <2>6. CASE UNCHANGED billVars
    BY <2>1, <2>6 DEF Ledger!vars
  <2>7. CASE Accept(b, j)
    <3>1. acceptedFrom' = [acceptedFrom EXCEPT ![b] = acceptedFrom[b] \union {j}] /\ stray' = stray
      BY <2>7 DEF Accept
    <3>2. Landed' = [Landed EXCEPT ![d] = @ \union {b}]
      <4>1. ASSUME NEW e \in Events, NEW x \in Bills
            PROVE  x \in Landed'[e] <=> x \in Landed[e] \/ (e = d /\ x = b)
        BY <2>1, <2>4, <3>1 DEF Landed, IInv, Typed, TypeOK
      <4>2. ASSUME NEW e \in Events
            PROVE  Landed'[e] = IF e = d THEN Landed[e] \union {b} ELSE Landed[e]
        <5>1. Landed'[e] \subseteq Bills /\ Landed[e] \subseteq Bills
          BY DEF Landed
        <5> QED
          BY <4>1, <5>1, <2>4
      <4> QED
        BY <4>2, <2>3 DEF Landed
    <3>3. Told' = Told
      BY <2>1, <3>1 DEF Told
    <3>4. \E e \in Events, x \in Bills : Ledger!Land(e, x)
      BY <2>1, <2>3, <2>4, <2>5, <3>2, <3>3 DEF Ledger!Land, Landed, Told
    <3> QED
      BY <3>4 DEF Ledger!Next
  <2>8. CASE AnswerElsewhere(b, j)
    <3>1. stray' = [stray EXCEPT ![b] = stray[b] \union {j}] /\ acceptedFrom' = acceptedFrom
      BY <2>8 DEF AnswerElsewhere
    <3>2. Told' = [Told EXCEPT ![d] = @ \union {b}]
      <4>1. ASSUME NEW e \in Events, NEW x \in Bills
            PROVE  x \in Told'[e] <=> x \in Told[e] \/ (e = d /\ x = b)
        BY <2>1, <2>4, <3>1 DEF Told, IInv, Typed, TypeOK
      <4>2. ASSUME NEW e \in Events
            PROVE  Told'[e] = IF e = d THEN Told[e] \union {b} ELSE Told[e]
        <5>1. Told'[e] \subseteq Bills /\ Told[e] \subseteq Bills
          BY DEF Told
        <5> QED
          BY <4>1, <5>1, <2>4
      <4> QED
        BY <4>2, <2>3 DEF Told
    <3>3. Landed' = Landed
      BY <2>1, <3>1 DEF Landed
    <3>4. \E e \in Events, x \in Bills : Ledger!Tell(e, x)
      BY <2>1, <2>3, <2>4, <2>5, <3>2, <3>3 DEF Ledger!Tell, Landed, Told
    <3> QED
      BY <3>4 DEF Ledger!Next
  <2> QED
    BY <2>2, <2>6, <2>7, <2>8
<1>6. ASSUME NEW j \in Jobs, Record(j) PROVE Ledger!Next \/ UNCHANGED Ledger!vars
  <2> DEFINE d == target[j]
             s == IF outcome[j] = "ok" THEN "sent" ELSE "failed"
  <2>1. /\ d \in Events /\ d \in stored /\ Cleared(d) /\ body[d].bills # <<>>
    BY <1>6 DEF Record, IInv, Gate, BillsOf, Typed, TypeOK
  <2>2. /\ status' = [status EXCEPT ![d] = s]
        /\ attempts' = [attempts EXCEPT ![d] = @ + 1]
        /\ UNCHANGED <<body, stored, target, acceptedFrom, stray>>
    BY <1>6 DEF Record
  <2>3. s = "sent" => Landed[d] \union Told[d] = Ledger!RangeOf(body[d].bills)
    <3> SUFFICES ASSUME outcome[j] = "ok"
                 PROVE  Landed[d] \union Told[d] = Ledger!RangeOf(body[d].bills)
      OBVIOUS
    <3>1. \A x \in Bills : x \in Landed[d] \union Told[d] <=> \E k \in Took(x) : target[k] = d
      BY <2>1 DEF Landed, Told, Took
    <3>2. \A x \in Bills : x \in Ledger!RangeOf(body[d].bills) => \E k \in Took(x) : target[k] = d
      <4> SUFFICES ASSUME NEW x \in Bills, x \in Ledger!RangeOf(body[d].bills)
                   PROVE  j \in Took(x)
        OBVIOUS
      <4>1. PICK i \in 1..Len(BillsOf(j)) : BillsOf(j)[i] = x
        BY <2>1, RangeOfBills DEF IInv, BillsOf
      <4>2. posted[j] = Len(BillsOf(j))
        BY <1>6 DEF Record, IInv, Progress
      <4> QED
        BY <4>1, <4>2 DEF IInv, Deliveries
    <3>3. ASSUME NEW x \in Bills, NEW k \in Took(x), target[k] = d
          PROVE  x \in Ledger!RangeOf(body[d].bills)
      <4>1. k \in Jobs
        BY TookPosted DEF IInv
      <4>2. PICK i \in 1..posted[k] : BillsOf(k)[i] = x
        BY DEF IInv, Deliveries, Took
      <4>3. i \in 1..Len(BillsOf(k))
        BY <4>1, <4>2, BillsOfJob DEF IInv, Progress, Typed, TypeOK
      <4> QED
        BY <2>1, <3>3, <4>2, <4>3, RangeOfBills DEF IInv, BillsOf
    <3>4. Landed[d] \union Told[d] \subseteq Bills /\ Ledger!RangeOf(body[d].bills) \subseteq Bills
      BY <2>1, RangeOfBills DEF IInv, Landed, Told
    <3> QED
      BY <3>1, <3>2, <3>3, <3>4
  <2>4. Ledger!Record(d, s)
    BY <2>1, <2>2, <2>3 DEF Ledger!Record, Ledger!Forwardable, Cleared, Landed, Told
  <2> QED
    BY <2>1, <2>4 DEF Ledger!Next
<1> QED
  BY <1>1, <1>2, <1>3, <1>4, <1>5, <1>6
     DEF Next, vars, IngestStep, JobStep, Receive, Match, Schedule, IngestDies,
         Begin, Resolve, NoTarget, DbError, Die, ClientChanges

\* The coroutines, whatever their interleaving, deaths and database errors,
\* implement the ledger (callbacks.py 157-240, forwarder.py 216-267, admin.py 236-291).
THEOREM RefinesLedger == Spec => ImplementsLedger
<1>1. IInv /\ [Next]_vars => [Ledger!Next]_(Ledger!vars)
  BY StepLedger
<1> QED
  BY InitLedger, <1>1, Invariance, PTL DEF Spec, ImplementsLedger, Ledger!Spec

-----------------------------------------------------------------------------
(* Bookkeeping *)

\* The jobs that have recorded an outcome for an event.
Recorded(e) == {j \in Jobs : phase[j] = "recorded" /\ target[j] = e}

\* An event has finitely many recorded results.
LEMMA RecordedFinite == \A e : IsFiniteSet(Recorded(e))
<1>1. IsFiniteSet(Jobs)
  BY FiniteAssumption, FS_Union DEF Jobs
<1> QED
  BY <1>1, FS_Subset DEF Recorded

\* No step but Record adds to them, and none takes away.
LEMMA RecordedKept ==
  ASSUME Typed, Gate, [Next]_vars, ~(\E j \in Jobs : Record(j))
  PROVE  \A e : Recorded(e)' = Recorded(e)
<1> USE DEF docVars, jobVars, billVars, Active, Typed, TypeOK
<1> SUFFICES \A j \in Jobs : /\ phase'[j] = "recorded" <=> phase[j] = "recorded"
                             /\ phase[j] = "recorded" => target'[j] = target[j]
  BY DEF Recorded
<1>1. CASE UNCHANGED <<phase, target>>
  BY <1>1
<1>2. ASSUME NEW e \in Events, Schedule(e)
      PROVE  \A j \in Jobs : /\ phase'[j] = "recorded" <=> phase[j] = "recorded"
                             /\ phase[j] = "recorded" => target'[j] = target[j]
  <2>1. CASE UNCHANGED phase
    BY <1>2, <2>1 DEF Schedule
  <2>2. CASE phase' = [phase EXCEPT ![e] = "begin"]
    <3>1. phase[e] # "recorded"
      BY <1>2 DEF Schedule, Gate, Jobs
    <3> QED
      BY <1>2, <2>2, <3>1 DEF Schedule
  <2> QED
    BY <1>2, <2>1, <2>2 DEF Schedule
<1>3. ASSUME NEW r \in Replays, NEW e \in Events, ReplayRequest(r, e)
      PROVE  \A j \in Jobs : /\ phase'[j] = "recorded" <=> phase[j] = "recorded"
                             /\ phase[j] = "recorded" => target'[j] = target[j]
  BY <1>3 DEF ReplayRequest, Jobs
<1>4. ASSUME NEW k \in Jobs, JobStep(k) \/ DbError(k) \/ Die(k)
      PROVE  \A j \in Jobs : /\ phase'[j] = "recorded" <=> phase[j] = "recorded"
                             /\ phase[j] = "recorded" => target'[j] = target[j]
  <2>1. UNCHANGED target
    BY <1>4 DEF JobStep, Begin, Refuse, Resolve, NoTarget, Send, Record, DbError, Die
  <2>2. phase[k] # "recorded"
    BY <1>4 DEF JobStep, Begin, Refuse, Resolve, NoTarget, Send, Record, DbError, Die
  <2>3. PICK s : s # "recorded" /\ phase' = [phase EXCEPT ![k] = s]
    BY <1>4 DEF JobStep, Begin, Refuse, Resolve, NoTarget, Send, DbError, Die
  <2> QED
    BY <2>1, <2>2, <2>3
<1> QED
  BY <1>1, <1>2, <1>3, <1>4
     DEF Next, vars, IngestStep, Receive, Match, Insert, IngestDies, ClientChanges

\* What one document's fields say of each other.
Agree(n, a, h, s) ==
  /\ a = n
  /\ Len(h) = IF a < HistoryCap THEN a ELSE HistoryCap
  /\ a = 0 <=> s \in {"absent", "skipped", "unsupported"}
  /\ a > 0 => s = IF h[Len(h)] = "ok" THEN "sent" ELSE "failed"

\* The books agree once more when one more result is recorded.
LEMMA AgreeRecorded ==
  ASSUME NEW a \in Nat, NEW h \in Seq({"ok", "error"}), NEW o \in {"ok", "error"}, NEW s,
         Agree(a, a, h, s)
  PROVE  Agree(a + 1, a + 1, Push(h, o), IF o = "ok" THEN "sent" ELSE "failed")
<1> USE HistoryAssumption
<1>1. CASE Len(h) < HistoryCap
  BY <1>1 DEF Agree, Push
<1>2. CASE ~(Len(h) < HistoryCap)
  <2>1. h # <<>> /\ Len(h) = HistoryCap /\ a >= HistoryCap
    BY <1>2 DEF Agree
  <2>2. Tail(h) \in Seq({"ok", "error"}) /\ Len(Tail(h)) = HistoryCap - 1
    BY <2>1
  <2>3. Push(h, o) = Append(Tail(h), o)
    BY <1>2 DEF Push
  <2>4. Len(Push(h, o)) = HistoryCap /\ Push(h, o)[HistoryCap] = o
    BY <2>2, <2>3
  <2> QED
    BY <2>1, <2>4 DEF Agree
<1> QED
  BY <1>1, <1>2

Books == \A e \in Events : Agree(Cardinality(Recorded(e)), attempts[e], history[e], status[e])

\* Nothing recorded, nothing counted.
LEMMA InitBooks == Init => Books
<1> SUFFICES ASSUME Init, NEW e \in Events
             PROVE  Agree(Cardinality(Recorded(e)), attempts[e], history[e], status[e])
  BY DEF Books
<1>1. Recorded(e) = {}
  BY DEF Init, Recorded
<1> QED
  BY <1>1, FS_EmptySet, HistoryAssumption DEF Init, Agree

\* Every step keeps the books (forwarder.py 240-262).
LEMMA StepBooks == IInv /\ Books /\ [Next]_vars => Books'
<1> SUFFICES ASSUME IInv, Books, [Next]_vars, NEW e \in Events
             PROVE  Agree(Cardinality(Recorded(e)), attempts[e], history[e], status[e])'
  BY DEF Books
<1>0. Agree(Cardinality(Recorded(e)), attempts[e], history[e], status[e])
  BY DEF Books
<1>1. ASSUME NEW j \in Jobs, Record(j)
      PROVE  Agree(Cardinality(Recorded(e)), attempts[e], history[e], status[e])'
  <2>1. /\ target[j] \in Events /\ phase[j] # "recorded" /\ target' = target
        /\ phase' = [phase EXCEPT ![j] = "recorded"]
    BY <1>1 DEF Record, IInv, Typed, TypeOK
  <2>2. CASE target[j] = e
    <3>1. Recorded(e)' = Recorded(e) \union {j} /\ j \notin Recorded(e)
      BY <2>1, <2>2 DEF Recorded, IInv, Typed, TypeOK
    <3>2. Cardinality(Recorded(e)') = Cardinality(Recorded(e)) + 1
      BY <3>1, RecordedFinite, FS_AddElement
    <3>3. /\ attempts'[e] = attempts[e] + 1
          /\ history'[e] = Push(history[e], outcome[j])
          /\ status'[e] = IF outcome[j] = "ok" THEN "sent" ELSE "failed"
      BY <1>1, <2>2 DEF Record, IInv, Typed, TypeOK
    <3>4. attempts[e] = Cardinality(Recorded(e))
      BY <1>0 DEF Agree
    <3>5. Agree(attempts[e], attempts[e], history[e], status[e])
      BY <1>0, <3>4
    <3>6. /\ attempts[e] \in Nat /\ history[e] \in Seq({"ok", "error"})
          /\ outcome[j] \in {"ok", "error"}
      BY DEF IInv, Typed, TypeOK
    <3>7. Agree(attempts[e] + 1, attempts[e] + 1, Push(history[e], outcome[j]),
                IF outcome[j] = "ok" THEN "sent" ELSE "failed")
      BY <3>5, <3>6, AgreeRecorded
    <3> QED
      BY <3>2, <3>3, <3>4, <3>7
  <2>3. CASE target[j] # e
    <3>1. Recorded(e)' = Recorded(e)
      BY <2>1, <2>3 DEF Recorded, IInv, Typed, TypeOK
    <3>2. attempts'[e] = attempts[e] /\ history'[e] = history[e] /\ status'[e] = status[e]
      BY <1>1, <2>3 DEF Record, IInv, Typed, TypeOK
    <3> QED
      BY <1>0, <3>1, <3>2
  <2> QED
    BY <2>2, <2>3
<1>2. ASSUME ~(\E j \in Jobs : Record(j))
      PROVE  Agree(Cardinality(Recorded(e)), attempts[e], history[e], status[e])'
  <2>1. Recorded(e)' = Recorded(e)
    BY <1>2, RecordedKept DEF IInv
  <2>2. UNCHANGED <<attempts, history>>
    BY <1>2 DEF Next, vars, docVars, IngestStep, JobStep, Receive, Match, Insert, Schedule,
                IngestDies, ReplayRequest, Begin, Refuse, Resolve, NoTarget, Send, DbError,
                Die, ClientChanges
  <2>3. CASE UNCHANGED status
    BY <1>0, <2>1, <2>2, <2>3
  <2>4. ASSUME NEW j \in Jobs, Refuse(j)
        PROVE  Agree(Cardinality(Recorded(e)), attempts[e], history[e], status[e])'
    <3>1. CASE target[j] = e
      <4>1. status'[e] \in {"skipped", "unsupported"} /\ ~Cleared(e)
        BY <2>4, <3>1 DEF Refuse, Refusal, Cleared, IInv, Typed, TypeOK
      <4>2. attempts[e] = 0
        BY <4>1 DEF IInv, Records, Typed, TypeOK
      <4> QED
        BY <1>0, <2>1, <2>2, <4>1, <4>2 DEF Agree
    <3>2. CASE target[j] # e
      <4>1. status'[e] = status[e]
        BY <2>4, <3>2 DEF Refuse, IInv, Typed, TypeOK
      <4> QED
        BY <1>0, <2>1, <2>2, <4>1
    <3> QED
      BY <3>1, <3>2
  <2> QED
    BY <1>2, <2>3, <2>4
       DEF Next, vars, docVars, IngestStep, JobStep, Receive, Match, Insert, Schedule,
           IngestDies, ReplayRequest, Begin, Resolve, NoTarget, Send, DbError, Die,
           ClientChanges
<1> QED
  BY <1>1, <1>2

\* Counter, history and status of a document agree with each other and with the
\* jobs that recorded, however these interleave (forwarder.py 244-267).
THEOREM BooksAgree == Spec => []BookkeepingAgrees
<1>1. Spec => []Books
  BY InitBooks, StepBooks, Invariance, PTL DEF Spec
<1>2. Books => BookkeepingAgrees
  BY DEF Books, Agree, Recorded, BookkeepingAgrees
<1> QED
  BY <1>1, <1>2, PTL
=============================================================================
