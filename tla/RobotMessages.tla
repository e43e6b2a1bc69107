--------------------------- MODULE RobotMessages ----------------------------
(* A webhook call from the signature on: the handler the message is routed to *)
(* answers (services/message_processor.py, services/handlers/), and once the  *)
(* answer is out the background tasks run one after the other: the message is *)
(* stored, the session counted, the command logged, and for /ai the model is  *)
(* asked and its reply pushed (services/storage.py, services/outbound.py).    *)
(* Yunzhijia repeats a message it had no answer to in time, so several calls, *)
(* of several workers, can be about the same message.  The look-ups before    *)
(* the signature, and the admin calls, are RobotRegistry's.                   *)
EXTENDS RobotRegistry, FiniteSets

CONSTANTS
  Messages,   \* msgId
  MessageOf,  \* the message a webhook call delivers
  Plated,     \* the messages a licence plate is found in
  SessionOf,  \* the sessionId of a message
  Faults      \* "insert", "update", "lookup", "save", "crash"

VARIABLES
  work,      \* work[d]: the handler and the background tasks of a webhook call
  stored,    \* the messages collection
  sessions,  \* sessions[s]: the message_count of a session
  log,       \* log[d]: the command_logs document inserted by d
  passes,    \* passes[m]: passes the gate's service has issued for a message
  pushed     \* the calls whose reply has been pushed to the session

backVars == <<work, stored, sessions, log, passes, pushed>>
vars == <<registryVars, backVars>>

Sessions == {SessionOf[m] : m \in Messages}

Answers == {"none", "hello", "unsupported", "echo", "thinking", "called", "notCalled", "help",
            "noSid", "sent", "card", "refused", "gateFailed", "fallback"}

\* due is the log that remains to be written, heard whether Yunzhijia had the
\* answer in time, chatted whether the model has replied, slips the writes that
\* have failed.
Work == [pc : {"idle", "api", "sid", "gate", "company", "save", "count", "log", "insert",
               "chat", "succeed", "lookup", "push", "fail", "done", "died"},
         answer : Answers, due : {"none", "success", "failed", "ai"},
         heard : {"no", "yes"}, chatted : {"no", "yes"},
         slips : SUBSET {"save", "log"}]

\* by is the call that gave the document its status.
Log == [status : {"absent", "pending", "success", "failed"}, by : Deliveries \union {Null}]

NoLog == [status |-> "absent", by |-> Null]

Deliver(m) == {d \in Deliveries : MessageOf[d] = m}

ASSUME MessagesAssumption ==
  /\ Handlers \subseteq {"echo", "ai", "api_call", "mys4s"}
  /\ MessageOf \in [Deliveries -> Messages]
  /\ Plated \subseteq Messages
  /\ DOMAIN SessionOf = Messages
  /\ Null \notin Deliveries /\ IsFiniteSet(Deliveries)

Init ==
  /\ RegistryInit
  /\ work = [d \in Deliveries |-> [pc |-> "idle", answer |-> "none", due |-> "none",
                                   heard |-> "no", chatted |-> "no", slips |-> {}]]
  /\ stored = {}
  /\ sessions = [s \in Sessions |-> 0]
  /\ log = [d \in Deliveries |-> NoLog]
  /\ passes = [m \in Messages |-> 0]
  /\ pushed = {}

-----------------------------------------------------------------------------

Msg(d) == MessageOf[d]
Doing(d, pc) == work[d].pc = pc
Step(d, pc) == work' = [work EXCEPT ![d].pc = pc]

\* The step is taken, but the write it was to make has failed.
Slip(d, pc, write) ==
  work' = [work EXCEPT ![d] =
             [work[d] EXCEPT !.pc = pc, !.slips = work[d].slips \union {write}]]

\* A message is delivered, or delivered again for want of an answer: by Yunzhijia,
\* with the same content and signature.
Post(d) ==
  /\ \A e \in Deliver(Msg(d)) : work[e].heard = "no"
  /\ \E id \in RobotIds \union {TestRobotId}, url \in Codes, s \in Secrets, h \in Handlers :
       /\ \A e \in Deliver(Msg(d)) : ~At(e, "idle") =>
            /\ call[e].robotId = id /\ call[e].url = url
            /\ call[e].signed = s /\ call[e].handler = h
       /\ Arrive(d, id, url, s, h)
  /\ UNCHANGED backVars

\* The answer goes out, in time or not, and the tasks are due: the message and the
\* session first, then what the handler added.
Answer(d, a, due) ==
  \E h \in {"no", "yes"} :
    work' = [work EXCEPT ![d] = [@ EXCEPT !.pc = "save", !.answer = a, !.due = due, !.heard = h]]

\* message_processor.handle, up to the handler's first await.
Handle(d) ==
  LET h == call[d].handler IN
  /\ Doing(d, "idle")
  /\ \/ At(d, "test") /\ Answer(d, "hello", "none")
     \/ At(d, "banned") /\ Answer(d, "unsupported", "none")
     \/ At(d, "accepted") /\ h = "echo" /\ Answer(d, "echo", "success")
     \/ At(d, "accepted") /\ h = "ai" /\ Answer(d, "thinking", "ai")
     \/ At(d, "accepted") /\ h = "api_call" /\ Step(d, "api")
     \/ At(d, "accepted") /\ h = "mys4s" /\ Msg(d) \in Plated /\ Step(d, "sid")
     \/ At(d, "accepted") /\ h = "mys4s" /\ Msg(d) \notin Plated /\ Answer(d, "help", "none")
  /\ UNCHANGED <<registryVars, stored, sessions, log, passes, pushed>>

\* ApiHandler: the call of the demo API returns or raises.
CallApi(d) ==
  /\ Doing(d, "api")
  /\ Answer(d, "called", "success") \/ Answer(d, "notCalled", "failed")
  /\ UNCHANGED <<registryVars, stored, sessions, log, passes, pushed>>

\* Mutant: what the handler raises is not caught, and takes the tasks with it.
GetSidRaises(d) ==
  LET c == call[d].code IN
  /\ Doing(d, "sid")
  /\ \/ c \in Registered /\ robots[c].sid # Null /\ Step(d, "gate")
     \/ (c \in Registered => robots[c].sid = Null) /\ Answer(d, "noSid", "none")
     \/ "lookup" \in Faults /\ Step(d, "done")
  /\ UNCHANGED <<registryVars, stored, sessions, log, passes, pushed>>

\* MYS4SHandler looks for the store of the robot by its code.  What it raises is
\* answered with the fallback text.
GetSid(d) ==
  LET c == call[d].code IN
  /\ Doing(d, "sid")
  /\ \/ c \in Registered /\ robots[c].sid # Null /\ Step(d, "gate")
     \/ (c \in Registered => robots[c].sid = Null) /\ Answer(d, "noSid", "none")
     \/ "lookup" \in Faults /\ Answer(d, "fallback", "none")
  /\ UNCHANGED <<registryVars, stored, sessions, log, passes, pushed>>

Issue(d) == passes' = [passes EXCEPT ![Msg(d)] = @ + 1]

\* What the gate's service answers: a JSON that says so or is no object, for a car
\* without a plate one with a code to show; a refusal, logged as a success all the
\* same; an error, or nothing within the timeout (mys4s_handler.py 71-156).
GateAnswers(d) ==
  \/ Answer(d, "sent", "success") \/ Step(d, "company")
  \/ Answer(d, "refused", "success") \/ Answer(d, "gateFailed", "failed")

\* Mutant: a timeout of the gate is answered by asking it again.
CallGateRetries(d) ==
  /\ Doing(d, "gate")
  /\ \/ (Issue(d) \/ UNCHANGED passes) /\ GateAnswers(d)
     \/ Issue(d) /\ UNCHANGED work
  /\ UNCHANGED <<registryVars, stored, sessions, log, pushed>>

\* The gate is asked once.  Its service has issued a pass or has not, whatever it
\* answers: nothing in the answer is proof.
CallGate(d) ==
  /\ Doing(d, "gate")
  /\ Issue(d) \/ UNCHANGED passes
  /\ GateAnswers(d)
  /\ UNCHANGED <<registryVars, stored, sessions, log, pushed>>

\* The card, or the plain text if the code or the company's name cannot be had.
MakeCard(d) ==
  /\ Doing(d, "company")
  /\ Answer(d, "card", "success") \/ Answer(d, "sent", "success")
  /\ UNCHANGED <<registryVars, stored, sessions, log, passes, pushed>>

-----------------------------------------------------------------------------

(* Background tasks.                                                           *)

\* save_message: the unique index on msgId turns a repeated one away.
SaveMessage(d) ==
  /\ Doing(d, "save")
  /\ \/ stored' = stored \union {Msg(d)} /\ Step(d, "count")
     \/ "save" \in Faults /\ Slip(d, "count", "save") /\ UNCHANGED stored
  /\ UNCHANGED <<registryVars, sessions, log, passes, pushed>>

\* Mutant: the run of /ai is queued as a log.
AfterSessionOutcome(due) == IF due = "none" THEN "done" ELSE "log"

AfterSession(due) ==
  CASE due = "none" -> "done" [] due = "ai" -> "insert" [] OTHER -> "log"

\* upsert_session counts every delivery, also of a message it has counted before.
UpsertSession(d) ==
  LET s == SessionOf[Msg(d)] IN
  /\ Doing(d, "count")
  /\ \/ sessions' = [sessions EXCEPT ![s] = @ + 1]
     \/ "save" \in Faults /\ UNCHANGED sessions
  /\ Step(d, AfterSession(work[d].due))
  /\ UNCHANGED <<registryVars, stored, log, passes, pushed>>

\* save_command_log of a handler that knows its outcome.
WriteLog(d) ==
  /\ Doing(d, "log")
  /\ \/ log' = [log EXCEPT ![d] = [status |-> work[d].due, by |-> d]]
     \/ "insert" \in Faults /\ UNCHANGED log
  /\ Step(d, "done")
  /\ UNCHANGED <<registryVars, stored, sessions, passes, pushed>>

\* _run_ai inserts a pending log; a failed insert is only a warning.
InsertPending(d) ==
  /\ Doing(d, "insert")
  /\ \/ log' = [log EXCEPT ![d].status = "pending"]
     \/ "insert" \in Faults /\ UNCHANGED log
  /\ Step(d, "chat")
  /\ UNCHANGED <<registryVars, stored, sessions, passes, pushed>>

\* Mutant: an error of the model is not caught.
ChatRaises(d) ==
  /\ Doing(d, "chat")
  /\ \/ work' = [work EXCEPT ![d] = [@ EXCEPT !.pc = "succeed", !.chatted = "yes"]]
     \/ Step(d, "done")
  /\ UNCHANGED <<registryVars, stored, sessions, log, passes, pushed>>

\* The model's reply, or an error.
Chat(d) ==
  /\ Doing(d, "chat")
  /\ \/ work' = [work EXCEPT ![d] = [@ EXCEPT !.pc = "succeed", !.chatted = "yes"]]
     \/ Step(d, "fail")
  /\ UNCHANGED <<registryVars, stored, sessions, log, passes, pushed>>

\* Mutant: the filter of the update names the message and command only.
AnyLog(m) == {e \in Deliver(m) : call[e].handler = "ai" /\ log[e].status # "absent"}

\* The logs the filter {msgId, command "ai", status "pending"} matches.
Pending(m) == {e \in Deliver(m) : call[e].handler = "ai" /\ log[e].status = "pending"}

\* Mutant: update_many.
UpdateAllLogs(d, status, pc) ==
  \/ /\ log' = [e \in Deliveries |->
                 IF e \in Pending(Msg(d)) THEN [status |-> status, by |-> d] ELSE log[e]]
     /\ Step(d, pc)
  \/ "update" \in Faults /\ Slip(d, pc, "log") /\ UNCHANGED log

\* update_command_log changes one of the logs it finds, whoever inserted it.
UpdateLog(d, status, pc) ==
  \/ /\ \E e \in Pending(Msg(d)) : log' = [log EXCEPT ![e] = [status |-> status, by |-> d]]
     /\ Step(d, pc)
  \/ /\ Pending(Msg(d)) = {} /\ UNCHANGED log
     /\ Step(d, pc)
  \/ "update" \in Faults /\ Slip(d, pc, "log") /\ UNCHANGED log

Succeed(d) ==
  /\ Doing(d, "succeed")
  /\ UpdateLog(d, "success", "lookup")
  /\ UNCHANGED <<registryVars, stored, sessions, passes, pushed>>

\* push_card_message looks for the robot's own address; what that raises is not
\* caught there but by _run_ai, which has already logged a success.
LookUpAddress(d) ==
  /\ Doing(d, "lookup")
  /\ Step(d, "push") \/ ("lookup" \in Faults /\ Step(d, "fail"))
  /\ UNCHANGED <<registryVars, stored, sessions, log, passes, pushed>>

\* Mutant: a push whose answer is lost raises.
PushRaises(d) ==
  /\ Doing(d, "push")
  /\ pushed' \in {pushed, pushed \union {d}}
  /\ Step(d, "done") \/ Step(d, "fail")
  /\ UNCHANGED <<registryVars, stored, sessions, log, passes>>

\* The push is tried once.
Push(d) ==
  /\ Doing(d, "push")
  /\ pushed' \in {pushed, pushed \union {d}}
  /\ Step(d, "done")
  /\ UNCHANGED <<registryVars, stored, sessions, log, passes>>

Fail(d) ==
  /\ Doing(d, "fail")
  /\ UpdateLog(d, "failed", "done")
  /\ UNCHANGED <<registryVars, stored, sessions, passes, pushed>>

\* The worker dies, and the call and its tasks with it.
Die(d) ==
  /\ "crash" \in Faults
  /\ work[d].pc \notin {"done", "died"}
  /\ ~At(d, "idle")
  /\ Step(d, "died")
  /\ UNCHANGED <<registryVars, stored, sessions, log, passes, pushed>>

Proceed(d) ==
  \/ Handle(d) \/ CallApi(d) \/ GetSid(d) \/ CallGate(d) \/ MakeCard(d)
  \/ SaveMessage(d) \/ UpsertSession(d) \/ WriteLog(d)
  \/ InsertPending(d) \/ Chat(d) \/ Succeed(d) \/ LookUpAddress(d) \/ Push(d) \/ Fail(d)

LookUp(d) ==
  /\ ~Doing(d, "died")
  /\ Lookup(d)
  /\ UNCHANGED backVars

Next ==
  \/ AdminStep /\ UNCHANGED backVars
  \/ \E d \in Deliveries : Post(d) \/ LookUp(d) \/ Proceed(d) \/ Die(d)

Spec == Init /\ [][Next]_vars

-----------------------------------------------------------------------------

TypeOK ==
  /\ RegistryTypeOK
  /\ work \in [Deliveries -> Work]
  /\ stored \subseteq Messages
  /\ sessions \in [Sessions -> Nat]
  /\ log \in [Deliveries -> Log]
  /\ passes \in [Messages -> Nat]
  /\ pushed \subseteq Deliveries

\* A command log that says success or failed is never changed again, although the
\* updates of all deliveries of a message use one filter (ai_handler.py 98-118).
SettledStays ==
  [][\A d \in Deliveries : log[d].status \in {"success", "failed"} => log'[d] = log[d]]_vars

\* The call has yet to settle a log, or will never do so.
Owes(d) == work[d].pc \in {"chat", "succeed", "fail"}
Lost(d) == Doing(d, "died") \/ "log" \in work[d].slips

\* No more logs of a message are pending than there are /ai runs that have yet to
\* settle one, or were lost: whichever logs the runs settle, none is left over
\* (ai_handler.py 82-118).
PendingIsUnderway ==
  \A m \in Messages :
    Cardinality(Pending(m)) <= Cardinality({d \in Deliver(m) : Owes(d) \/ Lost(d)})

\* A log says success only on account of a run the model has replied to, and no
\* run makes two logs say so (ai_handler.py 95-119).
SuccessHasReply ==
  LET won == {d \in Deliveries : call[d].handler = "ai" /\ log[d].status = "success"} IN
  \A d \in won :
    /\ work[log[d].by].chatted = "yes"
    /\ \A e \in won : log[e].by = log[d].by => e = d

\* What was pushed to the session is in no log as a failure of the run that pushed
\* it: a push that goes wrong is not reported to _run_ai (outbound.py 51-62).
PushedIsNotFailed ==
  \A d \in pushed, e \in Deliveries : log[e].by = d => log[e].status # "failed"

\* Once the tasks of a call are through, its message is stored, however its handler
\* fared, unless MongoDB refused it: what a handler raises costs no task
\* (message_processor.py 58-71, yunzhijia.py 97-104).
VerifiedIsStored ==
  \A d \in Deliveries :
    Doing(d, "done") => Msg(d) \in stored \/ "save" \in work[d].slips

\* A verified call for a car, which has asked the gate, or died before it could
\* tell what came of it.
AskedGate(d) ==
  /\ At(d, "accepted") /\ call[d].handler = "mys4s" /\ Msg(d) \in Plated
  /\ \/ Doing(d, "company") \/ work[d].answer \in {"sent", "card", "refused", "gateFailed"}
     \/ Doing(d, "died") /\ work[d].answer = "none"

\* Every pass of a message is owed to a call of its own that was verified, is for a
\* car and asked the gate: the program never asks twice for one delivery, whatever
\* it is answered, nor for a message nobody signed (mys4s_handler.py 71-156).
PassesHaveOwners ==
  \A m \in Messages : passes[m] <= Cardinality({d \in Deliver(m) : AskedGate(d)})

\* "idempotent in the business layer, deduplicated by msgId" (docs/v2_summary.md
\* 186): a message that is delivered again does not issue a second pass.
OnePassPerMessage == \A m \in Messages : passes[m] <= 1
=============================================================================
