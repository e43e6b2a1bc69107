------------------------- MODULE CallbackForwarding -------------------------
(***************************************************************************)
(* Kingdee callbacks and their forwarding to System A                      *)
(* (proxy-server/app/endpoints/callbacks.py, forwarder.py, admin.py).      *)
(*                                                                         *)
(* A pushed callback is matched to a proxy client, inserted and answered;  *)
(* if the switch is on, a task forwards it.  An administrator may replay   *)
(* any stored callback, at any time, also while its task or another replay *)
(* is under way.  A forwarding job reads the document, resolves a target,  *)
(* posts one payload per bill, and then records status, counter and        *)
(* history in one update.  Each await is a step of its own; a job may die  *)
(* with its worker between any two.                                        *)
(***************************************************************************)
EXTENDS Naturals, Sequences, FiniteSets

CONSTANTS
  Events,      \* callbacks Kingdee pushes, one per request; also names the event's task
  Replays,     \* requests of the replay endpoint
  Clients,     \* proxy clients
  NoClient,    \* no systemSource, no match, or no client_id in a replay request
  Bills,       \* EAS bills
  Splits,      \* the bill sequences _build_system_a_payloads yields; <<>> if it raises
  HistoryCap,  \* the $slice of forward_history
  Elsewhere    \* bound: the jobs something other than System A may answer; in the
               \* code, any of them

ASSUME JobsAssumption == Events # {} /\ Events \intersect Replays = {}
ASSUME FiniteAssumption == IsFiniteSet(Events) /\ IsFiniteSet(Replays)
ASSUME ClientsAssumption == NoClient \notin Clients
ASSUME SplitsAssumption == Splits \subseteq Seq(Bills)
ASSUME HistoryAssumption == HistoryCap \in Nat \ {0}
ASSUME ElsewhereAssumption == Elsewhere \subseteq Events \union Replays

VARIABLES
  body,         \* [event -> what its callback says]
  ingest,       \* [event -> control state of _persist_and_ack]
  matched,      \* [event -> matched_client_id]
  stored,       \* the events with a document in kdcloud_callbacks
  status,       \* [event -> forward_status]
  attempts,     \* [event -> forward_attempts]
  history,      \* [event -> forward_history, outcomes only]
  url,          \* [client -> its callback_url: no document, empty, or set]
  phase,        \* [job -> control state of the coroutine that forwards]
  target,       \* [job -> the event it forwards]
  posted,       \* [job -> payloads posted so far]
  outcome,      \* [job -> whether all of them were answered with success]
  acceptedFrom, \* [bill -> the jobs whose post of it System A accepted]
  eas,          \* [bill -> its state in System A]
  stray         \* [bill -> the jobs whose post of it something else answered with
                \*  success], a history variable

docVars == <<matched, stored, status, attempts, history>>
jobVars == <<phase, target, posted, outcome>>
billVars == <<acceptedFrom, eas, stray>>
vars == <<body, ingest, docVars, url, jobVars, billVars>>

Jobs == Events \union Replays

\* A callback: where it was pushed, whether its returnCode is a string other than
\* "0" ("fail") or not ("pass": "0", a number, or none at all), the client its first
\* systemSource names, and the bills it converts to.
Body == [endpoint : {"by-invoice", "by-apply", "apply-return"},
         code : {"pass", "fail"},
         source : Clients \union {NoClient},
         bills : Splits]

Ledger == INSTANCE ForwardLedger WITH
            Bodies <- Body,
            landed <- [e \in Events |->
                         {b \in Bills : \E j \in acceptedFrom[b] : target[j] = e}],
            told <- [e \in Events |->
                       {b \in Bills : \E j \in stray[b] : target[j] = e}]

Active == {"begin", "resolve", "send", "record"}
Ended == {"recorded", "refused", "noTarget", "unsupported", "dbError", "died"}

TypeOK ==
  /\ body \in [Events -> Body]
  /\ ingest \in [Events -> {"idle", "match", "insert", "switch", "acked", "died"}]
  /\ matched \in [Events -> Clients \union {NoClient}]
  /\ stored \in SUBSET Events
  /\ status \in [Events -> Ledger!Statuses]
  /\ attempts \in [Events -> Nat]
  /\ history \in [Events -> Seq({"ok", "error"})]
  /\ url \in [Clients -> {"unregistered", "empty", "set"}]
  /\ phase \in [Jobs -> Active \union Ended \union {"idle"}]
  /\ target \in [Jobs -> Events]
  /\ posted \in [Jobs -> Nat]
  /\ outcome \in [Jobs -> {"ok", "error"}]
  /\ acceptedFrom \in [Bills -> SUBSET Jobs]
  /\ stray \in [Bills -> SUBSET Jobs]
  /\ eas \in [Bills -> {"open", "invoiced", "ioError"}]

Init ==
  /\ body \in [Events -> Body]
  /\ ingest = [e \in Events |-> "idle"]
  /\ matched = [e \in Events |-> NoClient]
  /\ stored = {}
  /\ status = [e \in Events |-> "absent"]
  /\ attempts = [e \in Events |-> 0]
  /\ history = [e \in Events |-> <<>>]
  /\ url \in [Clients -> {"unregistered", "set"}]
  /\ phase = [j \in Jobs |-> "idle"]
  /\ target = [j \in Jobs |-> IF j \in Events THEN j ELSE CHOOSE e \in Events : TRUE]
  /\ posted = [j \in Jobs |-> 0]
  /\ outcome = [j \in Jobs |-> "ok"]
  /\ acceptedFrom = [b \in Bills |-> {}]
  /\ eas = [b \in Bills |-> "open"]
  /\ stray = [b \in Bills |-> {}]

-----------------------------------------------------------------------------
(* _persist_and_ack *)

Receive(e) ==
  /\ ingest[e] = "idle"
  /\ ingest' = [ingest EXCEPT ![e] = "match"]
  /\ UNCHANGED <<body, docVars, url, jobVars, billVars>>

\* The client whose name or id is the callback's systemSource, if there is one
\* and the query does not fail.
Match(e) ==
  /\ ingest[e] = "match"
  /\ \E c \in {body[e].source, NoClient} :
       /\ c \in Clients => url[c] # "unregistered"
       /\ matched' = [matched EXCEPT ![e] = c]
  /\ ingest' = [ingest EXCEPT ![e] = "insert"]
  /\ UNCHANGED <<body, stored, status, attempts, history, url, jobVars, billVars>>

\* The insert succeeds, or raises with or without having taken effect; Kingdee
\* gets its acknowledgement in every case.
Insert(e) ==
  /\ ingest[e] = "insert"
  /\ \/ stored' = stored \union {e} /\ ingest' = [ingest EXCEPT ![e] = "switch"]
     \/ stored' = stored \union {e} /\ ingest' = [ingest EXCEPT ![e] = "acked"]
     \/ stored' = stored /\ ingest' = [ingest EXCEPT ![e] = "acked"]
  /\ UNCHANGED <<body, matched, status, attempts, history, url, jobVars, billVars>>

\* Only a by-invoice callback asks for the switch; "on" schedules the task.
Schedule(e) ==
  /\ ingest[e] = "switch"
  /\ ingest' = [ingest EXCEPT ![e] = "acked"]
  /\ \/ UNCHANGED phase
     \/ body[e].endpoint = "by-invoice" /\ phase' = [phase EXCEPT ![e] = "begin"]
  /\ UNCHANGED <<body, docVars, url, target, posted, outcome, billVars>>

IngestDies(e) ==
  /\ ingest[e] \in {"match", "insert", "switch"}
  /\ ingest' = [ingest EXCEPT ![e] = "died"]
  /\ UNCHANGED <<body, docVars, url, jobVars, billVars>>

-----------------------------------------------------------------------------
(* _safe_auto_forward and replay_callback_event *)

\* An administrator replays a stored callback.
ReplayRequest(r, e) ==
  /\ phase[r] = "idle"
  /\ e \in stored
  /\ target' = [target EXCEPT ![r] = e]
  /\ phase' = [phase EXCEPT ![r] = "begin"]
  /\ UNCHANGED <<body, ingest, docVars, url, posted, outcome, billVars>>

\* Mutants: the task does not look at returnCode; the replay does not look at the
\* endpoint; the replay marks what it refuses with a value of its own.
RefusalTaskSendsAll(j) ==
  LET b == body[target[j]] IN
  IF j \notin Replays THEN "none"
  ELSE IF b.endpoint # "by-invoice" THEN "unsupported"
  ELSE IF b.code = "fail" THEN "skipped" ELSE "none"
RefusalAnyEndpoint(j) == IF body[target[j]].code = "fail" THEN "skipped" ELSE "none"
RefusalOwnMark(j) ==
  IF j \in Replays /\ body[target[j]].endpoint # "by-invoice" THEN "rejected"
  ELSE IF body[target[j]].code = "fail" THEN "skipped" ELSE "none"

\* Why a job gives up on the document it has read, if it does.  The replay looks
\* at the endpoint first; the task knows it is by-invoice.
Refusal(j) ==
  LET b == body[target[j]] IN
  IF j \in Replays /\ b.endpoint # "by-invoice" THEN "unsupported"
  ELSE IF b.code = "fail" THEN "skipped"
  ELSE "none"

Begin(j) ==
  /\ phase[j] = "begin"
  /\ Refusal(j) = "none"
  /\ phase' = [phase EXCEPT ![j] = "resolve"]
  /\ UNCHANGED <<body, ingest, docVars, url, target, posted, outcome, billVars>>

Refuse(j) ==
  /\ phase[j] = "begin"
  /\ Refusal(j) # "none"
  /\ status' = [status EXCEPT ![target[j]] = Refusal(j)]
  /\ phase' = [phase EXCEPT ![j] = "refused"]
  /\ UNCHANGED <<body, ingest, matched, stored, attempts, history, url,
                 target, posted, outcome, billVars>>

\* The clients whose callback_url the job may look up: the matched one, or the
\* one a replay names.
Named(j) ==
  {matched[target[j]]} \union (IF j \in Replays THEN Clients ELSE {})

HasTarget(c) == c \in Clients /\ url[c] = "set"

\* A target is found (a replay may also name one outright) and the document is
\* converted, which raises when there is nothing to send.
Resolve(j) ==
  /\ phase[j] = "resolve"
  /\ j \in Replays \/ \E c \in Named(j) : HasTarget(c)
  /\ phase' = [phase EXCEPT ![j] =
                 IF body[target[j]].bills = <<>> THEN "unsupported" ELSE "send"]
  /\ UNCHANGED <<body, ingest, docVars, url, target, posted, outcome, billVars>>

\* No URL: the task only logs it, the replay answers 400.
NoTarget(j) ==
  /\ phase[j] = "resolve"
  /\ \E c \in Named(j) : ~HasTarget(c)
  /\ phase' = [phase EXCEPT ![j] = "noTarget"]
  /\ UNCHANGED <<body, ingest, docVars, url, target, posted, outcome, billVars>>

\* System A takes a bill: the second time it is an error on the bill.
Accept(b, j) ==
  /\ acceptedFrom' = [acceptedFrom EXCEPT ![b] = @ \union {j}]
  /\ eas' = [eas EXCEPT ![b] = IF @ = "open" THEN "invoiced" ELSE "ioError"]
  /\ UNCHANGED stray

\* A 2xx answer that is not System A's: any body that is no JSON object counts as
\* success, and a replay may name any URL.
AnswerElsewhere(b, j) ==
  /\ j \in Elsewhere
  /\ stray' = [stray EXCEPT ![b] = @ \union {j}]
  /\ UNCHANGED <<acceptedFrom, eas>>

\* Mutants: the result of the last payload stands for all; an unsuccessful post
\* is tried again.
LastOk(o, r) == r
RetryUnlessOk(n, r) == IF r = "ok" THEN n + 1 ELSE n

\* all(r["ok"] for r in results), one result at a time.
AllOk(o, r) == IF o = "ok" /\ r = "ok" THEN "ok" ELSE "error"

\* Each payload is posted once, whatever became of it.
OneMore(n, r) == n + 1

\* The next payload is posted: accepted and answered, accepted with the answer
\* lost, refused or lost, or answered with success by something else.  A failure
\* does not stop the ones after it.
Send(j) ==
  LET bills == body[target[j]].bills IN
  /\ phase[j] = "send"
  /\ \E r \in {"ok", "error"} :
       /\ \/ Accept(bills[posted[j] + 1], j)
          \/ r = "error" /\ UNCHANGED billVars
          \/ r = "ok" /\ AnswerElsewhere(bills[posted[j] + 1], j)
       /\ outcome' = [outcome EXCEPT ![j] = AllOk(@, r)]
       /\ posted' = [posted EXCEPT ![j] = OneMore(@, r)]
  /\ phase' = [phase EXCEPT ![j] = IF posted'[j] = Len(bills) THEN "record" ELSE "send"]
  /\ UNCHANGED <<body, ingest, docVars, url, target>>

\* Mutant: the history is not sliced.
PushAll(h, o) == Append(h, o)

\* $push with $slice: the last HistoryCap outcomes are kept.
Push(h, o) == IF Len(h) < HistoryCap THEN Append(h, o) ELSE Append(Tail(h), o)

\* Mutant: only a success is recorded.
RecordSuccess(j) ==
  LET e == target[j] IN
  /\ phase[j] = "record"
  /\ outcome[j] = "ok"
  /\ status' = [status EXCEPT ![e] = "sent"]
  /\ attempts' = [attempts EXCEPT ![e] = @ + 1]
  /\ history' = [history EXCEPT ![e] = Push(@, "ok")]
  /\ phase' = [phase EXCEPT ![j] = "recorded"]
  /\ UNCHANGED <<body, ingest, matched, stored, url, target, posted, outcome, billVars>>

\* record_forward_result: one update of the document.
Record(j) ==
  LET e == target[j] IN
  /\ phase[j] = "record"
  /\ status' = [status EXCEPT ![e] = IF outcome[j] = "ok" THEN "sent" ELSE "failed"]
  /\ attempts' = [attempts EXCEPT ![e] = @ + 1]
  /\ history' = [history EXCEPT ![e] = Push(@, outcome[j])]
  /\ phase' = [phase EXCEPT ![j] = "recorded"]
  /\ UNCHANGED <<body, ingest, matched, stored, url, target, posted, outcome, billVars>>

\* A query or update raises: the task logs it, the replay answers 500.
DbError(j) ==
  /\ phase[j] \in {"begin", "resolve", "record"}
  /\ phase' = [phase EXCEPT ![j] = "dbError"]
  /\ UNCHANGED <<body, ingest, docVars, url, target, posted, outcome, billVars>>

\* The worker stops; nothing remembers the job.
Die(j) ==
  /\ phase[j] \in Active
  /\ phase' = [phase EXCEPT ![j] = "died"]
  /\ UNCHANGED <<body, ingest, docVars, url, target, posted, outcome, billVars>>

-----------------------------------------------------------------------------

\* proxy-clients is administered meanwhile: created, updated, deleted.
ClientChanges(c) ==
  /\ \E u \in {"unregistered", "empty", "set"} \ {url[c]} : url' = [url EXCEPT ![c] = u]
  /\ UNCHANGED <<body, ingest, docVars, jobVars, billVars>>

IngestStep(e) == Receive(e) \/ Match(e) \/ Insert(e) \/ Schedule(e) \/ IngestDies(e)

JobStep(j) == Begin(j) \/ Refuse(j) \/ Resolve(j) \/ NoTarget(j) \/ Send(j) \/ Record(j)

Next ==
  \/ \E e \in Events : IngestStep(e)
  \/ \E r \in Replays, e \in Events : ReplayRequest(r, e)
  \/ \E j \in Jobs : JobStep(j) \/ DbError(j) \/ Die(j)
  \/ \E c \in Clients : ClientChanges(c)

\* Every await of a job ends, in an answer, an error or a timeout
\* (system_a_forward_timeout; the driver's own for MongoDB).
Fairness == \A j \in Jobs : WF_vars(JobStep(j))

Spec == Init /\ [][Next]_vars /\ Fairness

-----------------------------------------------------------------------------

\* Only bills of a stored, successful by-invoice callback ever reach System A,
\* whichever of the two paths sent them and whatever raced with it
\* (callbacks.py 188-197, admin.py 262-272).
OnlyForwardableReachSystemA ==
  \A b \in Bills : \A j \in acceptedFrom[b] :
    /\ target[j] \in stored
    /\ Ledger!Forwardable(body[target[j]])
    /\ \E i \in 1..Len(body[target[j]].bills) : body[target[j]].bills[i] = b

\* A success is never pieced together and never assumed: if the status, or any
\* outcome kept in the history, is a success, one single job posted every bill of
\* the event, and System A took each of them or something that answered in its
\* place said so; also when other jobs have recorded since (forwarder.py 193-267).
SentIsOneCompleteRun ==
  \A e \in Events :
    status[e] = "sent" \/ (\E i \in 1..Len(history[e]) : history[e][i] = "ok")
      => \E j \in Jobs :
           /\ target[j] = e
           /\ \A i \in 1..Len(body[e].bills) :
                j \in acceptedFrom[body[e].bills[i]] \union stray[body[e].bills[i]]

\* However jobs interleave, the three forwarding fields of a document agree: the
\* counter is the number of jobs that recorded, the history holds the last of
\* their outcomes and the status is the last of them; a refused document was
\* never attempted (forwarder.py 244-267, callbacks.py 189-192, admin.py 262-271).
BookkeepingAgrees ==
  \A e \in Events :
    LET h == history[e] IN
    /\ attempts[e] = Cardinality({j \in Jobs : phase[j] = "recorded" /\ target[j] = e})
    /\ Len(h) = IF attempts[e] < HistoryCap THEN attempts[e] ELSE HistoryCap
    /\ attempts[e] = 0 <=> status[e] \in {"absent", "skipped", "unsupported"}
    /\ attempts[e] > 0 => status[e] = IF h[Len(h)] = "ok" THEN "sent" ELSE "failed"

\* The invoice of event e names bill b twice: nothing takes the repetition out.
NamesTwice(e, b) ==
  \E m, n \in 1..Len(body[e].bills) : m # n /\ body[e].bills[m] = b /\ body[e].bills[n] = b

\* System A flags a bill only if one invoice names it twice, or two different jobs
\* delivered it and one of them was a replay or two callbacks name the bill: the
\* automatic path alone never delivers a callback twice (callbacks.py 233-234,
\* 177-212; forwarder.py 149-167).
RepeatNeedsReplayOrRepush ==
  \A b \in Bills : eas[b] = "ioError" =>
    \/ \E j \in acceptedFrom[b] : NamesTwice(target[j], b)
    \/ \E i, j \in acceptedFrom[b] :
         /\ i # j
         /\ i \in Replays \/ j \in Replays \/ target[i] # target[j]

\* Every job ends, and a scheduled task that reaches a target leaves its outcome
\* in the document unless its worker or the database fails (callbacks.py 177-212).
ScheduledIsSettled ==
  \A e \in Events :
    phase[e] = "begin" ~> \/ status[e] # "absent"
                          \/ phase[e] \in {"noTarget", "unsupported", "dbError", "died"}

\* The documents behave as ForwardLedger says.
ImplementsLedger == Ledger!Spec
=============================================================================
