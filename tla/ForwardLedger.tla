--------------------------- MODULE ForwardLedger ---------------------------
(***************************************************************************)
(* What the callback store promises about outbound forwarding, without the *)
(* coroutines that do it: which callbacks may reach System A at all, when  *)
(* an event may be refused for good, and what a recorded attempt says      *)
(* about the bills of the event.  CallbackForwarding implements it.        *)
(***************************************************************************)
EXTENDS Naturals, Sequences

CONSTANTS
  Events,   \* callbacks Kingdee pushes, one per request
  Bills,    \* EAS bills that invoices are about
  Bodies    \* callbacks: records with fields endpoint, code and bills

VARIABLES
  body,     \* [event -> what the callback says]
  stored,   \* the events with a document in kdcloud_callbacks
  status,   \* [event -> forward_status]
  attempts, \* [event -> forward_attempts]
  landed,   \* [event -> the bills System A accepted from it]
  told      \* [event -> the bills something else answered success for]

vars == <<body, stored, status, attempts, landed, told>>

Statuses == {"absent", "sent", "failed", "skipped", "unsupported"}

RangeOf(s) == {s[i] : i \in DOMAIN s}

\* A single successful invoice that names the bills it settles.
Forwardable(b) == b.endpoint = "by-invoice" /\ b.code # "fail" /\ b.bills # <<>>

Init ==
  /\ body \in [Events -> Bodies]
  /\ stored = {}
  /\ status = [e \in Events |-> "absent"]
  /\ attempts = [e \in Events |-> 0]
  /\ landed = [e \in Events |-> {}]
  /\ told = [e \in Events |-> {}]

Store(e) ==
  /\ stored' = stored \union {e}
  /\ UNCHANGED <<body, status, attempts, landed, told>>

\* A refusal says why, and only an event nothing was ever posted for is refused.
Refuse(e, s) ==
  /\ e \in stored
  /\ attempts[e] = 0 /\ landed[e] = {} /\ told[e] = {}
  /\ \/ s = "unsupported" /\ body[e].endpoint # "by-invoice"
     \/ s = "skipped" /\ body[e].endpoint = "by-invoice" /\ body[e].code = "fail"
  /\ status' = [status EXCEPT ![e] = s]
  /\ UNCHANGED <<body, stored, attempts, landed, told>>

\* A bill that may be posted: of a stored event that may be forwarded.
MayPost(e, b) ==
  /\ e \in stored
  /\ Forwardable(body[e])
  /\ b \in RangeOf(body[e].bills)

\* System A accepts one bill of an event.
Land(e, b) ==
  /\ MayPost(e, b)
  /\ landed' = [landed EXCEPT ![e] = @ \union {b}]
  /\ UNCHANGED <<body, stored, status, attempts, told>>

\* Something that is not System A says it has taken it.
Tell(e, b) ==
  /\ MayPost(e, b)
  /\ told' = [told EXCEPT ![e] = @ \union {b}]
  /\ UNCHANGED <<body, stored, status, attempts, landed>>

\* An attempt is recorded; it is a success only if every bill has been accepted
\* or said to be.
Record(e, s) ==
  /\ e \in stored
  /\ Forwardable(body[e])
  /\ \/ s = "failed"
     \/ s = "sent" /\ landed[e] \union told[e] = RangeOf(body[e].bills)
  /\ status' = [status EXCEPT ![e] = s]
  /\ attempts' = [attempts EXCEPT ![e] = @ + 1]
  /\ UNCHANGED <<body, stored, landed, told>>

Next ==
  \E e \in Events :
    \/ Store(e)
    \/ \E s \in {"skipped", "unsupported"} : Refuse(e, s)
    \/ \E b \in Bills : Land(e, b) \/ Tell(e, b)
    \/ \E s \in {"sent", "failed"} : Record(e, s)

Spec == Init /\ [][Next]_vars
=============================================================================
