----------------------------- MODULE RateLimit ------------------------------
(* What the rate limiter promises: of the requests of a client that are       *)
(* counted in one minute, those go through that are counted while there are   *)
(* no more than the limit, and only those reach Kingdee.  Of a request that   *)
(* is counted when its minute has long been over it promises less: it may go  *)
(* through, and is refused only if the minute has seen its limit.  There are  *)
(* no counters here that may be removed and no registry that changes          *)
(* meanwhile: Gateway implements it with them.                                *)
EXTENDS Naturals, FiniteSets

CONSTANTS
  Requests,
  Clients,  \* who requests are from
  Minutes,  \* the minutes in which they may be counted
  Limits,   \* the limits clients may have
  NoClient  \* the client of a request that does not ask to be counted

VARIABLES
  over,     \* the minutes before this one are long over
  ask,      \* ask[r]: the client, the minute and the limit request r is counted by
  counted,  \* the requests that have been counted
  verdict,  \* verdict[r]: what has become of request r
  reached   \* the requests that have reached Kingdee

vars == <<over, ask, counted, verdict, reached>>

Asks(r) == ask[r].client # NoClient

\* The requests counted for the same client in the same minute.
Alike(r) ==
  {q \in counted : ask[q].client = ask[r].client /\ ask[q].minute = ask[r].minute}

Init ==
  /\ over = 0
  /\ ask = [r \in Requests |-> [client |-> NoClient, minute |-> 0, limit |-> 0]]
  /\ counted = {}
  /\ verdict = [r \in Requests |-> "none"]
  /\ reached = {}

Pass ==
  /\ over' = over + 1
  /\ UNCHANGED <<ask, counted, verdict, reached>>

\* A request asks to be counted, as any client, in any minute not long over and by
\* any limit.
Ask(r) ==
  /\ ~Asks(r)
  /\ ask'[r] \in [client : Clients, minute : Minutes, limit : Limits]
  /\ ask'[r].minute >= over
  /\ ask' = [ask EXCEPT ![r] = ask'[r]]
  /\ UNCHANGED <<over, counted, verdict, reached>>

Judge(r, v) == verdict'[r] = v /\ verdict' = [verdict EXCEPT ![r] = v]

\* The request is counted and judged at once; it is one of those it is judged by.
Count(r) ==
  /\ Asks(r) /\ verdict[r] = "none"
  /\ counted' = counted \union {r}
  /\ \/ /\ Cardinality(Alike(r)) < ask[r].limit \/ ask[r].minute < over
        /\ Judge(r, "through")
     \/ /\ Cardinality(Alike(r)) >= ask[r].limit
        /\ Judge(r, "refused")
  /\ UNCHANGED <<over, ask, reached>>

\* A request ends in an error: before it is counted, as it is counted, or after.
Fail(r) ==
  /\ verdict[r] \in {"none", "through"} /\ Judge(r, "failed")
  /\ Asks(r) /\ r \notin reached
  /\ counted' \in {counted, counted \union {r}}
  /\ UNCHANGED <<over, ask, reached>>

Reach(r) ==
  /\ r \notin reached /\ reached' = reached \union {r}
  /\ verdict[r] = "through"
  /\ UNCHANGED <<over, ask, counted, verdict>>

Next ==
  \/ Pass
  \/ \E r \in Requests : Ask(r) \/ Count(r) \/ Fail(r) \/ Reach(r)

Spec == Init /\ [][Next]_vars
=============================================================================
