----------------------------- MODULE EventPages ------------------------------
(* The list of stored callbacks, page by page (proxy-server/app/admin.py      *)
(* 176-218), while callbacks are stored and old ones are removed.             *)
(*                                                                            *)
(* A callback is stamped when it is received and stored two awaits later, so  *)
(* that it may appear below one that is newer.  MongoDB removes it 90 days    *)
(* after its stamp.  A list is two queries: the number of callbacks, and one  *)
(* page of them, newest first.  There is no cursor from one page to the next: *)
(* a reader asks again with a larger offset, until a page is not full.        *)
(*                                                                            *)
(* Events are the callbacks that match the reader's filter; what a filter     *)
(* looks at never changes once it is stored.  What else becomes of a callback *)
(* is in CallbackForwarding.                                                  *)
EXTENDS Naturals, FiniteSets

CONSTANTS
  Events,    \* callbacks
  Limit,     \* limit: the size of a page
  Retention, \* _CALLBACK_TTL_SECONDS
  MaxNow     \* bound: the last reading of the clock

ASSUME PagesAssumption ==
  /\ IsFiniteSet(Events)
  /\ Limit \in Nat \ {0} /\ Retention \in Nat /\ MaxNow \in Nat

VARIABLES
  now,   \* the clock
  event, \* event[e]: where callback e is, and its received_at
  walk   \* the reader: where it is, and what it has seen

vars == <<now, event, walk>>

Event == [pc : {"none", "received", "stored", "removed", "lost"}, received_at : 0..MaxNow]

\* total is the number the last answer gave, watched what was stored when the
\* reader began.
Walk == [pc : {"idle", "count", "find", "done"}, offset : Nat, total : Nat,
         watched : SUBSET Events, seen : SUBSET Events]

Init ==
  /\ now = 0
  /\ event = [e \in Events |-> [pc |-> "none", received_at |-> 0]]
  /\ walk = [pc |-> "idle", offset |-> 0, total |-> 0, watched |-> {}, seen |-> {}]

Stored == {e \in Events : event[e].pc = "stored"}

-----------------------------------------------------------------------------
(* Callbacks *)

\* Mutant: the stamp is the time at which the callback is to go.
StampOfExpiry == now + Retention

\* received_at
Stamp == now

\* _build_doc stamps the document; the client is yet to be looked up.
Receive(e) ==
  /\ event[e].pc = "none"
  /\ event' = [event EXCEPT ![e] = [pc |-> "received", received_at |-> Stamp]]
  /\ UNCHANGED <<now, walk>>

Insert(e) ==
  /\ event[e].pc = "received"
  /\ \E pc \in {"stored", "lost"} : event' = [event EXCEPT ![e].pc = pc]
  /\ UNCHANGED <<now, walk>>

Expired(e) == now >= event[e].received_at + Retention

\* The TTL index, whose thread removes what has expired in any order.
Remove(e) ==
  /\ event[e].pc = "stored" /\ Expired(e)
  /\ event' = [event EXCEPT ![e].pc = "removed"]
  /\ UNCHANGED <<now, walk>>

Tick ==
  /\ now < MaxNow
  /\ now' = now + 1
  /\ UNCHANGED <<event, walk>>

-----------------------------------------------------------------------------
(* list_callback_events, and a reader of all pages *)

\* Mutant: oldest first.
BeforeOldest(e, f) == event[e].received_at < event[f].received_at

\* sort("received_at", -1); equal stamps may come in any order, and in another
\* the next time.
Before(e, f) == event[e].received_at > event[f].received_at

\* The first n of the stored callbacks, in some order they may be sorted in.
Top(S, n) ==
  /\ S \subseteq Stored
  /\ Cardinality(S) = n \/ (S = Stored /\ Cardinality(S) < n)
  /\ \A e \in S, f \in Stored \ S : ~Before(f, e)

\* skip(offset).limit(limit)
Page(offset) ==
  {page \in SUBSET Stored :
     \E skipped \in SUBSET (Stored \ page) :
       Top(skipped, offset) /\ Top(skipped \union page, offset + Limit)}

Begin ==
  /\ walk.pc = "idle"
  /\ walk' = [walk EXCEPT !.pc = "count", !.watched = Stored]
  /\ UNCHANGED <<now, event>>

Count ==
  /\ walk.pc = "count"
  /\ walk' = [walk EXCEPT !.pc = "find", !.total = Cardinality(Stored)]
  /\ UNCHANGED <<now, event>>

Last(page) == Cardinality(page) < Limit

Find ==
  /\ walk.pc = "find"
  /\ \E page \in Page(walk.offset) :
       walk' = [walk EXCEPT !.pc = IF Last(page) THEN "done" ELSE "count",
                            !.offset = @ + Limit, !.seen = @ \union page]
  /\ UNCHANGED <<now, event>>

Next ==
  \/ \E e \in Events : Receive(e) \/ Insert(e) \/ Remove(e)
  \/ Tick \/ Begin \/ Count \/ Find

Spec == Init /\ [][Next]_vars

-----------------------------------------------------------------------------

TypeOK ==
  /\ now \in 0..MaxNow
  /\ event \in [Events -> Event]
  /\ walk \in Walk

\* A stamp no other stored callback has.
Untied(e) == \A f \in Stored \ {e} : event[f].received_at # event[e].received_at

\* A reader that goes on until a page is not full has seen every callback that was
\* stored when it began and whose time is not up, although pages shift under it:
\* unless another bears the same stamp, when the order of the two may differ from
\* page to page (admin.py 210-218, db_indexes.py 54-58).
NothingMissed ==
  walk.pc = "done" =>
    \A e \in walk.watched : ~Expired(e) /\ Untied(e) => e \in walk.seen
=============================================================================
