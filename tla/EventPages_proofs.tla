-------------------------- MODULE EventPages_proofs --------------------------
(* Proofs about EventPages: a reader of all pages misses no callback, for any *)
(* number of callbacks, any size of page and any retention.                   *)
EXTENDS EventPages, FiniteSetTheorems, TLAPS

-----------------------------------------------------------------------------
(* Types *)

\* The clock and the stored callbacks are what they seem.
LEMMA Basics ==
  ASSUME TypeOK
  PROVE  /\ now \in Nat /\ Retention \in Nat /\ Limit \in Nat /\ Limit > 0
         /\ \A e \in Events : event[e].received_at \in Nat /\ event[e] \in Event
         /\ Stored \subseteq Events /\ walk \in Walk
BY PagesAssumption DEF TypeOK, Event, Stored

\* Sets of callbacks are finite.
LEMMA EventSets ==
  ASSUME NEW S \in SUBSET Events
  PROVE  IsFiniteSet(S) /\ Cardinality(S) \in Nat
BY PagesAssumption, FS_Subset, FS_CardinalityType

\* Types are kept by every step.
LEMMA TypeStep == TypeOK /\ [Next]_vars => TypeOK'
<1> SUFFICES ASSUME TypeOK, [Next]_vars PROVE TypeOK'
  OBVIOUS
<1>1. ASSUME NEW e \in Events, Receive(e) PROVE TypeOK'
  BY <1>1 DEF Receive, Stamp, TypeOK, Event
<1>2. ASSUME NEW e \in Events, Insert(e) \/ Remove(e) PROVE TypeOK'
  <2>1. \E pc \in {"stored", "lost", "removed"} : event' = [event EXCEPT ![e].pc = pc]
    BY <1>2 DEF Insert, Remove
  <2>2. UNCHANGED <<now, walk>>
    BY <1>2 DEF Insert, Remove
  <2> QED BY <2>1, <2>2 DEF TypeOK, Event
<1>3. CASE Tick
  BY <1>3, PagesAssumption DEF Tick, TypeOK
<1>4. CASE Begin \/ Count
  <2>1. Stored \in SUBSET Events /\ Cardinality(Stored) \in Nat
    BY EventSets DEF Stored
  <2> QED BY <1>4, <2>1 DEF Begin, Count, TypeOK, Walk
<1>5. CASE Find
  <2>1. PICK page \in Page(walk.offset) :
          walk' = [walk EXCEPT !.pc = IF Last(page) THEN "done" ELSE "count",
                               !.offset = @ + Limit, !.seen = @ \union page]
    BY <1>5 DEF Find
  <2>2. page \subseteq Events
    BY DEF Page, Stored
  <2>3. walk.offset + Limit \in Nat
    BY Basics DEF Walk
  <2> QED BY <1>5, <2>1, <2>2, <2>3 DEF Find, TypeOK, Walk
<1>6. CASE UNCHANGED vars
  BY <1>6 DEF vars, TypeOK
<1> QED BY <1>1, <1>2, <1>3, <1>4, <1>5, <1>6 DEF Next

-----------------------------------------------------------------------------
(* One page *)

\* The callbacks that are surely listed ahead of e.
Newer(e) == {f \in Stored : Before(f, e)}

\* If a callback with a stamp of its own is no higher than the offset and not on
\* the page, the page is full and the callback below it.
LEMMA BelowThePage ==
  ASSUME TypeOK, NEW offset \in Nat, NEW page \in Page(offset), NEW e \in Stored,
         Untied(e), e \notin page, offset <= Cardinality(Newer(e))
  PROVE  ~Last(page) /\ offset + Limit <= Cardinality(Newer(e))
<1>1. PICK skipped \in SUBSET (Stored \ page) :
        Top(skipped, offset) /\ Top(skipped \union page, offset + Limit)
  BY DEF Page
<1> DEFINE T == skipped \union page
<1>2. /\ page \subseteq Stored /\ skipped \subseteq Stored /\ T \subseteq Stored
      /\ skipped \intersect page = {}
  BY DEF Page
<1>3. /\ \A S \in {page, skipped, T, Newer(e), skipped \ {e}} :
           IsFiniteSet(S) /\ Cardinality(S) \in Nat
      /\ Stored \subseteq Events
  BY <1>2, Basics, EventSets DEF Newer
<1>4. e \notin skipped
  <2> SUFFICES ASSUME e \in skipped PROVE FALSE
    OBVIOUS
  <2>1. Newer(e) \subseteq skipped \ {e}
    BY <1>1, Basics DEF Newer, Top, Before
  <2>2. Cardinality(Newer(e)) <= Cardinality(skipped \ {e})
    BY <1>3, <2>1, FS_Subset
  <2>3. Cardinality(skipped \ {e}) = Cardinality(skipped) - 1
    BY <1>3, FS_RemoveElement
  <2>4. Cardinality(skipped) <= offset
    BY <1>1, <1>3 DEF Top
  <2> QED BY <1>3, <2>2, <2>3, <2>4
<1>5. Cardinality(T) = offset + Limit /\ Cardinality(skipped) = offset
  BY <1>1, <1>4 DEF Top
<1>6. T \subseteq Newer(e)
  <2> SUFFICES ASSUME NEW f \in T PROVE f \in Newer(e)
    OBVIOUS
  <2>1. f \in Stored /\ f # e /\ ~Before(e, f)
    BY <1>1, <1>2, <1>4 DEF Top
  <2>2. event[f].received_at # event[e].received_at
    BY <2>1 DEF Untied
  <2> QED BY <1>3, <2>1, <2>2, Basics DEF Newer, Before
<1>7. Cardinality(T) <= Cardinality(Newer(e))
  BY <1>3, <1>6, FS_Subset
<1>8. Cardinality(T) = Cardinality(skipped) + Cardinality(page)
  <2>1. Cardinality(T) = Cardinality(skipped) + Cardinality(page)
                           - Cardinality(skipped \intersect page)
    BY <1>3, FS_Union
  <2>2. Cardinality(skipped \intersect page) = 0
    BY <1>2, FS_EmptySet
  <2> QED BY <1>3, <2>1, <2>2
<1> QED BY <1>3, <1>5, <1>7, <1>8, Basics DEF Last

-----------------------------------------------------------------------------
(* The walk *)

\* A callback the walk must not miss.
Due(e) == e \in walk.watched /\ ~Expired(e) /\ Untied(e)

\* What was stored when the walk began goes only when its time is up; what is yet
\* to be seen is no higher than the next page.
WalkInv ==
  /\ \A e \in walk.watched : e \in Stored \/ (event[e].pc = "removed" /\ Expired(e))
  /\ walk.pc = "idle" => walk.offset = 0 /\ walk.watched = {}
  /\ walk.pc \in {"count", "find"} =>
       \A e \in Events : Due(e) /\ e \notin walk.seen => walk.offset <= Cardinality(Newer(e))
  /\ walk.pc = "done" => \A e \in Events : Due(e) => e \in walk.seen

IInv == TypeOK /\ WalkInv

\* A step that leaves the walk alone moves no callback up that is not old, and does
\* not tell it from others it was tied with.
Steady ==
  /\ UNCHANGED walk
  /\ \A e \in Stored : /\ e \in Stored' \/ (event'[e].pc = "removed" /\ Expired(e)')
                       /\ ~Expired(e)' => /\ ~Expired(e)
                                          /\ Untied(e)' => Untied(e)
                                          /\ Newer(e) \subseteq Newer(e)'
  /\ \A e \in Events : event[e].pc = "removed" /\ Expired(e) =>
                         event'[e].pc = "removed" /\ Expired(e)'

\* Such a step keeps the invariant.
LEMMA SteadyKeeps ==
  ASSUME IInv, Steady, TypeOK'
  PROVE  WalkInv'
<1>1. walk' = walk /\ walk \in Walk
  BY DEF Steady, IInv, TypeOK
<1>2. ASSUME NEW e \in Events, Due(e)'
      PROVE  Due(e) /\ Cardinality(Newer(e)) <= Cardinality(Newer(e)')
  <2>1. e \in walk.watched /\ ~Expired(e)' /\ Untied(e)'
    BY <1>1, <1>2 DEF Due
  <2>2. e \in Stored
    BY <2>1 DEF IInv, WalkInv, Steady
  <2>3. ~Expired(e) /\ Untied(e) /\ Newer(e) \subseteq Newer(e)'
    BY <2>1, <2>2 DEF Steady
  <2>4. Newer(e)' \subseteq Events
    BY DEF Newer, Stored
  <2>5. IsFiniteSet(Newer(e)')
    BY <2>4, EventSets
  <2> QED BY <2>1, <2>3, <2>5, FS_Subset DEF Due
<1>3. ASSUME NEW e \in Events
      PROVE  Cardinality(Newer(e)) \in Nat /\ Cardinality(Newer(e)') \in Nat
  <2>1. Newer(e) \in SUBSET Events /\ Newer(e)' \in SUBSET Events
    BY DEF Newer, Stored
  <2> QED BY <2>1, EventSets
<1>4. walk.offset \in Nat
  BY <1>1 DEF Walk
<1>5. \A e \in walk.watched : e \in Events
  BY <1>1 DEF Walk
<1>6. \A e \in walk'.watched : e \in Stored' \/ (event'[e].pc = "removed" /\ Expired(e)')
  BY <1>1, <1>5 DEF IInv, WalkInv, Steady
<1>7. walk.pc \in {"count", "find"} =>
        \A e \in Events : Due(e)' /\ e \notin walk.seen => walk.offset <= Cardinality(Newer(e)')
  BY <1>2, <1>3, <1>4 DEF IInv, WalkInv
<1>8. walk.pc = "done" => \A e \in Events : Due(e)' => e \in walk.seen
  BY <1>2 DEF IInv, WalkInv
<1>9. walk.pc = "idle" => walk.offset = 0 /\ walk.watched = {}
  BY DEF IInv, WalkInv
<1> QED BY <1>1, <1>6, <1>7, <1>8, <1>9 DEF WalkInv

\* What becomes of callbacks, and the clock, are such steps: a late insert moves
\* others down, and what is removed is older than all that is not.
LEMMA EventsAreSteady ==
  ASSUME TypeOK, TypeOK',
         Tick \/ \E e \in Events : Receive(e) \/ Insert(e) \/ Remove(e)
  PROVE  Steady
<1>1. CASE Tick
  <2>1. now <= now' /\ now' \in Nat /\ UNCHANGED <<event, walk>>
    BY <1>1, Basics DEF Tick
  <2> QED BY <2>1, Basics DEF Steady, Expired, Untied, Newer, Before, Stored
<1>2. ASSUME NEW x \in Events, Receive(x) \/ Insert(x) PROVE Steady
  <2>1. /\ UNCHANGED <<now, walk>> /\ event[x].pc \in {"none", "received"}
        /\ \A e \in Events \ {x} : event'[e] = event[e]
    BY <1>2 DEF Receive, Insert, TypeOK
  <2>2. \A e \in Stored : e # x /\ e \in Stored' /\ event'[e] = event[e]
    BY <2>1 DEF Stored
  <2>3. \A e \in Events : event[e].pc = "removed" => event'[e] = event[e]
    BY <2>1
  <2> QED BY <2>1, <2>2, <2>3 DEF Steady, Expired, Untied, Newer, Before, Stored
<1>3. ASSUME NEW x \in Events, Remove(x) PROVE Steady
  <2>1. /\ UNCHANGED <<now, walk>> /\ event[x].pc = "stored" /\ Expired(x)
        /\ event'[x].pc = "removed"
        /\ \A e \in Events : event'[e].received_at = event[e].received_at
        /\ \A e \in Events \ {x} : event'[e] = event[e]
    BY <1>3 DEF Remove, TypeOK, Event
  <2>2. Stored' = Stored \ {x}
    BY <2>1 DEF Stored
  <2>3. \A e \in Events : Expired(e)' <=> Expired(e)
    BY <2>1 DEF Expired
  <2>4. \A e \in Stored : ~Expired(e) => event[x].received_at < event[e].received_at
    BY <2>1, Basics DEF Expired
  <2>5. \A e \in Stored : ~Expired(e) => /\ Newer(e) \subseteq Newer(e)'
                                         /\ Untied(e)' => Untied(e)
    BY <2>1, <2>2, <2>4, Basics DEF Newer, Untied, Before
  <2> QED BY <2>1, <2>2, <2>3, <2>5, Basics DEF Steady
<1> QED BY <1>1, <1>2, <1>3

\* The walk begins.
LEMMA BeginKeeps ==
  ASSUME IInv, Begin, TypeOK'
  PROVE  WalkInv'
<1>1. /\ walk' = [walk EXCEPT !.pc = "count", !.watched = Stored] /\ walk \in Walk
      /\ UNCHANGED <<now, event>> /\ walk.offset = 0
  BY DEF Begin, IInv, TypeOK, WalkInv
<1>2. walk'.pc = "count" /\ walk'.watched = Stored /\ walk'.offset = 0
  BY <1>1 DEF Walk
<1>3. Stored' = Stored /\ \A e : Newer(e)' = Newer(e)
  BY <1>1 DEF Stored, Newer, Before
<1>4. \A e \in Events : 0 <= Cardinality(Newer(e))
  <2> TAKE e \in Events
  <2>1. Newer(e) \in SUBSET Events
    BY DEF Newer, Stored
  <2> QED BY <2>1, EventSets
<1> QED BY <1>2, <1>3, <1>4 DEF WalkInv

\* The count of the whole is no part of it.
LEMMA CountKeeps ==
  ASSUME IInv, Count
  PROVE  WalkInv'
<1>1. /\ walk' = [walk EXCEPT !.pc = "find", !.total = Cardinality(Stored)] /\ walk \in Walk
      /\ UNCHANGED <<now, event>> /\ walk.pc = "count"
  BY DEF Count, IInv, TypeOK
<1>2. /\ walk'.pc = "find" /\ walk'.watched = walk.watched /\ walk'.offset = walk.offset
      /\ walk'.seen = walk.seen
  BY <1>1 DEF Walk
<1>3. Stored' = Stored /\ \A e : Newer(e)' = Newer(e)
  BY <1>1 DEF Stored, Newer, Before
<1>4. \A e : (Due(e)' <=> Due(e)) /\ (Expired(e)' <=> Expired(e))
  BY <1>1, <1>2, <1>3 DEF Due, Expired, Untied
<1> QED BY <1>1, <1>2, <1>3, <1>4 DEF IInv, WalkInv

\* A page is read (admin.py 211-217).
LEMMA FindKeeps ==
  ASSUME IInv, Find
  PROVE  WalkInv'
<1>1. /\ walk.pc = "find" /\ walk \in Walk /\ UNCHANGED <<now, event>>
      /\ walk.offset \in Nat
  BY DEF Find, IInv, TypeOK, Walk
<1>2. PICK page \in Page(walk.offset) :
        walk' = [walk EXCEPT !.pc = IF Last(page) THEN "done" ELSE "count",
                             !.offset = @ + Limit, !.seen = @ \union page]
  BY DEF Find
<1>3. /\ walk'.pc = IF Last(page) THEN "done" ELSE "count"
      /\ walk'.watched = walk.watched /\ walk'.offset = walk.offset + Limit
      /\ walk'.seen = walk.seen \union page
  BY <1>1, <1>2 DEF Walk
<1>4. Stored' = Stored /\ \A e : Newer(e)' = Newer(e)
  BY <1>1 DEF Stored, Newer, Before
<1>5. \A e : (Due(e)' <=> Due(e)) /\ (Expired(e)' <=> Expired(e))
  BY <1>1, <1>3, <1>4 DEF Due, Expired, Untied
<1>6. ASSUME NEW e \in Events, Due(e), e \notin walk'.seen
      PROVE  ~Last(page) /\ walk'.offset <= Cardinality(Newer(e))
  <2>1. e \in Stored
    BY <1>6 DEF Due, IInv, WalkInv
  <2>2. e \notin page /\ walk.offset <= Cardinality(Newer(e))
    BY <1>1, <1>3, <1>6 DEF IInv, WalkInv
  <2>3. TypeOK /\ Untied(e)
    BY <1>6 DEF IInv, Due
  <2> QED BY <1>1, <1>3, <2>1, <2>2, <2>3, BelowThePage
<1> QED BY <1>1, <1>3, <1>4, <1>5, <1>6 DEF IInv, WalkInv

-----------------------------------------------------------------------------
(* The theorems *)

\* The invariant holds at the start, and every step keeps it.
LEMMA InvAlways == Spec => []IInv
<1>1. Init => IInv
  <2> SUFFICES ASSUME Init PROVE IInv
    OBVIOUS
  <2>1. TypeOK
    BY PagesAssumption DEF Init, TypeOK, Event, Walk
  <2> QED BY <2>1 DEF Init, IInv, WalkInv
<1>2. IInv /\ [Next]_vars => IInv'
  <2> SUFFICES ASSUME IInv, [Next]_vars PROVE IInv'
    OBVIOUS
  <2>1. TypeOK /\ TypeOK'
    BY TypeStep DEF IInv
  <2>2. CASE Tick \/ \E e \in Events : Receive(e) \/ Insert(e) \/ Remove(e)
    BY <2>1, <2>2, EventsAreSteady, SteadyKeeps DEF IInv
  <2>3. CASE Begin
    BY <2>1, <2>3, BeginKeeps DEF IInv
  <2>4. CASE Count
    BY <2>1, <2>4, CountKeeps DEF IInv
  <2>5. CASE Find
    BY <2>1, <2>5, FindKeeps DEF IInv
  <2>6. CASE UNCHANGED vars
    BY <2>1, <2>6 DEF vars, IInv, WalkInv, Due, Expired, Untied, Newer, Before, Stored
  <2> QED BY <2>2, <2>3, <2>4, <2>5, <2>6 DEF Next
<1> QED BY <1>1, <1>2, PTL DEF Spec

\* The clock, the callbacks and the reader have their types.
THEOREM TypeCorrect == Spec => []TypeOK
<1>1. IInv => TypeOK
  BY DEF IInv
<1> QED BY <1>1, InvAlways, PTL

\* A reader of all pages misses no callback that was stored when it began, is not
\* old, and shares its stamp with no other (admin.py 210-218): the callbacks ahead
\* of such a one are newer, so they stay, and those that come push it down, never
\* up past the offset.
THEOREM PagesMissNothing == Spec => []NothingMissed
<1>1. IInv => NothingMissed
  <2> SUFFICES ASSUME IInv, walk.pc = "done", NEW e \in walk.watched, ~Expired(e), Untied(e)
               PROVE  e \in walk.seen
    BY DEF NothingMissed
  <2>1. e \in Events
    BY DEF IInv, TypeOK, Walk
  <2> QED BY <2>1 DEF IInv, WalkInv, Due
<1> QED BY <1>1, InvAlways, PTL
=============================================================================
