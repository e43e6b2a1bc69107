------------------------ MODULE RobotRegistry_proofs ------------------------
(* Proofs about RobotRegistry.  The books, which only grow, tie what a call    *)
(* has read to the document it was read from, whatever happens to the document *)
(* afterwards; the inductive invariant says of every document, and of every    *)
(* call that holds a secret, that its book vouches for it.                     *)
EXTENDS RobotRegistry, TLAPS

\* The books that have been opened vouch for o as the bearer of id and secret.
Vouched(o, id, secret) ==
  /\ o \in Docs /\ o <= made
  /\ id \in books[o].ids
  /\ secret \in books[o].secrets

DocsAreVouched ==
  \A c \in Registered :
    /\ robots[c].oid <= made
    /\ Effective(robots[c]) \in books[robots[c].oid].secrets
    /\ robots[c].robotId # Null => robots[c].robotId \in books[robots[c].oid].ids

CallIsVouched(d) ==
  /\ call[d].pc \in {"resolve", "secret"} => call[d].robotId \in RobotIds
  /\ call[d].pc = "migrate" => Vouched(call[d].oid, call[d].robotId, call[d].secret)
  /\ call[d].pc \in {"accepted", "banned"} =>
       \E o \in Docs : Vouched(o, call[d].robotId, call[d].signed)

\* An insert that is under way has all it needs.
AdminIsReady(a) ==
  admin[a].pc = "insert" => admin[a].code \in Codes /\ admin[a].secret \in Secrets

IInv ==
  /\ RegistryTypeOK
  /\ DocsAreVouched
  /\ \A d \in Deliveries : CallIsVouched(d)
  /\ \A a \in Admins : AdminIsReady(a)

-----------------------------------------------------------------------------

\* The states a webhook call can be in, its fields taken one by one (deps.py).
LEMMA NoCallTyped == NoCall \in Call
BY RegistryAssumption DEF NoCall, Call

\* A document verifies with one of its two secrets.
LEMMA EffectiveTyped ==
  ASSUME NEW doc \in Doc PROVE Effective(doc) \in Secrets \union {Null}
BY DEF Effective, Doc

\* A record is no document of the empty slot: a registered code has one.
LEMMA RegisteredTyped ==
  ASSUME RegistryTypeOK, NEW c \in Registered
  PROVE  c \in Codes /\ robots[c] \in Doc /\ robots[c] # Null
BY DEF RegistryTypeOK, Registered

\* The books of the documents at the start (models/robot.py).
LEMMA BookOfTyped ==
  ASSUME NEW o \in Docs PROVE BookOf(o) \in Book
<1> DEFINE held == {c \in Codes : Initial[c] # Null /\ Initial[c].oid = o}
<1>1. \A c \in held : /\ Initial[c] \in Doc
                      /\ Effective(Initial[c]) \in Secrets
  BY RegistryAssumption, EffectiveTyped
<1>2. {Initial[c].robotId : c \in held} \ {Null} \in SUBSET RobotIds
  BY <1>1 DEF Doc
<1>3. {Effective(Initial[c]) : c \in held} \in SUBSET Secrets
  BY <1>1
<1>4. held # {} => Effective(Initial[CHOOSE c \in held : TRUE]) \in Secrets
  BY <1>1
<1>5. (IF held = {} THEN Null ELSE Effective(Initial[CHOOSE c \in held : TRUE]))
        \in Secrets \union {Null}
  BY <1>4
<1>6. QED
  BY <1>2, <1>3, <1>5 DEF BookOf, Book

\* The collection the server starts with is vouched for by its own books.
LEMMA InitIInv == RegistryInit => IInv
<1> SUFFICES ASSUME RegistryInit PROVE IInv
  OBVIOUS
<1>1. RegistryTypeOK
  <2>1. robots \in [Codes -> Doc \union {Null}]
    BY RegistryAssumption DEF RegistryInit
  <2>2. books \in [Docs -> Book]
    BY BookOfTyped DEF RegistryInit
  <2>3. made \in 0..MaxDocs
    BY DEF RegistryInit
  <2>4. admin \in [Admins -> AdminCall]
    BY RegistryAssumption DEF RegistryInit, AdminCall
  <2>5. call \in [Deliveries -> Call]
    BY NoCallTyped DEF RegistryInit
  <2>6. QED
    BY <2>1, <2>2, <2>3, <2>4, <2>5 DEF RegistryTypeOK
<1>2. DocsAreVouched
  <2> SUFFICES ASSUME NEW c \in Registered
               PROVE  /\ robots[c].oid <= made
                      /\ Effective(robots[c]) \in books[robots[c].oid].secrets
                      /\ robots[c].robotId # Null
                           => robots[c].robotId \in books[robots[c].oid].ids
    BY DEF DocsAreVouched
  <2>1. c \in Codes /\ robots[c] = Initial[c] /\ Initial[c] # Null /\ Initial[c] \in Doc
    BY RegistryAssumption DEF RegistryInit, Registered
  <2>2. robots[c].oid \in Docs
    BY <2>1 DEF Doc
  <2>3. robots[c].oid <= made
    BY <2>1, <2>2 DEF RegistryInit
  <2>4. books[robots[c].oid] = BookOf(robots[c].oid)
    BY <2>2 DEF RegistryInit
  <2>5. Effective(Initial[c]) \in BookOf(Initial[c].oid).secrets
    BY <2>1 DEF BookOf
  <2>6. Initial[c].robotId # Null => Initial[c].robotId \in BookOf(Initial[c].oid).ids
    BY <2>1 DEF BookOf
  <2>7. QED
    BY <2>1, <2>3, <2>4, <2>5, <2>6
<1>3. \A d \in Deliveries : CallIsVouched(d)
  BY DEF RegistryInit, NoCall, CallIsVouched
<1>4. \A a \in Admins : AdminIsReady(a)
  BY DEF RegistryInit, AdminIsReady
<1>5. QED
  BY <1>1, <1>2, <1>3, <1>4 DEF IInv

-----------------------------------------------------------------------------

(* The admin calls.  What the books vouch for they go on vouching for.         *)

BooksGrow ==
  /\ made <= made'
  /\ \A o \in Docs : o <= made => /\ books[o].ids \subseteq books'[o].ids
                                  /\ books[o].secrets \subseteq books'[o].secrets

\* Calls that an admin call finds vouched for stay so.
LEMMA CallsStayVouched ==
  ASSUME IInv, made' \in Nat, BooksGrow, UNCHANGED call
  PROVE  \A d \in Deliveries : CallIsVouched(d)'
<1> SUFFICES ASSUME NEW d \in Deliveries PROVE CallIsVouched(d)'
  OBVIOUS
<1>1. CallIsVouched(d)
  BY DEF IInv
<1>2. made \in Nat
  BY RegistryAssumption DEF IInv, RegistryTypeOK
<1>3. ASSUME NEW o, NEW id, NEW s, Vouched(o, id, s)
      PROVE  o \in Docs /\ o <= made' /\ id \in books'[o].ids /\ s \in books'[o].secrets
  <2>1. o \in Nat
    BY <1>3, RegistryAssumption DEF Vouched, Docs
  <2>2. QED
    BY <1>2, <1>3, <2>1 DEF BooksGrow, Vouched
<1>4. QED
  BY <1>1, <1>3 DEF CallIsVouched, Vouched

\* create_robot's look, and the reply of any admin call.
LEMMA CreateLooksIInv ==
  ASSUME IInv, NEW a \in Admins, CreateLooks(a) PROVE IInv'
<1> USE DEF IInv
<1>1. PICK c \in Codes, id \in RobotIds \union {Null}, s \in Secrets, w \in Whitelists :
        admin' = [admin EXCEPT ![a] =
                    [pc |-> IF c \in Registered THEN "409" ELSE "insert",
                     code |-> c, robotId |-> id, secret |-> s, allow |-> w]]
  BY DEF CreateLooks
<1>2. UNCHANGED <<robots, books, made, call>>
  BY DEF CreateLooks
<1>3. RegistryTypeOK'
  BY <1>1, <1>2 DEF RegistryTypeOK, AdminCall
<1>4. DocsAreVouched'
  BY <1>2 DEF DocsAreVouched, Registered
<1>5. \A d \in Deliveries : CallIsVouched(d)'
  BY <1>2 DEF CallIsVouched, Vouched
<1>6. \A b \in Admins : AdminIsReady(b)'
  BY <1>1 DEF AdminIsReady, RegistryTypeOK
<1>7. QED
  BY <1>3, <1>4, <1>5, <1>6

\* A reply ends an admin call.
LEMMA ReplyTyped ==
  ASSUME IInv, NEW a \in Admins, NEW status \in {"200", "404", "409", "500"}, Reply(a, status)
  PROVE  admin' \in [Admins -> AdminCall] /\ \A b \in Admins : AdminIsReady(b)'
<1>1. admin \in [Admins -> AdminCall]
  BY DEF IInv, RegistryTypeOK
<1>2. [admin[a] EXCEPT !.pc = status] \in AdminCall
  BY <1>1, Zenon DEF AdminCall
<1>3. admin' \in [Admins -> AdminCall]
  BY <1>1, <1>2 DEF Reply
<1>4. \A b \in Admins : AdminIsReady(b)'
  BY <1>1 DEF Reply, AdminIsReady, IInv, AdminCall
<1>5. QED
  BY <1>3, <1>4

\* create_robot's insert opens a book, or changes nothing.
LEMMA CreateInsertsIInv ==
  ASSUME IInv, NEW a \in Admins, CreateInserts(a) PROVE IInv'
<1> DEFINE r == admin[a]
<1>1. /\ r \in AdminCall /\ r.code \in Codes /\ r.secret \in Secrets
      /\ robots \in [Codes -> Doc \union {Null}] /\ books \in [Docs -> Book]
      /\ made \in Nat /\ made <= MaxDocs /\ MaxDocs \in Nat
  BY RegistryAssumption DEF CreateInserts, IInv, AdminIsReady, RegistryTypeOK
<1>2. UNCHANGED call
  BY DEF CreateInserts
<1>3. CASE UNCHANGED <<robots, books, made>> /\ Reply(a, "500")
  <2>1. admin' \in [Admins -> AdminCall] /\ \A b \in Admins : AdminIsReady(b)'
    BY <1>3, ReplyTyped
  <2>2. RegistryTypeOK'
    BY <1>2, <1>3, <2>1 DEF IInv, RegistryTypeOK
  <2>3. DocsAreVouched'
    BY <1>3 DEF IInv, DocsAreVouched, Registered
  <2>4. \A d \in Deliveries : CallIsVouched(d)'
    BY <1>2, <1>3 DEF IInv, CallIsVouched, Vouched
  <2>5. QED
    BY <2>1, <2>2, <2>3, <2>4 DEF IInv
<1>4. CASE /\ made < MaxDocs /\ made' = made + 1 /\ Reply(a, "200")
           /\ \E sid \in Stores \union {Null} :
                robots' = [robots EXCEPT ![r.code] =
                             [oid |-> made + 1, robotId |-> r.robotId, enc |-> r.secret,
                              plain |-> Null, allow |-> r.allow, sid |-> sid]]
           /\ books' = [books EXCEPT ![made + 1] =
                [ids |-> {r.robotId} \ {Null}, secrets |-> {r.secret}, latest |-> r.secret]]
  <2>1. PICK sid \in Stores \union {Null} :
          robots' = [robots EXCEPT ![r.code] =
                       [oid |-> made + 1, robotId |-> r.robotId, enc |-> r.secret,
                        plain |-> Null, allow |-> r.allow, sid |-> sid]]
    BY <1>4
  <2>2. books' = [books EXCEPT ![made + 1] =
                    [ids |-> {r.robotId} \ {Null}, secrets |-> {r.secret}, latest |-> r.secret]]
    BY <1>4
  <2>3. made + 1 \in Docs /\ made' \in 0..MaxDocs
    BY <1>1, <1>4 DEF Docs
  <2>4. admin' \in [Admins -> AdminCall] /\ \A b \in Admins : AdminIsReady(b)'
    BY <1>4, ReplyTyped
  <2>5. RegistryTypeOK'
    <3>1. robots' \in [Codes -> Doc \union {Null}]
      BY <1>1, <2>1, <2>3 DEF Doc, AdminCall
    <3>2. books' \in [Docs -> Book]
      BY <1>1, <2>2, <2>3 DEF Book, AdminCall
    <3>3. call' \in [Deliveries -> Call]
      BY <1>2 DEF IInv, RegistryTypeOK
    <3>4. QED
      BY <2>3, <2>4, <3>1, <3>2, <3>3 DEF RegistryTypeOK
  <2>6. BooksGrow
    BY <1>1, <1>4, <2>2, <2>3 DEF BooksGrow, Docs
  <2>7. DocsAreVouched'
    <3> SUFFICES ASSUME NEW c \in Registered'
                 PROVE  /\ robots'[c].oid <= made'
                        /\ Effective(robots'[c]) \in books'[robots'[c].oid].secrets
                        /\ robots'[c].robotId # Null
                             => robots'[c].robotId \in books'[robots'[c].oid].ids
      BY DEF DocsAreVouched, Registered
    <3>1. CASE c = r.code
      <4>1. /\ robots'[c].oid = made + 1 /\ robots'[c].robotId = r.robotId
            /\ robots'[c].enc = r.secret
        BY <1>1, <2>1, <3>1
      <4>2. Effective(robots'[c]) = r.secret
        BY <1>1, <4>1, RegistryAssumption DEF Effective
      <4>3. books'[made + 1].secrets = {r.secret} /\ books'[made + 1].ids = {r.robotId} \ {Null}
        BY <1>1, <2>2, <2>3
      <4>4. QED
        BY <1>1, <1>4, <4>1, <4>2, <4>3
    <3>2. CASE c # r.code
      <4>1. c \in Registered /\ robots'[c] = robots[c]
        BY <1>1, <2>1, <3>2 DEF Registered
      <4>2. robots[c] \in Doc /\ robots[c].oid \in Docs /\ robots[c].oid <= made
        BY <4>1, RegisteredTyped DEF IInv, DocsAreVouched, Doc
      <4>3. robots[c].oid <= made'
        BY <1>1, <1>4, <4>2, RegistryAssumption DEF Docs
      <4>4. QED
        BY <2>6, <4>1, <4>2, <4>3 DEF IInv, DocsAreVouched, BooksGrow
    <3>3. QED
      BY <3>1, <3>2
  <2>8. \A d \in Deliveries : CallIsVouched(d)'
    BY <1>1, <1>2, <1>4, <2>6, CallsStayVouched
  <2>9. QED
    BY <2>4, <2>5, <2>7, <2>8 DEF IInv
<1>5. QED
  BY <1>3, <1>4 DEF CreateInserts

\* update_robot writes in the book what it writes in the document.
LEMMA UpdateIInv ==
  ASSUME IInv, NEW a \in Admins, Update(a) PROVE IInv'
<1>1. PICK c \in Codes, id \in RobotIds \union {Null}, s \in Secrets \union {Null},
           w \in Whitelists \union {Null}, sid \in Stores \union {Null} :
        LET told == c \in Registered /\ (id = Null \/ IdIsFree(c, id)) IN
        /\ IF told
           THEN LET doc == robots[c] IN
                /\ robots' = [robots EXCEPT ![c] =
                     [doc EXCEPT !.robotId = IF id = Null THEN @ ELSE id,
                                 !.enc = IF s = Null THEN @ ELSE s,
                                 !.allow = IF w = Null THEN @ ELSE w, !.sid = sid]]
                /\ books' = [books EXCEPT ![doc.oid] =
                     [ids |-> @.ids \union ({id} \ {Null}),
                      secrets |-> @.secrets \union ({s} \ {Null}),
                      latest |-> IF s = Null THEN @.latest ELSE s]]
           ELSE UNCHANGED <<robots, books>>
        /\ Reply(a, IF told THEN "200" ELSE IF c \in Registered THEN "500" ELSE "404")
  BY DEF Update
<1>2. UNCHANGED <<made, call>>
  BY DEF Update
<1>3. admin' \in [Admins -> AdminCall] /\ \A b \in Admins : AdminIsReady(b)'
  BY <1>1, ReplyTyped
<1>4. /\ robots \in [Codes -> Doc \union {Null}] /\ books \in [Docs -> Book]
      /\ made \in Nat /\ made \in 0..MaxDocs /\ call \in [Deliveries -> Call]
  BY RegistryAssumption DEF IInv, RegistryTypeOK
<1>5. CASE UNCHANGED <<robots, books>>
  <2>1. RegistryTypeOK'
    BY <1>2, <1>3, <1>4, <1>5 DEF RegistryTypeOK
  <2>2. DocsAreVouched'
    BY <1>2, <1>5 DEF IInv, DocsAreVouched, Registered
  <2>3. \A d \in Deliveries : CallIsVouched(d)'
    BY <1>2, <1>5 DEF IInv, CallIsVouched, Vouched
  <2>4. QED
    BY <1>3, <2>1, <2>2, <2>3 DEF IInv
<1>6. CASE c \in Registered /\ ~ UNCHANGED <<robots, books>>
  <2> DEFINE doc == robots[c]
             new == [doc EXCEPT !.robotId = IF id = Null THEN @ ELSE id,
                                !.enc = IF s = Null THEN @ ELSE s,
                                !.allow = IF w = Null THEN @ ELSE w, !.sid = sid]
             book == books[doc.oid]
             page == [ids |-> book.ids \union ({id} \ {Null}),
                      secrets |-> book.secrets \union ({s} \ {Null}),
                      latest |-> IF s = Null THEN book.latest ELSE s]
  <2>1. robots' = [robots EXCEPT ![c] = new] /\ books' = [books EXCEPT ![doc.oid] = page]
    BY <1>1, <1>6
  <2>2. doc \in Doc /\ doc.oid \in Docs /\ book \in Book
    BY <1>4, <1>6, RegisteredTyped DEF IInv, Doc
  <2>3. new \in Doc /\ new.oid = doc.oid
    BY <2>2, Zenon DEF Doc
  <2>4. page \in Book
    BY <2>2 DEF Book
  <2>5. /\ Effective(new) \in page.secrets
        /\ new.robotId # Null => new.robotId \in page.ids
    <3>1. /\ Effective(doc) \in book.secrets
          /\ doc.robotId # Null => doc.robotId \in book.ids
      BY <1>6 DEF IInv, DocsAreVouched
    <3>2. /\ new.robotId = IF id = Null THEN doc.robotId ELSE id
          /\ new.enc = IF s = Null THEN doc.enc ELSE s
          /\ new.plain = doc.plain
      BY <2>2 DEF Doc
    <3>3. QED
      BY <3>1, <3>2 DEF Effective
  <2>6. BooksGrow
    BY <1>2, <1>4, <2>1, <2>2 DEF BooksGrow, Book
  <2>7. RegistryTypeOK'
    BY <1>2, <1>3, <1>4, <2>1, <2>2, <2>3, <2>4 DEF RegistryTypeOK
  <2>8. DocsAreVouched'
    <3> SUFFICES ASSUME NEW k \in Registered'
                 PROVE  /\ robots'[k].oid <= made'
                        /\ Effective(robots'[k]) \in books'[robots'[k].oid].secrets
                        /\ robots'[k].robotId # Null
                             => robots'[k].robotId \in books'[robots'[k].oid].ids
      BY DEF DocsAreVouched, Registered
    <3>1. CASE k = c
      <4>1. robots'[k] = new /\ books'[new.oid] = page
        BY <1>4, <2>1, <2>2, <2>3, <3>1
      <4>2. doc.oid <= made
        BY <1>6 DEF IInv, DocsAreVouched
      <4>3. QED
        BY <1>2, <2>3, <2>5, <4>1, <4>2
    <3>2. CASE k # c
      <4>1. k \in Registered /\ robots'[k] = robots[k]
        BY <1>4, <2>1, <3>2 DEF Registered
      <4>2. robots[k].oid \in Docs /\ robots[k].oid <= made
        BY <4>1, RegisteredTyped DEF IInv, DocsAreVouched, Doc
      <4>3. QED
        BY <1>2, <2>6, <4>1, <4>2 DEF IInv, DocsAreVouched, BooksGrow
    <3>3. QED
      BY <3>1, <3>2
  <2>9. \A d \in Deliveries : CallIsVouched(d)'
    BY <1>2, <1>4, <2>6, CallsStayVouched
  <2>10. QED
    BY <1>3, <2>7, <2>8, <2>9 DEF IInv
<1>7. QED
  BY <1>1, <1>5, <1>6

\* Deleting a robot leaves its book.
LEMMA DeleteIInv ==
  ASSUME IInv, NEW a \in Admins, Delete(a) PROVE IInv'
<1>1. PICK c \in Codes :
        /\ robots' = [robots EXCEPT ![c] = Null]
        /\ Reply(a, IF c \in Registered THEN "200" ELSE "404")
  BY DEF Delete
<1>2. UNCHANGED <<books, made, call>>
  BY DEF Delete
<1>3. admin' \in [Admins -> AdminCall] /\ \A b \in Admins : AdminIsReady(b)'
  BY <1>1, ReplyTyped
<1>4. RegistryTypeOK'
  BY <1>1, <1>2, <1>3 DEF IInv, RegistryTypeOK
<1>5. DocsAreVouched'
  BY <1>1, <1>2 DEF IInv, DocsAreVouched, Registered, RegistryTypeOK
<1>6. \A d \in Deliveries : CallIsVouched(d)'
  BY <1>2 DEF IInv, CallIsVouched, Vouched
<1>7. QED
  BY <1>3, <1>4, <1>5, <1>6 DEF IInv

-----------------------------------------------------------------------------

(* The look-ups of webhook calls.                                              *)

\* A step of call d that leaves the registry alone keeps the invariant if the call
\* it makes of d is typed and vouched for.
LEMMA CallStepIInv ==
  ASSUME IInv, NEW d \in Deliveries, NEW k \in Call,
         call' = [call EXCEPT ![d] = k], CallIsVouched(d)',
         UNCHANGED <<robots, books, made, admin>>
  PROVE  IInv'
<1>1. RegistryTypeOK'
  BY DEF IInv, RegistryTypeOK
<1>2. DocsAreVouched'
  BY DEF IInv, DocsAreVouched, Registered
<1>3. ASSUME NEW e \in Deliveries PROVE CallIsVouched(e)'
  <2>1. CASE e = d
    BY <2>1
  <2>2. CASE e # d
    BY <2>2 DEF IInv, RegistryTypeOK, CallIsVouched, Vouched
  <2>3. QED
    BY <2>1, <2>2
<1>4. \A a \in Admins : AdminIsReady(a)'
  BY DEF IInv, AdminIsReady
<1>5. QED
  BY <1>1, <1>2, <1>3, <1>4 DEF IInv

\* A message arrives under one of the robotIds, or the test's.
LEMMA ArriveIInv ==
  ASSUME IInv, NEW d \in Deliveries, NEW id \in RobotIds \union {TestRobotId},
         NEW url \in Codes, NEW s \in Secrets, NEW h \in Handlers, Arrive(d, id, url, s, h)
  PROVE  IInv'
<1> DEFINE k == [NoCall EXCEPT !.pc = IF id = TestRobotId THEN "test" ELSE "resolve",
                               !.robotId = id, !.url = url, !.signed = s, !.handler = h,
                               !.code = IF id = TestRobotId THEN url ELSE Null]
<1>1. call' = [call EXCEPT ![d] = k] /\ UNCHANGED <<robots, books, made, admin>>
  BY DEF Arrive
<1>2. k \in Call
  BY NoCallTyped, Zenon DEF Call
<1>3. k.pc \in {"test", "resolve"} /\ k.robotId = id /\ (k.pc = "resolve" => id \in RobotIds)
  BY DEF NoCall
<1>4. call'[d] = k
  BY <1>1 DEF IInv, RegistryTypeOK
<1> HIDE DEF k
<1>5. CallIsVouched(d)'
  BY <1>3, <1>4 DEF CallIsVouched
<1>6. QED
  BY <1>1, <1>2, <1>5, CallStepIInv

\* _resolve_robot_code keeps the robotId and the signature of the message.
LEMMA ResolveIInv ==
  ASSUME IInv, NEW d \in Deliveries, Resolve(d) PROVE IInv'
<1> DEFINE k == call[d]
<1>1. /\ k \in Call /\ k.pc = "resolve" /\ k.robotId \in RobotIds /\ k.url \in Codes \union {Null}
      /\ call \in [Deliveries -> Call]
  BY DEF IInv, RegistryTypeOK, CallIsVouched, Resolve, At, Call
<1>2. UNCHANGED <<robots, books, made, admin>>
  BY DEF Resolve
<1>3. CASE \E c \in Holder(k.robotId) :
             call' = [call EXCEPT ![d] =
                        [k EXCEPT !.pc = "secret", !.code = c, !.allow = robots[c].allow]]
  <2>1. PICK c \in Holder(k.robotId) :
          call' = [call EXCEPT ![d] =
                     [k EXCEPT !.pc = "secret", !.code = c, !.allow = robots[c].allow]]
    BY <1>3
  <2> DEFINE n == [k EXCEPT !.pc = "secret", !.code = c, !.allow = robots[c].allow]
  <2>2. c \in Codes /\ robots[c].allow \in Whitelists
    BY <2>1, RegisteredTyped DEF IInv, Holder, Doc
  <2>3. n \in Call
    BY <1>1, <2>2, Zenon DEF Call
  <2>4. n.pc = "secret" /\ n.robotId = k.robotId /\ call'[d] = n
    BY <1>1, <2>1 DEF Call
  <2> HIDE DEF n
  <2>5. CallIsVouched(d)'
    BY <1>1, <2>4 DEF CallIsVouched
  <2>6. call' = [call EXCEPT ![d] = n]
    BY <2>1 DEF n
  <2>7. QED
    BY <1>2, <2>3, <2>5, <2>6, CallStepIInv
<1>4. CASE call' = [call EXCEPT ![d] = [k EXCEPT !.pc = "secret", !.code = k.url]]
  <2> DEFINE n == [k EXCEPT !.pc = "secret", !.code = k.url]
  <2>1. n \in Call
    BY <1>1, Zenon DEF Call
  <2>2. n.pc = "secret" /\ n.robotId = k.robotId /\ call'[d] = n
    BY <1>1, <1>4 DEF Call
  <2> HIDE DEF n
  <2>3. CallIsVouched(d)'
    BY <1>1, <2>2 DEF CallIsVouched
  <2>4. call' = [call EXCEPT ![d] = n]
    BY <1>4 DEF n
  <2>5. QED
    BY <1>2, <2>1, <2>3, <2>4, CallStepIInv
<1>5. QED
  BY <1>3, <1>4 DEF Resolve

\* A call ends the look-ups with a verdict other than an acceptance, or is accepted
\* under the signature it bears.
LEMMA VerdictTyped ==
  ASSUME NEW k, NEW secret
  PROVE  /\ Verdict(k, secret) \in {"401", "banned", "accepted"}
         /\ Verdict(k, secret) \in {"banned", "accepted"} => k.signed = secret
BY DEF Verdict

\* get_robot_secret takes the secret from a document that bears the robotId.
LEMMA ReadSecretIInv ==
  ASSUME IInv, NEW d \in Deliveries, ReadSecret(d) PROVE IInv'
<1> DEFINE k == call[d]
<1>1. /\ k \in Call /\ k.pc = "secret" /\ k.robotId \in RobotIds
      /\ call \in [Deliveries -> Call]
  BY DEF IInv, RegistryTypeOK, CallIsVouched, ReadSecret, At
<1>2. UNCHANGED <<robots, books, made, admin>>
  BY DEF ReadSecret
<1>3. CASE call' = [call EXCEPT ![d].pc = "401"]
  <2> DEFINE n == [k EXCEPT !.pc = "401"]
  <2>1. n \in Call
    BY <1>1, Zenon DEF Call
  <2>2. n.pc = "401" /\ call' = [call EXCEPT ![d] = n] /\ call'[d] = n
    BY <1>1, <1>3 DEF Call
  <2> HIDE DEF n
  <2>3. CallIsVouched(d)'
    BY <2>2 DEF CallIsVouched
  <2>4. QED
    BY <1>2, <2>1, <2>2, <2>3, CallStepIInv
<1>4. CASE \E c \in Holder(k.robotId) :
             LET doc == robots[c] IN
             call' = [call EXCEPT ![d] =
                        [k EXCEPT !.oid = doc.oid, !.secret = Effective(doc),
                                  !.pc = IF doc.enc # Null THEN Verdict(k, doc.enc)
                                         ELSE IF doc.plain # Null THEN "migrate" ELSE "500"]]
  <2>1. PICK c \in Holder(k.robotId) :
          LET doc == robots[c] IN
          call' = [call EXCEPT ![d] =
                     [k EXCEPT !.oid = doc.oid, !.secret = Effective(doc),
                               !.pc = IF doc.enc # Null THEN Verdict(k, doc.enc)
                                      ELSE IF doc.plain # Null THEN "migrate" ELSE "500"]]
    BY <1>4
  <2> DEFINE doc == robots[c]
             pc == IF doc.enc # Null THEN Verdict(k, doc.enc)
                   ELSE IF doc.plain # Null THEN "migrate" ELSE "500"
             n == [k EXCEPT !.oid = doc.oid, !.secret = Effective(doc), !.pc = pc]
  <2>2. c \in Registered /\ doc \in Doc /\ doc.oid \in Docs /\ doc.robotId = k.robotId
    BY <2>1, RegisteredTyped DEF IInv, Holder, Doc
  <2>3. Effective(doc) \in Secrets \union {Null}
    BY <2>2, EffectiveTyped
  <2>4. Vouched(doc.oid, k.robotId, Effective(doc))
    BY <1>1, <2>2, RegistryAssumption DEF IInv, DocsAreVouched, Vouched
  <2>5. /\ pc \in {"401", "banned", "accepted", "migrate", "500"}
        /\ pc \in {"banned", "accepted"} => k.signed = Effective(doc)
    BY VerdictTyped DEF Effective
  <2> HIDE DEF pc
  <2>6. n \in Call
    BY <1>1, <2>2, <2>3, <2>5, Zenon DEF Call
  <2>7. /\ n.pc = pc /\ n.robotId = k.robotId /\ n.signed = k.signed
        /\ n.oid = doc.oid /\ n.secret = Effective(doc)
    BY <1>1 DEF Call
  <2>8. call' = [call EXCEPT ![d] = n]
    BY <2>1 DEF pc
  <2>9. call'[d] = n
    BY <1>1, <2>8
  <2> HIDE DEF n
  <2>10. CallIsVouched(d)'
    BY <1>2, <2>2, <2>4, <2>5, <2>7, <2>9 DEF CallIsVouched, Vouched
  <2>11. QED
    BY <1>2, <2>6, <2>8, <2>10, CallStepIInv
<1>5. QED
  BY <1>3, <1>4 DEF ReadSecret, SecretDocs

\* The migration writes the secret that was read to the document it was read from.
LEMMA MigrateIInv ==
  ASSUME IInv, NEW d \in Deliveries, Migrate(d) PROVE IInv'
<1> DEFINE k == call[d]
           n == [k EXCEPT !.pc = Verdict(k, k.secret)]
<1>1. /\ k \in Call /\ k.pc = "migrate" /\ Vouched(k.oid, k.robotId, k.secret)
      /\ call \in [Deliveries -> Call] /\ robots \in [Codes -> Doc \union {Null}]
  BY DEF IInv, RegistryTypeOK, CallIsVouched, Migrate, At
<1>2. UNCHANGED <<books, made, admin>>
  BY DEF Migrate
<1>3. call' = [call EXCEPT ![d] = n] /\ call'[d] = n
  BY <1>1 DEF Migrate
<1>4. n \in Call
  <2>1. Verdict(k, k.secret) \in {"401", "banned", "accepted"}
    BY VerdictTyped
  <2> HIDE DEF k
  <2>2. ASSUME NEW pc \in {"401", "banned", "accepted"} PROVE [k EXCEPT !.pc = pc] \in Call
    BY <1>1, Zenon DEF Call
  <2>3. QED
    BY <2>1, <2>2
<1>5. /\ n.pc = Verdict(k, k.secret) /\ n.robotId = k.robotId /\ n.signed = k.signed
      /\ n.oid = k.oid /\ n.secret = k.secret
  BY <1>1 DEF Call
<1>6. k.secret \in Secrets \union {Null} /\ k.oid \in Docs
  BY <1>1 DEF Call, Vouched
<1> HIDE DEF n
<1>7. CallIsVouched(d)'
  BY <1>1, <1>2, <1>3, <1>5, <1>6, VerdictTyped DEF CallIsVouched, Vouched
<1>8. \A e \in Deliveries : CallIsVouched(e)'
  <2>1. ASSUME NEW e \in Deliveries, e # d PROVE CallIsVouched(e)'
    BY <1>1, <1>2, <1>3, <2>1 DEF IInv, CallIsVouched, Vouched
  <2>2. QED
    BY <1>7, <2>1
<1>9. ASSUME NEW c \in Codes
      PROVE  \/ robots'[c] = robots[c]
             \/ /\ c \in Registered /\ robots[c].oid = k.oid
                /\ robots'[c] = [robots[c] EXCEPT !.enc = k.secret, !.plain = Null]
  BY DEF Migrate, SameDoc
<1>10. ASSUME NEW c \in Registered, NEW doc,
              doc = [robots[c] EXCEPT !.enc = k.secret, !.plain = Null]
       PROVE  /\ doc \in Doc
              /\ doc.oid = robots[c].oid /\ doc.robotId = robots[c].robotId
              /\ Effective(doc) = k.secret
  <2>1. robots[c] \in Doc
    BY RegisteredTyped DEF IInv
  <2>2. doc \in Doc
    BY <1>6, <1>10, <2>1, Zenon DEF Doc
  <2>3. doc.enc = k.secret /\ doc.plain = Null
    BY <1>10, <2>1 DEF Doc
  <2>4. doc.oid = robots[c].oid /\ doc.robotId = robots[c].robotId
    BY <1>10, <2>1 DEF Doc
  <2>5. QED
    BY <2>2, <2>3, <2>4 DEF Effective
<1>11. robots' \in [Codes -> Doc \union {Null}]
  <2>1. \A c \in Codes : robots'[c] \in Doc \union {Null}
    BY <1>1, <1>9, <1>10
  <2>2. robots' = [c \in Codes |-> robots'[c]]
    BY <1>1 DEF Migrate
  <2>3. QED
    BY <2>1, <2>2
<1>12. RegistryTypeOK'
  BY <1>2, <1>3, <1>4, <1>11 DEF IInv, RegistryTypeOK
<1>13. DocsAreVouched'
  <2> SUFFICES ASSUME NEW c \in Registered'
               PROVE  /\ robots'[c].oid <= made'
                      /\ Effective(robots'[c]) \in books'[robots'[c].oid].secrets
                      /\ robots'[c].robotId # Null
                           => robots'[c].robotId \in books'[robots'[c].oid].ids
    BY DEF DocsAreVouched, Registered
  <2>1. c \in Codes
    BY DEF Registered
  <2>2. CASE robots'[c] = robots[c]
    <3>1. c \in Registered
      BY <2>2 DEF Registered
    <3>2. QED
      BY <1>2, <2>2, <3>1 DEF IInv, DocsAreVouched
  <2>3. CASE /\ c \in Registered /\ robots[c].oid = k.oid
             /\ robots'[c] = [robots[c] EXCEPT !.enc = k.secret, !.plain = Null]
    BY <1>1, <1>2, <1>10, <2>3 DEF IInv, DocsAreVouched, Vouched
  <2>4. QED
    BY <1>9, <2>1, <2>2, <2>3
<1>14. \A a \in Admins : AdminIsReady(a)'
  BY <1>2 DEF IInv, AdminIsReady
<1>15. QED
  BY <1>8, <1>12, <1>13, <1>14 DEF IInv

\* A look-up that raises ends the call.
LEMMA LookupFailsIInv ==
  ASSUME IInv, NEW d \in Deliveries, LookupFails(d) PROVE IInv'
<1> DEFINE n == [call[d] EXCEPT !.pc = "500"]
<1>1. call \in [Deliveries -> Call] /\ call[d] \in Call
  BY DEF IInv, RegistryTypeOK
<1>2. n \in Call
  BY <1>1, Zenon DEF Call
<1>3. n.pc = "500" /\ call' = [call EXCEPT ![d] = n] /\ call'[d] = n
  BY <1>1 DEF LookupFails, Call
<1> HIDE DEF n
<1>4. CallIsVouched(d)'
  BY <1>3 DEF CallIsVouched
<1>5. UNCHANGED <<robots, books, made, admin>>
  BY DEF LookupFails
<1>6. QED
  BY <1>2, <1>3, <1>4, <1>5, CallStepIInv

-----------------------------------------------------------------------------

(* The theorems.                                                               *)

\* Every step keeps the invariant.
LEMMA NextIInv == IInv /\ [RegistryNext]_registryVars => IInv'
<1> SUFFICES ASSUME IInv, [RegistryNext]_registryVars PROVE IInv'
  OBVIOUS
<1>1. CASE AdminStep
  BY <1>1, CreateLooksIInv, CreateInsertsIInv, UpdateIInv, DeleteIInv DEF AdminStep
<1>2. CASE \E d \in Deliveries : Lookup(d)
  BY <1>2, ResolveIInv, ReadSecretIInv, MigrateIInv, LookupFailsIInv DEF Lookup
<1>3. CASE \E d \in Deliveries, id \in RobotIds \union {TestRobotId}, url \in Codes,
              s \in Secrets, h \in Handlers : Arrive(d, id, url, s, h)
  BY <1>3, ArriveIInv
<1>4. CASE UNCHANGED registryVars
  BY <1>4 DEF registryVars, IInv, RegistryTypeOK, DocsAreVouched, Registered, CallIsVouched,
              Vouched, AdminIsReady
<1>5. QED
  BY <1>1, <1>2, <1>3, <1>4 DEF RegistryNext

\* The invariant holds in every reachable state.
LEMMA Invariance == RegistrySpec => []IInv
BY InitIInv, NextIInv, PTL DEF RegistrySpec

\* The registry and the calls keep their types (deps.py, admin.py).
THEOREM TypeCorrect == RegistrySpec => []RegistryTypeOK
<1>1. IInv => RegistryTypeOK
  BY DEF IInv
<1>2. QED
  BY <1>1, Invariance, PTL

\* Whatever migrations, rotations, deletions and re-creations meet, a robot's
\* document verifies with a secret an administrator gave to it (deps.py 42-74).
THEOREM SecretsStayAtHome == RegistrySpec => []SecretBelongsToDoc
<1>1. IInv => SecretBelongsToDoc
  BY DEF IInv, DocsAreVouched, SecretBelongsToDoc
<1>2. QED
  BY <1>1, Invariance, PTL

\* A message gets past the signature only under a secret of a robot that bore the
\* robotId of the message (yunzhijia.py 30-44, 75-90).
THEOREM SignaturesCount == RegistrySpec => []AcceptedUnderOwnSecret
<1>1. IInv => AcceptedUnderOwnSecret
  BY DEF IInv, CallIsVouched, Vouched, AcceptedUnderOwnSecret
<1>2. QED
  BY <1>1, Invariance, PTL
-----------------------------------------------------------------------------

(* What a rotation of a secret can be lost to.  A document that has no encrypted *)
(* secret has the plain one it started with, and so has every call that is about *)
(* to migrate it; _id being unique, an update that sets a secret sets it in the  *)
(* book of one document only.                                                    *)

\* Document o was stored with the plain secret s, and no other, at the start.
PlainAtStart(o, s) ==
  \E k \in Codes : /\ Initial[k] # Null /\ Initial[k].oid = o
                   /\ Initial[k].enc = Null /\ Initial[k].plain = s

OidsAreUnique ==
  \A c, k \in Registered : robots[c].oid = robots[k].oid => c = k

DocIsCurrent(c) ==
  /\ robots[c].enc = Null => PlainAtStart(robots[c].oid, robots[c].plain)
  /\ \/ Effective(robots[c]) = books[robots[c].oid].latest
     \/ PlainAtStart(robots[c].oid, Effective(robots[c]))

MigratesPlain(d) ==
  call[d].pc = "migrate" => PlainAtStart(call[d].oid, call[d].secret)

LInv ==
  /\ OidsAreUnique
  /\ \A c \in Registered : DocIsCurrent(c)
  /\ \A d \in Deliveries : MigratesPlain(d)

\* The collection the server starts with: every book names its one document's secret.
LEMMA InitLInv == RegistryInit => LInv
<1> SUFFICES ASSUME RegistryInit PROVE LInv
  OBVIOUS
<1>1. OidsAreUnique
  BY RegistryAssumption DEF RegistryInit, OidsAreUnique, Registered
<1>2. ASSUME NEW c \in Registered PROVE DocIsCurrent(c)
  <2> DEFINE o == Initial[c].oid
             held == {k \in Codes : Initial[k] # Null /\ Initial[k].oid = o}
  <2>1. c \in Codes /\ robots[c] = Initial[c] /\ Initial[c] # Null /\ Initial[c] \in Doc
    BY RegistryAssumption DEF RegistryInit, Registered
  <2>2. o \in Docs
    BY <2>1 DEF Doc
  <2>3. held = {c}
    BY <2>1, RegistryAssumption
  <2>4. (CHOOSE k \in held : TRUE) = c
    BY <2>3
  <2>5. books[o] = BookOf(o)
    BY <2>2 DEF RegistryInit
  <2>6. BookOf(o).latest = Effective(Initial[c])
    BY <2>3, <2>4 DEF BookOf
  <2>7. Effective(robots[c]) = books[robots[c].oid].latest
    BY <2>1, <2>5, <2>6
  <2>8. robots[c].enc = Null => PlainAtStart(robots[c].oid, robots[c].plain)
    BY <2>1 DEF PlainAtStart
  <2>9. QED
    BY <2>7, <2>8 DEF DocIsCurrent
<1>3. \A d \in Deliveries : MigratesPlain(d)
  BY DEF RegistryInit, NoCall, MigratesPlain
<1>4. QED
  BY <1>1, <1>2, <1>3 DEF LInv

\* A step that leaves the documents and their books alone keeps them current.
LEMMA CurrentStays ==
  ASSUME LInv, UNCHANGED <<robots, books>>, \A d \in Deliveries : MigratesPlain(d)'
  PROVE  LInv'
<1>1. OidsAreUnique'
  BY DEF LInv, OidsAreUnique, Registered
<1>2. \A c \in Registered' : DocIsCurrent(c)'
  BY DEF LInv, DocIsCurrent, Registered
<1>3. QED
  BY <1>1, <1>2 DEF LInv

\* create_robot gives the new document an _id of its own and an encrypted secret.
LEMMA CreateInsertsLInv ==
  ASSUME IInv, LInv, NEW a \in Admins, CreateInserts(a) PROVE LInv'
<1> DEFINE r == admin[a]
<1>1. /\ r.code \in Codes /\ r.secret \in Secrets /\ made \in Nat /\ MaxDocs \in Nat
      /\ robots \in [Codes -> Doc \union {Null}] /\ books \in [Docs -> Book]
  BY RegistryAssumption DEF CreateInserts, IInv, AdminIsReady, RegistryTypeOK
<1>2. \A d \in Deliveries : MigratesPlain(d)'
  BY DEF CreateInserts, LInv, MigratesPlain
<1>3. CASE UNCHANGED <<robots, books>>
  BY <1>2, <1>3, CurrentStays
<1>4. CASE ~ UNCHANGED <<robots, books>>
  <2>1. PICK sid \in Stores \union {Null} :
          /\ made < MaxDocs
          /\ robots' = [robots EXCEPT ![r.code] =
                          [oid |-> made + 1, robotId |-> r.robotId, enc |-> r.secret,
                           plain |-> Null, allow |-> r.allow, sid |-> sid]]
          /\ books' = [books EXCEPT ![made + 1] =
               [ids |-> {r.robotId} \ {Null}, secrets |-> {r.secret}, latest |-> r.secret]]
    BY <1>4 DEF CreateInserts
  <2>2. made + 1 \in Docs
    BY <1>1, <2>1 DEF Docs
  <2>3. /\ robots'[r.code].oid = made + 1 /\ robots'[r.code].enc = r.secret
        /\ books'[made + 1].latest = r.secret
    BY <1>1, <2>1, <2>2
  <2>4. ASSUME NEW c \in Registered', c # r.code
        PROVE  /\ c \in Registered /\ robots'[c] = robots[c] /\ robots[c].oid \in Docs
               /\ robots[c].oid # made + 1 /\ books'[robots[c].oid] = books[robots[c].oid]
    <3>1. c \in Registered /\ robots'[c] = robots[c]
      BY <1>1, <2>1, <2>4 DEF Registered
    <3>2. robots[c].oid \in Docs /\ robots[c].oid <= made
      BY <3>1, RegisteredTyped DEF IInv, DocsAreVouched, Doc
    <3>3. robots[c].oid # made + 1
      BY <1>1, <3>2, RegistryAssumption DEF Docs
    <3>4. QED
      BY <1>1, <2>1, <3>1, <3>2, <3>3
  <2>5. OidsAreUnique'
    BY <2>3, <2>4 DEF LInv, OidsAreUnique
  <2>6. ASSUME NEW c \in Registered' PROVE DocIsCurrent(c)'
    <3>1. CASE c = r.code
      BY <1>1, <2>3, <3>1, RegistryAssumption DEF DocIsCurrent, Effective
    <3>2. CASE c # r.code
      BY <2>4, <3>2 DEF LInv, DocIsCurrent
    <3>3. QED
      BY <3>1, <3>2
  <2>7. QED
    BY <1>2, <2>5, <2>6 DEF LInv
<1>5. QED
  BY <1>3, <1>4

\* update_robot tells the book of its own document what it writes there.
LEMMA UpdateLInv ==
  ASSUME IInv, LInv, NEW a \in Admins, Update(a) PROVE LInv'
<1>1. PICK c \in Codes, id \in RobotIds \union {Null}, s \in Secrets \union {Null},
           w \in Whitelists \union {Null}, sid \in Stores \union {Null} :
        LET told == c \in Registered /\ (id = Null \/ IdIsFree(c, id)) IN
        /\ IF told
           THEN LET doc == robots[c] IN
                /\ robots' = [robots EXCEPT ![c] =
                     [doc EXCEPT !.robotId = IF id = Null THEN @ ELSE id,
                                 !.enc = IF s = Null THEN @ ELSE s,
                                 !.allow = IF w = Null THEN @ ELSE w, !.sid = sid]]
                /\ books' = [books EXCEPT ![doc.oid] =
                     [ids |-> @.ids \union ({id} \ {Null}),
                      secrets |-> @.secrets \union ({s} \ {Null}),
                      latest |-> IF s = Null THEN @.latest ELSE s]]
           ELSE UNCHANGED <<robots, books>>
        /\ Reply(a, IF told THEN "200" ELSE IF c \in Registered THEN "500" ELSE "404")
  BY DEF Update
<1>2. \A d \in Deliveries : MigratesPlain(d)'
  BY DEF Update, LInv, MigratesPlain
<1>3. CASE UNCHANGED <<robots, books>>
  BY <1>2, <1>3, CurrentStays
<1>4. CASE ~ UNCHANGED <<robots, books>>
  <2> DEFINE doc == robots[c]
             new == [doc EXCEPT !.robotId = IF id = Null THEN @ ELSE id,
                                !.enc = IF s = Null THEN @ ELSE s,
                                !.allow = IF w = Null THEN @ ELSE w, !.sid = sid]
             book == books[doc.oid]
             page == [ids |-> book.ids \union ({id} \ {Null}),
                      secrets |-> book.secrets \union ({s} \ {Null}),
                      latest |-> IF s = Null THEN book.latest ELSE s]
  <2>1. /\ c \in Registered
        /\ robots' = [robots EXCEPT ![c] = new] /\ books' = [books EXCEPT ![doc.oid] = page]
    BY <1>1, <1>4
  <2>2. /\ robots \in [Codes -> Doc \union {Null}] /\ books \in [Docs -> Book]
        /\ doc \in Doc /\ doc.oid \in Docs
    BY <2>1, RegisteredTyped DEF IInv, RegistryTypeOK, Doc
  <2>3. /\ new.oid = doc.oid /\ new.plain = doc.plain
        /\ new.enc = IF s = Null THEN doc.enc ELSE s
    BY <2>2 DEF Doc
  <2>4. robots'[c] = new /\ books'[doc.oid] = page
    BY <2>1, <2>2
  <2>5. ASSUME NEW k \in Registered', k # c
        PROVE  k \in Registered /\ robots'[k] = robots[k]
    BY <2>1, <2>2, <2>5 DEF Registered
  <2>6. ASSUME NEW k \in Registered', k # c
        PROVE  robots[k].oid # doc.oid /\ books'[robots[k].oid] = books[robots[k].oid]
    <3>1. k \in Registered /\ robots[k].oid \in Docs
      BY <2>5, <2>6, RegisteredTyped DEF IInv, Doc
    <3>2. robots[k].oid # doc.oid
      BY <2>1, <2>6, <3>1 DEF LInv, OidsAreUnique
    <3>3. QED
      BY <2>1, <2>2, <3>1, <3>2
  <2>7. OidsAreUnique'
    BY <2>1, <2>3, <2>4, <2>5, <2>6 DEF LInv, OidsAreUnique
  <2>8. ASSUME NEW k \in Registered' PROVE DocIsCurrent(k)'
    <3>1. CASE k = c
      <4>1. DocIsCurrent(c)
        BY <2>1 DEF LInv
      <4>2. page.latest = IF s = Null THEN book.latest ELSE s
        OBVIOUS
      <4>3. CASE s = Null
        <5>1. Effective(new) = Effective(doc)
          BY <2>3, <4>3 DEF Effective
        <5>2. QED
          BY <2>3, <2>4, <3>1, <4>1, <4>2, <4>3, <5>1 DEF DocIsCurrent
      <4>4. CASE s # Null
        BY <2>3, <2>4, <3>1, <4>2, <4>4 DEF DocIsCurrent, Effective
      <4>5. QED
        BY <4>3, <4>4
    <3>2. CASE k # c
      BY <2>5, <2>6, <3>2 DEF LInv, DocIsCurrent
    <3>3. QED
      BY <3>1, <3>2
  <2>9. QED
    BY <1>2, <2>7, <2>8 DEF LInv
<1>5. QED
  BY <1>3, <1>4

\* A deletion takes a document and leaves the others as they are.
LEMMA DeleteLInv ==
  ASSUME IInv, LInv, NEW a \in Admins, Delete(a) PROVE LInv'
<1>1. PICK c \in Codes : robots' = [robots EXCEPT ![c] = Null]
  BY DEF Delete
<1>2. robots \in [Codes -> Doc \union {Null}]
  BY DEF IInv, RegistryTypeOK
<1>3. \A k \in Registered' : k \in Registered /\ robots'[k] = robots[k]
  BY <1>1, <1>2 DEF Registered
<1>4. UNCHANGED <<books, call>>
  BY DEF Delete
<1>5. QED
  BY <1>3, <1>4 DEF LInv, OidsAreUnique, DocIsCurrent, MigratesPlain

\* A look-up that changes no document migrates, next, a secret it has just read.
LEMMA LookupLInv ==
  ASSUME IInv, LInv, NEW d \in Deliveries, UNCHANGED <<robots, books>>,
         NEW k, call' = [call EXCEPT ![d] = k],
         k.pc = "migrate" => PlainAtStart(k.oid, k.secret)
  PROVE  LInv'
<1>1. call \in [Deliveries -> Call]
  BY DEF IInv, RegistryTypeOK
<1>2. ASSUME NEW e \in Deliveries PROVE MigratesPlain(e)'
  BY <1>1 DEF LInv, MigratesPlain
<1>3. QED
  BY <1>2, CurrentStays

\* get_robot_secret: a document that is to be migrated has its first secret.
LEMMA ReadSecretLInv ==
  ASSUME IInv, LInv, NEW d \in Deliveries, ReadSecret(d) PROVE LInv'
<1> DEFINE k == call[d]
<1>1. k \in Call /\ UNCHANGED <<robots, books>>
  BY DEF ReadSecret, IInv, RegistryTypeOK
<1>2. CASE call' = [call EXCEPT ![d].pc = "401"]
  <2> DEFINE n == [k EXCEPT !.pc = "401"]
  <2>1. call' = [call EXCEPT ![d] = n] /\ n.pc = "401"
    BY <1>1, <1>2 DEF Call
  <2> HIDE DEF n
  <2>2. QED
    BY <1>1, <2>1, LookupLInv
<1>3. CASE \E c \in Holder(k.robotId) :
             LET doc == robots[c] IN
             call' = [call EXCEPT ![d] =
                        [k EXCEPT !.oid = doc.oid, !.secret = Effective(doc),
                                  !.pc = IF doc.enc # Null THEN Verdict(k, doc.enc)
                                         ELSE IF doc.plain # Null THEN "migrate" ELSE "500"]]
  <2>1. PICK c \in Holder(k.robotId) :
          LET doc == robots[c] IN
          call' = [call EXCEPT ![d] =
                     [k EXCEPT !.oid = doc.oid, !.secret = Effective(doc),
                               !.pc = IF doc.enc # Null THEN Verdict(k, doc.enc)
                                      ELSE IF doc.plain # Null THEN "migrate" ELSE "500"]]
    BY <1>3
  <2> DEFINE doc == robots[c]
             pc == IF doc.enc # Null THEN Verdict(k, doc.enc)
                   ELSE IF doc.plain # Null THEN "migrate" ELSE "500"
             n == [k EXCEPT !.oid = doc.oid, !.secret = Effective(doc), !.pc = pc]
  <2>2. n.pc = pc /\ n.oid = doc.oid /\ n.secret = Effective(doc)
    BY <1>1 DEF Call
  <2>3. pc = "migrate" => doc.enc = Null
    BY VerdictTyped
  <2>4. c \in Registered
    BY <2>1 DEF Holder
  <2>5. n.pc = "migrate" => PlainAtStart(n.oid, n.secret)
    BY <2>2, <2>3, <2>4 DEF LInv, DocIsCurrent, Effective
  <2>6. call' = [call EXCEPT ![d] = n]
    BY <2>1
  <2> HIDE DEF n
  <2>7. QED
    BY <1>1, <2>5, <2>6, LookupLInv
<1>4. QED
  BY <1>2, <1>3 DEF ReadSecret, SecretDocs

\* The migration sets the secret the document started with, whatever it was since.
LEMMA MigrateLInv ==
  ASSUME IInv, LInv, NEW d \in Deliveries, Migrate(d) PROVE LInv'
<1> DEFINE k == call[d]
           n == [k EXCEPT !.pc = Verdict(k, k.secret)]
<1>1. /\ k \in Call /\ k.pc = "migrate" /\ Vouched(k.oid, k.robotId, k.secret)
      /\ call \in [Deliveries -> Call] /\ books \in [Docs -> Book]
      /\ PlainAtStart(k.oid, k.secret)
  BY DEF IInv, LInv, RegistryTypeOK, CallIsVouched, MigratesPlain, Migrate, At
<1>2. k.secret \in Secrets
  BY <1>1 DEF Vouched, Book
<1>3. UNCHANGED books
  BY DEF Migrate
<1>4. \A e \in Deliveries : MigratesPlain(e)'
  <2>1. call' = [call EXCEPT ![d] = n] /\ n.pc = Verdict(k, k.secret)
    BY <1>1 DEF Migrate, Call
  <2>2. n.pc # "migrate"
    BY <2>1, VerdictTyped
  <2> HIDE DEF n
  <2>3. QED
    BY <1>1, <2>1, <2>2 DEF LInv, MigratesPlain
<1>5. ASSUME NEW c \in Registered'
      PROVE  /\ c \in Registered /\ robots'[c].oid = robots[c].oid
             /\ \/ robots'[c] = robots[c]
                \/ robots[c].oid = k.oid /\ robots'[c].enc = k.secret
  <2>1. c \in Codes
    BY DEF Registered
  <2>2. CASE robots'[c] = robots[c]
    BY <2>1, <2>2 DEF Registered
  <2>3. CASE robots'[c] # robots[c]
    <3>1. /\ c \in SameDoc(d)
          /\ robots'[c] = [robots[c] EXCEPT !.enc = k.secret, !.plain = Null]
      BY <2>1, <2>3 DEF Migrate
    <3>2. c \in Registered /\ robots[c].oid = k.oid /\ robots[c] \in Doc
      BY <3>1, RegisteredTyped DEF SameDoc, IInv
    <3>3. robots'[c].oid = robots[c].oid /\ robots'[c].enc = k.secret
      BY <3>1, <3>2 DEF Doc
    <3>4. QED
      BY <3>2, <3>3
  <2>4. QED
    BY <2>2, <2>3
<1>6. OidsAreUnique'
  BY <1>5 DEF LInv, OidsAreUnique
<1>7. ASSUME NEW c \in Registered' PROVE DocIsCurrent(c)'
  <2>1. CASE robots'[c] = robots[c]
    BY <1>3, <1>5, <2>1 DEF LInv, DocIsCurrent
  <2>2. CASE robots[c].oid = k.oid /\ robots'[c].enc = k.secret
    BY <1>1, <1>2, <1>5, <2>2, RegistryAssumption DEF DocIsCurrent, Effective
  <2>3. QED
    BY <1>5, <2>1, <2>2
<1>8. QED
  BY <1>4, <1>6, <1>7 DEF LInv

\* Every step keeps the invariant.
LEMMA NextLInv == IInv /\ LInv /\ [RegistryNext]_registryVars => LInv'
<1> SUFFICES ASSUME IInv, LInv, [RegistryNext]_registryVars PROVE LInv'
  OBVIOUS
<1> USE DEF IInv, RegistryTypeOK
<1>1. CASE AdminStep
  <2>1. ASSUME NEW a \in Admins, CreateLooks(a) PROVE LInv'
    BY <2>1, CurrentStays DEF CreateLooks, LInv, MigratesPlain
  <2>2. QED
    BY <1>1, <2>1, CreateInsertsLInv, UpdateLInv, DeleteLInv DEF AdminStep
<1>2. CASE \E d \in Deliveries : Lookup(d)
  <2>1. ASSUME NEW d \in Deliveries, Resolve(d) \/ LookupFails(d) PROVE LInv'
    <3>1. call \in [Deliveries -> Call] /\ UNCHANGED <<robots, books>>
      BY <2>1 DEF Resolve, LookupFails
    <3>2. \A e \in Deliveries : e # d => call'[e] = call[e]
      BY <2>1, <3>1 DEF Resolve, LookupFails
    <3>3. call'[d].pc # "migrate"
      <4>1. CASE Resolve(d)
        BY <3>1, <4>1 DEF Resolve, Call
      <4>2. CASE LookupFails(d)
        BY <3>1, <4>2 DEF LookupFails, Call
      <4>3. QED
        BY <2>1, <4>1, <4>2
    <3>4. \A e \in Deliveries : MigratesPlain(e)'
      BY <3>2, <3>3 DEF LInv, MigratesPlain
    <3>5. QED
      BY <3>1, <3>4, CurrentStays
  <2>2. QED
    BY <1>2, <2>1, ReadSecretLInv, MigrateLInv DEF Lookup
<1>3. CASE \E d \in Deliveries, id \in RobotIds \union {TestRobotId}, url \in Codes,
              s \in Secrets, h \in Handlers : Arrive(d, id, url, s, h)
  <2>1. PICK d \in Deliveries, id \in RobotIds \union {TestRobotId}, url \in Codes,
             s \in Secrets, h \in Handlers : Arrive(d, id, url, s, h)
    BY <1>3
  <2>2. UNCHANGED <<robots, books>> /\ call'[d].pc \in {"test", "resolve"}
    BY <2>1 DEF Arrive, NoCall
  <2>3. \A e \in Deliveries : e # d => call'[e] = call[e]
    BY <2>1 DEF Arrive
  <2>4. \A e \in Deliveries : MigratesPlain(e)'
    BY <2>2, <2>3 DEF LInv, MigratesPlain
  <2>5. QED
    BY <2>2, <2>4, CurrentStays
<1>4. CASE UNCHANGED registryVars
  BY <1>4, CurrentStays DEF registryVars, LInv, MigratesPlain
<1>5. QED
  BY <1>1, <1>2, <1>3, <1>4 DEF RegistryNext

\* A document is current in every reachable state, or fell back to its first secret.
LEMMA LInvariance == RegistrySpec => []LInv
BY InitLInv, NextLInv, Invariance, PTL DEF RegistrySpec

\* A secret an administrator sets is lost, if at all, to the one its own document
\* was stored with before secrets were encrypted (deps.py 42-74, admin.py 73-92).
THEOREM RotationsAreLostToThePlainSecret == RegistrySpec => []RotationLostOnlyToPlain
<1>1. LInv => RotationLostOnlyToPlain
  BY DEF LInv, DocIsCurrent, PlainAtStart, RotationLostOnlyToPlain
<1>2. QED
  BY <1>1, LInvariance, PTL

\* "appSecret is encrypted anew if given" (admin.py 75) is true of a collection that
\* starts without a plain secret: the migration is the only thing in its way.
THEOREM RotationsStickWithoutPlainSecrets ==
  ASSUME \A c \in Codes : Initial[c] # Null => Initial[c].enc # Null
  PROVE  RegistrySpec => []LatestSecretCounts
<1>1. LInv => LatestSecretCounts
  BY DEF LInv, DocIsCurrent, PlainAtStart, LatestSecretCounts
<1>2. QED
  BY <1>1, LInvariance, PTL
=============================================================================
