--------------------------- MODULE RobotRegistry ----------------------------
(* The robots collection of the server: the admin calls that write it         *)
(* (server/app/api/admin.py) and the look-ups of a webhook call, one of which  *)
(* writes it too: a robot that still has a plain appSecret is migrated to an   *)
(* encrypted one by the first message that reads it (server/app/core/deps.py). *)
(* Calls are coroutines of several workers, each step ends in an await of      *)
(* MongoDB, and MongoDB applies one write at a time.                           *)
EXTENDS Naturals

CONSTANTS
  Codes,        \* robot_code, the key of the admin calls and of the URL
  RobotIds,     \* robotId, what Yunzhijia knows a robot by
  TestRobotId,  \* the robotId of Yunzhijia's connection test
  Secrets,      \* appSecret
  Handlers,     \* the names of the handlers
  Whitelists,   \* values of allowed_handlers; the empty one allows everything
  Stores,       \* sid, the store a robot issues passes for; an empty one is none
  Null,         \* no value
  Admins,       \* admin calls
  Deliveries,   \* webhook calls
  Initial,      \* the robots collection at the start
  MaxDocs       \* bound: documents ever inserted

VARIABLES
  robots,  \* robots[c]: the document with robot_code c, or Null
  books,   \* books[o]: what document o was ever told by an administrator
  made,    \* how many documents there have been; a document's _id is its number
  admin,   \* admin[a]: an admin call
  call     \* call[d]: a webhook call

registryVars == <<robots, books, made, admin, call>>

Docs == 1..MaxDocs

Doc == [oid : Docs, robotId : RobotIds \union {Null}, enc : Secrets \union {Null},
        plain : Secrets \union {Null}, allow : Whitelists, sid : Stores \union {Null}]

\* The robotIds and secrets a document was given, and the last secret.
Book == [ids : SUBSET RobotIds, secrets : SUBSET Secrets, latest : Secrets \union {Null}]

AdminCall == [pc : {"ready", "insert", "200", "404", "409", "500"},
              code : Codes \union {Null}, robotId : RobotIds \union {Null},
              secret : Secrets \union {Null}, allow : Whitelists]

\* signed is the secret Yunzhijia signed the message with, oid the document the
\* secret is read from.
Call == [pc : {"idle", "resolve", "secret", "migrate", "test", "accepted", "banned",
               "401", "500"},
         robotId : RobotIds \union {TestRobotId, Null}, url : Codes \union {Null},
         signed : Secrets \union {Null}, handler : Handlers \union {Null},
         code : Codes \union {Null}, allow : Whitelists,
         oid : Docs \union {0}, secret : Secrets \union {Null}]

NoCall == [pc |-> "idle", robotId |-> Null, url |-> Null, signed |-> Null, handler |-> Null,
           code |-> Null, allow |-> {}, oid |-> 0, secret |-> Null]

\* The secret a document verifies messages with (deps.py 47-76).
Effective(doc) == IF doc.enc # Null THEN doc.enc ELSE doc.plain

Registered == {c \in Codes : robots[c] # Null}

ASSUME RegistryAssumption ==
  /\ MaxDocs \in Nat
  /\ {} \in Whitelists /\ Whitelists \subseteq SUBSET Handlers
  /\ Null \notin Codes \union RobotIds \union Secrets \union Handlers \union Stores
  /\ TestRobotId \notin RobotIds \union {Null}
  /\ Initial \in [Codes -> Doc \union {Null}]
  /\ \A c \in Codes : Initial[c] # Null => Effective(Initial[c]) # Null
  /\ \A c, k \in Codes :
       Initial[c] # Null /\ Initial[k] # Null /\ Initial[c].oid = Initial[k].oid => c = k

BookOf(o) ==
  LET held == {c \in Codes : Initial[c] # Null /\ Initial[c].oid = o} IN
  [ids |-> {Initial[c].robotId : c \in held} \ {Null},
   secrets |-> {Effective(Initial[c]) : c \in held},
   latest |-> IF held = {} THEN Null ELSE Effective(Initial[CHOOSE c \in held : TRUE])]

RegistryInit ==
  /\ robots = Initial
  /\ books = [o \in Docs |-> BookOf(o)]
  /\ \E n \in 0..MaxDocs :
       /\ made = n
       /\ \A o \in Docs : o <= n <=> \E c \in Codes : Initial[c] # Null /\ Initial[c].oid = o
  /\ admin = [a \in Admins |-> [pc |-> "ready", code |-> Null, robotId |-> Null,
                                secret |-> Null, allow |-> {}]]
  /\ call = [d \in Deliveries |-> NoCall]

-----------------------------------------------------------------------------

(* Admin calls.                                                                *)

Reply(a, status) == admin' = [admin EXCEPT ![a].pc = status]

\* The unique index on robotId (db/indexes.py 57) is sparse, which leaves out a
\* document without the field; a robot that has no robotId yet is stored with a
\* null in it (models/robot.py 13), and a null counts like any other value.
IdIsFree(c, id) == \A k \in Registered \ {c} : robots[k].robotId # id

\* create_robot looks for the code before it inserts.
CreateLooks(a) ==
  /\ admin[a].pc = "ready"
  /\ \E c \in Codes, id \in RobotIds \union {Null}, s \in Secrets, w \in Whitelists :
       admin' = [admin EXCEPT ![a] =
                   [pc |-> IF c \in Registered THEN "409" ELSE "insert",
                    code |-> c, robotId |-> id, secret |-> s, allow |-> w]]
  /\ UNCHANGED <<robots, books, made, call>>

\* The insert after the look: a document that has appeared since, or another with
\* the same robotId, is a duplicate key, which nobody catches.
CreateInserts(a) ==
  LET r == admin[a] IN
  /\ r.pc = "insert"
  /\ \/ /\ r.code \notin Registered /\ IdIsFree(r.code, r.robotId) /\ made < MaxDocs
        /\ made' = made + 1
        /\ \E sid \in Stores \union {Null} :
             robots' = [robots EXCEPT ![r.code] =
                          [oid |-> made + 1, robotId |-> r.robotId, enc |-> r.secret,
                           plain |-> Null, allow |-> r.allow, sid |-> sid]]
        /\ books' = [books EXCEPT ![made + 1] =
                       [ids |-> {r.robotId} \ {Null}, secrets |-> {r.secret}, latest |-> r.secret]]
        /\ Reply(a, "200")
     \/ /\ r.code \in Registered \/ ~IdIsFree(r.code, r.robotId)
        /\ Reply(a, "500")
        /\ UNCHANGED <<robots, books, made>>
  /\ UNCHANGED call

\* update_robot writes the fields it is given in one find_one_and_update, the sid
\* among them or not.  A new appSecret is stored encrypted, beside a plain one if
\* there is one.
Update(a) ==
  /\ admin[a].pc = "ready"
  /\ \E c \in Codes, id \in RobotIds \union {Null}, s \in Secrets \union {Null},
        w \in Whitelists \union {Null}, sid \in Stores \union {Null} :
       LET told == c \in Registered /\ (id = Null \/ IdIsFree(c, id)) IN
       /\ IF told
          THEN LET doc == robots[c] IN
               /\ robots' = [robots EXCEPT ![c] =
                    [doc EXCEPT !.robotId = IF id = Null THEN @ ELSE id,
                                !.enc = IF s = Null THEN @ ELSE s,
                                !.allow = IF w = Null THEN @ ELSE w, !.sid = sid]]
               /\ books' = [books EXCEPT ![doc.oid] =
                    [ids |-> @.ids \union ({id} \ {Null}),
                     secrets |-> @.secrets \union ({s} \ {Null}),
                     latest |-> IF s = Null THEN @.latest ELSE s]]
          ELSE UNCHANGED <<robots, books>>
       /\ Reply(a, IF told THEN "200" ELSE IF c \in Registered THEN "500" ELSE "404")
  /\ UNCHANGED <<made, call>>

Delete(a) ==
  /\ admin[a].pc = "ready"
  /\ \E c \in Codes :
       /\ robots' = [robots EXCEPT ![c] = Null]
       /\ Reply(a, IF c \in Registered THEN "200" ELSE "404")
  /\ UNCHANGED <<books, made, call>>

-----------------------------------------------------------------------------

(* The look-ups of a webhook call.                                             *)

At(d, pc) == call[d].pc = pc

\* A message arrives.  The test robot needs no look-up, and its message is neither
\* verified nor handled.
Arrive(d, id, url, s, h) ==
  /\ At(d, "idle")
  /\ call' = [call EXCEPT ![d] =
       [NoCall EXCEPT !.pc = IF id = TestRobotId THEN "test" ELSE "resolve", !.robotId = id,
                      !.url = url, !.signed = s, !.handler = h,
                      !.code = IF id = TestRobotId THEN url ELSE Null]]
  /\ UNCHANGED <<robots, books, made, admin>>

Holder(id) == {c \in Registered : robots[c].robotId = id}

\* _resolve_robot_code: the code and whitelist of the robot, or the code of the
\* URL and no whitelist.
Resolve(d) ==
  LET k == call[d]
      held == Holder(k.robotId) IN
  /\ At(d, "resolve")
  /\ \/ \E c \in held :
          call' = [call EXCEPT ![d] =
                     [k EXCEPT !.pc = "secret", !.code = c, !.allow = robots[c].allow]]
     \/ /\ held = {}
        /\ call' = [call EXCEPT ![d] = [k EXCEPT !.pc = "secret", !.code = k.url]]
  /\ UNCHANGED <<robots, books, made, admin>>

\* Mutant: A wrong signature is answered with another status.
VerdictForbidden(k, secret) ==
  IF k.signed # secret THEN "403"
  ELSE IF k.allow # {} /\ k.handler \notin k.allow THEN "banned" ELSE "accepted"

\* verify_sign and the whitelist, which no await separates from the secret.
Verdict(k, secret) ==
  IF k.signed # secret THEN "401"
  ELSE IF k.allow # {} /\ k.handler \notin k.allow THEN "banned" ELSE "accepted"

\* Mutant: The robot is looked up by the code that was resolved.
SecretDocsByCode(d) == {call[d].code} \intersect Registered

\* The documents get_robot_secret finds the secret in.
SecretDocs(d) == Holder(call[d].robotId)

\* get_robot_secret reads the robot again.  An encrypted secret is used at once, a
\* plain one after it has been migrated.
ReadSecret(d) ==
  LET k == call[d]
      held == SecretDocs(d) IN
  /\ At(d, "secret")
  /\ \/ /\ held = {}
        /\ call' = [call EXCEPT ![d].pc = "401"]
     \/ \E c \in held :
          LET doc == robots[c] IN
          call' = [call EXCEPT ![d] =
                     [k EXCEPT !.oid = doc.oid, !.secret = Effective(doc),
                               !.pc = IF doc.enc # Null THEN Verdict(k, doc.enc)
                                      ELSE IF doc.plain # Null THEN "migrate" ELSE "500"]]
  /\ UNCHANGED <<robots, books, made, admin>>

\* Mutant: The migration finds its document by robotId.
SameDocByRobotId(d) == Holder(call[d].robotId)

\* The document update_one finds by its _id, if there still is one.
SameDoc(d) == {c \in Registered : robots[c].oid = call[d].oid}

\* The migration writes the secret that was read, encrypted, and unsets the plain
\* one.  If it fails the call goes on with the plain secret all the same.
Migrate(d) ==
  LET k == call[d] IN
  /\ At(d, "migrate")
  /\ \/ robots' = [c \in Codes |->
                     IF c \in SameDoc(d)
                     THEN [robots[c] EXCEPT !.enc = k.secret, !.plain = Null] ELSE robots[c]]
     \/ UNCHANGED robots
  /\ call' = [call EXCEPT ![d].pc = Verdict(k, k.secret)]
  /\ UNCHANGED <<books, made, admin>>

\* A look-up that raises ends the call; a worker that dies ends it too.
LookupFails(d) ==
  /\ call[d].pc \in {"resolve", "secret"}
  /\ call' = [call EXCEPT ![d].pc = "500"]
  /\ UNCHANGED <<robots, books, made, admin>>

AdminStep == \E a \in Admins : CreateLooks(a) \/ CreateInserts(a) \/ Update(a) \/ Delete(a)

Lookup(d) == Resolve(d) \/ ReadSecret(d) \/ Migrate(d) \/ LookupFails(d)

RegistryNext ==
  \/ AdminStep
  \/ \E d \in Deliveries : Lookup(d)
  \/ \E d \in Deliveries, id \in RobotIds \union {TestRobotId}, url \in Codes, s \in Secrets,
        h \in Handlers : Arrive(d, id, url, s, h)

RegistrySpec == RegistryInit /\ [][RegistryNext]_registryVars

-----------------------------------------------------------------------------

RegistryTypeOK ==
  /\ robots \in [Codes -> Doc \union {Null}]
  /\ books \in [Docs -> Book]
  /\ made \in 0..MaxDocs
  /\ admin \in [Admins -> AdminCall]
  /\ call \in [Deliveries -> Call]

\* Whatever migrations, rotations, deletions and re-creations meet, a robot's
\* document verifies with a secret an administrator gave to that very document,
\* and is never left without one (deps.py 42-74, admin.py 37-101).
SecretBelongsToDoc ==
  \A c \in Registered : Effective(robots[c]) \in books[robots[c].oid].secrets

\* A message gets past the signature only under a secret of a robot that bore the
\* robotId of the message, whatever code the URL names and whoever changes the
\* registry between the two look-ups (yunzhijia.py 30-44, 75-90).
AcceptedUnderOwnSecret ==
  \A d \in Deliveries : call[d].pc \in {"accepted", "banned"} =>
    \E o \in Docs : call[d].robotId \in books[o].ids /\ call[d].signed \in books[o].secrets

\* "appSecret is encrypted anew if given" (admin.py 75): the secret a robot is
\* verified with is the last one an administrator gave it.
LatestSecretCounts ==
  \A c \in Registered : Effective(robots[c]) = books[robots[c].oid].latest

\* A secret an administrator sets is lost, if at all, to the very secret its document
\* was stored with before secrets were encrypted: no other robot's, and none that
\* was set later (deps.py 42-74, admin.py 73-92).
RotationLostOnlyToPlain ==
  \A c \in Registered :
    \/ Effective(robots[c]) = books[robots[c].oid].latest
    \/ \E k \in Codes : /\ Initial[k] # Null /\ Initial[k].oid = robots[c].oid
                       /\ Initial[k].enc = Null /\ Initial[k].plain = Effective(robots[c])
=============================================================================
