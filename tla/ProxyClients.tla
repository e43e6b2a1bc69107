---------------------------- MODULE ProxyClients ----------------------------
(* The proxy_clients collection: the systems that may call the gateway, and   *)
(* the admin calls that write it (proxy-server/app/admin.py 38-130).          *)
(*                                                                            *)
(* A creation looks for the api_key, looks for the client_id, and inserts:    *)
(* three awaits, between which other calls run.  That no two clients share    *)
(* either is for two unique indexes to see to, and those are not the proxy's: *)
(* the other server builds them when it starts (server/app/db/indexes.py      *)
(* 60-61), and gives up on one, with a line in the log, if there already are  *)
(* duplicates.                                                                *)
(*                                                                            *)
(* client_name and callback_url are left out: CallbackForwarding has what     *)
(* becomes of callbacks.                                                      *)
EXTENDS Naturals, Sequences

CONSTANTS
  Names,        \* client_id, which a creation takes from client_name
  Keys,         \* api_key
  Secrets,      \* api_secret
  Limits,       \* values of rate_limit
  DefaultLimit, \* settings.proxy_rate_limit_default
  Scopes,       \* values of allowed_endpoints; the empty one allows everything
  Null,         \* no value
  Admins,       \* admin calls
  Initial,      \* the clients there are at the start, by number
  MaxClients    \* bound: documents ever inserted

VARIABLES
  clients, \* clients[o]: document o, or Null when it is not there
  made,    \* how many documents there have been; the next one is made + 1
  indexed, \* the fields that have a unique index
  granted, \* granted[n]: the limits client n was ever given, as they are applied
  admin    \* admin[a]: an admin call

clientVars == <<clients, made, indexed, granted, admin>>

Docs == 1..MaxClients

Client == [id : Names, key : Keys, secret : Secrets, limit : Limits, scope : Scopes,
           status : {"active", "disabled"}]

AdminCall == [pc : {"ready", "name", "insert", "answered"},
              new : Client \union {Null}]

Stored == {o \in Docs : clients[o] # Null}

Held(n) == {o \in Stored : clients[o].id = n}
WithKey(k) == {o \in Stored : clients[o].key = k}

\* Mutant: without a limit of its own a client is counted against nothing.
AppliedNone(limit) == IF limit = 0 THEN Null ELSE limit

\* rate_limit or the default: a limit of 0 counts as none given (middleware.py 51).
Applied(limit) == IF limit = 0 THEN DefaultLimit ELSE limit

ASSUME ClientsAssumption ==
  /\ MaxClients \in Nat /\ Limits \subseteq Nat /\ DefaultLimit \in Nat \ {0}
  /\ Null \notin Names \union Keys \union Secrets /\ Null \notin Client
  /\ Initial \in Seq(Client) /\ Len(Initial) <= MaxClients
  /\ \A o, p \in 1..Len(Initial) :
       Initial[o].id = Initial[p].id \/ Initial[o].key = Initial[p].key => o = p

ClientsInit ==
  /\ clients = [o \in Docs |-> IF o <= Len(Initial) THEN Initial[o] ELSE Null]
  /\ made = Len(Initial)
  /\ indexed \in SUBSET {"api_key", "client_id"}
  /\ granted = [n \in Names |->
                  {Applied(Initial[o].limit) : o \in {p \in 1..Len(Initial) : Initial[p].id = n}}]
  /\ admin = [a \in Admins |-> [pc |-> "ready", new |-> Null]]

-----------------------------------------------------------------------------

\* The call is answered with a 200, 404, 409 or 500, which nothing tells apart.
Reply(a) == admin' = [admin EXCEPT ![a] = [pc |-> "answered", new |-> Null]]

\* create_proxy_client looks for its api_key first.
CreateLooksForKey(a) ==
  /\ admin[a].pc = "ready"
  /\ \E n \in Names, k \in Keys, s \in Secrets, l \in Limits, w \in Scopes :
       IF WithKey(k) # {} THEN Reply(a)
       ELSE admin' = [admin EXCEPT ![a] =
              [pc |-> "name",
               new |-> [id |-> n, key |-> k, secret |-> s, limit |-> l, scope |-> w,
                        status |-> "active"]]]
  /\ UNCHANGED <<clients, made, indexed, granted>>

CreateLooksForName(a) ==
  /\ admin[a].pc = "name"
  /\ IF Held(admin[a].new.id) # {} THEN Reply(a)
     ELSE admin' = [admin EXCEPT ![a].pc = "insert"]
  /\ UNCHANGED <<clients, made, indexed, granted>>

\* A unique index refuses the insert; nobody catches the error.
Duplicate(doc) ==
  \/ "api_key" \in indexed /\ WithKey(doc.key) # {}
  \/ "client_id" \in indexed /\ Held(doc.id) # {}

CreateInserts(a) ==
  LET doc == admin[a].new IN
  /\ admin[a].pc = "insert"
  /\ \/ /\ ~Duplicate(doc) /\ made < MaxClients
        /\ made' = made + 1
        /\ clients' = [clients EXCEPT ![made + 1] = doc]
        /\ granted' = [granted EXCEPT ![doc.id] = @ \union {Applied(doc.limit)}]
        /\ Reply(a)
     \/ Duplicate(doc) /\ Reply(a) /\ UNCHANGED <<clients, made, granted>>
  /\ UNCHANGED indexed

\* $set of the fields that are given, on one client with the id; neither the id
\* nor the key is among them.
SetFields(n) ==
  \E o \in Held(n), s \in Secrets, l \in Limits, w \in Scopes, status \in {"active", "disabled"} :
    /\ clients' = [clients EXCEPT ![o] =
         [@ EXCEPT !.secret = s, !.limit = l, !.scope = w, !.status = status]]
    /\ granted' = [granted EXCEPT ![n] = @ \union {Applied(l)}]

\* update_proxy_client is one find_one_and_update.
Update(a) ==
  /\ admin[a].pc = "ready"
  /\ \E n \in Names :
       \/ Held(n) = {} /\ Reply(a) /\ UNCHANGED <<clients, granted>>
       \/ SetFields(n) /\ Reply(a)
  /\ UNCHANGED <<made, indexed>>

Delete(a) ==
  /\ admin[a].pc = "ready"
  /\ \E n \in Names :
       \/ Held(n) = {} /\ Reply(a) /\ UNCHANGED clients
       \/ \E o \in Held(n) : clients' = [clients EXCEPT ![o] = Null] /\ Reply(a)
  /\ UNCHANGED <<made, indexed, granted>>

\* The other server builds a unique index, unless there are duplicates.
BuildIndex(field) ==
  /\ field \notin indexed
  /\ \A o, p \in Stored :
       o # p => IF field = "api_key" THEN clients[o].key # clients[p].key
                                     ELSE clients[o].id # clients[p].id
  /\ indexed' = indexed \union {field}
  /\ UNCHANGED <<clients, made, granted, admin>>

ClientsNext ==
  \/ \E a \in Admins :
       CreateLooksForKey(a) \/ CreateLooksForName(a) \/ CreateInserts(a) \/ Update(a) \/ Delete(a)
  \/ \E field \in {"api_key", "client_id"} : BuildIndex(field)

ClientsTypeOK ==
  /\ clients \in [Docs -> Client \union {Null}]
  /\ made \in 0..MaxClients
  /\ indexed \subseteq {"api_key", "client_id"}
  /\ granted \in [Names -> SUBSET Nat]
  /\ admin \in [Admins -> AdminCall]
=============================================================================
