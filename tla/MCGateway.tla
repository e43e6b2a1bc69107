----------------------------- MODULE MCGateway ------------------------------
(* One client to begin with, and a second name for clients to come.  Clients  *)
(* may call every endpoint: one outside a client's scope is refused like any  *)
(* request of a disabled client.                                              *)
EXTENDS Gateway, TLC

CONSTANTS n1, n2, k1, s1, a1, a2, r1, r2, p1

MCClient == <<[id |-> n1, key |-> k1, secret |-> s1, limit |-> 0, scope |-> {},
               status |-> "active"]>>

MCScopes == {{}}

MCSymmetry == Permutations(Admins) \union Permutations(Requests)
=============================================================================
