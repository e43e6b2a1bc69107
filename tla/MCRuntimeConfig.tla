-------------------------- MODULE MCRuntimeConfig --------------------------
(* Two workers stand for the four of the deployment: the one that serves    *)
(* the PUT and one of those that do not.  The first runs two reads at once, *)
(* which race with each other, with the PUT and with the clock.             *)
EXTENDS RuntimeConfig, TLC

CONSTANTS w1, w2, r1, r2, r3, p1

MCHome == r1 :> w1 @@ r2 :> w1 @@ r3 :> w2 @@ p1 :> w1
=============================================================================
