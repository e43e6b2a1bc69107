------------------------- MODULE MCRobotRegistry ----------------------------
(* One robot from before secrets were encrypted, a second code that is free,   *)
(* and as many admin calls and messages as it takes for a look-up to span the  *)
(* deletion and re-creation of its robot.                                      *)
EXTENDS RobotRegistry, TLC

CONSTANTS k1, k2, r1, r2, s1, s2, a1, a2, d1, d2, h1, h2

MCWhitelists == {{}, {h1}}

MCNoWhitelist == {{}}

MCLegacy ==
  k1 :> [oid |-> 1, robotId |-> r1, enc |-> Null, plain |-> s1, allow |-> {}, sid |-> Null]
    @@ k2 :> Null

MCSymmetry == Permutations(Admins) \union Permutations(Deliveries)
=============================================================================
