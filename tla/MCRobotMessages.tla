------------------------- MODULE MCRobotMessages ----------------------------
(* One robot, which an administrator may change or delete meanwhile, and a     *)
(* message that is delivered twice.                                            *)
EXTENDS RobotMessages, TLC

CONSTANTS k1, a1, r1, s1, d1, d2, m1, v1

MCWhitelists == {{}, {"echo"}}

MCRobot ==
  k1 :> [oid |-> 1, robotId |-> r1, enc |-> s1, plain |-> Null, allow |-> {}, sid |-> v1]

MCMessageOf == [d \in Deliveries |-> m1]

MCSessionOf == [m \in Messages |-> "session"]

MCSymmetry == Permutations(Deliveries)
=============================================================================
