-------------------------- MODULE MCTrajectoryDay --------------------------
(* Instances of TrajectoryDay: the constants are in the configurations. *)
EXTENDS TrajectoryDay
=============================================================================
