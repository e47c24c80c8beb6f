---------------------------- MODULE MCBroadcaster ----------------------------
(* Instances of Broadcaster small enough for TLC.                           *)
EXTENDS Broadcaster

CONSTANTS p1, p2, c1, c2
=============================================================================
