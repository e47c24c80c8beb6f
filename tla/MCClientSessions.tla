--------------------------- MODULE MCClientSessions --------------------------
(* Instances of ClientSessions small enough for TLC.                        *)
EXTENDS ClientSessions, TLC

CONSTANTS t1, t2, i1, i2, s1, s2, s3

Symmetry == Permutations({t1, t2}) \cup Permutations({i1, i2}) \cup Permutations({s1, s2, s3})
=============================================================================
