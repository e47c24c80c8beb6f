------------------------------ MODULE MCSession ------------------------------
(* Session has numbers for constants only: the instances are in the cfgs.   *)
EXTENDS Session
=============================================================================
