----------------------------- MODULE MCTcpClient -----------------------------
(* Instances of OrderBookClient, and TcpClient below it, small enough for   *)
(* TLC.                                                                     *)
EXTENDS OrderBookClient

CONSTANTS k1, k2
=============================================================================
