----------------------------- MODULE MCTCPServer -----------------------------
(* Instances of TCPServer small enough for TLC.                             *)
EXTENDS TCPServer

CONSTANTS t1, t2

\* Lines of up to three elements of those that matter, and longer ones around HELLO.
Lines == {Append(f, LF) : f \in SeqOf({SP, HELLO, 49}, 3)} \cup
         {<<HELLO, SP, a, b, LF>> : a, b \in {47, 48, 49, 58, CR, SP}} \cup
         {<<a, HELLO, SP, 49, 48, 49, b, LF>> : a, b \in {CR, SP, 120}}
=============================================================================
