----------------------------- MODULE MCOrderBook -----------------------------
(* Instances of OrderBook small enough for TLC.                             *)
EXTENDS OrderBook

CONSTANTS t1, t2

NegInts == {-1, 0, 1}

\* Bound: how many orders the two sides hold together.
FewOrders == Cardinality(orders["bid"]) + Cardinality(orders["ask"]) <= 2

\* Bound: a read that a write has disturbed is not followed to its end.  It is
\* promised nothing, and no read has an effect on the book.
ReadsCalm == \A t \in Threads : pc[t] \in ReaderPCs => calm[t]
=============================================================================
