--------------------------- MODULE SnapshotSource ----------------------------
(***************************************************************************)
(* Where the snapshots come from that the server sends, and the frames they*)
(* become: TmpSnapshotCreator of snapshot_source.cpp, asked by             *)
(* OrderBook::GetTopSnapshot, makes Count canned snapshots when it is      *)
(* constructed and hands them out in turn; Snapshot::serialize and         *)
(* deserialize turn one into a frame and back.  The orders of the book have*)
(* nothing to do with any of it, and the client takes the type byte off the*)
(* frame before it has it deserialized.                                    *)
(***************************************************************************)
EXTENDS Integers, Sequences

CONSTANTS TopN,       \* common::topN
          Count,      \* snapshot_count, an uint8_t
          PriceWord   \* Price is an unsigned integer modulo PriceWord (2^64)

ASSUME SnapshotSourceAssumption ==
    /\ TopN \in 1 .. 20
    /\ Count \in 0 .. 255
    /\ PriceWord \in Nat /\ PriceWord > 1500

VARIABLES
    current,   \* current_index_
    got        \* what get_snapshot returned last, or Nothing

source == <<current, got>>

Nothing == [bids |-> <<>>, asks |-> <<>>]

\* Mutant: a canned bid is one better than the bid before it.
BidUpwards(i, j) == [id |-> i * 100 + j, price |-> (100 - i * 5 + j) % PriceWord,
                     quantity |-> 1000 + i * 100 + j * 10]

\* The j-th bid and ask of the i-th canned snapshot, both from 0.
Bid(i, j) == [id |-> i * 100 + j, price |-> (100 - i * 5 - j) % PriceWord,
              quantity |-> 1000 + i * 100 + j * 10]
Ask(i, j) == [id |-> i * 100 + j + 1000, price |-> (101 + i * 5 + j) % PriceWord,
              quantity |-> 900 + i * 100 + j * 10]

\* generate_static_snapshots.
Canned(i) == [bids |-> [j \in 1 .. TopN |-> Bid(i, j - 1)],
              asks |-> [j \in 1 .. TopN |-> Ask(i, j - 1)]]

SourceInit == current = 0 /\ got = Nothing

\* get_snapshot: current_index_.fetch_add(1) % size, or nothing of an empty vector.
GetSnapshot ==
    IF Count = 0
    THEN got' = Nothing /\ UNCHANGED current
    ELSE got' = Canned(current % Count) /\ current' = current + 1

-----------------------------------------------------------------------------
(* The way to a client.  sizeof(Snapshot) is 2 * TopN orders, the type byte*)
(* counts as one more element.                                             *)

Serialize(s) == <<"SNAPSHOT">> \o s.bids \o s.asks

\* What is not as long as a snapshot throws.
Deserializable(data) == Len(data) = 2 * TopN + 1
Deserialize(data) == [bids |-> SubSeq(data, 2, TopN + 1), asks |-> SubSeq(data, TopN + 2, 2 * TopN + 1)]

-----------------------------------------------------------------------------
(* Properties.                                                             *)

SortedBids(s) == \A j, k \in DOMAIN s.bids : j < k => s.bids[j].price > s.bids[k].price
SortedAsks(s) == \A j, k \in DOMAIN s.asks : j < k => s.asks[j].price < s.asks[k].price
NotCrossed(s) == \A j \in DOMAIN s.bids, k \in DOMAIN s.asks : s.bids[j].price < s.asks[k].price

\* A snapshot that is handed out is one a book could have: bids from the highest
\* price, asks from the lowest, and every bid below every ask.
BookShaped == SortedBids(got) /\ SortedAsks(got) /\ NotCrossed(got)
=============================================================================
