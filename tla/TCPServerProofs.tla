--------------------------- MODULE TCPServerProofs ---------------------------
(***************************************************************************)
(* Proofs about TCPServer for any number of io threads, lines and          *)
(* connections: exactly one accept waits or is being armed while the       *)
(* server is open, the snapshots it hands out have the shape of a book as  *)
(* long as the canned prices do not wrap, a client prints what it was      *)
(* sent, and ERR is the answer to exactly the lines that are no HELLO.     *)
(***************************************************************************)
EXTENDS TCPServer, FiniteSetTheorems, SequenceTheorems, WellFoundedInduction, TLAPS

ServerTypeOK ==
    /\ open \in BOOLEAN
    /\ accepts \in Nat
    /\ owner \in {"new", "running", "stopped", "gone"}
    /\ pc \in [IoThreads -> {"idle", "return", "test", "arm", "read", "answered"}]

\* The chain of accepts: none yet; one that waits; one in the hands of a thread;
\* or, of a closed acceptor, none any more.
Chain ==
    \/ owner = "new" /\ accepts = 0 /\ Accepting = {}
    \/ owner # "new" /\ accepts = 1 /\ Accepting = {}
    \/ owner # "new" /\ accepts = 0 /\ \E t \in IoThreads : Accepting = {t}
    \/ owner # "new" /\ accepts = 0 /\ Accepting = {} /\ ~open

AcceptInv == ServerTypeOK /\ Chain

-----------------------------------------------------------------------------
\* A step that leaves the acceptor, the accepts and who is accepting alone.
LEMMA ChainUntouched ==
    ASSUME AcceptInv,
           UNCHANGED <<open, accepts, owner>>,
           pc' \in [IoThreads -> {"idle", "return", "test", "arm", "read", "answered"}],
           \A t \in IoThreads : pc'[t] \in {"return", "test", "arm"}
                                    <=> pc[t] \in {"return", "test", "arm"}
    PROVE  AcceptInv'
<1>1. Accepting' = Accepting
  BY DEF Accepting
<1> QED BY <1>1 DEF AcceptInv, ServerTypeOK, Chain

\* What the owner does.
LEMMA OwnerKeepsChain == AcceptInv /\ (StartServer \/ StopServer \/ DropServer) => AcceptInv'
<1> SUFFICES ASSUME AcceptInv, StartServer \/ StopServer \/ DropServer PROVE AcceptInv'
  OBVIOUS
<1>1. Accepting' = Accepting
  BY DEF StartServer, StopServer, DropServer, Accepting
<1>2. CASE StartServer
  BY <1>1, <1>2 DEF StartServer, AcceptInv, ServerTypeOK, Chain
<1>3. CASE StopServer
  BY <1>1, <1>3 DEF StopServer, AcceptInv, ServerTypeOK, Chain
<1>4. CASE DropServer
  BY <1>1, <1>4 DEF DropServer, AcceptInv, ServerTypeOK, Chain
<1> QED BY <1>2, <1>3, <1>4

\* An accept completes, with a connection or with an error: its handler has it.
LEMMA AcceptTaken ==
    ASSUME AcceptInv, NEW t \in IoThreads, OnAccept(t) \/ OnAcceptError(t)
    PROVE  AcceptInv'
<1> USE DEF AcceptInv, ServerTypeOK
<1>1. accepts = 1 /\ Accepting = {} /\ owner # "new"
  BY DEF OnAccept, OnAcceptError, Chain
<1>2. PICK q \in {"return", "test"} : pc' = [pc EXCEPT ![t] = q]
  BY DEF OnAccept, OnAcceptError, Goes
<1>3. Accepting' = {t}
  BY <1>1, <1>2 DEF Accepting
<1>4. accepts' = 0 /\ UNCHANGED <<open, owner>>
  BY <1>1 DEF OnAccept, OnAcceptError
<1>5. pc' \in [IoThreads -> {"idle", "return", "test", "arm", "read", "answered"}]
  BY <1>2
<1> QED BY <1>1, <1>3, <1>4, <1>5 DEF Chain

\* The handler arms the next accept, or finds the acceptor closed.
LEMMA AcceptHandled ==
    ASSUME AcceptInv, NEW t \in IoThreads, DoAccept(t) \/ (TestOpen(t) /\ ~open)
    PROVE  AcceptInv'
<1> USE DEF AcceptInv, ServerTypeOK
<1>1. t \in Accepting /\ pc' = [pc EXCEPT ![t] = "idle"]
  BY DEF DoAccept, TestOpen, Goes, Accepting
<1>2. Accepting = {t} /\ accepts = 0 /\ owner # "new"
  BY <1>1 DEF Chain
<1>3. Accepting' = {}
  BY <1>1, <1>2 DEF Accepting
<1>4. UNCHANGED <<open, owner>> /\ (accepts' = 1 \/ (accepts' = 0 /\ ~open))
  BY <1>2 DEF DoAccept, TestOpen, acceptVars
<1>5. pc' \in [IoThreads -> {"idle", "return", "test", "arm", "read", "answered"}]
  BY <1>1
<1> QED BY <1>2, <1>3, <1>4, <1>5 DEF Chain

\* Everything else a thread does.
LEMMA OthersKeepChain ==
    ASSUME AcceptInv, NEW t \in IoThreads,
           \/ OnAcceptReturns(t) \/ (TestOpen(t) /\ open)
           \/ \E frame \in Frames : HandleMessage(t, frame)
           \/ HandleDisconnect(t) \/ CallbackDangles(t) \/ ReadAgain(t)
           \/ \E n \in 1 .. MaxAccepts : ReadCompletes(t, n)
           \/ Tick(t)
    PROVE  AcceptInv'
<1>1. UNCHANGED <<open, accepts, owner>>
  BY DEF OnAcceptReturns, TestOpen, HandleMessage, HandleDisconnect, CallbackDangles, ReadAgain,
         ReadCompletes, Tick, acceptVars
<1>2. \/ UNCHANGED pc
      \/ \E from, to \in {"return", "test", "arm"} : Goes(t, from, to)
      \/ \E from, to \in {"idle", "read", "answered"} : Goes(t, from, to)
  <2>1. CASE OnAcceptReturns(t) \/ (TestOpen(t) /\ open)
    BY <2>1 DEF OnAcceptReturns, TestOpen
  <2>2. CASE (\E frame \in Frames : HandleMessage(t, frame)) \/ HandleDisconnect(t)
    BY <2>2 DEF HandleMessage, HandleDisconnect
  <2>3. CASE ReadAgain(t) \/ \E n \in 1 .. MaxAccepts : ReadCompletes(t, n)
    BY <2>3 DEF ReadAgain, ReadCompletes
  <2>4. CASE CallbackDangles(t) \/ Tick(t)
    BY <2>4 DEF CallbackDangles, Tick
  <2> QED BY <2>1, <2>2, <2>3, <2>4
<1>3. /\ pc' \in [IoThreads -> {"idle", "return", "test", "arm", "read", "answered"}]
      /\ \A u \in IoThreads : pc'[u] \in {"return", "test", "arm"}
                                  <=> pc[u] \in {"return", "test", "arm"}
  BY <1>2 DEF Goes, AcceptInv, ServerTypeOK
<1> QED BY <1>1, <1>3, ChainUntouched

\* Every step keeps the chain.
LEMMA NextAcceptInv == AcceptInv /\ [Next]_vars => AcceptInv'
<1> SUFFICES ASSUME AcceptInv, [Next]_vars PROVE AcceptInv'
  OBVIOUS
<1>1. CASE UNCHANGED vars
  <2>1. UNCHANGED <<open, accepts, owner, pc>>
    BY <1>1 DEF vars, acceptVars
  <2> QED BY <2>1, ChainUntouched DEF AcceptInv, ServerTypeOK
<1>2. CASE StartServer \/ StopServer \/ DropServer
  BY <1>2, OwnerKeepsChain
<1>3. ASSUME NEW t \in IoThreads,
             \/ OnAccept(t) \/ OnAcceptError(t) \/ HandlerStep(t)
             \/ \E n \in 1 .. MaxAccepts : ReadCompletes(t, n)
             \/ Tick(t)
      PROVE  AcceptInv'
  BY <1>3, AcceptTaken, AcceptHandled, OthersKeepChain DEF HandlerStep
<1> QED BY <1>1, <1>2, <1>3 DEF Next

\* While the server is open, one accept waits or one thread is about to arm it:
\* errors and any number of threads neither lose the chain nor double it.
THEOREM OneAcceptWaits == Spec => []AcceptArmed
<1>1. Init => AcceptInv
  BY DEF Init, AcceptInv, ServerTypeOK, Chain, Accepting
<1>2. AcceptInv => AcceptArmed
  <2> SUFFICES ASSUME AcceptInv, open, owner # "new"
               PROVE  accepts + Cardinality(Accepting) = 1
    BY DEF AcceptArmed
  <2>1. CASE accepts = 1 /\ Accepting = {}
    BY <2>1, FS_EmptySet
  <2>2. CASE accepts = 0 /\ \E t \in IoThreads : Accepting = {t}
    <3>1. PICK t \in IoThreads : Accepting = {t}
      BY <2>2
    <3>2. Cardinality({t}) = 1
      BY FS_Singleton
    <3> QED BY <2>2, <3>1, <3>2
  <2> QED BY <2>1, <2>2 DEF AcceptInv, Chain
<1> QED BY <1>1, <1>2, NextAcceptInv, PTL DEF Spec

-----------------------------------------------------------------------------
(* The snapshots.                                                           *)

\* Neither a price of a bid nor one of an ask wraps.
PricesFit == Count * 5 + TopN <= 105

\* A price below PriceWord is not wrapped.
LEMMA Unwrapped == \A x \in Nat : x < PriceWord => x % PriceWord = x
BY SnapshotSourceAssumption

\* A canned snapshot is one a book could have, if its prices do not wrap.
LEMMA CannedIsBookShaped ==
    ASSUME PricesFit, NEW i \in 0 .. Count - 1
    PROVE  SortedBids(Canned(i)) /\ SortedAsks(Canned(i)) /\ NotCrossed(Canned(i))
<1> USE SnapshotSourceAssumption DEF PricesFit
<1>1. \A j \in 1 .. TopN : /\ Canned(i).bids[j].price = 101 - i * 5 - j
                           /\ Canned(i).asks[j].price = 100 + i * 5 + j
  <2> TAKE j \in 1 .. TopN
  <2>1. 101 - i * 5 - j \in Nat /\ 101 - i * 5 - j < PriceWord
    OBVIOUS
  <2>2. 100 + i * 5 + j \in Nat /\ 100 + i * 5 + j < PriceWord
    OBVIOUS
  <2>3. 100 - i * 5 - (j - 1) = 101 - i * 5 - j /\ 101 + i * 5 + (j - 1) = 100 + i * 5 + j
    OBVIOUS
  <2> QED BY <2>1, <2>2, <2>3, Unwrapped DEF Canned, Bid, Ask
<1>2. DOMAIN Canned(i).bids = 1 .. TopN /\ DOMAIN Canned(i).asks = 1 .. TopN
  BY DEF Canned
<1>3. SortedBids(Canned(i))
  <2>1. ASSUME NEW j \in 1 .. TopN, NEW k \in 1 .. TopN, j < k
        PROVE  Canned(i).bids[j].price > Canned(i).bids[k].price
    <3>1. 101 - i * 5 - j > 101 - i * 5 - k
      BY <2>1
    <3> QED BY <1>1, <3>1
  <2> QED BY <1>2, <2>1 DEF SortedBids
<1>4. SortedAsks(Canned(i))
  <2>1. ASSUME NEW j \in 1 .. TopN, NEW k \in 1 .. TopN, j < k
        PROVE  Canned(i).asks[j].price < Canned(i).asks[k].price
    <3>1. 100 + i * 5 + j < 100 + i * 5 + k
      BY <2>1
    <3> QED BY <1>1, <3>1
  <2> QED BY <1>2, <2>1 DEF SortedAsks
<1>5. NotCrossed(Canned(i))
  <2>1. ASSUME NEW j \in 1 .. TopN, NEW k \in 1 .. TopN
        PROVE  101 - i * 5 - j < 100 + i * 5 + k
    OBVIOUS
  <2>2. \A j, k \in 1 .. TopN : Canned(i).bids[j].price < Canned(i).asks[k].price
    BY <1>1, <2>1
  <2> QED BY <1>2, <2>2 DEF NotCrossed
<1> QED BY <1>3, <1>4, <1>5

\* A step takes one snapshot or none.
LEMMA SourceSteps == [Next]_vars => GetSnapshot \/ UNCHANGED source
BY DEF Next, vars, StartServer, StopServer, DropServer, OnAccept, OnAcceptError, HandlerStep,
       OnAcceptReturns, TestOpen, DoAccept, ReadCompletes, HandleMessage, ReadAgain,
       HandleDisconnect, CallbackDangles, Tick

SourceInv == current \in Nat /\ BookShaped

\* Every snapshot that is handed out is one a book could have: twenty levels and
\* five snapshots, as the program makes them, are within the bound.
THEOREM HandedOutBookShaped == ASSUME PricesFit PROVE Spec => []BookShaped
<1>1. Init => SourceInv
  BY DEF Init, SourceInit, SourceInv, BookShaped, Nothing, SortedBids, SortedAsks, NotCrossed
<1>2. SourceInv /\ [Next]_vars => SourceInv'
  <2> SUFFICES ASSUME SourceInv, GetSnapshot \/ UNCHANGED source PROVE SourceInv'
    BY SourceSteps
  <2>1. CASE UNCHANGED source
    BY <2>1 DEF source, SourceInv, BookShaped
  <2>2. CASE GetSnapshot
    <3>1. CASE Count = 0
      BY <2>2, <3>1 DEF GetSnapshot, SourceInv, BookShaped, Nothing, SortedBids, SortedAsks, NotCrossed
    <3>2. CASE Count # 0
      <4>1. current % Count \in 0 .. Count - 1
        BY <3>2, SnapshotSourceAssumption DEF SourceInv
      <4>2. got' = Canned(current % Count) /\ current' = current + 1
        BY <2>2, <3>2 DEF GetSnapshot
      <4> QED BY <4>1, <4>2, CannedIsBookShaped DEF SourceInv, BookShaped
    <3> QED BY <3>1, <3>2
  <2> QED BY <2>1, <2>2
<1>3. SourceInv => BookShaped
  BY DEF SourceInv
<1> QED BY <1>1, <1>2, <1>3, PTL DEF Spec

-----------------------------------------------------------------------------
(* The way of a snapshot to a client.                                       *)

\* The elements of a concatenation.
LEMMA ConcatSplit ==
    ASSUME NEW S, NEW s \in Seq(S), NEW t \in Seq(S)
    PROVE  /\ s \o t \in Seq(S) /\ Len(s \o t) = Len(s) + Len(t)
           /\ \A i \in 1 .. Len(s) : (s \o t)[i] = s[i]
           /\ \A i \in 1 .. Len(t) : (s \o t)[Len(s) + i] = t[i]
<1>1. /\ s \o t \in Seq(S) /\ Len(s \o t) = Len(s) + Len(t) /\ Len(s) \in Nat /\ Len(t) \in Nat
  BY ConcatProperties, LenProperties
<1>2. \A i \in 1 .. Len(s) : (s \o t)[i] = s[i]
  OBVIOUS
<1>3. \A i \in 1 .. Len(t) : (s \o t)[Len(s) + i] = t[i]
  OBVIOUS
<1> QED BY <1>1, <1>2, <1>3

\* What Snapshot::serialize writes, the type byte included, Snapshot::deserialize
\* reads back: any orders, and any number of levels.
THEOREM ReadBack ==
    ASSUME NEW S, NEW b \in Seq(S), NEW a \in Seq(S), Len(b) = TopN, Len(a) = TopN
    PROVE  LET data == Serialize([bids |-> b, asks |-> a])
           IN  Deserializable(data) /\ Deserialize(data) = [bids |-> b, asks |-> a]
<1> DEFINE R == S \cup {"SNAPSHOT"}
           head == <<"SNAPSHOT">>
           data == (head \o b) \o a
<1>1. head \in Seq(R) /\ Len(head) = 1 /\ b \in Seq(R) /\ a \in Seq(R) /\ TopN \in Nat /\ TopN >= 1
  <2>1. b \in Seq(R) /\ a \in Seq(R)
    BY SeqMonotonic
  <2> QED BY <2>1, SnapshotSourceAssumption
<1> HIDE DEF head, R
<1>2. /\ head \o b \in Seq(R) /\ Len(head \o b) = 1 + TopN
      /\ \A i \in 1 .. TopN : (head \o b)[1 + i] = b[i]
  <2>1. /\ head \o b \in Seq(R) /\ Len(head \o b) = Len(head) + Len(b)
        /\ \A i \in 1 .. Len(b) : (head \o b)[Len(head) + i] = b[i]
    BY <1>1, ConcatSplit
  <2> QED BY <1>1, <2>1
<1>3. /\ data \in Seq(R) /\ Len(data) = Len(head \o b) + Len(a)
      /\ \A i \in 1 .. Len(head \o b) : data[i] = (head \o b)[i]
      /\ \A i \in 1 .. Len(a) : data[Len(head \o b) + i] = a[i]
  <2>1. ASSUME NEW h \in Seq(R)
        PROVE  /\ h \o a \in Seq(R) /\ Len(h \o a) = Len(h) + Len(a)
               /\ \A i \in 1 .. Len(h) : (h \o a)[i] = h[i]
               /\ \A i \in 1 .. Len(a) : (h \o a)[Len(h) + i] = a[i]
    <3>1. a \in Seq(R)
      BY <1>1
    <3> HIDE DEF data
    <3>2. h \o a \in Seq(R) /\ Len(h \o a) = Len(h) + Len(a)
      BY <3>1, ConcatSplit
    <3>3. \A i \in 1 .. Len(h) : (h \o a)[i] = h[i]
      BY <3>1, ConcatSplit
    <3>4. \A i \in 1 .. Len(a) : (h \o a)[Len(h) + i] = a[i]
      BY <3>1, ConcatSplit
    <3> QED BY <3>2, <3>3, <3>4
  <2> QED BY <1>2, <2>1
<1>4. /\ data \in Seq(R) /\ Len(data) = 2 * TopN + 1
      /\ \A i \in 1 .. TopN : data[1 + i] = b[i] /\ data[(1 + TopN) + i] = a[i]
  <2>1. Len(data) = 2 * TopN + 1
    BY <1>1, <1>2, <1>3
  <2>2. ASSUME NEW i \in 1 .. TopN PROVE data[1 + i] = b[i] /\ data[(1 + TopN) + i] = a[i]
    <3>1. 1 + i \in 1 .. Len(head \o b) /\ i \in 1 .. Len(a)
      BY <1>1, <1>2
    <3> QED BY <1>2, <1>3, <3>1
  <2> QED BY <1>3, <2>1, <2>2
<1> HIDE DEF data
<1>5. SubSeq(data, 2, TopN + 1) = b
  <2>1. \A i \in 2 .. TopN + 1 : data[i] \in R
    BY <1>1, <1>4
  <2>2. /\ SubSeq(data, 2, TopN + 1) \in Seq(R) /\ Len(SubSeq(data, 2, TopN + 1)) = TopN
        /\ \A i \in 1 .. TopN : SubSeq(data, 2, TopN + 1)[i] = data[1 + i]
    BY <1>1, <2>1, SubSeqProperties
  <2> QED BY <1>1, <1>4, <2>2, SeqEqual
<1>6. SubSeq(data, TopN + 2, 2 * TopN + 1) = a
  <2>1. \A i \in TopN + 2 .. 2 * TopN + 1 : data[i] \in R
    BY <1>1, <1>4
  <2>2. /\ SubSeq(data, TopN + 2, 2 * TopN + 1) \in Seq(R)
        /\ Len(SubSeq(data, TopN + 2, 2 * TopN + 1)) = TopN
        /\ \A i \in 1 .. TopN : SubSeq(data, TopN + 2, 2 * TopN + 1)[i] = data[(1 + TopN) + i]
    BY <1>1, <2>1, SubSeqProperties
  <2> QED BY <1>1, <1>4, <2>2, SeqEqual
<1>7. Serialize([bids |-> b, asks |-> a]) = data
  BY DEF Serialize, data, head
<1> QED BY <1>4, <1>5, <1>6, <1>7 DEF Deserializable, Deserialize

-----------------------------------------------------------------------------
(* Folds, over the positions of a sequence.  Induction is the choice of a    *)
(* least set, or of a least number, without the property.                    *)

\* Among some subsets of a finite set there is one that contains no other.
LEMMA LeastSet ==
    ASSUME NEW S, IsFiniteSet(S), NEW C, C \subseteq SUBSET S, C # {}
    PROVE  \E u \in C : \A v \in C : v \subseteq u => v = u
<1>1. IsWellFoundedOn(StrictSubsetOrdering(S), SUBSET S)
  BY FS_StrictSubsetOrderingWellFounded, FS_FiniteSubsetsOfFinite
<1>2. \E u \in C : \A v \in C : ~(<<v, u>> \in StrictSubsetOrdering(S))
  BY <1>1, WFMin
<1> QED BY <1>2 DEF StrictSubsetOrdering

\* The positions of a sequence of length n.
Positions(n) == 1 .. n

\* The same of some sets of positions.
LEMMA LeastPositions ==
    ASSUME NEW n \in Nat, NEW C, C \subseteq SUBSET Positions(n), C # {}
    PROVE  \E u \in C : \A v \in C : v \subseteq u => v = u
<1>1. IsFiniteSet(Positions(n))
  BY FS_Interval DEF Positions
<1> QED BY <1>1, LeastSet

\* The least and the greatest of some positions.
LEMMA Extremes ==
    ASSUME NEW n \in Nat, NEW S \in SUBSET Positions(n), S # {}
    PROVE  /\ Min(S) \in S /\ \A i \in S : Min(S) <= i
           /\ Max(S) \in S /\ \A i \in S : i <= Max(S)
<1> DEFINE below == {1 .. i : i \in S}
           above == {i .. n : i \in S}
<1>2. \E u \in below : \A v \in below : v \subseteq u => v = u
  <2>1. below \subseteq SUBSET Positions(n)
    BY DEF Positions
  <2>2. below # {}
    OBVIOUS
  <2> HIDE DEF below
  <2> QED BY <2>1, <2>2, LeastPositions
<1>3. \E u \in above : \A v \in above : v \subseteq u => v = u
  <2>1. above \subseteq SUBSET Positions(n)
    BY DEF Positions
  <2>2. above # {}
    OBVIOUS
  <2> HIDE DEF above
  <2> QED BY <2>1, <2>2, LeastPositions
<1> S \subseteq 1 .. n
  BY DEF Positions
<1>4. \E i \in S : \A j \in S : i <= j
  <2>1. PICK i \in S : \A v \in below : v \subseteq 1 .. i => v = 1 .. i
    BY <1>2
  <2>2. ASSUME NEW j \in S, j < i PROVE FALSE
    <3>1. 1 .. j \in below /\ 1 .. j \subseteq 1 .. i /\ i \in 1 .. i /\ ~(i \in 1 .. j)
      BY <2>2
    <3> QED BY <2>1, <3>1
  <2> QED BY <2>2
<1>5. \E i \in S : \A j \in S : i >= j
  <2>1. PICK i \in S : \A v \in above : v \subseteq i .. n => v = i .. n
    BY <1>3
  <2>2. ASSUME NEW j \in S, j > i PROVE FALSE
    <3>1. j .. n \in above /\ j .. n \subseteq i .. n /\ i \in i .. n /\ ~(i \in j .. n)
      BY <2>2
    <3> QED BY <2>1, <3>1
  <2> QED BY <2>2
<1>6. Min(S) \in S /\ \A i \in S : Min(S) <= i
  BY <1>4 DEF Min
<1>7. Max(S) \in S /\ \A i \in S : Max(S) >= i
  BY <1>5 DEF Max
<1> QED BY <1>6, <1>7

\* One step of the folds of HelloLine.
Step(kind, x, y) ==
    IF kind = "id" THEN (y * 10 + (x - 48)) % IdWord
    ELSE IF kind = "sum" THEN y + x
    ELSE 10 * y
Base(kind) == IF kind = "power" THEN 1 ELSE 0

\* f folds the elements of q at every subset of the positions S.
Folds(f, kind, q, S) ==
    f = [s \in SUBSET S |-> IF s = {} THEN Base(kind)
                            ELSE Step(kind, q[Max(s)], f[s \ {Max(s)}])]

\* The same of all positions for each fold, as FoldLeft has it.
IdFolds(f, q) == f = [s \in SUBSET DOMAIN q |-> IF s = {} THEN 0
                                                ELSE (f[s \ {Max(s)}] * 10 + (q[Max(s)] - 48)) % IdWord]
SumFolds(f, q) == f = [s \in SUBSET DOMAIN q |-> IF s = {} THEN 0
                                                ELSE f[s \ {Max(s)}] + q[Max(s)]]
PowerFolds(f, q) == f = [s \in SUBSET DOMAIN q |-> IF s = {} THEN 1
                                                ELSE 10 * f[s \ {Max(s)}]]

\* The definitions of the folds, unfolded.
LEMMA IsFold ==
    ASSUME NEW q
    PROVE  /\ Number(q) = (CHOOSE f : IdFolds(f, q))[DOMAIN q]
           /\ FoldLeft(+, 0, q) = (CHOOSE f : SumFolds(f, q))[DOMAIN q]
           /\ FoldLeft(LAMBDA p, i : 10 * p, 1, q) = (CHOOSE f : PowerFolds(f, q))[DOMAIN q]
<1>1. Number(q) = (CHOOSE f : IdFolds(f, q))[DOMAIN q]
  BY DEF Number, FoldLeft, MapThenFoldSet, IdFolds
<1>2. FoldLeft(+, 0, q) = (CHOOSE f : SumFolds(f, q))[DOMAIN q]
  BY DEF FoldLeft, MapThenFoldSet, SumFolds
<1>3. FoldLeft(LAMBDA p, i : 10 * p, 1, q) = (CHOOSE f : PowerFolds(f, q))[DOMAIN q]
  BY DEF FoldLeft, MapThenFoldSet, PowerFolds
<1> QED BY <1>1, <1>2, <1>3

\* They are the folds above.
LEMMA SameFolds ==
    ASSUME NEW q, NEW f
    PROVE  /\ IdFolds(f, q) <=> Folds(f, "id", q, DOMAIN q)
           /\ SumFolds(f, q) <=> Folds(f, "sum", q, DOMAIN q)
           /\ PowerFolds(f, q) <=> Folds(f, "power", q, DOMAIN q)
<1>1. IdFolds(f, q) <=> Folds(f, "id", q, DOMAIN q)
  BY DEF IdFolds, Folds, Step, Base
<1>2. SumFolds(f, q) <=> Folds(f, "sum", q, DOMAIN q)
  BY DEF SumFolds, Folds, Step, Base
<1>3. PowerFolds(f, q) <=> Folds(f, "power", q, DOMAIN q)
  BY DEF PowerFolds, Folds, Step, Base
<1> QED BY <1>1, <1>2, <1>3

\* Two folds agree where both are defined.
LEMMA FoldsAgree ==
    ASSUME NEW kind, NEW q, NEW n \in Nat,
           NEW S \in SUBSET Positions(n), NEW T \in SUBSET Positions(n), NEW f, NEW g,
           Folds(f, kind, q, S), Folds(g, kind, q, T),
           NEW s \in SUBSET S, s \in SUBSET T
    PROVE  f[s] = g[s]
<1> DEFINE C == {u \in SUBSET s : f[u] # g[u]}
<1>1. SUFFICES ASSUME C # {} PROVE FALSE
  OBVIOUS
<1>3. PICK u \in C : \A v \in C : v \subseteq u => v = u
  <2>1. C \subseteq SUBSET Positions(n)
    BY DEF Positions
  <2> HIDE DEF C
  <2> QED BY <1>1, <2>1, LeastPositions
<1>4. u \in SUBSET S /\ u \in SUBSET T /\ u \in SUBSET Positions(n)
  OBVIOUS
<1>5. u # {}
  BY <1>4 DEF Folds
<1>6. Max(u) \in u
  BY <1>4, <1>5, Extremes
<1>7. f[u \ {Max(u)}] = g[u \ {Max(u)}]
  BY <1>3, <1>6
<1>8. /\ f[u] = Step(kind, q[Max(u)], f[u \ {Max(u)}])
      /\ g[u] = Step(kind, q[Max(u)], g[u \ {Max(u)}])
  BY <1>4, <1>5 DEF Folds
<1> QED BY <1>7, <1>8

\* There is one over all positions.
LEMMA FoldsExist ==
    ASSUME NEW kind, NEW q, NEW n \in Nat
    PROVE  \E f : Folds(f, kind, q, Positions(n))
<1> DEFINE S == Positions(n)
           C == {u \in SUBSET S : ~\E f : Folds(f, kind, q, u)}
<1>1. SUFFICES ASSUME C # {} PROVE FALSE
  OBVIOUS
<1>2. PICK u \in C : \A v \in C : v \subseteq u => v = u
  <2>1. C \subseteq SUBSET Positions(n)
    BY DEF Positions
  <2> HIDE DEF C
  <2> QED BY <1>1, <2>1, LeastPositions
<1>3. \A v \in SUBSET u : v # u => \E f : Folds(f, kind, q, v)
  BY <1>2
<1>4. \A v \in SUBSET u : v \in SUBSET S
  OBVIOUS
<1> DEFINE F == [v \in (SUBSET u) \ {u} |-> CHOOSE f : Folds(f, kind, q, v)]
           rest(v) == v \ {Max(v)}
           h == [s \in SUBSET u |-> IF s = {} THEN Base(kind)
                                    ELSE Step(kind, q[Max(s)], F[rest(s)][rest(s)])]
<1>5. ASSUME NEW v \in SUBSET u, v # u PROVE Folds(F[v], kind, q, v)
  BY <1>3, <1>5
<1>6. ASSUME NEW v \in SUBSET u, v # {} PROVE rest(v) \in SUBSET v /\ rest(v) # u
  <2>1. Max(v) \in v
    BY <1>4, <1>6, Extremes
  <2> QED BY <2>1
<1> HIDE DEF F, rest
<1>7. ASSUME NEW s \in SUBSET u, s # u PROVE h[s] = F[s][s]
  <2>1. F[s] = [v \in SUBSET s |-> IF v = {} THEN Base(kind)
                                   ELSE Step(kind, q[Max(v)], F[s][rest(v)])]
    BY <1>5, <1>7 DEF Folds, rest
  <2>2. CASE s = {}
    BY <2>1, <2>2
  <2>3. CASE s # {}
    <3>1. rest(s) \in SUBSET s /\ rest(s) \in SUBSET u /\ rest(s) # u
      BY <1>6, <2>3
    <3>2. Folds(F[rest(s)], kind, q, rest(s)) /\ Folds(F[s], kind, q, s)
      BY <1>5, <1>7, <3>1
    <3>3. s \in SUBSET Positions(n) /\ rest(s) \in SUBSET Positions(n)
      BY <1>4, <3>1
    <3> HIDE DEF h
    <3>4. F[s][rest(s)] = F[rest(s)][rest(s)]
      <4> DEFINE r == rest(s)
                 f == F[s]
                 g == F[r]
      <4>1. /\ Folds(f, kind, q, s) /\ Folds(g, kind, q, r)
            /\ s \in SUBSET Positions(n) /\ r \in SUBSET Positions(n)
            /\ r \in SUBSET s /\ r \in SUBSET r
        BY <3>1, <3>2, <3>3
      <4> HIDE DEF f, g, r
      <4>2. f[r] = g[r]
        BY <4>1, FoldsAgree
      <4> QED BY <4>2 DEF f, g, r
    <3>5. F[s][s] = Step(kind, q[Max(s)], F[s][rest(s)])
      BY <2>1, <2>3
    <3> QED BY <1>7, <2>3, <3>4, <3>5 DEF h
  <2> QED BY <2>2, <2>3
<1>8. \A s \in SUBSET u : h[s] = IF s = {} THEN Base(kind)
                                  ELSE Step(kind, q[Max(s)], h[rest(s)])
  <2>1. ASSUME NEW s \in SUBSET u, s # {} PROVE h[s] = Step(kind, q[Max(s)], h[rest(s)])
    <3>1. h[s] = Step(kind, q[Max(s)], F[rest(s)][rest(s)])
      BY <2>1
    <3> HIDE DEF h
    <3> QED BY <2>1, <3>1, <1>6, <1>7
  <2>2. h[{}] = Base(kind)
    OBVIOUS
  <2> HIDE DEF h
  <2> QED BY <2>1, <2>2
<1>9. h = [s \in SUBSET u |-> h[s]]
  OBVIOUS
<1> HIDE DEF h
<1>10. h = [s \in SUBSET u |-> IF s = {} THEN Base(kind)
                               ELSE Step(kind, q[Max(s)], h[rest(s)])]
  BY <1>8, <1>9
<1>11. Folds(h, kind, q, u)
  BY <1>10 DEF Folds, rest
<1> QED BY <1>2, <1>11

\* What is true of 0, and of k if of k - 1, is true up to n.
LEMMA UpTo ==
    ASSUME NEW n \in Nat, NEW S, 0 \in S, \A k \in 1 .. n : k - 1 \in S => k \in S
    PROVE  \A k \in 0 .. n : k \in S
<1> DEFINE C == {k \in 1 .. n : k \notin S}
<1>1. SUFFICES ASSUME C # {} PROVE FALSE
  OBVIOUS
<1>2. PICK m \in C : \A k \in C : m <= k
  <2>1. C \in SUBSET Positions(n)
    BY DEF Positions
  <2> HIDE DEF C
  <2> QED BY <1>1, <2>1, Extremes
<1>3. m - 1 \in S
  <2>1. m - 1 \in 0 .. n /\ ~(m <= m - 1)
    OBVIOUS
  <2> QED BY <1>2, <2>1
<1> QED BY <1>3

\* The prefixes of q folded: p[k] is the fold of the first k elements.
ByPrefix(p, kind, q, n) ==
    /\ p[0] = Base(kind)
    /\ \A k \in 1 .. n : p[k] = Step(kind, q[k], p[k - 1])

\* A fold over a sequence, prefix by prefix.
LEMMA FoldSteps ==
    ASSUME NEW kind, NEW q, NEW n \in Nat, NEW f, Folds(f, kind, q, Positions(n))
    PROVE  \E p : ByPrefix(p, kind, q, n) /\ p[n] = f[Positions(n)]
<1> DEFINE p == [k \in 0 .. n |-> f[1 .. k]]
<1>3. \A s \in SUBSET (1 .. n) : f[s] = IF s = {} THEN Base(kind)
                                        ELSE Step(kind, q[Max(s)], f[s \ {Max(s)}])
  BY DEF Folds, Positions
<1>4. f[1 .. 0] = Base(kind)
  <2>1. 1 .. 0 = {} /\ {} \in SUBSET (1 .. n)
    OBVIOUS
  <2> QED BY <1>3, <2>1
<1>5. ASSUME NEW k \in 1 .. n PROVE f[1 .. k] = Step(kind, q[k], f[1 .. (k - 1)])
  <2>1. 1 .. k \in SUBSET (1 .. n) /\ 1 .. k # {} /\ k \in 1 .. k
    <3>1. k \in 1 .. k /\ \A i \in 1 .. k : i \in 1 .. n
      OBVIOUS
    <3> QED BY <3>1
  <2>2. Max(1 .. k) \in 1 .. k /\ k <= Max(1 .. k)
    BY <2>1, Extremes DEF Positions
  <2>3. Max(1 .. k) = k
    BY <2>2
  <2>4. (1 .. k) \ {k} = 1 .. (k - 1)
    OBVIOUS
  <2> QED BY <1>3, <2>1, <2>3, <2>4
<1>6. ASSUME NEW k \in 1 .. n PROVE p[k] = Step(kind, q[k], p[k - 1])
  <2>1. p[k] = f[1 .. k] /\ p[k - 1] = f[1 .. (k - 1)]
    OBVIOUS
  <2> QED BY <1>5, <2>1
<1>7. p[0] = Base(kind) /\ p[n] = f[Positions(n)]
  BY <1>4 DEF Positions
<1> HIDE DEF p
<1> QED BY <1>6, <1>7 DEF ByPrefix

\* The folds of HelloLine, prefix by prefix.
LEMMA FoldsByPrefix ==
    ASSUME NEW q, NEW n \in Nat, DOMAIN q = 1 .. n
    PROVE  /\ \E p : ByPrefix(p, "id", q, n) /\ Number(q) = p[n]
           /\ \E p : ByPrefix(p, "sum", q, n) /\ FoldLeft(+, 0, q) = p[n]
           /\ \E p : ByPrefix(p, "power", q, n) /\ FoldLeft(LAMBDA x, i : 10 * x, 1, q) = p[n]
<1>1. \A kind : \E f : Folds(f, kind, q, DOMAIN q)
  BY FoldsExist DEF Positions
<1>2. Folds(CHOOSE f : IdFolds(f, q), "id", q, DOMAIN q)
  <2>1. \E f : IdFolds(f, q)
    BY <1>1, SameFolds
  <2> QED BY <2>1, SameFolds
<1>3. Folds(CHOOSE f : SumFolds(f, q), "sum", q, DOMAIN q)
  <2>1. \E f : SumFolds(f, q)
    BY <1>1, SameFolds
  <2> QED BY <2>1, SameFolds
<1>4. Folds(CHOOSE f : PowerFolds(f, q), "power", q, DOMAIN q)
  <2>1. \E f : PowerFolds(f, q)
    BY <1>1, SameFolds
  <2> QED BY <2>1, SameFolds
<1>5. \E p : ByPrefix(p, "id", q, n) /\ Number(q) = p[n]
  <2> DEFINE f == CHOOSE f : IdFolds(f, q)
  <2>1. Folds(f, "id", q, Positions(n)) /\ Number(q) = f[Positions(n)]
    BY <1>2, IsFold DEF Positions
  <2> HIDE DEF f
  <2>2. \E p : ByPrefix(p, "id", q, n) /\ p[n] = f[Positions(n)]
    BY <2>1, FoldSteps
  <2> QED BY <2>1, <2>2
<1>6. \E p : ByPrefix(p, "sum", q, n) /\ FoldLeft(+, 0, q) = p[n]
  <2> DEFINE f == CHOOSE f : SumFolds(f, q)
  <2>1. Folds(f, "sum", q, Positions(n)) /\ FoldLeft(+, 0, q) = f[Positions(n)]
    BY <1>3, IsFold DEF Positions
  <2> HIDE DEF f
  <2>2. \E p : ByPrefix(p, "sum", q, n) /\ p[n] = f[Positions(n)]
    BY <2>1, FoldSteps
  <2> QED BY <2>1, <2>2
<1>7. \E p : ByPrefix(p, "power", q, n) /\ FoldLeft(LAMBDA x, i : 10 * x, 1, q) = p[n]
  <2> DEFINE f == CHOOSE f : PowerFolds(f, q)
  <2>1. Folds(f, "power", q, Positions(n)) /\ FoldLeft(LAMBDA x, i : 10 * x, 1, q) = f[Positions(n)]
    BY <1>4, IsFold DEF Positions
  <2> HIDE DEF f
  <2>2. \E p : ByPrefix(p, "power", q, n) /\ p[n] = f[Positions(n)]
    BY <2>1, FoldSteps
  <2> QED BY <2>1, <2>2
<1> QED BY <1>5, <1>6, <1>7

\* The powers of ten.
LEMMA TensSteps ==
    /\ Tens(0) = 1
    /\ \A n \in Nat : Tens(n) \in Nat /\ Tens(n + 1) = 10 * Tens(n)
<1>1. ASSUME NEW n \in Nat
      PROVE  \E p : /\ p[0] = 1 /\ \A k \in 1 .. n : p[k] = 10 * p[k - 1]
                    /\ Tens(n) = p[n]
  <2> DEFINE q == [i \in 1 .. n |-> i]
  <2>1. DOMAIN q = 1 .. n
    OBVIOUS
  <2>2. Tens(n) = FoldLeft(LAMBDA x, i : 10 * x, 1, q)
    BY DEF Tens
  <2> HIDE DEF q
  <2>3. \E p : ByPrefix(p, "power", q, n) /\ FoldLeft(LAMBDA x, i : 10 * x, 1, q) = p[n]
    BY <2>1, FoldsByPrefix
  <2> QED BY <2>2, <2>3 DEF ByPrefix, Step, Base
<1>2. Tens(0) = 1
  BY <1>1
<1>3. ASSUME NEW n \in Nat PROVE Tens(n) \in Nat
  <2>1. PICK p : /\ p[0] = 1 /\ \A k \in 1 .. n : p[k] = 10 * p[k - 1]
                 /\ Tens(n) = p[n]
    BY <1>1
  <2> DEFINE S == {k \in 0 .. n : p[k] \in Nat}
  <2>2. 0 \in S /\ \A k \in 1 .. n : k - 1 \in S => k \in S
    BY <2>1
  <2>3. \A k \in 0 .. n : k \in S
    <3> HIDE DEF S
    <3> QED BY <2>2, UpTo
  <2> QED BY <2>1, <2>3
<1>4. ASSUME NEW n \in Nat PROVE Tens(n + 1) = 10 * Tens(n)
  <2>1. PICK p : /\ p[0] = 1 /\ \A k \in 1 .. n : p[k] = 10 * p[k - 1]
                 /\ Tens(n) = p[n]
    BY <1>1
  <2>2. PICK r : /\ r[0] = 1 /\ \A k \in 1 .. n + 1 : r[k] = 10 * r[k - 1]
                 /\ Tens(n + 1) = r[n + 1]
    BY <1>1
  <2> DEFINE S == {k \in 0 .. n : p[k] = r[k]}
  <2>3. 0 \in S /\ \A k \in 1 .. n : k - 1 \in S => k \in S
    BY <2>1, <2>2
  <2>4. \A k \in 0 .. n : k \in S
    <3> HIDE DEF S
    <3> QED BY <2>3, UpTo
  <2> QED BY <2>1, <2>2, <2>4
<1> QED BY <1>2, <1>3, <1>4

\* The remainder of what is below IdWord, however often it has wrapped.
LEMMA RemainderUnique ==
    ASSUME NEW q \in Nat, NEW r \in Nat, r < IdWord
    PROVE  (r + q * IdWord) % IdWord = r
BY HelloLineAssumption

\* A number is its remainder and a multiple of IdWord.
LEMMA Remainder ==
    ASSUME NEW a \in Nat
    PROVE  /\ a % IdWord \in Nat /\ a % IdWord < IdWord
           /\ \E r \in Nat : a = (a % IdWord) + r * IdWord
<1>1. a = (a % IdWord) + (a \div IdWord) * IdWord /\ a \div IdWord \in Nat
  BY HelloLineAssumption
<1>2. a % IdWord \in Nat /\ a % IdWord < IdWord
  BY HelloLineAssumption
<1> DEFINE b == a % IdWord
           q == a \div IdWord
<1>3. a = b + q * IdWord /\ q \in Nat
  BY <1>1
<1> HIDE DEF b, q
<1>4. \E r \in Nat : a = b + r * IdWord
  BY <1>3
<1> QED BY <1>2, <1>4 DEF b

\* v is a number shifted by the power t, up to a multiple of IdWord.
Shifted(v, a, t) == a \in Nat /\ a < IdWord /\ \E r \in Nat : v = a * t + r * IdWord

\* A digit is read, and its position counted.
LEMMA DigitRead ==
    ASSUME NEW t \in Nat, NEW u, u = 10 * t, NEW c \in Nat, NEW v, NEW a, Shifted(v, a, u),
           NEW b, b = (a * 10 + c) % IdWord, NEW x, x = v + c * t
    PROVE  Shifted(x, b, t)
<1>1. a \in Nat /\ a * 10 + c \in Nat
  BY DEF Shifted
<1>2. PICK q \in Nat : v = a * u + q * IdWord
  BY DEF Shifted
<1>3. PICK r \in Nat : a * 10 + c = b + r * IdWord
  BY <1>1, Remainder
<1>4. b \in Nat /\ b < IdWord
  BY <1>1, Remainder
<1>5. x = b * t + (r * t + q) * IdWord
  <2>1. IdWord \in Nat
    BY HelloLineAssumption
  <2>2. (a * 10 + c) * t = (b + r * IdWord) * t
    BY <1>3
  <2>3. (a * 10 + c) * t = a * u + c * t
    BY <1>1
  <2>4. (b + r * IdWord) * t = b * t + (r * t) * IdWord
    BY <1>4, <2>1
  <2>5. (r * t + q) * IdWord = (r * t) * IdWord + q * IdWord
    BY <2>1
  <2> DEFINE au == a * u
             ct == c * t
             bt == b * t
             rtw == (r * t) * IdWord
             qw == q * IdWord
             g == (r * t + q) * IdWord
  <2>6. /\ au \in Nat /\ ct \in Nat /\ bt \in Nat /\ rtw \in Nat /\ qw \in Nat
        /\ au + ct = bt + rtw /\ g = rtw + qw /\ x = (au + qw) + ct
    BY <1>1, <1>2, <1>4, <2>1, <2>2, <2>3, <2>4, <2>5
  <2> HIDE DEF au, ct, bt, rtw, qw, g
  <2>7. x = bt + g
    BY <2>6
  <2> QED BY <2>7 DEF bt, g
<1>6. r * t + q \in Nat
  OBVIOUS
<1> QED BY <1>4, <1>5, <1>6 DEF Shifted

\* What is read, digit by digit, and what the positions give.
Reads(a, d, w) ==
    a[0] = 0 /\ \A k \in 1 .. w : a[k] = (a[k - 1] * 10 + (d[k] - 48)) % IdWord
Gives(s, d, w) ==
    s[0] = 0 /\ \A k \in 1 .. w : s[k] = s[k - 1] + (d[k] - 48) * Tens(w - k)

\* The number that has been read is what the positions give so far, wrapped.
LEMMA DigitByDigit ==
    ASSUME NEW w \in Nat, NEW d, \A i \in 1 .. w : d[i] \in Digit,
           NEW a, Reads(a, d, w), NEW s, Gives(s, d, w)
    PROVE  s[w] \in Nat /\ a[w] = s[w] % IdWord
<1> DEFINE Good(k) == Shifted(s[k], a[k], Tens(w - k))
           S == {k \in 0 .. w : Good(k)}
<1>4. Good(0)
  <2>1. 0 = 0 * Tens(w - 0) + 0 * IdWord /\ 0 < IdWord
    BY TensSteps, HelloLineAssumption
  <2> QED BY <2>1 DEF Reads, Gives, Shifted
<1>5. ASSUME NEW k \in 1 .. w, Good(k - 1) PROVE Good(k)
  <2>1. d[k] - 48 \in Nat
    BY DEF Digit
  <2>2. Tens(w - k) \in Nat /\ Tens(w - (k - 1)) = 10 * Tens(w - k)
    <3>1. w - k \in Nat /\ w - (k - 1) = (w - k) + 1
      OBVIOUS
    <3> QED BY <3>1, TensSteps
  <2>3. a[k] = (a[k - 1] * 10 + (d[k] - 48)) % IdWord /\ s[k] = s[k - 1] + (d[k] - 48) * Tens(w - k)
    BY DEF Reads, Gives
  <2> QED BY <1>5, <2>1, <2>2, <2>3, DigitRead
<1>6. Good(w)
  <2>1. 0 \in S /\ \A k \in 1 .. w : k - 1 \in S => k \in S
    <3> HIDE DEF Good
    <3>1. \A k \in 1 .. w : Good(k - 1) => Good(k)
      BY <1>5
    <3> QED BY <1>4, <3>1
  <2>2. \A k \in 0 .. w : k \in S
    <3> HIDE DEF S
    <3> QED BY <2>1, UpTo
  <2> HIDE DEF Good
  <2> QED BY <2>2
<1>7. a[w] \in Nat /\ a[w] < IdWord
  BY <1>6 DEF Shifted
<1>8. PICK r \in Nat : s[w] = a[w] + r * IdWord
  <2>1. Tens(w - w) = 1
    BY TensSteps
  <2>2. PICK r \in Nat : s[w] = a[w] * 1 + r * IdWord
    BY <1>6, <2>1 DEF Shifted
  <2> QED BY <1>7, <2>2
<1>9. (a[w] + r * IdWord) % IdWord = a[w] /\ a[w] + r * IdWord \in Nat
  BY <1>7, RemainderUnique, HelloLineAssumption
<1> QED BY <1>8, <1>9

\* Reading a number digit by digit in unsigned arithmetic is wrapping its value.
LEMMA NumberIsValue ==
    ASSUME NEW d \in Seq(Nat), \A i \in 1 .. Len(d) : d[i] \in Digit
    PROVE  Value(d) \in Nat /\ Number(d) = Value(d) % IdWord
<1> DEFINE w == Len(d)
           q == [i \in 1 .. w |-> (d[i] - 48) * Tens(w - i)]
<1>1. w \in Nat /\ DOMAIN d = 1 .. w /\ \A i \in 1 .. w : d[i] \in Digit
  BY LenProperties
<1>2. Value(d) = FoldLeft(+, 0, q)
  BY <1>1 DEF Value
<1>3. DOMAIN q = 1 .. w /\ \A k \in 1 .. w : q[k] = (d[k] - 48) * Tens(w - k)
  OBVIOUS
<1> HIDE DEF w, q
<1>4. PICK a : ByPrefix(a, "id", d, w) /\ Number(d) = a[w]
  BY <1>1, FoldsByPrefix
<1>5. PICK s : ByPrefix(s, "sum", q, w) /\ FoldLeft(+, 0, q) = s[w]
  BY <1>1, <1>3, FoldsByPrefix
<1>6. Reads(a, d, w)
  BY <1>4 DEF ByPrefix, Step, Base, Reads
<1>7. Gives(s, d, w)
  <2>1. s[0] = 0 /\ \A k \in 1 .. w : s[k] = s[k - 1] + q[k]
    BY <1>5 DEF ByPrefix, Step, Base
  <2> QED BY <1>3, <2>1 DEF Gives
<1>8. s[w] \in Nat /\ a[w] = s[w] % IdWord
  BY <1>1, <1>6, <1>7, DigitByDigit
<1> QED BY <1>2, <1>4, <1>5, <1>8

-----------------------------------------------------------------------------
(* What a line says.                                                        *)

\* A part of a line.
LEMMA Part ==
    ASSUME NEW s \in Seq(Nat), NEW from \in 1 .. Len(s), NEW to \in 1 .. Len(s), from <= to
    PROVE  /\ SubSeq(s, from, to) \in Seq(Nat)
           /\ Len(SubSeq(s, from, to)) = to - from + 1
           /\ \A i \in 1 .. to - from + 1 : SubSeq(s, from, to)[i] = s[from + i - 1]
<1>1. \A i \in from .. to : s[i] \in Nat
  <2>1. \A i \in from .. to : i \in 1 .. Len(s)
    BY LenProperties
  <2> QED BY <2>1, ElementOfSeq
<1> QED BY <1>1, SubSeqProperties

\* What Trimmed leaves of a line with something other than blanks in it.
LEMMA TrimmedPart ==
    ASSUME NEW frame \in Seq(Nat), NEW from \in 1 .. Len(frame), NEW to \in 1 .. Len(frame),
           frame[from] # SP, \A i \in 1 .. Len(frame) : i < from => frame[i] = SP,
           frame[to] \notin Blanks, \A i \in 1 .. Len(frame) : to < i => frame[i] \in Blanks
    PROVE  Trimmed(frame) = SubSeq(frame, from, to)
<1> DEFINE L == Len(frame)
           kept == {i \in DOMAIN frame : frame[i] \notin Blanks}
           lead == {i \in DOMAIN frame : frame[i] # SP}
<1>1. L \in Nat /\ DOMAIN frame = 1 .. L
  BY LenProperties
<1>2. to \in kept /\ \A i \in kept : i <= to
  BY <1>1
<1>3. from \in lead /\ \A i \in lead : from <= i
  BY <1>1
<1>4. kept \in SUBSET Positions(L) /\ lead \in SUBSET Positions(L)
  BY <1>1 DEF Positions
<1>5. Trimmed(frame) = SubSeq(frame, Min(lead), Max(kept))
  BY <1>2 DEF Trimmed
<1>0. kept \subseteq Int /\ lead \subseteq Int
  BY <1>1
<1> HIDE DEF L, kept, lead
<1>6. Max(kept) \in kept /\ to <= Max(kept)
  BY <1>1, <1>2, <1>4, Extremes
<1>7. Min(lead) \in lead /\ Min(lead) <= from
  BY <1>1, <1>3, <1>4, Extremes
<1>8. Max(kept) \in Int /\ Min(lead) \in Int
  BY <1>0, <1>6, <1>7
<1>9. Max(kept) = to
  BY <1>2, <1>6, <1>8 DEF L
<1>10. Min(lead) = from
  BY <1>3, <1>7, <1>8 DEF L
<1> QED BY <1>5, <1>9, <1>10

\* A digit is not cut off the end of a line.
LEMMA DigitsAreNoBlanks == \A c \in Digit : c \notin Blanks
BY DEF Blanks, Digit, SP, CR, LF

\* Of a line that says HELLO, ParseClientId reads the digits.
LEMMA HelloIsParsed ==
    ASSUME NEW frame \in Seq(Nat), NEW lead \in Nat, NEW width \in Nat \ {0}, NEW trail \in Nat,
           IsHello(frame, lead, width, trail)
    PROVE  LET d == SubSeq(frame, lead + 3, lead + 2 + width)
           IN  /\ d \in Seq(Nat) /\ \A i \in 1 .. Len(d) : d[i] \in Digit
               /\ ParseClientId(frame) = Number(d)
<1> DEFINE line == SubSeq(frame, lead + 1, lead + 2 + width)
           d    == SubSeq(frame, lead + 3, lead + 2 + width)
           e    == SubSeq(line, 3, Len(line))
<1>1. /\ Len(frame) \in Nat
      /\ lead + 1 \in 1 .. Len(frame) /\ lead + 2 + width \in 1 .. Len(frame)
      /\ lead + 3 \in 1 .. Len(frame)
  BY LenProperties DEF IsHello
<1>2. \A i \in 1 .. width : frame[lead + 2 + i] \in Digit
  <2> TAKE i \in 1 .. width
  <2>1. frame[lead + 2 + i] \in Nat
    <3>1. lead + 2 + i \in 1 .. Len(frame)
      BY <1>1
    <3> QED BY <3>1, ElementOfSeq
  <2>2. frame[lead + 2 + i] - 48 \in 0 .. 9
    BY DEF IsHello
  <2> QED BY <2>1, <2>2 DEF Digit
<1>3. Trimmed(frame) = line
  <2>1. frame[lead + 1] # SP /\ \A i \in 1 .. Len(frame) : i < lead + 1 => frame[i] = SP
    BY <1>1 DEF IsHello, HELLO, SP
  <2>2. frame[lead + 2 + width] \notin Blanks
    <3>1. width \in 1 .. width
      OBVIOUS
    <3>2. frame[lead + 2 + width] \in Digit
      BY <1>2, <3>1
    <3> QED BY <3>2, DigitsAreNoBlanks
  <2>3. \A i \in 1 .. Len(frame) : lead + 2 + width < i => frame[i] \in Blanks
    BY <1>1 DEF IsHello
  <2> QED BY <1>1, <2>1, <2>2, <2>3, TrimmedPart
<1>4. /\ line \in Seq(Nat) /\ Len(line) = width + 2
      /\ \A i \in 1 .. width + 2 : line[i] = frame[lead + i]
  <2>1. /\ line \in Seq(Nat) /\ Len(line) = (lead + 2 + width) - (lead + 1) + 1
        /\ \A i \in 1 .. (lead + 2 + width) - (lead + 1) + 1 : line[i] = frame[lead + 1 + i - 1]
    <3>1. lead + 1 <= lead + 2 + width
      OBVIOUS
    <3> QED BY <1>1, <3>1, Part
  <2> HIDE DEF line
  <2>2. (lead + 2 + width) - (lead + 1) + 1 = width + 2
    OBVIOUS
  <2>3. \A i \in 1 .. width + 2 : lead + 1 + i - 1 = lead + i
    OBVIOUS
  <2> QED BY <2>1, <2>2, <2>3
<1>5. /\ d \in Seq(Nat) /\ Len(d) = width
      /\ \A i \in 1 .. width : d[i] = frame[lead + 2 + i]
  <2>1. /\ d \in Seq(Nat) /\ Len(d) = (lead + 2 + width) - (lead + 3) + 1
        /\ \A i \in 1 .. (lead + 2 + width) - (lead + 3) + 1 : d[i] = frame[lead + 3 + i - 1]
    <3>1. lead + 3 <= lead + 2 + width
      OBVIOUS
    <3> QED BY <1>1, <3>1, Part
  <2> HIDE DEF d
  <2>2. (lead + 2 + width) - (lead + 3) + 1 = width
    OBVIOUS
  <2>3. \A i \in 1 .. width : lead + 3 + i - 1 = lead + 2 + i
    OBVIOUS
  <2> QED BY <2>1, <2>2, <2>3
<1> HIDE DEF line, d
<1>6. /\ e \in Seq(Nat) /\ Len(e) = width
      /\ \A i \in 1 .. width : e[i] = line[i + 2]
  <2>1. /\ e \in Seq(Nat) /\ Len(e) = Len(line) - 3 + 1
        /\ \A i \in 1 .. Len(line) - 3 + 1 : e[i] = line[3 + i - 1]
    <3>1. 3 \in 1 .. Len(line) /\ Len(line) \in 1 .. Len(line) /\ 3 <= Len(line)
      BY <1>4
    <3> QED BY <1>4, <3>1, Part
  <2> HIDE DEF e
  <2>2. Len(line) - 3 + 1 = width /\ \A i \in 1 .. width : 3 + i - 1 = i + 2
    BY <1>4
  <2> QED BY <2>1, <2>2
<1>7. e = d
  <2>1. \A i \in 1 .. width : e[i] = d[i]
    <3> TAKE i \in 1 .. width
    <3>1. i + 2 \in 1 .. width + 2 /\ lead + (i + 2) = lead + 2 + i
      OBVIOUS
    <3> HIDE DEF e
    <3>2. line[i + 2] = frame[lead + (i + 2)]
      BY <1>4, <3>1
    <3>3. d[i] = frame[lead + 2 + i] /\ e[i] = line[i + 2]
      BY <1>5, <1>6
    <3> QED BY <3>1, <3>2, <3>3
  <2> HIDE DEF e
  <2> QED BY <1>5, <1>6, <2>1, SeqEqual
<1>8. \A i \in 1 .. Len(d) : d[i] \in Digit
  BY <1>2, <1>5
<1>9. DOMAIN d = 1 .. Len(d)
  BY <1>5, LenProperties
<1>10. Len(line) >= 3 /\ line[1] = HELLO /\ line[2] = SP
  <2>1. line[1] = frame[lead + 1] /\ line[2] = frame[lead + 2]
    BY <1>4
  <2> QED BY <1>4, <2>1 DEF IsHello
<1>11. ParseClientId(frame) = Number(d)
  BY <1>3, <1>7, <1>8, <1>9, <1>10 DEF ParseClientId
<1> QED BY <1>5, <1>8, <1>11 DEF d

\* Only of a line that says HELLO it reads anything.
LEMMA ParsedIsHello ==
    ASSUME NEW frame \in Seq(Nat), ParseClientId(frame) # 0
    PROVE  \E lead \in Nat, width \in Nat \ {0}, trail \in Nat :
              IsHello(frame, lead, width, trail)
<1> DEFINE L == Len(frame)
           kept == {i \in DOMAIN frame : frame[i] \notin Blanks}
           from == {i \in DOMAIN frame : frame[i] # SP}
           a == Min(from)
           b == Max(kept)
           line == Trimmed(frame)
           digits == SubSeq(line, 3, Len(line))
<1>1. L \in Nat /\ DOMAIN frame = 1 .. L
  BY LenProperties
<1>2. /\ Len(line) >= 3 /\ line[1] = HELLO /\ line[2] = SP
      /\ \A i \in DOMAIN digits : digits[i] \in Digit
  BY DEF ParseClientId
<1>3. kept # {}
  <2>1. kept = {} => line = <<>>
    BY DEF Trimmed
  <2>2. Len(<<>>) = 0
    OBVIOUS
  <2> HIDE DEF line, kept
  <2> QED BY <1>2, <2>1, <2>2
<1>4. line = SubSeq(frame, a, b)
  BY <1>3 DEF Trimmed
<1>5. kept \subseteq from /\ from \subseteq 1 .. L
  BY <1>1 DEF Blanks
<1>6. /\ \A i \in 1 .. L : i \notin from => frame[i] = SP
      /\ \A i \in 1 .. L : i \notin kept => frame[i] \in Blanks
  BY <1>1
<1> HIDE DEF L, kept, from
<1>7. /\ a \in from /\ \A i \in from : a <= i
      /\ b \in kept /\ \A i \in kept : i <= b
  <2>1. from \in SUBSET Positions(L) /\ kept \in SUBSET Positions(L)
    BY <1>5 DEF Positions
  <2> QED BY <1>1, <1>3, <1>5, <2>1, Extremes
<1> HIDE DEF a, b
<1>8. a \in 1 .. L /\ b \in 1 .. L /\ a <= b
  BY <1>5, <1>7
<1> HIDE DEF line, digits
<1>9. /\ line \in Seq(Nat) /\ Len(line) = b - a + 1
      /\ \A i \in 1 .. b - a + 1 : line[i] = frame[a + i - 1]
  BY <1>4, <1>8, Part DEF L
<1> DEFINE lead == a - 1
           width == b - a - 1
           trail == L - b
<1>10. lead \in Nat /\ width \in Nat \ {0} /\ trail \in Nat
  BY <1>1, <1>2, <1>8, <1>9
<1>11. \A i \in 1 .. width : frame[lead + 2 + i] - 48 \in 0 .. 9
  <2>1. /\ Len(digits) = Len(line) - 3 + 1 /\ DOMAIN digits = 1 .. Len(digits)
        /\ \A i \in 1 .. Len(line) - 3 + 1 : digits[i] = line[3 + i - 1]
    <3>1. 3 \in 1 .. Len(line) /\ Len(line) \in 1 .. Len(line) /\ 3 <= Len(line)
      BY <1>2, <1>8, <1>9
    <3> QED BY <1>9, <3>1, Part, LenProperties DEF digits
  <2> TAKE i \in 1 .. width
  <2>2. /\ i \in 1 .. Len(line) - 3 + 1 /\ 3 + i - 1 \in 1 .. b - a + 1
        /\ a + (3 + i - 1) - 1 = lead + 2 + i
    BY <1>8, <1>9
  <2>3. digits[i] \in Digit /\ digits[i] = line[3 + i - 1]
    BY <1>2, <2>1, <2>2
  <2>4. line[3 + i - 1] = frame[a + (3 + i - 1) - 1]
    BY <1>9, <2>2
  <2>5. frame[lead + 2 + i] \in Digit
    BY <2>2, <2>3, <2>4
  <2> QED BY <2>5 DEF Digit
<1>12. \A i \in 1 .. lead : frame[i] = SP
  <2> TAKE i \in 1 .. lead
  <2>1. i \in 1 .. L /\ ~(a <= i)
    BY <1>1, <1>8
  <2> QED BY <1>6, <1>7, <2>1
<1>13. frame[lead + 1] = HELLO /\ frame[lead + 2] = SP
  <2>1. 1 \in 1 .. b - a + 1 /\ 2 \in 1 .. b - a + 1 /\ a + 1 - 1 = lead + 1 /\ a + 2 - 1 = lead + 2
    BY <1>2, <1>8, <1>9
  <2>2. line[1] = frame[a + 1 - 1] /\ line[2] = frame[a + 2 - 1]
    BY <1>9, <2>1
  <2> QED BY <1>2, <2>1, <2>2
<1>14. \A i \in lead + 3 + width .. L : frame[i] \in Blanks
  <2> TAKE i \in lead + 3 + width .. L
  <2>1. i \in 1 .. L /\ ~(i <= b)
    BY <1>1, <1>8
  <2> QED BY <1>6, <1>7, <2>1
<1>15. L = lead + 2 + width + trail
  BY <1>1, <1>8
<1>16. IsHello(frame, lead, width, trail)
  BY <1>11, <1>12, <1>13, <1>14, <1>15 DEF IsHello, L
<1> QED BY <1>10, <1>16

\* ParseClientId returns an id exactly for a HELLO of one that is not 0 in its
\* width: two values of the reference definition cannot disagree.
LEMMA ParseIsExact ==
    ASSUME NEW frame \in Seq(Nat)
    PROVE  ParseClientId(frame) # 0 <=> \E n \in Numbers(frame) : n % IdWord # 0
<1> DEFINE N == 0 .. Len(frame)
           part(lead, width) == SubSeq(frame, lead + 3, lead + 2 + width)
<1>1. \A n : n \in Numbers(frame) <=>
         \E lead \in N, width \in N \ {0}, trail \in N :
            IsHello(frame, lead, width, trail) /\ n = Value(part(lead, width))
  <2> DEFINE H == {g \in N \X (N \ {0}) \X N : IsHello(frame, g[1], g[2], g[3])}
  <2>1. Numbers(frame) = {Value(part(f[1], f[2])) : f \in H}
    BY DEF Numbers
  <2> HIDE DEF N, part
  <2>2. ASSUME NEW n \in Numbers(frame)
        PROVE  \E lead \in N, width \in N \ {0}, trail \in N :
                  IsHello(frame, lead, width, trail) /\ n = Value(part(lead, width))
    <3>1. PICK f \in H : n = Value(part(f[1], f[2]))
      BY <2>1
    <3>2. /\ f[1] \in N /\ f[2] \in N \ {0} /\ f[3] \in N
          /\ IsHello(frame, f[1], f[2], f[3])
      OBVIOUS
    <3> QED BY <3>1, <3>2
  <2>3. ASSUME NEW lead \in N, NEW width \in N \ {0}, NEW trail \in N,
               IsHello(frame, lead, width, trail)
        PROVE  Value(part(lead, width)) \in Numbers(frame)
    <3>1. <<lead, width, trail>> \in H
      BY <2>3
    <3> HIDE DEF H
    <3>2. \E f \in H : Value(part(lead, width)) = Value(part(f[1], f[2]))
      BY <3>1
    <3> QED BY <2>1, <3>2
  <2> QED BY <2>2, <2>3
<1>2. ASSUME NEW lead \in Nat, NEW width \in Nat \ {0}, NEW trail \in Nat,
             IsHello(frame, lead, width, trail)
      PROVE  ParseClientId(frame) = Value(part(lead, width)) % IdWord
  <2>1. /\ part(lead, width) \in Seq(Nat)
        /\ \A i \in 1 .. Len(part(lead, width)) : part(lead, width)[i] \in Digit
        /\ ParseClientId(frame) = Number(part(lead, width))
    BY <1>2, HelloIsParsed
  <2> HIDE DEF part
  <2> QED BY <2>1, NumberIsValue
<1>3. ASSUME NEW lead \in Nat, NEW width \in Nat \ {0}, NEW trail \in Nat,
             IsHello(frame, lead, width, trail)
      PROVE  lead \in N /\ width \in N /\ trail \in N
  BY <1>3, LenProperties DEF IsHello
<1>4. N \subseteq Nat
  OBVIOUS
<1> HIDE DEF N, part
<1>5. ASSUME ParseClientId(frame) # 0 PROVE \E n \in Numbers(frame) : n % IdWord # 0
  <2>1. PICK lead \in Nat, width \in Nat \ {0}, trail \in Nat : IsHello(frame, lead, width, trail)
    BY <1>5, ParsedIsHello
  <2> QED BY <1>1, <1>2, <1>3, <1>5, <2>1
<1>6. ASSUME NEW n \in Numbers(frame), n % IdWord # 0 PROVE ParseClientId(frame) # 0
  <2>1. PICK lead \in N, width \in N \ {0}, trail \in N :
           IsHello(frame, lead, width, trail) /\ n = Value(part(lead, width))
    BY <1>1
  <2> QED BY <1>2, <1>4, <1>6, <2>1
<1> QED BY <1>5, <1>6

-----------------------------------------------------------------------------
(* The answers.                                                             *)

\* An answer is ERR exactly for a line of which ParseClientId reads nothing, and
\* a process that was terminated has a thread whose HELLO threw.
HeardInv ==
    /\ ServerTypeOK
    /\ heard \in [IoThreads -> [line : Frames \cup {<<>>},
                                answer : {"none", "ERR", "OK", "throws"}]]
    /\ \A t \in IoThreads : pc[t] = "answered" =>
          /\ heard[t].line \in Frames
          /\ heard[t].answer = "ERR" <=> ParseClientId(heard[t].line) = 0
    /\ over = "terminated" => \E t \in IoThreads : heard[t].answer = "throws"

\* A line is handled: the thread remembers it, and what it was answered.
LEMMA HandleMessageHeard ==
    ASSUME HeardInv, NEW t \in IoThreads, NEW frame \in Frames, HandleMessage(t, frame),
           ServerTypeOK', over = "no"
    PROVE  HeardInv'
<1> DEFINE id == ClientIdOf[frame]
           answer == IF id = 0 THEN "ERR" ELSE IF id \in DOMAIN list THEN "OK" ELSE "throws"
<1>1. id = ParseClientId(frame)
  BY DEF ClientIdOf
<1>2. /\ heard' = [heard EXCEPT ![t] = [line |-> frame, answer |-> answer]]
      /\ pc' = [pc EXCEPT ![t] = "answered"]
      /\ IF id = 0 THEN UNCHANGED over ELSE Hello(t, id)
  BY DEF HandleMessage, Goes
<1>3. answer = "ERR" <=> id = 0
  OBVIOUS
<1>4. over' = "terminated" => answer = "throws"
  BY <1>2 DEF Hello
<1>5. answer \in {"none", "ERR", "OK", "throws"}
  OBVIOUS
<1> HIDE DEF id, answer
<1>6. /\ heard' \in [IoThreads -> [line : Frames \cup {<<>>}, answer : {"none", "ERR", "OK", "throws"}]]
      /\ heard'[t] = [line |-> frame, answer |-> answer]
      /\ \A u \in IoThreads \ {t} : heard'[u] = heard[u] /\ pc'[u] = pc[u]
  BY <1>2, <1>5 DEF HeardInv, ServerTypeOK
<1>7. \A u \in IoThreads : pc'[u] = "answered" =>
        /\ heard'[u].line \in Frames
        /\ heard'[u].answer = "ERR" <=> ParseClientId(heard'[u].line) = 0
  <2> TAKE u \in IoThreads
  <2>1. CASE u = t
    BY <1>1, <1>3, <1>6, <2>1
  <2>2. CASE u # t
    BY <1>6, <2>2 DEF HeardInv
  <2> QED BY <2>1, <2>2
<1>8. over' = "terminated" => \E u \in IoThreads : heard'[u].answer = "throws"
  BY <1>4, <1>6
<1> QED BY <1>6, <1>7, <1>8 DEF HeardInv

\* No other step answers a line or terminates the process.
LEMMA OthersKeepHeard ==
    ASSUME HeardInv, ServerTypeOK',
           \A u \in IoThreads : pc'[u] = "answered" => pc[u] = "answered" /\ heard'[u] = heard[u],
           heard' \in [IoThreads -> [line : Frames \cup {<<>>}, answer : {"none", "ERR", "OK", "throws"}]],
           over' # "terminated"
    PROVE  HeardInv'
BY DEF HeardInv

\* Every step keeps it.
LEMMA NextHeardInv == AcceptInv /\ HeardInv /\ [Next]_vars => HeardInv'
<1> SUFFICES ASSUME AcceptInv, HeardInv, [Next]_vars PROVE HeardInv'
  OBVIOUS
<1>1. ServerTypeOK'
  BY NextAcceptInv DEF AcceptInv
<1>2. CASE UNCHANGED vars
  <2>1. UNCHANGED <<heard, pc, over, open, accepts, owner>>
    BY <1>2 DEF vars, acceptVars, sessionVars
  <2> QED BY <1>1, <2>1 DEF HeardInv
<1> DEFINE Told == heard' \in [IoThreads -> [line : Frames \cup {<<>>},
                                            answer : {"none", "ERR", "OK", "throws"}]]
           Quiet(q) == /\ UNCHANGED heard /\ over' # "terminated"
                       /\ pc' = pc \/ \E t \in IoThreads : pc' = [pc EXCEPT ![t] = q]
<1>3. ASSUME NEW q \in {"idle", "return", "test", "arm", "read"}, Quiet(q) PROVE HeardInv'
  <2>1. \A u \in IoThreads : pc'[u] = "answered" => pc[u] = "answered" /\ heard'[u] = heard[u]
    BY <1>3 DEF HeardInv, ServerTypeOK
  <2>2. Told
    BY <1>3 DEF HeardInv
  <2> QED BY <1>1, <1>3, <2>1, <2>2, OthersKeepHeard
<1>4. CASE over = "no" /\ (StartServer \/ StopServer \/ DropServer)
  <2>1. Quiet("idle")
    BY <1>4 DEF StartServer, StopServer, DropServer, sessionVars
  <2> HIDE DEF Quiet
  <2> QED BY <1>3, <2>1
<1>5. ASSUME NEW t \in IoThreads, over = "no",
             \/ OnAccept(t) \/ OnAcceptError(t) \/ OnAcceptReturns(t) \/ TestOpen(t) \/ DoAccept(t)
             \/ HandleDisconnect(t) \/ CallbackDangles(t)
             \/ \E n \in 1 .. MaxAccepts : ReadCompletes(t, n)
             \/ Tick(t)
      PROVE  HeardInv'
  <2>1. UNCHANGED heard /\ over' # "terminated"
    BY <1>5 DEF OnAccept, OnAcceptError, OnAcceptReturns, TestOpen, DoAccept, HandleDisconnect,
                CallbackDangles, ReadCompletes, Tick, sessionVars
  <2>2. \E q \in {"idle", "return", "test", "arm", "read"} :
          pc' = pc \/ pc' = [pc EXCEPT ![t] = q]
    <3>1. CASE OnAccept(t) \/ OnAcceptError(t) \/ OnAcceptReturns(t) \/ DoAccept(t) \/ HandleDisconnect(t)
      BY <3>1 DEF OnAccept, OnAcceptError, OnAcceptReturns, DoAccept, HandleDisconnect, Goes
    <3>2. CASE TestOpen(t)
      BY <3>2 DEF TestOpen, Goes
    <3>3. CASE CallbackDangles(t) \/ Tick(t)
      BY <3>3 DEF CallbackDangles, Tick
    <3>4. CASE \E n \in 1 .. MaxAccepts : ReadCompletes(t, n)
      BY <3>4 DEF ReadCompletes, Goes
    <3> QED BY <1>5, <3>1, <3>2, <3>3, <3>4
  <2>3. \E q \in {"idle", "return", "test", "arm", "read"} : Quiet(q)
    BY <2>1, <2>2
  <2> HIDE DEF Quiet
  <2> QED BY <1>3, <2>3
<1>6. ASSUME NEW t \in IoThreads, over = "no", ReadAgain(t) PROVE HeardInv'
  <2>1. /\ heard' = [heard EXCEPT ![t] = Silence] /\ pc' = [pc EXCEPT ![t] = "idle"]
        /\ UNCHANGED over
    BY <1>6 DEF ReadAgain, Goes
  <2>2. Silence \in [line : Frames \cup {<<>>}, answer : {"none", "ERR", "OK", "throws"}]
    BY DEF Silence
  <2>3. Told
    BY <2>1, <2>2 DEF HeardInv
  <2>4. \A u \in IoThreads : pc'[u] = "answered" => pc[u] = "answered" /\ heard'[u] = heard[u]
    BY <2>1 DEF HeardInv, ServerTypeOK
  <2> QED BY <1>1, <1>6, <2>1, <2>3, <2>4, OthersKeepHeard
<1>7. ASSUME NEW t \in IoThreads, over = "no", NEW frame \in Frames, HandleMessage(t, frame)
      PROVE  HeardInv'
  BY <1>1, <1>7, HandleMessageHeard
<1> QED BY <1>2, <1>4, <1>5, <1>6, <1>7 DEF Next, HandlerStep

\* Whatever the lines are, ERR goes to those that are no HELLO of an id other than
\* 0 in the width of ClientId, and only a HELLO ends the process
\* (ParseClientId, and what HandleMessage does with its result).
THEOREM ErrIsExact == Spec => []ErrExactly
<1>1. Init => AcceptInv /\ HeardInv
  BY DEF Init, AcceptInv, ServerTypeOK, Chain, Accepting, HeardInv, Silence
<1>2. HeardInv => ErrExactly
  <2> SUFFICES ASSUME HeardInv, NEW t \in IoThreads, pc[t] = "answered"
               PROVE  heard[t].answer = "ERR" <=> heard[t].line \notin Hellos
    BY DEF HeardInv, ErrExactly
  <2>1. heard[t].line \in Frames /\ (heard[t].answer = "ERR" <=> ParseClientId(heard[t].line) = 0)
    BY DEF HeardInv
  <2>2. heard[t].line \in Seq(Nat)
    BY <2>1, TCPServerAssumption
  <2>3. ParseClientId(heard[t].line) # 0 <=> \E n \in Numbers(heard[t].line) : n % IdWord # 0
    BY <2>2, ParseIsExact
  <2> QED BY <2>1, <2>3 DEF Hellos
<1> QED BY <1>1, <1>2, NextAcceptInv, NextHeardInv, PTL DEF Spec
=============================================================================
