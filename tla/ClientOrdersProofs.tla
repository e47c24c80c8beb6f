-------------------------- MODULE ClientOrdersProofs --------------------------
(***************************************************************************)
(* ClientOrders, for any ids and any supply of list nodes: the iterators   *)
(* of the map stay valid, get_bids only fails to find what was added       *)
(* twice, and the list implements the order of arrival.  Both removals     *)
(* take one position out of the list, and with it the entry of the id that *)
(* stands there.                                                           *)
(***************************************************************************)
EXTENDS ClientOrders, SequenceTheorems, TLAPS

\* An id that was never added twice stands in the list once at most.
OnceListed ==
    \A i, j \in 1 .. Len(in_order) :
        in_order[i].id = in_order[j].id /\ i # j => in_order[i].id \in twice

\* The types, and that a node is linked once: AddOrder takes one that is not.
Typed ==
    /\ by_id \in [Ids -> Nodes \cup {NoNode}]
    /\ in_order \in Seq(Node)
    /\ twice \subseteq Ids
    /\ \A i, j \in 1 .. Len(in_order) : in_order[i].at = in_order[j].at => i = j

IInv == Typed /\ IteratorsValid /\ GetFindsAll /\ OnceListed

\* Where the element that is at k once position p is out was before.
From(p, k) == IF k < p THEN k ELSE k + 1

\* What list::erase leaves: the elements behind the position move up.
LEMMA RemovedIndex ==
    ASSUME NEW S, NEW s \in Seq(S), NEW p \in 1 .. Len(s)
    PROVE  /\ RemoveAt(s, p) \in Seq(S)
           /\ Len(RemoveAt(s, p)) = Len(s) - 1
           /\ \A i \in 1 .. Len(s) - 1 : RemoveAt(s, p)[i] = s[From(p, i)]
<1> DEFINE l == SubSeq(s, 1, p - 1)
           r == SubSeq(s, p + 1, Len(s))
<1>1. Len(s) \in Nat /\ p \in Nat /\ \A i \in 1 .. Len(s) : s[i] \in S
  OBVIOUS
<1>2. /\ l \in Seq(S) /\ Len(l) = p - 1
      /\ \A i \in 1 .. p - 1 : l[i] = s[i]
  BY <1>1, SubSeqProperties
<1>3. /\ r \in Seq(S) /\ Len(r) = Len(s) - p
      /\ \A i \in 1 .. Len(s) - p : r[i] = s[p + i]
  BY <1>1, SubSeqProperties
<1>4. RemoveAt(s, p) = l \o r
  BY DEF RemoveAt
<1> HIDE DEF l, r
<1>5. /\ l \o r \in Seq(S) /\ Len(l \o r) = Len(l) + Len(r)
      /\ \A i \in 1 .. Len(l) + Len(r) : (l \o r)[i] = IF i <= Len(l) THEN l[i] ELSE r[i - Len(l)]
  BY <1>2, <1>3, ConcatProperties
<1>6. ASSUME NEW i \in 1 .. Len(s) - 1
      PROVE  (l \o r)[i] = s[From(p, i)]
  <2>1. CASE i < p
    BY <1>1, <1>2, <1>3, <1>5, <2>1 DEF From
  <2>2. CASE ~(i < p)
    <3>1. /\ i - Len(l) \in 1 .. Len(s) - p /\ p + (i - Len(l)) = i + 1
          /\ i \in 1 .. Len(l) + Len(r) /\ ~(i <= Len(l))
      BY <1>1, <1>2, <1>3, <2>2
    <3>2. (l \o r)[i] = r[i - Len(l)]
      BY <1>5, <3>1
    <3>3. r[i - Len(l)] = s[i + 1]
      BY <1>3, <3>1
    <3> QED BY <2>2, <3>2, <3>3 DEF From
  <2> QED BY <2>1, <2>2
<1> QED BY <1>1, <1>2, <1>3, <1>4, <1>5, <1>6

\* Every position but p is where an element comes from, and the order stays.
LEMMA RemovedPositions ==
    ASSUME NEW n \in Nat, NEW p \in 1 .. n
    PROVE  /\ \A k \in 1 .. n - 1 : From(p, k) \in 1 .. n /\ From(p, k) # p
           /\ \A i \in 1 .. n : i # p => \E k \in 1 .. n - 1 : i = From(p, k)
           /\ \A j, k \in 1 .. n - 1 : j < k <=> From(p, j) < From(p, k)
<1>1. ASSUME NEW i \in 1 .. n, i # p
      PROVE  \E k \in 1 .. n - 1 : i = From(p, k)
  <2>1. CASE i < p
    BY <2>1 DEF From
  <2>2. CASE ~(i < p)
    <3>1. i - 1 \in 1 .. n - 1 /\ i = From(p, i - 1)
      BY <1>1, <2>2 DEF From
    <3> QED BY <3>1
  <2> QED BY <2>1, <2>2
<1>2. \A k \in 1 .. n - 1 : From(p, k) \in 1 .. n /\ From(p, k) # p
  BY DEF From
<1>3. \A j, k \in 1 .. n - 1 : j < k <=> From(p, j) < From(p, k)
  BY DEF From
<1> QED BY <1>1, <1>2, <1>3

\* A removal: a position and the entry of the id that stands there.
LEMMA RemovalKeepsIInv ==
    ASSUME IInv, NEW p \in 1 .. Len(in_order),
           in_order' = RemoveAt(in_order, p),
           by_id' = [by_id EXCEPT ![in_order[p].id] = NoNode],
           twice' = twice
    PROVE  IInv'
<1> DEFINE gone == in_order[p].id
           N == Len(in_order)
<1>1. in_order \in Seq(Node) /\ N \in Nat /\ p \in Nat /\ gone \in Ids
  <2>1. in_order \in Seq(Node)
    BY DEF IInv, Typed
  <2>2. in_order[p] \in Node
    BY <2>1, ElementOfSeq
  <2> QED BY <2>1, <2>2 DEF Node
<1>2. in_order' \in Seq(Node) /\ Len(in_order') = N - 1
  BY <1>1, RemovedIndex
<1>3. /\ \A i \in 1 .. N : i # p => \E k \in 1 .. N - 1 : i = From(p, k)
      /\ \A j, k \in 1 .. N - 1 : j < k <=> From(p, j) < From(p, k)
  BY <1>1, RemovedPositions
<1>4. \A k \in 1 .. N - 1 :
          in_order'[k] = in_order[From(p, k)] /\ From(p, k) # p /\ From(p, k) \in 1 .. N
  <2>1. \A k \in 1 .. N - 1 : RemoveAt(in_order, p)[k] = in_order[From(p, k)]
    BY <1>1, RemovedIndex
  <2>2. \A k \in 1 .. N - 1 : From(p, k) # p /\ From(p, k) \in 1 .. N
    BY <1>1, RemovedPositions
  <2> QED BY <2>1, <2>2
<1>5. \A j, k \in 1 .. N - 1 : From(p, j) = From(p, k) => j = k
  BY <1>1 DEF From
<1>6. \A id \in Ids : by_id'[id] = IF id = gone THEN NoNode ELSE by_id[id]
  BY <1>1 DEF IInv, Typed
<1>7. Known' = Known \ {gone}
  BY <1>6 DEF Known
<1> HIDE DEF gone, N
<1>8. Typed'
  <2>1. by_id' \in [Ids -> Nodes \cup {NoNode}]
    BY DEF IInv, Typed
  <2>2. \A i, j \in 1 .. N - 1 : in_order'[i].at = in_order'[j].at => i = j
    <3>1. \A i, j \in 1 .. N : in_order[i].at = in_order[j].at => i = j
      BY DEF IInv, Typed, N
    <3> QED BY <1>4, <1>5, <3>1
  <2> QED BY <1>2, <2>1, <2>2 DEF IInv, Typed
<1>9. IteratorsValid'
  <2> SUFFICES ASSUME NEW id \in Known \ {gone}
               PROVE  \E k \in 1 .. N - 1 :
                         /\ in_order'[k] = [at |-> by_id'[id], id |-> id]
                         /\ \A l \in k + 1 .. N - 1 : in_order'[l].id # id
    BY <1>2, <1>7 DEF IteratorsValid
  <2>1. PICK i \in 1 .. N : /\ in_order[i] = [at |-> by_id[id], id |-> id]
                            /\ \A j \in i + 1 .. N : in_order[j].id # id
    BY DEF IInv, IteratorsValid, N
  <2>2. i # p
    BY <2>1 DEF gone
  <2>3. PICK k \in 1 .. N - 1 : in_order'[k] = in_order[i] /\ i = From(p, k)
    BY <1>3, <1>4, <2>2
  <2>4. by_id'[id] = by_id[id]
    BY <1>6 DEF Known
  <2>5. ASSUME NEW l \in k + 1 .. N - 1 PROVE in_order'[l].id # id
    <3>1. l \in 1 .. N - 1 /\ k < l
      BY <1>1
    <3>2. From(p, l) \in 1 .. N /\ i < From(p, l) /\ in_order'[l] = in_order[From(p, l)]
      BY <1>3, <1>4, <2>3, <3>1
    <3>3. From(p, l) \in i + 1 .. N
      BY <1>1, <3>2
    <3> QED BY <2>1, <3>2, <3>3
  <2> QED BY <2>1, <2>3, <2>4, <2>5
<1>10. GetFindsAll'
  <2> SUFFICES ASSUME NEW k \in 1 .. N - 1
               PROVE  in_order'[k].id \in (Known \ {gone}) \cup twice
    BY <1>2, <1>7 DEF GetFindsAll
  <2>1. From(p, k) \in 1 .. N /\ From(p, k) # p /\ in_order'[k] = in_order[From(p, k)]
    BY <1>4
  <2>2. in_order[From(p, k)].id \in Known \cup twice
    BY <2>1 DEF IInv, GetFindsAll, N
  <2>3. in_order[From(p, k)].id = gone => in_order[From(p, k)].id \in twice
    BY <1>1, <2>1 DEF IInv, OnceListed, N, gone
  <2> QED BY <2>1, <2>2, <2>3
<1>11. OnceListed'
  BY <1>2, <1>4, <1>5 DEF IInv, OnceListed, N
<1> QED BY <1>8, <1>9, <1>10, <1>11 DEF IInv

\* An added id goes to the back with a node of its own.
LEMMA AddKeepsIInv ==
    ASSUME IInv, NEW id \in Ids, NEW n \in Nodes, AddOrder(id, n)
    PROVE  IInv'
<1> DEFINE x == [at |-> n, id |-> id]
           N == Len(in_order)
<1>1. in_order \in Seq(Node) /\ N \in Nat /\ x \in Node
  BY DEF IInv, Typed, Node
<1>2. /\ in_order' = Append(in_order, x)
      /\ by_id' = [by_id EXCEPT ![id] = n]
      /\ twice' = twice \cup ({id} \cap Known)
      /\ \A i \in 1 .. N : in_order[i].at # n
  BY DEF AddOrder
<1>3. /\ in_order' \in Seq(Node) /\ Len(in_order') = N + 1 /\ in_order'[N + 1] = x
      /\ \A i \in 1 .. N : in_order'[i] = in_order[i]
  BY <1>1, <1>2
<1>4. \A i \in 1 .. N + 1 : i \in 1 .. N \/ i = N + 1
  BY <1>1
<1>5. x.at = n /\ x.id = id
  OBVIOUS
<1>6. \A i \in Ids : by_id'[i] = IF i = id THEN n ELSE by_id[i]
  BY <1>2 DEF IInv, Typed
<1>7. Known' = Known \cup {id}
  BY <1>6, ClientOrdersAssumption DEF Known
<1> HIDE DEF x, N
<1>8. Typed'
  <2>1. by_id' \in [Ids -> Nodes \cup {NoNode}] /\ twice' \subseteq Ids
    BY <1>2 DEF IInv, Typed, Known
  <2>2. \A i, j \in 1 .. N + 1 : in_order'[i].at = in_order'[j].at => i = j
    BY <1>2, <1>3, <1>4, <1>5 DEF IInv, Typed, N
  <2> QED BY <1>3, <2>1, <2>2 DEF Typed
<1>9. IteratorsValid'
  <2>1. ASSUME NEW k \in Known \cup {id}
        PROVE  \E i \in 1 .. N + 1 : /\ in_order'[i] = [at |-> by_id'[k], id |-> k]
                                     /\ \A j \in i + 1 .. N + 1 : in_order'[j].id # k
    <3>1. CASE k = id
      <4>1. in_order'[N + 1] = [at |-> by_id'[k], id |-> k]
        BY <1>3, <1>6, <3>1 DEF x
      <4>2. N + 1 \in 1 .. N + 1 /\ (N + 1) + 1 .. N + 1 = {}
        BY <1>1
      <4> QED BY <4>1, <4>2
    <3>2. CASE k # id
      <4>1. k \in Known /\ by_id'[k] = by_id[k]
        BY <1>6, <3>2 DEF Known
      <4>2. PICK i \in 1 .. N : /\ in_order[i] = [at |-> by_id[k], id |-> k]
                                /\ \A j \in i + 1 .. N : in_order[j].id # k
        BY <4>1 DEF IInv, IteratorsValid, N
      <4>3. ASSUME NEW j \in i + 1 .. N + 1 PROVE in_order'[j].id # k
        <5>1. (j \in i + 1 .. N /\ j \in 1 .. N) \/ j = N + 1
          BY <1>1
        <5> QED BY <1>3, <1>5, <3>2, <4>2, <5>1
      <4>4. i \in 1 .. N + 1
        BY <1>1
      <4> QED BY <1>3, <4>1, <4>2, <4>3, <4>4
    <3> QED BY <3>1, <3>2
  <2> QED BY <1>3, <1>7, <2>1 DEF IteratorsValid
<1>10. GetFindsAll'
  BY <1>2, <1>3, <1>4, <1>5, <1>7 DEF IInv, GetFindsAll, N
<1>11. OnceListed'
  <2>1. \A i \in 1 .. N : in_order[i].id = id => id \in twice'
    BY <1>2 DEF IInv, GetFindsAll, N
  <2> QED BY <1>2, <1>3, <1>4, <1>5, <2>1 DEF IInv, OnceListed, N
<1> QED BY <1>8, <1>9, <1>10, <1>11 DEF IInv

\* What remove_order_from_side finds: with an id, its position.
LEMMA ErasedPosition ==
    ASSUME IInv, NEW id \in Ids, RemoveOrder(id)
    PROVE  \E p \in 1 .. Len(in_order) : in_order[p].id = id /\ in_order' = RemoveAt(in_order, p)
<1> DEFINE p == CHOOSE i \in 1 .. Len(in_order) : in_order[i].at = by_id[id]
<1>1. PICK i \in 1 .. Len(in_order) : in_order[i] = [at |-> by_id[id], id |-> id]
  BY DEF RemoveOrder, IInv, IteratorsValid
<1>2. p \in 1 .. Len(in_order) /\ in_order[p].at = by_id[id]
  BY <1>1
<1>3. in_order[p].id = id
  BY <1>1, <1>2 DEF IInv, Typed
<1>4. in_order' = RemoveAt(in_order, p)
  BY DEF RemoveOrder, Erase
<1> HIDE DEF p
<1> QED BY <1>2, <1>3, <1>4

\* Without an id, the last position.
LEMMA LastPosition ==
    ASSUME IInv, RemoveLastOrder
    PROVE  /\ Len(in_order) \in 1 .. Len(in_order)
           /\ in_order' = RemoveAt(in_order, Len(in_order))
<1> DEFINE p == Len(in_order)
<1>1. in_order \in Seq(Node) /\ p \in 1 .. Len(in_order)
  <2>1. in_order \in Seq(Node)
    BY DEF IInv, Typed
  <2>2. PICK id \in Known : TRUE
    BY DEF RemoveLastOrder
  <2>3. \E i \in 1 .. Len(in_order) : TRUE
    BY <2>2 DEF IInv, IteratorsValid
  <2> QED BY <2>1, <2>3
<1>2. Front(in_order) = RemoveAt(in_order, p)
  <2>1. /\ Front(in_order) \in Seq(Node) /\ Len(Front(in_order)) = p - 1
        /\ \A i \in 1 .. p - 1 : Front(in_order)[i] = in_order[i]
    <3>1. Front(in_order) = SubSeq(in_order, 1, p - 1) /\ p \in Nat /\ p >= 1
      BY <1>1 DEF Front
    <3>2. \A i \in 1 .. p - 1 : in_order[i] \in Node
      BY <1>1, ElementOfSeq
    <3> HIDE DEF p
    <3> QED BY <3>1, <3>2, SubSeqProperties
  <2>2. /\ RemoveAt(in_order, p) \in Seq(Node) /\ Len(RemoveAt(in_order, p)) = p - 1
        /\ \A i \in 1 .. p - 1 : RemoveAt(in_order, p)[i] = in_order[i]
    <3>1. \A i \in 1 .. p - 1 : From(p, i) = i
      BY <1>1 DEF From
    <3> QED BY <1>1, <3>1, RemovedIndex
  <2> QED BY <2>1, <2>2, SeqEqual
<1>3. in_order' = Front(in_order)
  BY DEF RemoveLastOrder
<1> QED BY <1>1, <1>2, <1>3

\* Every call keeps the map and the list in step.
LEMMA NextIInv == IInv /\ [Next]_vars => IInv'
<1> SUFFICES ASSUME IInv, [Next]_vars PROVE IInv'
  OBVIOUS
<1>1. ASSUME NEW id \in Ids, NEW n \in Nodes, AddOrder(id, n) PROVE IInv'
  BY <1>1, AddKeepsIInv
<1>2. ASSUME NEW id \in Ids, RemoveOrder(id) PROVE IInv'
  <2>1. PICK p \in 1 .. Len(in_order) : in_order[p].id = id /\ in_order' = RemoveAt(in_order, p)
    BY <1>2, ErasedPosition
  <2>2. twice' = twice /\ by_id' = [by_id EXCEPT ![in_order[p].id] = NoNode]
    BY <1>2, <2>1 DEF RemoveOrder
  <2> QED BY <2>1, <2>2, RemovalKeepsIInv
<1>3. CASE RemoveLastOrder
  <2>1. /\ Len(in_order) \in 1 .. Len(in_order)
        /\ in_order' = RemoveAt(in_order, Len(in_order))
    BY <1>3, LastPosition
  <2>2. twice' = twice /\ by_id' = [by_id EXCEPT ![in_order[Len(in_order)].id] = NoNode]
    BY <1>3 DEF RemoveLastOrder, Last
  <2> QED BY <2>1, <2>2, RemovalKeepsIInv
<1>4. CASE AddOrderMoved \/ UNCHANGED vars
  BY <1>4 DEF AddOrderMoved, vars, IInv, Typed, IteratorsValid, GetFindsAll, OnceListed, Known
<1> QED BY <1>1, <1>2, <1>3, <1>4 DEF Next

\* Nothing is in the map at first.
LEMMA InitIInv == Init => IInv
<1> SUFFICES ASSUME Init PROVE IInv
  OBVIOUS
<1>1. in_order \in Seq(Node) /\ Len(in_order) = 0 /\ Known = {}
  BY EmptySeq DEF Init, Known
<1> QED BY <1>1 DEF Init, IInv, Typed, IteratorsValid, GetFindsAll, OnceListed

\* No iterator dangles, whatever is added, added twice and removed
\* (add_order_to_side, remove_order_from_side).
THEOREM IteratorsStayValid == Spec => []IteratorsValid
<1>1. IInv => IteratorsValid
  BY DEF IInv
<1> QED BY <1>1, InitIInv, NextIInv, PTL DEF Spec

\* get_bids finds what it looks up, but for ids that were added twice.
THEOREM GetFinds == Spec => []GetFindsAll
<1>1. IInv => GetFindsAll
  BY DEF IInv
<1> QED BY <1>1, InitIInv, NextIInv, PTL DEF Spec
-----------------------------------------------------------------------------
(* The refinement: arrivals and departures of the ids never added twice.    *)

\* Who is live, and who arrived before whom, by the places in the list.
LEMMA LiveBefore ==
    /\ \A a : a \in Live <=> /\ a \notin twice
                             /\ \E i \in 1 .. Len(in_order) : in_order[i].id = a
    /\ \A a, b : <<a, b>> \in Before <=>
                   /\ a \in Live /\ b \in Live
                   /\ \E i, j \in 1 .. Len(in_order) :
                          i < j /\ in_order[i].id = a /\ in_order[j].id = b
    /\ Before \subseteq Live \X Live
BY DEF Live, Before

\* The same after a step.
LEMMA LiveBeforeNext ==
    /\ \A a : a \in Live' <=> /\ a \notin twice'
                              /\ \E i \in 1 .. Len(in_order') : in_order'[i].id = a
    /\ \A a, b : <<a, b>> \in Before' <=>
                   /\ a \in Live' /\ b \in Live'
                   /\ \E i, j \in 1 .. Len(in_order') :
                          i < j /\ in_order'[i].id = a /\ in_order'[j].id = b
    /\ Before' \subseteq Live' \X Live'
BY DEF Live, Before

\* Two orders of arrival of the same ids are the same if they agree on every pair.
LEMMA SamePairs ==
    ASSUME NEW S, NEW R, NEW Q, R \subseteq S \X S, Q \subseteq S \X S,
           \A a, b \in S : <<a, b>> \in R <=> <<a, b>> \in Q
    PROVE  R = Q
OBVIOUS

\* An order departs when the list keeps the others in their order.
LEMMA Departs ==
    ASSUME NEW id \in Live, Live' = Live \ {id},
           \A a, b \in Live \ {id} : <<a, b>> \in Before' <=> <<a, b>> \in Before
    PROVE  Arrival!Depart(id)
<1>1. Before' = Before \cap (Live' \X Live')
  BY LiveBefore, LiveBeforeNext
<1> QED BY <1>1 DEF Arrival!Depart

\* add_order_to_side: the id arrives, departs if it is there already, or was
\* added twice before and stays away.
LEMMA AddRefines ==
    ASSUME IInv, NEW id \in Ids, NEW n \in Nodes, AddOrder(id, n)
    PROVE  Arrival!Next \/ UNCHANGED Arrival!vars
<1> DEFINE N == Len(in_order)
<1>1. /\ in_order \in Seq(Node) /\ N \in Nat
      /\ in_order' = Append(in_order, [at |-> n, id |-> id])
      /\ twice' = twice \cup ({id} \cap Known)
  BY DEF AddOrder, IInv, Typed
<1>2. /\ Len(in_order') = N + 1 /\ in_order'[N + 1].id = id
      /\ \A i \in 1 .. N : in_order'[i] = in_order[i]
  BY <1>1
<1>3. \A i \in 1 .. N + 1 : i \in 1 .. N \/ i = N + 1
  BY <1>1
<1>4. (\A i \in 1 .. N : i \in 1 .. N + 1 /\ i < N + 1) /\ N + 1 \in 1 .. N + 1
  BY <1>1
<1> HIDE DEF N
<1>5. \A a : a # id => /\ a \in twice' <=> a \in twice
                       /\ (\E i \in 1 .. N + 1 : in_order'[i].id = a) <=>
                            \E i \in 1 .. N : in_order[i].id = a
  BY <1>1, <1>2, <1>3, <1>4
<1>6. \A a : a # id => (a \in Live' <=> a \in Live)
  BY <1>2, <1>5, LiveBefore, LiveBeforeNext DEF N
<1>7. ASSUME NEW a, NEW b, a # id, b # id PROVE <<a, b>> \in Before' <=> <<a, b>> \in Before
  <2>1. (\E i, j \in 1 .. N + 1 : i < j /\ in_order'[i].id = a /\ in_order'[j].id = b) <=>
          \E i, j \in 1 .. N : i < j /\ in_order[i].id = a /\ in_order[j].id = b
    BY <1>2, <1>3, <1>4, <1>7
  <2>2. a \in Live' <=> a \in Live
    BY <1>6, <1>7
  <2>3. b \in Live' <=> b \in Live
    BY <1>6, <1>7
  <2>4. <<a, b>> \in Before <=>
          a \in Live /\ b \in Live /\ \E i, j \in 1 .. N : i < j /\ in_order[i].id = a /\ in_order[j].id = b
    BY LiveBefore DEF N
  <2>5. <<a, b>> \in Before' <=>
          a \in Live' /\ b \in Live' /\ \E i, j \in 1 .. N + 1 : i < j /\ in_order'[i].id = a /\ in_order'[j].id = b
    BY <1>2, LiveBeforeNext
  <2> QED BY <2>1, <2>2, <2>3, <2>4, <2>5
<1>8. id \in Live <=> id \in Known /\ id \notin twice
  <2>1. ASSUME id \in Known PROVE \E i \in 1 .. N : in_order[i].id = id
    <3>1. PICK i \in 1 .. N : in_order[i] = [at |-> by_id[id], id |-> id]
      BY <2>1 DEF IInv, IteratorsValid, N
    <3> QED BY <3>1
  <2>2. (\E i \in 1 .. N : in_order[i].id = id) => id \in Known \cup twice
    BY DEF IInv, GetFindsAll, N
  <2> QED BY <2>1, <2>2, LiveBefore DEF N
<1>9. id \in Live' <=> id \notin Known /\ id \notin twice
  BY <1>1, <1>2, <1>4, LiveBeforeNext
<1>10. CASE id \in Live
  <2>1. Live' = Live \ {id}
    BY <1>6, <1>8, <1>9, <1>10
  <2>2. Arrival!Depart(id)
    BY <1>7, <1>10, <2>1, Departs
  <2> QED BY <2>2 DEF Arrival!Next
<1>11. CASE id \in Live'
  <2>1. id \notin Live /\ Live' = Live \cup {id}
    BY <1>6, <1>8, <1>9, <1>11
  <2>2. ASSUME NEW a PROVE <<a, id>> \in Before' <=> a \in Live
    <3>1. \A i \in 1 .. N : in_order[i].id # id
      BY <1>8, <1>9, <1>11 DEF IInv, GetFindsAll, N
    <3>2. (\E i, j \in 1 .. N + 1 : i < j /\ in_order'[i].id = a /\ in_order'[j].id = id) <=>
            \E i \in 1 .. N : in_order[i].id = a
      BY <1>1, <1>2, <1>3, <1>4, <3>1
    <3> QED BY <1>2, <1>11, <2>1, <3>1, <3>2, LiveBefore, LiveBeforeNext DEF N
  <2>3. ASSUME NEW b, b # id PROVE <<id, b>> \notin Before'
    <3>1. \A i \in 1 .. N : in_order[i].id # id
      BY <1>8, <1>9, <1>11 DEF IInv, GetFindsAll, N
    <3>2. ~\E i, j \in 1 .. N + 1 : i < j /\ in_order'[i].id = id /\ in_order'[j].id = b
      BY <1>1, <1>2, <1>3, <1>4, <2>3, <3>1
    <3> QED BY <1>2, <3>2, LiveBeforeNext
  <2>4. Before' = Before \cup (Live \X {id})
    <3>1. \A a, b \in Live' : <<a, b>> \in Before' <=> <<a, b>> \in Before \cup (Live \X {id})
      BY <1>7, <2>1, <2>2, <2>3, LiveBefore
    <3>2. Before' \subseteq Live' \X Live' /\ Before \cup (Live \X {id}) \subseteq Live' \X Live'
      BY <2>1, LiveBefore, LiveBeforeNext
    <3> QED BY <3>1, <3>2
  <2>5. Arrival!Arrive(id)
    BY <2>1, <2>4 DEF Arrival!Arrive
  <2> QED BY <2>5 DEF Arrival!Next
<1>12. CASE id \notin Live /\ id \notin Live'
  <2>1. Live' = Live
    BY <1>6, <1>12
  <2>2. \A a, b \in Live : <<a, b>> \in Before' <=> <<a, b>> \in Before
    BY <1>7, <1>12
  <2>3. Before' = Before
    <3>1. Before \subseteq Live \X Live /\ Before' \subseteq Live \X Live
      BY <2>1, LiveBefore, LiveBeforeNext
    <3> QED BY <2>2, <3>1, SamePairs
  <2> QED BY <2>1, <2>3 DEF Arrival!vars
<1> QED BY <1>10, <1>11, <1>12

\* Both removals: the id at the position that is taken out departs, unless it was
\* added twice.
LEMMA RemovalRefines ==
    ASSUME IInv, NEW p \in 1 .. Len(in_order),
           in_order' = RemoveAt(in_order, p), twice' = twice
    PROVE  IF in_order[p].id \in Live THEN Arrival!Depart(in_order[p].id) ELSE UNCHANGED Arrival!vars
<1> DEFINE N == Len(in_order)
           id == in_order[p].id
<1>1. in_order \in Seq(Node) /\ N \in Nat
  BY DEF IInv, Typed
<1>2. /\ Len(in_order') = N - 1
      /\ \A k \in 1 .. N - 1 : in_order'[k] = in_order[From(p, k)]
  BY <1>1, RemovedIndex
<1>3. /\ \A k \in 1 .. N - 1 : From(p, k) \in 1 .. N /\ From(p, k) # p
      /\ \A i \in 1 .. N : i # p => \E k \in 1 .. N - 1 : i = From(p, k)
      /\ \A j, k \in 1 .. N - 1 : j < k <=> From(p, j) < From(p, k)
  BY <1>1, RemovedPositions
<1>4. p \in 1 .. N /\ in_order[p].id = id
  OBVIOUS
<1>5. \A i \in 1 .. N : i # p /\ in_order[i].id = id => id \in twice
  BY DEF IInv, OnceListed
<1>6. id \in Live <=> id \notin twice
  BY LiveBefore
<1> HIDE DEF N, id
<1>7. ASSUME NEW a, a \notin twice
      PROVE  (\E k \in 1 .. N - 1 : in_order'[k].id = a) <=>
                a # id /\ \E i \in 1 .. N : in_order[i].id = a
  BY <1>2, <1>3, <1>4, <1>5, <1>7
<1>8. \A a : a \in Live' <=> a # id /\ a \in Live
  BY <1>2, <1>7, LiveBefore, LiveBeforeNext DEF N
<1>9. ASSUME NEW a, NEW b, a # id, b # id PROVE <<a, b>> \in Before' <=> <<a, b>> \in Before
  <2>1. (\E j, k \in 1 .. N - 1 : j < k /\ in_order'[j].id = a /\ in_order'[k].id = b) <=>
          \E i, j \in 1 .. N : i < j /\ in_order[i].id = a /\ in_order[j].id = b
    <3>1. ASSUME NEW j \in 1 .. N - 1, NEW k \in 1 .. N - 1, j < k
          PROVE  /\ From(p, j) \in 1 .. N /\ From(p, k) \in 1 .. N /\ From(p, j) < From(p, k)
                 /\ in_order'[j] = in_order[From(p, j)] /\ in_order'[k] = in_order[From(p, k)]
      BY <1>2, <1>3, <3>1
    <3>2. ASSUME NEW i \in 1 .. N, NEW j \in 1 .. N, i < j, in_order[i].id = a, in_order[j].id = b
          PROVE  \E k, l \in 1 .. N - 1 : k < l /\ in_order'[k].id = a /\ in_order'[l].id = b
      <4>1. i # p /\ j # p
        BY <1>4, <1>9, <3>2
      <4>2. PICK k \in 1 .. N - 1, l \in 1 .. N - 1 : i = From(p, k) /\ j = From(p, l)
        BY <1>3, <4>1
      <4>3. k < l
        BY <1>3, <3>2, <4>2
      <4> QED BY <1>2, <3>2, <4>2, <4>3
    <3> QED BY <3>1, <3>2
  <2>2. (a \in Live' <=> a \in Live) /\ (b \in Live' <=> b \in Live)
    BY <1>8, <1>9
  <2>3. <<a, b>> \in Before <=>
          /\ a \in Live /\ b \in Live
          /\ \E i, j \in 1 .. N : i < j /\ in_order[i].id = a /\ in_order[j].id = b
    BY LiveBefore DEF N
  <2>4. <<a, b>> \in Before' <=>
          /\ a \in Live' /\ b \in Live'
          /\ \E j, k \in 1 .. N - 1 : j < k /\ in_order'[j].id = a /\ in_order'[k].id = b
    BY <1>2, LiveBeforeNext
  <2> QED BY <2>1, <2>2, <2>3, <2>4
<1>10. CASE id \in Live
  <2>1. Live' = Live \ {id}
    BY <1>8
  <2>2. Arrival!Depart(id)
    BY <1>9, <1>10, <2>1, Departs
  <2> QED BY <1>10, <2>2 DEF id
<1>11. CASE id \notin Live
  <2>1. Live' = Live
    BY <1>8, <1>11
  <2>2. \A a, b \in Live : <<a, b>> \in Before' <=> <<a, b>> \in Before
    BY <1>9, <1>11
  <2>3. Before' = Before
    <3>1. Before \subseteq Live \X Live /\ Before' \subseteq Live \X Live
      BY <2>1, LiveBefore, LiveBeforeNext
    <3> QED BY <2>2, <3>1, SamePairs
  <2> QED BY <1>11, <2>1, <2>3 DEF id, Arrival!vars
<1> QED BY <1>10, <1>11

\* The order that arrived last is the one that departs, or none.
LEMMA LastRefines ==
    ASSUME IInv, RemoveLastOrder
    PROVE  Arrival!DepartLast \/ UNCHANGED Arrival!vars
<1> DEFINE p == Len(in_order)
           id == in_order[p].id
<1>1. p \in 1 .. Len(in_order) /\ in_order' = RemoveAt(in_order, p) /\ twice' = twice
  BY LastPosition DEF RemoveLastOrder
<1>2. IF id \in Live THEN Arrival!Depart(id) ELSE UNCHANGED Arrival!vars
  BY <1>1, RemovalRefines
<1>3. ASSUME id \in Live, NEW x \in Live, <<id, x>> \in Before PROVE FALSE
  <2>1. PICK i \in 1 .. p, j \in 1 .. p : i < j /\ in_order[i].id = id /\ in_order[j].id = x
    BY <1>3, LiveBefore
  <2>2. i # p
    BY <1>1, <2>1
  <2>3. id \in twice
    BY <1>1, <2>1, <2>2 DEF IInv, OnceListed
  <2> QED BY <1>3, <2>3, LiveBefore
<1> HIDE DEF id
<1> QED BY <1>2, <1>3 DEF Arrival!DepartLast

\* Every call is an arrival or a departure, or none.
LEMMA StepRefines == IInv /\ [Next]_vars => [Arrival!Next]_(Arrival!vars)
<1> SUFFICES ASSUME IInv, [Next]_vars PROVE Arrival!Next \/ UNCHANGED Arrival!vars
  OBVIOUS
<1>1. ASSUME NEW id \in Ids, NEW n \in Nodes, AddOrder(id, n)
      PROVE  Arrival!Next \/ UNCHANGED Arrival!vars
  BY <1>1, AddRefines
<1>2. ASSUME NEW id \in Ids, RemoveOrder(id) PROVE Arrival!Next \/ UNCHANGED Arrival!vars
  <2>1. PICK p \in 1 .. Len(in_order) : in_order[p].id = id /\ in_order' = RemoveAt(in_order, p)
    BY <1>2, ErasedPosition
  <2>2. twice' = twice
    BY <1>2 DEF RemoveOrder
  <2> QED BY <2>1, <2>2, RemovalRefines DEF Arrival!Next
<1>3. CASE RemoveLastOrder
  <2>1. Live \subseteq Ids
    <3>1. in_order \in Seq(Node)
      BY DEF IInv, Typed
    <3>2. \A i \in 1 .. Len(in_order) : in_order[i] \in Node
      BY <3>1, ElementOfSeq
    <3>3. \A i \in 1 .. Len(in_order) : in_order[i].id \in Ids
      BY <3>2 DEF Node
    <3> QED BY <3>3, LiveBefore
  <2> QED BY <1>3, <2>1, LastRefines DEF Arrival!DepartLast, Arrival!Next
<1>4. CASE AddOrderMoved \/ UNCHANGED vars
  BY <1>4 DEF AddOrderMoved, vars, Arrival!vars, Live, Before
<1> QED BY <1>1, <1>2, <1>3, <1>4 DEF Next

\* An empty list is an empty side.
LEMMA InitArrival == Init => Arrival!Init
<1> SUFFICES ASSUME Init PROVE Arrival!Init
  OBVIOUS
<1>1. Len(in_order) = 0
  BY EmptySeq DEF Init
<1> QED BY <1>1 DEF Live, Before, Arrival!Init

\* remove_bid without an id takes the order that arrived last.
THEOREM LastIsRemoved == Spec => LastRemoved
<1>1. IInv /\ [Next]_vars => [RemoveLastOrder => Arrival!DepartLast \/ UNCHANGED Arrival!vars]_vars
  BY LastRefines
<1> QED BY <1>1, InitIInv, NextIInv, PTL DEF Spec, LastRemoved

\* The list and the map with its iterators are the live orders in order of
\* arrival, whatever is added twice and whatever nodes are used again
\* (add_order_to_side, remove_order_from_side).
THEOREM ImplementsArrival == Spec => ArrivalSpec
<1>1. Spec => Arrival!Spec
  BY InitIInv, NextIInv, InitArrival, StepRefines, PTL DEF Spec, Arrival!Spec
<1> QED BY <1>1, LastIsRemoved DEF ArrivalSpec
=============================================================================
