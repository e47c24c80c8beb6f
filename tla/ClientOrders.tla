---------------------------- MODULE ClientOrders ----------------------------
(***************************************************************************)
(* ClientList of src/src/client_list, one side (bids or asks) of one       *)
(* client's orders: a map from order id to an iterator, and the std::list  *)
(* of ids in order of arrival that the iterators point into.  Each call is *)
(* one critical section, so the calls are atomic here.  An add is modelled *)
(* in both orders in which a compiler may evaluate its last assignment.    *)
(***************************************************************************)
EXTENDS Integers, Sequences, SequencesExt

CONSTANTS Ids,      \* order ids
          Nodes,    \* bound: the list nodes there are; a freed one is reused
          NoNode    \* the id is not in the map

ASSUME ClientOrdersAssumption == NoNode \notin Nodes

VARIABLES
    by_id,      \* bids: the iterator of each id, OrderEntry::it
    in_order,   \* bids_in_order: the nodes of the list, each with its id
    crashed,    \* a null order was dereferenced, and the process is over
    twice       \* history: the ids that were added while they were in the map

vars == <<by_id, in_order, crashed, twice>>

Node == [at : Nodes, id : Ids]

Known == {id \in Ids : by_id[id] # NoNode}

Init ==
    /\ by_id = [id \in Ids |-> NoNode]
    /\ in_order = <<>>
    /\ crashed = FALSE
    /\ twice = {}

-----------------------------------------------------------------------------
\* Mutant: push_front.
AddOrderFirst(id, n) ==
    /\ \A i \in 1 .. Len(in_order) : in_order[i].at # n
    /\ in_order' = <<[at |-> n, id |-> id]>> \o in_order
    /\ by_id' = [by_id EXCEPT ![id] = n]
    /\ twice' = twice \cup ({id} \cap Known)
    /\ UNCHANGED crashed

\* add_order_to_side where by_id[order->id] is evaluated before the order is moved
\* into the new entry, the order its author counts on: push_back, then the entry
\* of the id is overwritten; the node of an entry it replaces stays in the list.
AddOrder(id, n) ==
    /\ \A i \in 1 .. Len(in_order) : in_order[i].at # n
    /\ in_order' = Append(in_order, [at |-> n, id |-> id])
    /\ by_id' = [by_id EXCEPT ![id] = n]
    /\ twice' = twice \cup ({id} \cap Known)
    /\ UNCHANGED crashed

\* add_order_to_side where the order is moved first, as C++17 and later demand:
\* order->id reads through a null pointer.
AddOrderMoved ==
    /\ crashed' = TRUE
    /\ UNCHANGED <<by_id, in_order, twice>>

\* list::erase of the node an iterator points to.
Erase(n) == RemoveAt(in_order, CHOOSE i \in 1 .. Len(in_order) : in_order[i].at = n)

\* Mutant: the node stays in the list.
RemoveEntry(id) ==
    /\ id \in Known
    /\ by_id' = [by_id EXCEPT ![id] = NoNode]
    /\ UNCHANGED <<in_order, crashed, twice>>

\* remove_order_from_side with an id; an unknown id is only reported.
RemoveOrder(id) ==
    /\ id \in Known
    /\ in_order' = Erase(by_id[id])
    /\ by_id' = [by_id EXCEPT ![id] = NoNode]
    /\ UNCHANGED <<crashed, twice>>

\* Mutant: the entry stays in the map.
RemoveLastNode ==
    /\ Known # {}
    /\ in_order' = Front(in_order)
    /\ UNCHANGED <<by_id, crashed, twice>>

\* Mutant: the front of the list.
RemoveFirstOrder ==
    /\ Known # {}
    /\ in_order' = Tail(in_order)
    /\ by_id' = [by_id EXCEPT ![Head(in_order).id] = NoNode]
    /\ UNCHANGED <<crashed, twice>>

\* remove_order_from_side without an id: the back of the list, and whatever
\* entry there is under its id.
RemoveLastOrder ==
    /\ Known # {}
    /\ in_order' = Front(in_order)
    /\ by_id' = [by_id EXCEPT ![Last(in_order).id] = NoNode]
    /\ UNCHANGED <<crashed, twice>>

Next == ~crashed /\
    \/ \E id \in Ids, n \in Nodes : AddOrder(id, n)
    \/ AddOrderMoved
    \/ \E id \in Ids : RemoveOrder(id)
    \/ RemoveLastOrder

Spec == Init /\ [][Next]_vars

-----------------------------------------------------------------------------
(* Properties.                                                              *)

\* An iterator in the map points to a node that is in the list and carries the
\* id, the last one that does, even when ids are added twice: erasing it, and
\* taking the back of the list while the map is not empty, are both defined.
IteratorsValid ==
    \A id \in Known : \E i \in 1 .. Len(in_order) :
        /\ in_order[i] = [at |-> by_id[id], id |-> id]
        /\ \A j \in i + 1 .. Len(in_order) : in_order[j].id # id

\* get_bids looks up every id of the list: each of them is in the map, but those
\* that were added twice.
GetFindsAll == \A i \in 1 .. Len(in_order) : in_order[i].id \in Known \cup twice

\* The ids that were never added twice are the live orders, and their places in
\* the list are their order of arrival; adding an id a second time takes it out
\* of the abstract side for good.
Live   == {in_order[i].id : i \in 1 .. Len(in_order)} \ twice
Before == {p \in Live \X Live : \E i, j \in 1 .. Len(in_order) :
               i < j /\ p = <<in_order[i].id, in_order[j].id>>}
Arrival == INSTANCE ArrivalOrder WITH live <- Live, before <- Before

\* Without an id it is the order that arrived last that is removed, among the live
\* ones, or one of those that were added twice.
LastRemoved == [][RemoveLastOrder => Arrival!DepartLast \/ UNCHANGED Arrival!vars]_vars

\* Every call is an arrival or a departure, and the removals without an id take
\* the order that is due.
ArrivalSpec == Arrival!Spec /\ LastRemoved
=============================================================================
