--------------------------- MODULE AtomicOrderBook ---------------------------
(***************************************************************************)
(* What the order book promises: New, Cancel and Replace are atomic, and   *)
(* the volume of a side moves with its orders.  The threads, mutexes and   *)
(* the separately updated totals of OrderBook implement it.                *)
(***************************************************************************)
EXTENDS Integers

CONSTANTS Ids, Prices, Ints, Word

Sides == {"bid", "ask"}

Orders == {[id |-> id, price |-> p, quantity |-> q % Word] :
              id \in Ids, p \in Prices \ {0}, q \in {i \in Ints : i % Word # 0}}

Add(a, b) == IF a + b < Word THEN a + b ELSE a + b - Word
Sub(a, b) == IF b <= a THEN a - b ELSE a - b + Word

VARIABLES orders, volume

vars == <<orders, volume>>

Init ==
    /\ orders = [s \in Sides |-> {}]
    /\ volume = [s \in Sides |-> 0]

\* A side gains an order with an id of its own, or refuses it.
New(s, o) ==
    /\ \A x \in orders[s] : x.id # o.id
    /\ orders' = [orders EXCEPT ![s] = @ \cup {o}]
    /\ volume' = [volume EXCEPT ![s] = Add(@, o.quantity)]

Cancel(s, o) ==
    /\ o \in orders[s]
    /\ orders' = [orders EXCEPT ![s] = @ \ {o}]
    /\ volume' = [volume EXCEPT ![s] = Sub(@, o.quantity)]

\* The order with n's id takes n's price and quantity.
Replace(s, o, n) ==
    /\ o \in orders[s]
    /\ o.id = n.id
    /\ orders' = [orders EXCEPT ![s] = (@ \ {o}) \cup {n}]
    /\ volume' = [volume EXCEPT ![s] = Add(Sub(@, o.quantity), n.quantity)]

Next ==
    \E s \in Sides :
        \/ \E o \in Orders : New(s, o)
        \/ \E o \in orders[s] : Cancel(s, o)
        \/ \E o \in orders[s], n \in Orders : Replace(s, o, n)

Spec == Init /\ [][Next]_vars
=============================================================================
