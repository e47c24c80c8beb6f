------------------------------ MODULE OrderBook ------------------------------
(***************************************************************************)
(* The order book of src/src/bid_ask_book: two containers of orders, one   *)
(* std::shared_mutex per side, and one std::atomic total per side.  A      *)
(* writer holds the mutex of its side from its first effect to its last;   *)
(* the total is a separate atomic, so the container and the total change   *)
(* in different steps.  GenerateMDUpdate takes each shared lock anew for   *)
(* each of its reads and loads the totals with no lock at all.             *)
(*                                                                         *)
(* A call that is waiting for a mutex has had no effect: it is modelled by *)
(* the caller not having made the call yet.  A rejected call (Validate, a  *)
(* duplicate or an unknown id) only logs: it is the guard that fails.      *)
(***************************************************************************)
EXTENDS Integers, FiniteSets, FiniteSetsExt

CONSTANTS Writers,    \* the threads that change the book
          Readers,    \* the threads that ask for MDUpdates (they may write too)
          NoThread,   \* nobody holds the mutex
          Ids,        \* order ids (uint64)
          Prices,     \* prices a caller may pass (uint64), 0 included
          Ints,       \* what a caller may pass as the constructor's `int qty`
          Word        \* Quantity is an unsigned integer modulo Word (2^64)

Threads == Writers \cup Readers

ASSUME OrderBookAssumption ==
    /\ NoThread \notin Threads
    /\ Ids \subseteq Nat
    /\ Prices \subseteq Nat
    /\ Ints \subseteq Int
    /\ Word \in Nat \ {0}

Sides    == {"bid", "ask"}
Quantity == 0 .. Word - 1

\* Order(ID, Price, int): the int is converted to uint64, a negative one wraps.
MkOrder(id, price, qty) == [id |-> id, price |-> price, quantity |-> qty % Word]

Orders   == {MkOrder(id, p, q) : id \in Ids, p \in Prices, q \in Ints}
NoOrder  == [id |-> 0, price |-> 0, quantity |-> 0]

\* += and -= of an unsigned integer, for operands below Word.
Add(a, b) == IF a + b < Word THEN a + b ELSE a + b - Word
\* Mutant: a signed total, which goes below zero instead of wrapping.
SubSigned(a, b) == a - b
Sub(a, b) == IF b <= a THEN a - b ELSE a - b + Word

VARIABLES
    orders,   \* bids_ and asks_: the set of orders of each side
    total,    \* total_bid_quantity_ and total_ask_quantity_
    lock,     \* who holds bids_mutex_ and asks_mutex_ exclusively
    pc,       \* where each thread is in its call
    side,     \* the side a writer's call is about
    old,      \* *it: the order the call found (or inserted)
    new,      \* new_order of a Replace
    md,       \* the MDUpdate a thread is building: a field per side
    calm      \* history: no writer was inside during a thread's GenerateMDUpdate

bookVars == <<orders, total, lock>>
callVars == <<side, old, new>>
vars     == <<orders, total, lock, pc, side, old, new, md, calm>>

Zero     == [s \in Sides |-> 0]
NoUpdate == [price |-> Zero, qty |-> Zero, total |-> Zero]

WriterPCs == {"add", "erase", "readd", "modify"}
ReaderPCs == {"best_ask", "level_bid", "level_ask", "total_bid", "total_ask"}

Order == [id : Nat, price : Nat, quantity : Quantity]

BookTypeOK ==
    /\ orders \in [Sides -> SUBSET Order]
    /\ total  \in [Sides -> Quantity]

CallTypeOK ==
    /\ lock   \in [Sides -> Threads \cup {NoThread}]
    /\ pc     \in [Threads -> WriterPCs \cup ReaderPCs \cup {"idle", "returned"}]
    /\ side   \in [Threads -> Sides]
    /\ old    \in [Threads -> Order]
    /\ new    \in [Threads -> Order]

UpdateTypeOK ==
    /\ md \in [Threads -> [price : [Sides -> Nat],
                          qty   : [Sides -> Quantity],
                          total : [Sides -> Quantity]]]
    /\ calm \in [Threads -> BOOLEAN]

\* The type invariant: in particular the totals stay in the range of Quantity.
TypeOK == BookTypeOK /\ CallTypeOK /\ UpdateTypeOK

Init ==
    /\ orders = [s \in Sides |-> {}]
    /\ total  = Zero
    /\ lock   = [s \in Sides |-> NoThread]
    /\ pc     = [t \in Threads |-> "idle"]
    /\ side   = [t \in Threads |-> "bid"]
    /\ old    = [t \in Threads |-> NoOrder]
    /\ new    = [t \in Threads |-> NoOrder]
    /\ md     = [t \in Threads |-> NoUpdate]
    /\ calm   = [t \in Threads |-> FALSE]

-----------------------------------------------------------------------------
(* Writers: NewBid/NewAsk, CancelBid/CancelAsk, ReplaceBid/ReplaceAsk.      *)

Validate(o) == o.price # 0 /\ o.quantity # 0

\* Mutant: the mutex is taken without waiting for whoever is inside.
EnterAnyway(t, s, at, found, replacement) ==
    /\ pc[t] = "idle"
    /\ lock' = [lock EXCEPT ![s] = t]
    /\ pc'   = [pc   EXCEPT ![t] = at]
    /\ side' = [side EXCEPT ![t] = s]
    /\ old'  = [old  EXCEPT ![t] = found]
    /\ new'  = [new  EXCEPT ![t] = replacement]
    /\ UNCHANGED md

\* The mutex of side s is taken, and the call remembers what it works on.
Enter(t, s, at, found, replacement) ==
    /\ pc[t] = "idle"
    /\ lock[s] = NoThread
    /\ lock' = [lock EXCEPT ![s] = t]
    /\ pc'   = [pc   EXCEPT ![t] = at]
    /\ side' = [side EXCEPT ![t] = s]
    /\ old'  = [old  EXCEPT ![t] = found]
    /\ new'  = [new  EXCEPT ![t] = replacement]
    /\ UNCHANGED md

\* The call returns: the unique_lock is released and its locals are gone.
Leave(t) ==
    /\ lock' = [lock EXCEPT ![side[t]] = NoThread]
    /\ pc'   = [pc   EXCEPT ![t] = "idle"]
    /\ side' = [side EXCEPT ![t] = "bid"]
    /\ old'  = [old  EXCEPT ![t] = NoOrder]
    /\ new'  = [new  EXCEPT ![t] = NoOrder]
    /\ UNCHANGED md

\* insert: the hashed_unique index on the id refuses a duplicate.
NewInsert(t, s, o) ==
    /\ Validate(o)
    /\ \A x \in orders[s] : x.id # o.id
    /\ Enter(t, s, "add", o, NoOrder)
    /\ orders' = [orders EXCEPT ![s] = @ \cup {o}]
    /\ UNCHANGED total

NewAdd(t) ==
    /\ pc[t] = "add"
    /\ total' = [total EXCEPT ![side[t]] = Add(@, old[t].quantity)]
    /\ Leave(t)
    /\ UNCHANGED orders

CancelSubtract(t, s, o) ==
    /\ o \in orders[s]
    /\ Enter(t, s, "erase", o, NoOrder)
    /\ total' = [total EXCEPT ![s] = Sub(@, o.quantity)]
    /\ UNCHANGED orders

CancelErase(t) ==
    /\ pc[t] = "erase"
    /\ orders' = [orders EXCEPT ![side[t]] = @ \ {old[t]}]
    /\ Leave(t)
    /\ UNCHANGED total

\* o is *it, found under n.id: the old and the new order must have one id.
ReplaceSubtract(t, s, o, n) ==
    /\ Validate(n)
    /\ o \in orders[s]
    /\ o.id = n.id
    /\ Enter(t, s, "readd", o, n)
    /\ total' = [total EXCEPT ![s] = Sub(@, o.quantity)]
    /\ UNCHANGED orders

\* Mutant: the quantity of the order that is replaced is added back.
ReplaceAddOld(t) ==
    /\ pc[t] = "readd"
    /\ total' = [total EXCEPT ![side[t]] = Add(@, old[t].quantity)]
    /\ pc'    = [pc EXCEPT ![t] = "modify"]
    /\ UNCHANGED <<orders, lock, callVars, md>>

ReplaceAdd(t) ==
    /\ pc[t] = "readd"
    /\ total' = [total EXCEPT ![side[t]] = Add(@, new[t].quantity)]
    /\ pc'    = [pc EXCEPT ![t] = "modify"]
    /\ UNCHANGED <<orders, lock, callVars, md>>

\* Mutant: the quantity is not changed.
ReplaceModifyPrice(t) ==
    /\ pc[t] = "modify"
    /\ orders' = [orders EXCEPT ![side[t]] = (@ \ {old[t]}) \cup
                    {[old[t] EXCEPT !.price = new[t].price]}]
    /\ Leave(t)
    /\ UNCHANGED total

\* index.modify: price and quantity of the order found, which keeps its id.
ReplaceModify(t) ==
    /\ pc[t] = "modify"
    /\ orders' = [orders EXCEPT ![side[t]] = (@ \ {old[t]}) \cup
                    {[old[t] EXCEPT !.price = new[t].price, !.quantity = new[t].quantity]}]
    /\ Leave(t)
    /\ UNCHANGED total

WriterStep(t) ==
    \/ NewAdd(t)
    \/ CancelErase(t)
    \/ ReplaceAdd(t)
    \/ ReplaceModify(t)

-----------------------------------------------------------------------------
(* GenerateMDUpdate: BestBid, BestAsk, the price levels, then the totals.   *)

\* Mutant: AskComparator is a copy of BidComparator.
BetterBid(s, a, b) ==
    \/ a.price > b.price
    \/ a.price = b.price /\ a.quantity > b.quantity
    \/ a.price = b.price /\ a.quantity = b.quantity /\ a.id < b.id

\* BidComparator and AskComparator.
Better(s, a, b) ==
    \/ IF s = "bid" THEN a.price > b.price ELSE a.price < b.price
    \/ a.price = b.price /\ a.quantity > b.quantity
    \/ a.price = b.price /\ a.quantity = b.quantity /\ a.id < b.id

Best(s) ==
    IF orders[s] = {} THEN NoOrder
    ELSE CHOOSE a \in orders[s] : \A b \in orders[s] \ {a} : Better(s, a, b)

Quantities(S) == MapThenSumSet(LAMBDA o : o.quantity, S) % Word

\* GetContainerPrice: the quantity of the orders at one price.
Level(s, p) == Quantities({o \in orders[s] : o.price = p})

\* A shared lock on side s can be had: no writer is inside.
Shared(s) == lock[s] = NoThread

GenBestBid(t) ==
    /\ pc[t] = "idle"
    /\ Shared("bid")
    /\ md' = [md EXCEPT ![t].price["bid"] = Best("bid").price]
    /\ pc' = [pc EXCEPT ![t] = "best_ask"]
    /\ UNCHANGED <<bookVars, callVars>>

\* Two empty sides: std::nullopt.  No order of a book has price 0 (Validate),
\* so an empty side is one whose best price is 0.
GenBestAsk(t) ==
    /\ pc[t] = "best_ask"
    /\ Shared("ask")
    /\ LET nothing == md[t].price["bid"] = 0 /\ Best("ask") = NoOrder
       IN  /\ md' = [md EXCEPT ![t].price["ask"] = Best("ask").price]
           /\ pc' = [pc EXCEPT ![t] = IF nothing THEN "idle" ELSE "level_bid"]
    /\ UNCHANGED <<bookVars, callVars>>

GenLevel(t, s, at, next) ==
    /\ pc[t] = at
    /\ Shared(s)
    /\ md' = [md EXCEPT ![t].qty[s] = Level(s, md[t].price[s])]
    /\ pc' = [pc EXCEPT ![t] = next]
    /\ UNCHANGED <<bookVars, callVars>>

\* An atomic load: no lock.
GenTotal(t, s, at, next) ==
    /\ pc[t] = at
    /\ md' = [md EXCEPT ![t].total[s] = total[s]]
    /\ pc' = [pc EXCEPT ![t] = next]
    /\ UNCHANGED <<bookVars, callVars>>

\* The caller is done with the update it was given.
Consume(t) ==
    /\ pc[t] = "returned"
    /\ md' = [md EXCEPT ![t] = NoUpdate]
    /\ pc' = [pc EXCEPT ![t] = "idle"]
    /\ UNCHANGED <<bookVars, callVars>>

ReaderStep(t) ==
    \/ GenBestAsk(t)
    \/ GenLevel(t, "bid", "level_bid", "level_ask")
    \/ GenLevel(t, "ask", "level_ask", "total_bid")
    \/ GenTotal(t, "bid", "total_bid", "total_ask")
    \/ GenTotal(t, "ask", "total_ask", "returned")
    \/ Consume(t)

-----------------------------------------------------------------------------
Write(t) ==
    \/ \E s \in Sides, o \in Orders : NewInsert(t, s, o)
    \/ \E s \in Sides : \E o \in orders[s] : CancelSubtract(t, s, o)
    \/ \E s \in Sides, n \in Orders : \E o \in orders[s] : ReplaceSubtract(t, s, o, n)
    \/ WriterStep(t)

Read(t) == GenBestBid(t) \/ ReaderStep(t)

\* The history of calm: a write disturbs every read that is under way.
Disturb == calm' = [u \in Threads |-> FALSE]
Watch(t) ==
    calm' = [calm EXCEPT ![t] = IF pc[t] = "idle" THEN \A s \in Sides : Shared(s)
                                ELSE @ /\ pc'[t] # "idle"]

Next == \/ \E t \in Writers : Write(t) /\ Disturb
        \/ \E t \in Readers : Read(t) /\ Watch(t)

Spec == Init /\ [][Next]_vars

-----------------------------------------------------------------------------
(* Properties.                                                              *)

\* The total of a side as it will be once the writer inside has finished with
\* what it has done to the container, and no more: the volume of the orders.
Volume(s) ==
    LET t       == lock[s]
        pending == Add(total[s], old[t].quantity)
    IN  CASE t = NoThread      -> total[s]
          [] t \in Threads /\ pc[t] = "modify" -> Sub(pending, new[t].quantity)
          [] OTHER -> pending

\* Whatever the interleaving of writers and the wrap-around of the arithmetic,
\* the total kept outside the container never drifts from the sum of the orders'
\* quantities: it is that sum when the mutex is free, and in the middle of a
\* write it is off by exactly what the writer inside still has to add or erase.
VolumeIsSum == \A s \in Sides : Volume(s) = Quantities(orders[s])

HoldsWhileWriting ==
    \A t \in Threads, s \in Sides : lock[s] = t <=> pc[t] \in WriterPCs /\ side[t] = s

FoundStays ==
    \A t \in Threads : pc[t] \in WriterPCs => old[t] \in orders[side[t]]

KeepsId ==
    \A t \in Threads : pc[t] \in {"readd", "modify"} => new[t].id = old[t].id

UniqueIds ==
    \A s \in Sides : \A a, b \in orders[s] : a.id = b.id => a = b

\* The mutex discipline: a thread is in the middle of a write of a side exactly
\* when it holds that side's mutex; the iterator it found under the mutex stays
\* valid until its last step; a Replace keeps the id; ids stay unique.
WriteExclusion == HoldsWhileWriting /\ FoundStays /\ KeepsId /\ UniqueIds

\* What GenerateMDUpdate returns describes one state of the book, the one at the
\* moment of the return, unless a writer was inside meanwhile: no order has a
\* better price, the quantity is what stands at the price, and the totals are
\* the sums of the quantities.
UpdateExact ==
    \A t \in Threads : pc[t] = "returned" /\ calm[t] =>
        \A s \in Sides :
            LET price == md[t].price[s]
            IN  /\ \A o \in orders[s] : IF s = "bid" THEN o.price <= price ELSE o.price >= price
                /\ IF orders[s] = {} THEN price = 0 ELSE \E o \in orders[s] : o.price = price
                /\ md[t].qty[s] = Quantities({o \in orders[s] : o.price = price})
                /\ md[t].total[s] = Quantities(orders[s])

\* A best price that is returned comes with the quantity standing at it.
BestLevelNotEmpty ==
    \A t \in Threads : pc[t] = "returned" =>
        \A s \in Sides : md[t].price[s] # 0 => md[t].qty[s] # 0

\* Every state of the container and its volume is one the atomic book can be in,
\* and every step of a write is one of its operations or none.
Atomic == INSTANCE AtomicOrderBook WITH volume <- [s \in Sides |-> Volume(s)]
AtomicSpec == Atomic!Spec
=============================================================================
