--------------------------- MODULE OrderBookProofs ---------------------------
(***************************************************************************)
(* Proofs about OrderBook, for any threads, ids, prices, quantities and    *)
(* word size: the mutex discipline, that the book with its separately      *)
(* updated totals implements the atomic book, that the totals never drift  *)
(* from the sum of the quantities, and that an MDUpdate no writer          *)
(* disturbed is exact.                                                     *)
(***************************************************************************)
EXTENDS OrderBook, FiniteSetTheorems, WellFoundedInduction, TLAPS

\* An order that passed Validate is one of the atomic book's.
LEMMA ValidOrders ==
    ASSUME NEW o \in Orders
    PROVE  /\ o \in Order
           /\ Validate(o) => o \in Atomic!Orders
<1>1. PICK id \in Ids, p \in Prices, q \in Ints : o = MkOrder(id, p, q)
  BY DEF Orders
<1>2. q % Word \in Quantity
  BY OrderBookAssumption DEF OrderBookAssumption, Quantity
<1>3. o \in Order
  BY <1>1, <1>2, OrderBookAssumption DEF OrderBookAssumption, Order, MkOrder
<1>4. ASSUME Validate(o) PROVE o \in Atomic!Orders
  BY <1>1, <1>4 DEF Validate, MkOrder, Atomic!Orders
<1> QED BY <1>3, <1>4

\* Unsigned addition and subtraction stay in range and undo each other.
LEMMA WordArithmetic ==
    ASSUME NEW a \in Quantity, NEW b \in Quantity
    PROVE  /\ Add(a, b) \in Quantity
           /\ Sub(a, b) \in Quantity
           /\ Add(Sub(a, b), b) = a
           /\ Sub(Add(a, b), b) = a
BY OrderBookAssumption DEF OrderBookAssumption, Quantity, Add, Sub

\* The empty order is an order.
LEMMA NoOrderIsOrder == NoOrder \in Order
BY OrderBookAssumption DEF OrderBookAssumption, NoOrder, Order, Quantity

-----------------------------------------------------------------------------
(* Entering and leaving a write.                                            *)

\* Taking a free mutex keeps the types and the mutex discipline of the calls.
LEMMA EnterInv ==
    ASSUME CallTypeOK, HoldsWhileWriting,
           NEW t \in Threads, NEW s \in Sides, NEW at \in WriterPCs,
           NEW found \in Order, NEW replacement \in Order,
           Enter(t, s, at, found, replacement)
    PROVE  CallTypeOK' /\ HoldsWhileWriting'
<1> USE DEF Enter
<1>1. CallTypeOK'
  BY DEF CallTypeOK
<1>2. HoldsWhileWriting'
  BY OrderBookAssumption
     DEF CallTypeOK, HoldsWhileWriting, WriterPCs, OrderBookAssumption
<1> QED BY <1>1, <1>2

\* Releasing the mutex does, too.
LEMMA LeaveInv ==
    ASSUME CallTypeOK, HoldsWhileWriting,
           NEW t \in Threads, pc[t] \in WriterPCs, Leave(t)
    PROVE  CallTypeOK' /\ HoldsWhileWriting'
<1> USE DEF Leave
<1>1. CallTypeOK'
  BY NoOrderIsOrder DEF CallTypeOK, Sides
<1>2. HoldsWhileWriting'
  BY OrderBookAssumption
     DEF CallTypeOK, HoldsWhileWriting, WriterPCs, OrderBookAssumption
<1> QED BY <1>1, <1>2

\* Two threads in the middle of a write are on different sides.
LEMMA WritersApart ==
    ASSUME CallTypeOK, HoldsWhileWriting,
           NEW t \in Threads, NEW u \in Threads, t # u,
           pc[t] \in WriterPCs, pc[u] \in WriterPCs
    PROVE  side[t] # side[u]
BY DEF CallTypeOK, HoldsWhileWriting

-----------------------------------------------------------------------------
(* The inductive invariant: types, the mutex discipline, and that what a    *)
(* Replace is about to write is an order the atomic book may hold.          *)

ReplacementValid ==
    \A t \in Threads : pc[t] \in {"readd", "modify"} => new[t] \in Atomic!Orders

IInv == BookTypeOK /\ CallTypeOK /\ WriteExclusion /\ ReplacementValid

\* The invariant holds of the empty book.
LEMMA InitIInv == Init => IInv
<1> SUFFICES ASSUME Init PROVE IInv
  OBVIOUS
<1> USE DEF Init
<1>1. BookTypeOK
  BY OrderBookAssumption DEF BookTypeOK, OrderBookAssumption, Zero, Quantity
<1>2. CallTypeOK
  BY NoOrderIsOrder DEF CallTypeOK, Sides
<1>3. WriteExclusion
  BY OrderBookAssumption
     DEF WriteExclusion, HoldsWhileWriting, FoundStays, KeepsId, UniqueIds, WriterPCs,
         OrderBookAssumption
<1>4. ReplacementValid
  BY DEF ReplacementValid
<1> QED BY <1>1, <1>2, <1>3, <1>4 DEF IInv

\* A NewBid or NewAsk: the insertion, then the total.
LEMMA NewKeepsIInv ==
    ASSUME IInv, NEW t \in Threads,
           \/ \E s \in Sides, o \in Orders : NewInsert(t, s, o)
           \/ NewAdd(t)
    PROVE  IInv'
<1> USE DEF IInv, WriteExclusion
<1>1. ASSUME NEW s \in Sides, NEW o \in Orders, NewInsert(t, s, o) PROVE IInv'
  <2> USE <1>1 DEF NewInsert
  <2>1. o \in Order
    BY ValidOrders
  <2>2. CallTypeOK' /\ HoldsWhileWriting'
    BY <2>1, NoOrderIsOrder, EnterInv DEF WriterPCs
  <2>3. BookTypeOK'
    BY <2>1 DEF BookTypeOK
  <2>4. FoundStays' /\ KeepsId' /\ ReplacementValid'
    BY DEF Enter, BookTypeOK, CallTypeOK, FoundStays, KeepsId, ReplacementValid
  <2>5. UniqueIds'
    BY DEF BookTypeOK, UniqueIds
  <2> QED BY <2>2, <2>3, <2>4, <2>5
<1>2. ASSUME NewAdd(t) PROVE IInv'
  <2> USE <1>2 DEF NewAdd
  <2>1. CallTypeOK' /\ HoldsWhileWriting'
    BY LeaveInv DEF WriterPCs
  <2>2. BookTypeOK'
    BY WordArithmetic DEF BookTypeOK, CallTypeOK, Order
  <2>3. FoundStays' /\ KeepsId' /\ ReplacementValid'
    BY DEF Leave, CallTypeOK, FoundStays, KeepsId, ReplacementValid, WriterPCs
  <2>4. UniqueIds'
    BY DEF UniqueIds
  <2> QED BY <2>1, <2>2, <2>3, <2>4
<1> QED BY <1>1, <1>2

\* A CancelBid or CancelAsk: the total, then the erasure.
LEMMA CancelKeepsIInv ==
    ASSUME IInv, NEW t \in Threads,
           \/ \E s \in Sides : \E o \in orders[s] : CancelSubtract(t, s, o)
           \/ CancelErase(t)
    PROVE  IInv'
<1> USE DEF IInv, WriteExclusion
<1>1. ASSUME NEW s \in Sides, NEW o \in orders[s], CancelSubtract(t, s, o) PROVE IInv'
  <2> USE <1>1 DEF CancelSubtract
  <2>1. o \in Order
    BY DEF BookTypeOK
  <2>2. CallTypeOK' /\ HoldsWhileWriting'
    BY <2>1, NoOrderIsOrder, EnterInv DEF WriterPCs
  <2>3. BookTypeOK'
    BY <2>1, WordArithmetic DEF BookTypeOK, Order
  <2>4. FoundStays' /\ KeepsId' /\ ReplacementValid'
    BY DEF Enter, CallTypeOK, FoundStays, KeepsId, ReplacementValid
  <2>5. UniqueIds'
    BY DEF UniqueIds
  <2> QED BY <2>2, <2>3, <2>4, <2>5
<1>2. ASSUME CancelErase(t) PROVE IInv'
  <2> USE <1>2 DEF CancelErase
  <2>1. CallTypeOK' /\ HoldsWhileWriting'
    BY LeaveInv DEF WriterPCs
  <2>2. BookTypeOK'
    BY DEF BookTypeOK, CallTypeOK
  <2>3. FoundStays'
    BY WritersApart DEF Leave, BookTypeOK, CallTypeOK, FoundStays, WriterPCs
  <2>4. KeepsId' /\ ReplacementValid'
    BY DEF Leave, CallTypeOK, KeepsId, ReplacementValid
  <2>5. UniqueIds'
    BY DEF BookTypeOK, CallTypeOK, UniqueIds
  <2> QED BY <2>1, <2>2, <2>3, <2>4, <2>5
<1> QED BY <1>1, <1>2

\* A ReplaceBid or ReplaceAsk: the total twice, then the order.
LEMMA ReplaceKeepsIInv ==
    ASSUME IInv, NEW t \in Threads,
           \/ \E s \in Sides, n \in Orders : \E o \in orders[s] : ReplaceSubtract(t, s, o, n)
           \/ ReplaceAdd(t)
           \/ ReplaceModify(t)
    PROVE  IInv'
<1> USE DEF IInv, WriteExclusion
<1>1. ASSUME NEW s \in Sides, NEW n \in Orders, NEW o \in orders[s],
             ReplaceSubtract(t, s, o, n)
      PROVE  IInv'
  <2> USE <1>1 DEF ReplaceSubtract
  <2>1. o \in Order /\ n \in Order /\ n \in Atomic!Orders
    BY ValidOrders DEF BookTypeOK
  <2>2. CallTypeOK' /\ HoldsWhileWriting'
    BY <2>1, EnterInv DEF WriterPCs
  <2>3. BookTypeOK'
    BY <2>1, WordArithmetic DEF BookTypeOK, Order
  <2>4. FoundStays' /\ KeepsId' /\ ReplacementValid'
    BY <2>1 DEF Enter, CallTypeOK, FoundStays, KeepsId, ReplacementValid
  <2>5. UniqueIds'
    BY DEF UniqueIds
  <2> QED BY <2>2, <2>3, <2>4, <2>5
<1>2. ASSUME ReplaceAdd(t) PROVE IInv'
  <2> USE <1>2 DEF ReplaceAdd, callVars
  <2>1. BookTypeOK'
    BY WordArithmetic DEF BookTypeOK, CallTypeOK, Order
  <2>2. CallTypeOK' /\ HoldsWhileWriting'
    BY DEF CallTypeOK, HoldsWhileWriting, WriterPCs
  <2>3. FoundStays' /\ KeepsId' /\ UniqueIds' /\ ReplacementValid'
    BY DEF CallTypeOK, FoundStays, KeepsId, UniqueIds, ReplacementValid, WriterPCs
  <2> QED BY <2>1, <2>2, <2>3
<1>3. ASSUME ReplaceModify(t) PROVE IInv'
  <2> DEFINE o == [old[t] EXCEPT !.price = new[t].price, !.quantity = new[t].quantity]
  <2> USE <1>3 DEF ReplaceModify
  <2>1. o \in Order /\ o.id = old[t].id /\ old[t] \in orders[side[t]]
    BY DEF CallTypeOK, Order, FoundStays, WriterPCs
  <2>2. CallTypeOK' /\ HoldsWhileWriting'
    BY LeaveInv DEF WriterPCs
  <2>3. orders' = [orders EXCEPT ![side[t]] = (orders[side[t]] \ {old[t]}) \cup {o}]
    OBVIOUS
  <2>4. BookTypeOK'
    BY <2>1, <2>3 DEF BookTypeOK, CallTypeOK
  <2>5. FoundStays'
    <3> SUFFICES ASSUME NEW u \in Threads, pc'[u] \in WriterPCs
                 PROVE  old'[u] \in orders'[side'[u]]
      BY DEF FoundStays
    <3>1. u # t /\ pc[u] \in WriterPCs /\ old'[u] = old[u] /\ side'[u] = side[u]
      BY DEF Leave, CallTypeOK, WriterPCs
    <3>2. side[u] # side[t]
      BY <3>1, WritersApart DEF WriterPCs
    <3> QED BY <3>1, <3>2, <2>3 DEF FoundStays, CallTypeOK, BookTypeOK
  <2>6. KeepsId' /\ ReplacementValid'
    BY DEF Leave, CallTypeOK, KeepsId, ReplacementValid
  <2>7. UniqueIds'
    <3> HIDE DEF o
    <3> SUFFICES ASSUME NEW s \in Sides, NEW a \in orders'[s], NEW b \in orders'[s], a.id = b.id
                 PROVE  a = b
      BY DEF UniqueIds
    <3>1. CASE s # side[t]
      BY <3>1, <2>3 DEF UniqueIds, BookTypeOK, CallTypeOK
    <3>2. CASE s = side[t]
      <4>1. \A x \in orders'[s] : x = o \/ (x \in orders[s] /\ x # old[t])
        BY <3>2, <2>3 DEF BookTypeOK
      <4> QED BY <4>1, <3>2, <2>1 DEF UniqueIds
    <3> QED BY <3>1, <3>2
  <2> QED BY <2>2, <2>4, <2>5, <2>6, <2>7
<1> QED BY <1>1, <1>2, <1>3

\* GenerateMDUpdate leaves the book, the totals and every other call alone.
LEMMA ReadChangesPC ==
    ASSUME CallTypeOK, NEW t \in Readers, Read(t)
    PROVE  /\ UNCHANGED <<bookVars, callVars>>
           /\ pc[t] \notin WriterPCs
           /\ \E at \in ReaderPCs \cup {"idle", "returned"} : pc' = [pc EXCEPT ![t] = at]
BY DEF Read, ReaderStep, GenBestBid, GenBestAsk, GenLevel, GenTotal, Consume, ReaderPCs, WriterPCs,
       bookVars, callVars

\* GenerateMDUpdate keeps the invariant.
LEMMA ReadKeepsIInv ==
    ASSUME IInv, NEW t \in Readers, Read(t)
    PROVE  IInv'
<1> USE DEF IInv, WriteExclusion
<1>1. UNCHANGED <<orders, total, lock, side, old, new>> /\ pc[t] \notin WriterPCs
  BY ReadChangesPC DEF bookVars, callVars
<1>2. PICK at \in ReaderPCs \cup {"idle", "returned"} : pc' = [pc EXCEPT ![t] = at]
  BY ReadChangesPC
<1>3. at \notin WriterPCs
  BY DEF ReaderPCs, WriterPCs
<1>4. BookTypeOK' /\ CallTypeOK' /\ UniqueIds'
  BY <1>1, <1>2 DEF BookTypeOK, CallTypeOK, UniqueIds
<1>5. HoldsWhileWriting' /\ FoundStays' /\ KeepsId' /\ ReplacementValid'
  BY <1>1, <1>2, <1>3
     DEF CallTypeOK, HoldsWhileWriting, FoundStays, KeepsId, ReplacementValid, WriterPCs
<1> QED BY <1>4, <1>5

\* Every step of every thread keeps the invariant.
LEMMA NextIInv == IInv /\ [Next]_vars => IInv'
<1> SUFFICES ASSUME IInv, [Next]_vars PROVE IInv'
  OBVIOUS
<1>1. ASSUME NEW t \in Writers, Write(t) PROVE IInv'
  <2> t \in Threads
    BY DEF Threads
  <2> QED BY <1>1, NewKeepsIInv, CancelKeepsIInv, ReplaceKeepsIInv DEF Write, WriterStep
<1>2. ASSUME NEW t \in Readers, Read(t) PROVE IInv'
  BY <1>2, ReadKeepsIInv
<1>3. CASE UNCHANGED vars
  BY <1>3 DEF vars, IInv, BookTypeOK, CallTypeOK, WriteExclusion, HoldsWhileWriting, FoundStays,
             KeepsId, UniqueIds, ReplacementValid
<1> QED BY <1>1, <1>2, <1>3 DEF Next

\* The book keeps its types: the unsigned totals never leave their range.
THEOREM BookTypeCorrect == Spec => [](BookTypeOK /\ CallTypeOK)
<1>1. IInv => BookTypeOK /\ CallTypeOK
  BY DEF IInv
<1> QED BY <1>1, InitIInv, NextIInv, PTL DEF Spec

\* The mutex discipline of the six writing operations.
THEOREM WritesExclude == Spec => []WriteExclusion
<1>1. IInv => WriteExclusion
  BY DEF IInv
<1> QED BY <1>1, InitIInv, NextIInv, PTL DEF Spec

-----------------------------------------------------------------------------
(* The refinement: a write takes effect on the atomic book where it changes *)
(* the container; its steps on the total alone are stutters.                *)

\* What Replace's two steps on the total do between them.
LEMMA ReplaceArithmetic ==
    ASSUME NEW a \in Quantity, NEW b \in Quantity, NEW c \in Quantity
    PROVE  /\ Sub(Add(Add(a, c), b), c) = Add(a, b)
           /\ Add(Sub(Sub(Add(a, b), c), b), c) = a
BY OrderBookAssumption DEF OrderBookAssumption, Quantity, Add, Sub

\* The volume of a side nobody touches: its mutex, its total and the call of
\* the thread that holds its mutex are as they were.
LEMMA VolumeElsewhere ==
    ASSUME IInv, NEW s \in Sides, NEW t \in Threads,
           lock[s] # t, lock'[s] = lock[s], total'[s] = total[s],
           \A u \in Threads \ {t} : pc'[u] = pc[u] /\ old'[u] = old[u] /\ new'[u] = new[u]
    PROVE  Volume(s)' = Volume(s)
<1>1. CASE lock[s] = NoThread
  BY <1>1 DEF Volume
<1>2. CASE lock[s] # NoThread
  <2>1. lock[s] \in Threads \ {t} /\ pc[lock[s]] \in WriterPCs
    BY <1>2 DEF IInv, CallTypeOK, WriteExclusion, HoldsWhileWriting
  <2> QED BY <1>2, <2>1 DEF Volume, WriterPCs
<1> QED BY <1>1, <1>2

volume == [s \in Sides |-> Volume(s)]

\* The empty book is the initial state of the atomic book.
LEMMA InitAtomic == Init => Atomic!Init
BY DEF Init, Atomic!Init, Volume, Zero, Sides, Atomic!Sides

\* NewInsert is the atomic New.
LEMMA NewIsAtomic ==
    ASSUME IInv, NEW t \in Threads, NEW s \in Sides, NEW o \in Orders, NewInsert(t, s, o)
    PROVE  Atomic!Next
<1> USE DEF NewInsert, Enter
<1>1. o \in Atomic!Orders
  BY ValidOrders
<1>2. Volume(s) = total[s] /\ Volume(s)' = Add(total[s], o.quantity)
  BY OrderBookAssumption DEF IInv, CallTypeOK, BookTypeOK, OrderBookAssumption, Volume
<1>3. \A r \in Sides \ {s} : Volume(r)' = Volume(r)
  BY VolumeElsewhere DEF IInv, CallTypeOK, BookTypeOK, WriteExclusion, HoldsWhileWriting, WriterPCs
<1>4. Atomic!New(s, o)
  BY <1>2, <1>3 DEF Atomic!New, Atomic!Add, Add
<1> QED BY <1>1, <1>4 DEF Atomic!Next, Sides, Atomic!Sides

\* CancelSubtract is a stutter, CancelErase the atomic Cancel.
LEMMA CancelIsAtomic ==
    ASSUME IInv, NEW t \in Threads,
           \/ \E s \in Sides : \E o \in orders[s] : CancelSubtract(t, s, o)
           \/ CancelErase(t)
    PROVE  Atomic!Next \/ UNCHANGED <<orders, volume>>
<1>1. ASSUME NEW s \in Sides, NEW o \in orders[s], CancelSubtract(t, s, o)
      PROVE  UNCHANGED <<orders, volume>>
  <2> USE <1>1 DEF CancelSubtract, Enter
  <2>1. o.quantity \in Quantity
    BY DEF IInv, BookTypeOK, Order
  <2>2. Volume(s) = total[s] /\ Volume(s)' = Add(Sub(total[s], o.quantity), o.quantity)
    BY OrderBookAssumption DEF IInv, CallTypeOK, BookTypeOK, OrderBookAssumption, Volume
  <2>3. Volume(s)' = Volume(s)
    BY <2>1, <2>2, WordArithmetic DEF IInv, BookTypeOK
  <2>4. \A r \in Sides \ {s} : Volume(r)' = Volume(r)
    BY VolumeElsewhere DEF IInv, CallTypeOK, BookTypeOK, WriteExclusion, HoldsWhileWriting, WriterPCs
  <2> QED BY <2>3, <2>4 DEF volume
<1>2. ASSUME CancelErase(t) PROVE Atomic!Next
  <2> PICK s \in Sides, o \in Order : s = side[t] /\ o = old[t]
    BY DEF IInv, CallTypeOK
  <2> USE <1>2 DEF CancelErase, Leave
  <2>1. s \in Sides /\ lock[s] = t /\ o \in orders[s] /\ o.quantity \in Quantity
    BY DEF IInv, CallTypeOK, WriteExclusion, HoldsWhileWriting, FoundStays, WriterPCs, Order
  <2>2. Volume(s) = Add(total[s], o.quantity) /\ Volume(s)' = total[s]
    BY <2>1, OrderBookAssumption DEF IInv, CallTypeOK, OrderBookAssumption, Volume
  <2>3. Volume(s)' = Sub(Volume(s), o.quantity)
    BY <2>1, <2>2, WordArithmetic DEF IInv, BookTypeOK
  <2>4. \A r \in Sides \ {s} : Volume(r)' = Volume(r)
    BY <2>1, VolumeElsewhere DEF IInv, CallTypeOK, WriteExclusion, HoldsWhileWriting, WriterPCs
  <2>5. Atomic!Cancel(s, o)
    BY <2>1, <2>3, <2>4 DEF Atomic!Cancel, Atomic!Sub, Sub
  <2> QED BY <2>1, <2>5 DEF Atomic!Next, Sides, Atomic!Sides
<1> QED BY <1>1, <1>2

\* ReplaceSubtract and ReplaceAdd are stutters, ReplaceModify the atomic Replace.
LEMMA ReplaceIsAtomic ==
    ASSUME IInv, NEW t \in Threads,
           \/ \E s \in Sides, n \in Orders : \E o \in orders[s] : ReplaceSubtract(t, s, o, n)
           \/ ReplaceAdd(t)
           \/ ReplaceModify(t)
    PROVE  Atomic!Next \/ UNCHANGED <<orders, volume>>
<1>1. ASSUME NEW s \in Sides, NEW n \in Orders, NEW o \in orders[s],
             ReplaceSubtract(t, s, o, n)
      PROVE  UNCHANGED <<orders, volume>>
  <2> USE <1>1 DEF ReplaceSubtract, Enter
  <2>1. o.quantity \in Quantity
    BY DEF IInv, BookTypeOK, Order
  <2>2. Volume(s) = total[s] /\ Volume(s)' = Add(Sub(total[s], o.quantity), o.quantity)
    BY OrderBookAssumption DEF IInv, CallTypeOK, BookTypeOK, OrderBookAssumption, Volume
  <2>3. Volume(s)' = Volume(s)
    BY <2>1, <2>2, WordArithmetic DEF IInv, BookTypeOK
  <2>4. \A r \in Sides \ {s} : Volume(r)' = Volume(r)
    BY VolumeElsewhere DEF IInv, CallTypeOK, BookTypeOK, WriteExclusion, HoldsWhileWriting, WriterPCs
  <2> QED BY <2>3, <2>4 DEF volume
<1>2. ASSUME ReplaceAdd(t) PROVE UNCHANGED <<orders, volume>>
  <2> PICK s \in Sides : s = side[t]
    BY DEF IInv, CallTypeOK
  <2> USE <1>2 DEF ReplaceAdd, callVars
  <2>1. s \in Sides /\ lock[s] = t /\ old[t].quantity \in Quantity /\ new[t].quantity \in Quantity
    BY DEF IInv, CallTypeOK, WriteExclusion, HoldsWhileWriting, WriterPCs, Order
  <2>2. /\ Volume(s) = Add(total[s], old[t].quantity)
        /\ Volume(s)' = Sub(Add(Add(total[s], new[t].quantity), old[t].quantity), new[t].quantity)
    BY <2>1, OrderBookAssumption DEF IInv, CallTypeOK, BookTypeOK, OrderBookAssumption, Volume
  <2>3. Volume(s)' = Volume(s)
    BY <2>1, <2>2, ReplaceArithmetic DEF IInv, BookTypeOK
  <2>4. \A r \in Sides \ {s} : Volume(r)' = Volume(r)
    BY <2>1, VolumeElsewhere
       DEF IInv, CallTypeOK, BookTypeOK, WriteExclusion, HoldsWhileWriting, WriterPCs
  <2> QED BY <2>3, <2>4 DEF volume
<1>3. ASSUME ReplaceModify(t) PROVE Atomic!Next
  <2> PICK s \in Sides, o \in Order, n \in Order : s = side[t] /\ o = old[t] /\ n = new[t]
    BY DEF IInv, CallTypeOK
  <2> USE <1>3 DEF ReplaceModify, Leave
  <2>1. /\ s \in Sides /\ lock[s] = t /\ o \in orders[s]
        /\ o \in Order /\ n \in Order /\ o.id = n.id /\ n \in Atomic!Orders
    BY DEF IInv, CallTypeOK, WriteExclusion, HoldsWhileWriting, FoundStays, KeepsId,
           ReplacementValid, WriterPCs
  <2>2. Volume(s) = Sub(Add(total[s], o.quantity), n.quantity) /\ Volume(s)' = total[s]
    BY <2>1, OrderBookAssumption DEF IInv, CallTypeOK, OrderBookAssumption, Volume
  <2>3. Volume(s)' = Add(Sub(Volume(s), o.quantity), n.quantity)
    BY <2>1, <2>2, ReplaceArithmetic DEF IInv, BookTypeOK, Order
  <2>4. \A r \in Sides \ {s} : Volume(r)' = Volume(r)
    BY <2>1, VolumeElsewhere DEF IInv, CallTypeOK, WriteExclusion, HoldsWhileWriting, WriterPCs
  <2>5. [o EXCEPT !.price = n.price, !.quantity = n.quantity] = n
    BY <2>1 DEF Order
  <2>6. orders' = [orders EXCEPT ![s] = (orders[s] \ {o}) \cup {n}]
    BY <2>5
  <2>7. volume' = [volume EXCEPT ![s] = Add(Sub(volume[s], o.quantity), n.quantity)]
    BY <2>1, <2>3, <2>4 DEF volume
  <2>8. Atomic!Replace(s, o, n)
    BY <2>1, <2>6, <2>7 DEF Atomic!Replace, Atomic!Sub, Atomic!Add, Sub, Add, volume
  <2> QED BY <2>1, <2>8 DEF Atomic!Next, Sides, Atomic!Sides
<1> QED BY <1>1, <1>2, <1>3

\* NewAdd only moves what was pending into the total.
LEMMA NewAddStutters ==
    ASSUME IInv, NEW t \in Threads, NewAdd(t)
    PROVE  UNCHANGED <<orders, volume>>
<1> PICK s \in Sides : s = side[t]
  BY DEF IInv, CallTypeOK
<1> USE DEF NewAdd, Leave
<1>1. s \in Sides /\ lock[s] = t
  BY DEF IInv, CallTypeOK, WriteExclusion, HoldsWhileWriting, WriterPCs
<1>2. Volume(s)' = Volume(s)
  BY <1>1, OrderBookAssumption DEF IInv, CallTypeOK, BookTypeOK, OrderBookAssumption, Volume
<1>3. \A r \in Sides \ {s} : Volume(r)' = Volume(r)
  BY <1>1, VolumeElsewhere
     DEF IInv, CallTypeOK, BookTypeOK, WriteExclusion, HoldsWhileWriting, WriterPCs
<1> QED BY <1>2, <1>3 DEF volume

\* GenerateMDUpdate is no step of the atomic book.
LEMMA ReadStutters ==
    ASSUME IInv, NEW t \in Readers, Read(t)
    PROVE  UNCHANGED <<orders, volume>>
<1>1. /\ UNCHANGED <<orders, total, lock, old, new>> /\ pc[t] \notin WriterPCs
      /\ \A u \in Threads \ {t} : pc'[u] = pc[u]
  BY ReadChangesPC DEF bookVars, callVars, IInv, CallTypeOK
<1>2. t \in Threads
  BY DEF Threads
<1>3. \A s \in Sides : lock[s] # t
  BY <1>1, <1>2 DEF IInv, WriteExclusion, HoldsWhileWriting
<1>4. \A s \in Sides : Volume(s)' = Volume(s)
  BY <1>1, <1>2, <1>3, VolumeElsewhere
<1> QED BY <1>1, <1>4 DEF volume

\* Every step of every thread is one of the atomic book's, or none.
LEMMA NextIsAtomic == ASSUME IInv, [Next]_vars PROVE Atomic!Next \/ UNCHANGED <<orders, volume>>
<1>1. ASSUME NEW t \in Writers, Write(t)
        PROVE  Atomic!Next \/ UNCHANGED <<orders, volume>>
    <3> t \in Threads
      BY DEF Threads
    <3> QED BY <1>1, NewIsAtomic, NewAddStutters, CancelIsAtomic, ReplaceIsAtomic
            DEF Write, WriterStep
<1>2. ASSUME NEW t \in Readers, Read(t) PROVE UNCHANGED <<orders, volume>>
    BY <1>2, ReadStutters
<1>3. CASE UNCHANGED vars
    BY <1>3 DEF vars, volume, Volume
<1> QED BY <1>1, <1>2, <1>3 DEF Next

\* The order book implements the atomic one: however the writers and readers
\* interleave, containers and volumes move as if each write were one step.
THEOREM ImplementsAtomic == Spec => AtomicSpec
<1>1. IInv /\ [Next]_vars => [Atomic!Next]_(Atomic!vars)
  BY NextIsAtomic DEF Atomic!vars, volume
<1> QED BY <1>1, InitAtomic, InitIInv, NextIInv, PTL DEF Spec, AtomicSpec, Atomic!Spec

-----------------------------------------------------------------------------
(* Sums.  Induction over a finite set is the choice of a least set without  *)
(* the property.                                                            *)

\* Among some subsets of a finite set there is one that contains no other.
LEMMA LeastSet ==
    ASSUME NEW S, IsFiniteSet(S), NEW C, C \subseteq SUBSET S, C # {}
    PROVE  \E u \in C : \A v \in C : v \subseteq u => v = u
<1>1. IsWellFoundedOn(StrictSubsetOrdering(S), SUBSET S)
  BY FS_StrictSubsetOrderingWellFounded, FS_FiniteSubsetsOfFinite
<1>2. \E u \in C : \A v \in C : ~(<<v, u>> \in StrictSubsetOrdering(S))
  BY <1>1, WFMin
<1> QED BY <1>2 DEF StrictSubsetOrdering

Chosen(S) == CHOOSE o \in S : TRUE
Sum(S)    == MapThenSumSet(LAMBDA o : o.quantity, S)

\* f sums the quantities of every subset of S, as MapThenSumSet does.
Sums(f, S) ==
    f = [s \in SUBSET S |-> IF s = {} THEN 0 ELSE Chosen(s).quantity + f[s \ {Chosen(s)}]]

LEMMA SumIsFold == ASSUME NEW S PROVE Sum(S) = (CHOOSE f : Sums(f, S))[S]
BY DEF Sum, MapThenSumSet, MapThenFoldSet, Sums, Chosen

\* Two such functions agree where both are defined.
LEMMA SumsAgree ==
    ASSUME NEW S, IsFiniteSet(S), NEW T, NEW f, NEW g, Sums(f, S), Sums(g, T),
           NEW s \in SUBSET S, s \in SUBSET T
    PROVE  f[s] = g[s]
<1> DEFINE C == {u \in SUBSET s : f[u] # g[u]}
<1>1. SUFFICES ASSUME C # {} PROVE FALSE
  OBVIOUS
<1>2. IsFiniteSet(s)
  BY FS_Subset
<1>3. PICK u \in C : \A v \in C : v \subseteq u => v = u
  <2>1. C \subseteq SUBSET s
    OBVIOUS
  <2> HIDE DEF C
  <2> QED BY <1>1, <1>2, <2>1, LeastSet
<1>4. u \in SUBSET S /\ u \in SUBSET T
  OBVIOUS
<1>5. u # {}
  BY <1>4 DEF Sums
<1>6. Chosen(u) \in u
  BY <1>5 DEF Chosen
<1>7. f[u \ {Chosen(u)}] = g[u \ {Chosen(u)}]
  BY <1>3, <1>6
<1>8. f[u] = Chosen(u).quantity + f[u \ {Chosen(u)}] /\ g[u] = Chosen(u).quantity + g[u \ {Chosen(u)}]
  BY <1>4, <1>5 DEF Sums
<1> QED BY <1>7, <1>8

\* There is one for every finite set.
LEMMA SumsExist == ASSUME NEW S, IsFiniteSet(S) PROVE \E f : Sums(f, S)
<1> DEFINE C == {u \in SUBSET S : ~\E f : Sums(f, u)}
<1>1. SUFFICES ASSUME C # {} PROVE FALSE
  BY FS_Subset
<1>3. PICK u \in C : \A v \in C : v \subseteq u => v = u
  <2>1. C \subseteq SUBSET S
    OBVIOUS
  <2> HIDE DEF C
  <2> QED BY <1>1, <2>1, LeastSet
<1>4. \A v \in SUBSET u : v # u => \E f : Sums(f, v)
  BY <1>3
<1>5. IsFiniteSet(u)
  BY FS_Subset
<1> DEFINE F == [v \in (SUBSET u) \ {u} |-> CHOOSE f : Sums(f, v)]
           rest(v) == v \ {Chosen(v)}
           h == [s \in SUBSET u |-> IF s = {} THEN 0
                                   ELSE Chosen(s).quantity + F[rest(s)][rest(s)]]
<1>6. ASSUME NEW v \in SUBSET u, v # u PROVE Sums(F[v], v)
  BY <1>4, <1>6
<1>7. ASSUME NEW v \in SUBSET u, v # {} PROVE rest(v) \in SUBSET v /\ rest(v) # u
  BY <1>7 DEF Chosen
<1> HIDE DEF F, rest
<1>8. ASSUME NEW s \in SUBSET u, s # u PROVE h[s] = F[s][s]
  <2>1. F[s] = [v \in SUBSET s |-> IF v = {} THEN 0 ELSE Chosen(v).quantity + F[s][rest(v)]]
    BY <1>6, <1>8 DEF Sums, rest
  <2>2. CASE s = {}
    BY <2>1, <2>2
  <2>3. CASE s # {}
    <3>1. rest(s) \in SUBSET s /\ rest(s) # u
      BY <1>7, <2>3
    <3>2. Sums(F[rest(s)], rest(s)) /\ Sums(F[s], s) /\ IsFiniteSet(s)
      BY <1>5, <1>6, <1>8, <3>1, FS_Subset
    <3>3. F[s][rest(s)] = F[rest(s)][rest(s)]
      BY <3>1, <3>2, SumsAgree
    <3>4. F[s][s] = Chosen(s).quantity + F[s][rest(s)]
      BY <2>1, <2>3
    <3> QED BY <2>3, <3>3, <3>4
  <2> QED BY <2>2, <2>3
<1>9. \A s \in SUBSET u : h[s] = IF s = {} THEN 0 ELSE Chosen(s).quantity + h[rest(s)]
  <2>1. ASSUME NEW s \in SUBSET u, s # {} PROVE h[s] = Chosen(s).quantity + h[rest(s)]
    <3>1. h[s] = Chosen(s).quantity + F[rest(s)][rest(s)]
      BY <2>1
    <3> HIDE DEF h
    <3> QED BY <2>1, <3>1, <1>7, <1>8
  <2>2. h[{}] = 0
    OBVIOUS
  <2> HIDE DEF h
  <2> QED BY <2>1, <2>2
<1>10. h = [s \in SUBSET u |-> h[s]]
  OBVIOUS
<1> HIDE DEF h
<1>11. h = [s \in SUBSET u |-> IF s = {} THEN 0 ELSE Chosen(s).quantity + h[rest(s)]]
  BY <1>9, <1>10
<1>12. Sums(h, u)
  BY <1>11 DEF Sums, rest
<1> QED BY <1>3, <1>12

\* The equations of Sum.
LEMMA SumSteps ==
    /\ Sum({}) = 0
    /\ \A S : IsFiniteSet(S) /\ S # {} => Sum(S) = Chosen(S).quantity + Sum(S \ {Chosen(S)})
<1>1. ASSUME NEW S, IsFiniteSet(S)
      PROVE  \E f : /\ Sums(f, S)
                    /\ \A T \in SUBSET S : Sum(T) = f[T]
  <2>1. Sums(CHOOSE f : Sums(f, S), S)
    BY <1>1, SumsExist
  <2>2. ASSUME NEW T \in SUBSET S PROVE Sum(T) = (CHOOSE f : Sums(f, S))[T]
    <3>1. IsFiniteSet(T)
      BY <1>1, FS_Subset
    <3>2. Sums(CHOOSE f : Sums(f, T), T)
      BY <3>1, SumsExist
    <3>3. (CHOOSE f : Sums(f, T))[T] = (CHOOSE f : Sums(f, S))[T]
      BY <2>1, <3>1, <3>2, SumsAgree
    <3> QED BY <3>3, SumIsFold
  <2> QED BY <2>1, <2>2
<1>2. Sum({}) = 0
  <2>1. PICK f : Sums(f, {}) /\ Sum({}) = f[{}]
    BY <1>1, FS_EmptySet
  <2> QED BY <2>1 DEF Sums
<1>3. ASSUME NEW S, IsFiniteSet(S), S # {}
      PROVE  Sum(S) = Chosen(S).quantity + Sum(S \ {Chosen(S)})
  <2>1. PICK f : Sums(f, S) /\ \A T \in SUBSET S : Sum(T) = f[T]
    BY <1>1, <1>3
  <2>2. f[S] = Chosen(S).quantity + f[S \ {Chosen(S)}]
    BY <1>3, <2>1 DEF Sums
  <2>3. Sum(S) = f[S] /\ Sum(S \ {Chosen(S)}) = f[S \ {Chosen(S)}]
    BY <2>1
  <2> QED BY <2>2, <2>3
<1> QED BY <1>2, <1>3

\* A sum of natural numbers is one.
LEMMA SumIsNat ==
    ASSUME NEW S, IsFiniteSet(S), \A o \in S : o.quantity \in Nat
    PROVE  Sum(S) \in Nat
<1> DEFINE C == {u \in SUBSET S : Sum(u) \notin Nat}
<1>1. SUFFICES ASSUME C # {} PROVE FALSE
  OBVIOUS
<1>2. PICK u \in C : \A v \in C : v \subseteq u => v = u
  <2>1. C \subseteq SUBSET S
    OBVIOUS
  <2> HIDE DEF C
  <2> QED BY <1>1, <2>1, LeastSet
<1>3. u # {}
  BY SumSteps
<1>4. Chosen(u) \in u /\ Chosen(u).quantity \in Nat
  BY <1>3 DEF Chosen
<1>5. Sum(u \ {Chosen(u)}) \in Nat
  BY <1>2, <1>4
<1>6. Sum(u) = Chosen(u).quantity + Sum(u \ {Chosen(u)})
  BY <1>3, SumSteps, FS_Subset
<1> QED BY <1>4, <1>5, <1>6

\* Any order may be taken out first.
LEMMA SumWithout ==
    ASSUME NEW S, IsFiniteSet(S), \A o \in S : o.quantity \in Nat, NEW x \in S
    PROVE  Sum(S) = x.quantity + Sum(S \ {x})
<1> DEFINE C == {u \in SUBSET S : \E y \in u : Sum(u) # y.quantity + Sum(u \ {y})}
<1>1. SUFFICES ASSUME C # {} PROVE FALSE
  OBVIOUS
<1>2. PICK u \in C : \A v \in C : v \subseteq u => v = u
  <2>1. C \subseteq SUBSET S
    OBVIOUS
  <2> HIDE DEF C
  <2> QED BY <1>1, <2>1, LeastSet
<1>3. PICK y \in u : Sum(u) # y.quantity + Sum(u \ {y})
  OBVIOUS
<1>4. \A v \in SUBSET u : v # u => \A z \in v : Sum(v) = z.quantity + Sum(v \ {z})
  BY <1>2
<1>5. u \in SUBSET S /\ IsFiniteSet(u) /\ u # {}
  BY <1>3, FS_Subset
<1> HIDE DEF C
<1>6. PICK c \in u : Sum(u) = c.quantity + Sum(u \ {c})
  BY <1>5, SumSteps DEF Chosen
<1>7. c # y
  BY <1>3, <1>6
<1>8. Sum(u \ {c}) = y.quantity + Sum((u \ {c}) \ {y}) /\ Sum(u \ {y}) = c.quantity + Sum((u \ {y}) \ {c})
  BY <1>4, <1>7
<1>9. (u \ {c}) \ {y} = (u \ {y}) \ {c}
  OBVIOUS
<1>10. Sum((u \ {c}) \ {y}) \in Nat /\ c.quantity \in Nat /\ y.quantity \in Nat
  <2>1. IsFiniteSet((u \ {c}) \ {y})
    BY <1>5, FS_Subset
  <2> QED BY <1>5, <2>1, SumIsNat
<1>11. Sum(u) = c.quantity + (y.quantity + Sum((u \ {c}) \ {y})) /\ Sum(u \ {y}) = c.quantity + Sum((u \ {c}) \ {y})
  BY <1>6, <1>8, <1>9
<1>12. Sum(u) = y.quantity + Sum(u \ {y})
  BY <1>10, <1>11
<1> QED BY <1>3, <1>12

-----------------------------------------------------------------------------
(* Quantities.                                                              *)

\* A remainder is unique.
LEMMA RemainderUnique ==
    ASSUME NEW q \in Int, NEW r \in Quantity
    PROVE  (q * Word + r) % Word = r
BY OrderBookAssumption DEF Quantity

\* Unsigned addition is addition modulo Word.
LEMMA AddIsModulo ==
    ASSUME NEW a \in Nat, NEW b \in Quantity
    PROVE  a % Word \in Quantity /\ (a + b) % Word = Add(a % Word, b)
<1> DEFINE q == a \div Word
           r == a % Word
<1>1. q \in Int /\ r \in Quantity /\ a = q * Word + r
  BY OrderBookAssumption DEF Quantity
<1> HIDE DEF q, r
<1>2. CASE r + b < Word
  <2>1. r + b \in Quantity /\ a + b = q * Word + (r + b)
    BY <1>1, <1>2, OrderBookAssumption DEF Quantity
  <2>2. (q * Word + (r + b)) % Word = r + b
    BY <1>1, <2>1, RemainderUnique
  <2>3. Add(r, b) = r + b
    BY <1>2 DEF Add
  <2> QED BY <1>1, <2>1, <2>2, <2>3 DEF r
<1>3. CASE ~(r + b < Word)
  <2>1. /\ (r + b) - Word \in Quantity /\ q + 1 \in Int
        /\ a + b = (q + 1) * Word + ((r + b) - Word)
    BY <1>1, <1>3, OrderBookAssumption DEF Quantity
  <2>2. ((q + 1) * Word + ((r + b) - Word)) % Word = (r + b) - Word
    BY <2>1, RemainderUnique
  <2>3. Add(r, b) = (r + b) - Word
    BY <1>1, <1>3, OrderBookAssumption DEF Add, Quantity
  <2> QED BY <1>1, <2>1, <2>2, <2>3 DEF r
<1> QED BY <1>2, <1>3

\* The quantity of a set of orders is unsigned, and follows the set.
LEMMA QuantitiesFollow ==
    ASSUME NEW S \in SUBSET Order, IsFiniteSet(S)
    PROVE  /\ Quantities(S) \in Quantity
           /\ Quantities({}) = 0
           /\ \A o \in Order \ S : Quantities(S \cup {o}) = Add(Quantities(S), o.quantity)
           /\ \A o \in S : Quantities(S \ {o}) = Sub(Quantities(S), o.quantity)
<1>1. \A T : Quantities(T) = Sum(T) % Word
  BY DEF Quantities, Sum
<1>2. \A T \in SUBSET Order : IsFiniteSet(T) => Sum(T) \in Nat
  BY SumIsNat DEF Order, Quantity
<1>3. \A T \in SUBSET Order : IsFiniteSet(T) => Quantities(T) \in Quantity
  BY <1>1, <1>2, OrderBookAssumption DEF Quantity
<1>4. Quantities({}) = 0
  BY <1>1, SumSteps, OrderBookAssumption
<1>5. ASSUME NEW T \in SUBSET Order, IsFiniteSet(T), NEW o \in T
      PROVE  Quantities(T) = Add(Quantities(T \ {o}), o.quantity)
  <2>1. IsFiniteSet(T \ {o}) /\ o.quantity \in Quantity
    BY <1>5, FS_Subset DEF Order
  <2>2. Sum(T) = o.quantity + Sum(T \ {o})
    BY <1>5, SumWithout DEF Order, Quantity
  <2>3. Sum(T \ {o}) \in Nat
    BY <1>2, <2>1
  <2>4. Sum(T) = Sum(T \ {o}) + o.quantity
    BY <2>1, <2>2, <2>3 DEF Quantity
  <2> QED BY <1>1, <2>1, <2>3, <2>4, AddIsModulo
<1>6. ASSUME NEW o \in Order \ S PROVE Quantities(S \cup {o}) = Add(Quantities(S), o.quantity)
  <2>1. IsFiniteSet(S \cup {o}) /\ (S \cup {o}) \ {o} = S
    BY <1>6, FS_AddElement
  <2> QED BY <1>5, <2>1
<1>7. ASSUME NEW o \in S PROVE Quantities(S \ {o}) = Sub(Quantities(S), o.quantity)
  <2>1. Quantities(S \ {o}) \in Quantity /\ o.quantity \in Quantity
    BY <1>3, FS_Subset DEF Order
  <2>2. Quantities(S) = Add(Quantities(S \ {o}), o.quantity)
    BY <1>5
  <2> QED BY <2>1, <2>2, WordArithmetic
<1> QED BY <1>3, <1>4, <1>6, <1>7

-----------------------------------------------------------------------------
(* The totals.  An operation of the atomic book keeps its volume the sum of *)
(* the quantities; the refinement carries this over to the book.            *)

\* std::multi_index holds finitely many orders.
BookFinite == \A s \in Sides : IsFiniteSet(orders[s])

\* Between operations of the atomic book the volume is the sum.
SumInv == BookFinite /\ VolumeIsSum

\* SumInv side by side, before and after a step.
LEMMA SumInvBySide ==
    /\ SumInv <=> \A s \in Sides : IsFiniteSet(orders[s]) /\ Volume(s) = Quantities(orders[s])
    /\ SumInv' <=> \A s \in Sides : IsFiniteSet(orders'[s]) /\ Volume(s)' = Quantities(orders'[s])
<1>1. SumInv <=> \A s \in Sides : IsFiniteSet(orders[s]) /\ Volume(s) = Quantities(orders[s])
  BY DEF SumInv, BookFinite, VolumeIsSum
<1>2. \A s : Quantities(orders[s])' = Quantities(orders'[s])
  OBVIOUS
<1>3. BookFinite' <=> \A s \in Sides : IsFiniteSet(orders'[s])
  BY DEF BookFinite
<1>4. VolumeIsSum' <=> \A s \in Sides : Volume(s)' = Quantities(orders[s])'
  BY DEF VolumeIsSum
<1> QED BY <1>1, <1>2, <1>3, <1>4 DEF SumInv

\* What an operation of the atomic book does to a side.
LEMMA AtomicStep ==
    ASSUME BookTypeOK, Atomic!Next
    PROVE  \E s \in Sides :
             /\ \A r \in Sides \ {s} : orders'[r] = orders[r] /\ Volume(r)' = Volume(r)
             /\ \/ \E o \in Order \ orders[s] : /\ orders'[s] = orders[s] \cup {o}
                                                /\ Volume(s)' = Add(Volume(s), o.quantity)
                \/ \E o \in orders[s] : /\ orders'[s] = orders[s] \ {o}
                                        /\ Volume(s)' = Sub(Volume(s), o.quantity)
                \/ \E o \in orders[s], n \in Order :
                                        /\ o.id = n.id
                                        /\ orders'[s] = (orders[s] \ {o}) \cup {n}
                                        /\ Volume(s)' = Add(Sub(Volume(s), o.quantity), n.quantity)
<1>1. PICK s \in Sides : \/ \E o \in Atomic!Orders : Atomic!New(s, o)
                         \/ \E o \in orders[s] : Atomic!Cancel(s, o)
                         \/ \E o \in orders[s], n \in Atomic!Orders : Atomic!Replace(s, o, n)
  BY DEF Atomic!Next, Atomic!Sides, Sides
<1>2. \A a, b : Atomic!Add(a, b) = Add(a, b) /\ Atomic!Sub(a, b) = Sub(a, b)
  BY DEF Atomic!Add, Atomic!Sub, Add, Sub
<1>3. Atomic!Orders \subseteq Order
  <2> SUFFICES ASSUME NEW id \in Ids, NEW p \in Prices, NEW q \in Ints
               PROVE  [id |-> id, price |-> p, quantity |-> q % Word] \in Order
    BY DEF Atomic!Orders
  <2>1. q % Word \in Quantity
    BY OrderBookAssumption DEF Quantity
  <2> QED BY <2>1, OrderBookAssumption DEF Order
<1>4. volume = [r \in Sides |-> Volume(r)] /\ volume' = [r \in Sides |-> Volume(r)']
  BY DEF volume
<1>5. ASSUME NEW o \in Atomic!Orders, Atomic!New(s, o)
      PROVE  /\ o \notin orders[s]
             /\ orders' = [orders EXCEPT ![s] = @ \cup {o}]
             /\ volume' = [volume EXCEPT ![s] = Add(@, o.quantity)]
  BY <1>2, <1>5 DEF Atomic!New, volume
<1>6. ASSUME NEW o \in orders[s], Atomic!Cancel(s, o)
      PROVE  /\ orders' = [orders EXCEPT ![s] = @ \ {o}]
             /\ volume' = [volume EXCEPT ![s] = Sub(@, o.quantity)]
  BY <1>2, <1>6 DEF Atomic!Cancel, volume
<1>7. ASSUME NEW o \in orders[s], NEW n \in Atomic!Orders, Atomic!Replace(s, o, n)
      PROVE  /\ o.id = n.id
             /\ orders' = [orders EXCEPT ![s] = (@ \ {o}) \cup {n}]
             /\ volume' = [volume EXCEPT ![s] = Add(Sub(@, o.quantity), n.quantity)]
  BY <1>2, <1>7 DEF Atomic!Replace, volume
<1>8. ASSUME NEW S, NEW v,
             orders' = [orders EXCEPT ![s] = S], volume' = [volume EXCEPT ![s] = v]
      PROVE  /\ orders'[s] = S /\ Volume(s)' = v
             /\ \A r \in Sides \ {s} : orders'[r] = orders[r] /\ Volume(r)' = Volume(r)
  <2>1. orders'[s] = S /\ \A r \in Sides \ {s} : orders'[r] = orders[r]
    BY <1>8 DEF BookTypeOK
  <2>2. volume'[s] = v /\ \A r \in Sides \ {s} : volume'[r] = volume[r]
    BY <1>4, <1>8
  <2>3. \A r \in Sides : volume[r] = Volume(r) /\ volume'[r] = Volume(r)'
    BY <1>4
  <2> QED BY <2>1, <2>2, <2>3
<1>9. volume[s] = Volume(s)
  BY <1>4
<1>10. ASSUME NEW o \in Atomic!Orders, Atomic!New(s, o)
       PROVE  /\ o \in Order \ orders[s]
              /\ orders'[s] = orders[s] \cup {o} /\ Volume(s)' = Add(Volume(s), o.quantity)
              /\ \A r \in Sides \ {s} : orders'[r] = orders[r] /\ Volume(r)' = Volume(r)
  BY <1>3, <1>5, <1>8, <1>9, <1>10
<1>11. ASSUME NEW o \in orders[s], Atomic!Cancel(s, o)
       PROVE  /\ orders'[s] = orders[s] \ {o} /\ Volume(s)' = Sub(Volume(s), o.quantity)
              /\ \A r \in Sides \ {s} : orders'[r] = orders[r] /\ Volume(r)' = Volume(r)
  BY <1>6, <1>8, <1>9, <1>11
<1>12. ASSUME NEW o \in orders[s], NEW n \in Atomic!Orders, Atomic!Replace(s, o, n)
       PROVE  /\ o.id = n.id /\ n \in Order
              /\ orders'[s] = (orders[s] \ {o}) \cup {n}
              /\ Volume(s)' = Add(Sub(Volume(s), o.quantity), n.quantity)
              /\ \A r \in Sides \ {s} : orders'[r] = orders[r] /\ Volume(r)' = Volume(r)
  BY <1>3, <1>7, <1>8, <1>9, <1>12
<1> QED BY <1>1, <1>10, <1>11, <1>12

\* An operation of the atomic book keeps the volume the sum of the quantities.
LEMMA AtomicKeepsSum ==
    ASSUME BookTypeOK, UniqueIds, SumInv, Atomic!Next
    PROVE  SumInv'
<1>1. PICK s \in Sides :
        /\ \A r \in Sides \ {s} : orders'[r] = orders[r] /\ Volume(r)' = Volume(r)
        /\ \/ \E o \in Order \ orders[s] : /\ orders'[s] = orders[s] \cup {o}
                                           /\ Volume(s)' = Add(Volume(s), o.quantity)
           \/ \E o \in orders[s] : /\ orders'[s] = orders[s] \ {o}
                                   /\ Volume(s)' = Sub(Volume(s), o.quantity)
           \/ \E o \in orders[s], n \in Order :
                                   /\ o.id = n.id
                                   /\ orders'[s] = (orders[s] \ {o}) \cup {n}
                                   /\ Volume(s)' = Add(Sub(Volume(s), o.quantity), n.quantity)
  BY AtomicStep
<1>2. orders[s] \in SUBSET Order /\ IsFiniteSet(orders[s]) /\ Volume(s) = Quantities(orders[s])
  BY SumInvBySide DEF BookTypeOK
<1>3. SUFFICES IsFiniteSet(orders'[s]) /\ Volume(s)' = Quantities(orders'[s])
  BY <1>1, SumInvBySide
<1>4. ASSUME NEW o \in Order \ orders[s], orders'[s] = orders[s] \cup {o},
             Volume(s)' = Add(Volume(s), o.quantity)
      PROVE  IsFiniteSet(orders'[s]) /\ Volume(s)' = Quantities(orders'[s])
  BY <1>2, <1>4, QuantitiesFollow, FS_AddElement
<1>5. ASSUME NEW o \in orders[s], orders'[s] = orders[s] \ {o},
             Volume(s)' = Sub(Volume(s), o.quantity)
      PROVE  IsFiniteSet(orders'[s]) /\ Volume(s)' = Quantities(orders'[s])
  BY <1>2, <1>5, QuantitiesFollow, FS_RemoveElement
<1>6. ASSUME NEW o \in orders[s], NEW n \in Order, o.id = n.id,
             orders'[s] = (orders[s] \ {o}) \cup {n},
             Volume(s)' = Add(Sub(Volume(s), o.quantity), n.quantity)
      PROVE  IsFiniteSet(orders'[s]) /\ Volume(s)' = Quantities(orders'[s])
  <2>1. n \notin orders[s] \ {o}
    BY <1>6 DEF UniqueIds
  <2>2. /\ orders[s] \ {o} \in SUBSET Order /\ IsFiniteSet(orders[s] \ {o})
        /\ Sub(Volume(s), o.quantity) = Quantities(orders[s] \ {o})
    BY <1>2, QuantitiesFollow, FS_RemoveElement
  <2> QED BY <1>6, <2>1, <2>2, QuantitiesFollow, FS_AddElement
<1> QED BY <1>1, <1>4, <1>5, <1>6

\* So does every step of the book.
LEMMA NextSumInv == IInv /\ SumInv /\ [Next]_vars => SumInv'
<1> SUFFICES ASSUME IInv, SumInv, [Next]_vars PROVE SumInv'
  OBVIOUS
<1>1. CASE Atomic!Next
  BY <1>1, AtomicKeepsSum DEF IInv, WriteExclusion
<1>2. CASE UNCHANGED <<orders, volume>>
  <2>1. \A s \in Sides : Volume(s)' = Volume(s)
    BY <1>2 DEF volume
  <2> QED BY <1>2, <2>1, SumInvBySide
<1> QED BY <1>1, <1>2, NextIsAtomic

\* The empty book has volume zero.
LEMMA InitSumInv == Init => SumInv
BY FS_EmptySet, QuantitiesFollow DEF Init, SumInv, BookFinite, VolumeIsSum, Volume, Zero

\* The total kept outside the container never drifts from the sum
\* (fetch_add and fetch_sub of NewBid, CancelBid, ReplaceBid).
THEOREM TotalsNeverDrift == Spec => []VolumeIsSum
<1>1. SumInv => VolumeIsSum
  BY DEF SumInv
<1> QED BY <1>1, InitSumInv, InitIInv, NextIInv, NextSumInv, PTL DEF Spec

-----------------------------------------------------------------------------
(* GenerateMDUpdate.                                                        *)

\* BidComparator and AskComparator order the orders of a side strictly and
\* totally, ids being unique.
LEMMA BetterOrders ==
    ASSUME NEW s \in Sides, NEW a \in Order, NEW b \in Order, NEW c \in Order
    PROVE  /\ a.id # b.id => Better(s, a, b) \/ Better(s, b, a)
           /\ Better(s, a, b) /\ Better(s, b, c) => Better(s, a, c)
BY DEF Order, Quantity, Better, Sides

\* A finite set of orders has a best one.
LEMMA BestOf ==
    ASSUME NEW s \in Sides, NEW S \in SUBSET Order, IsFiniteSet(S), S # {},
           \A a, b \in S : a.id = b.id => a = b
    PROVE  \E a \in S : \A b \in S \ {a} : Better(s, a, b)
<1> DEFINE HasBest(u) == \E a \in u : \A b \in u \ {a} : Better(s, a, b)
           C == {u \in SUBSET S : u # {} /\ ~HasBest(u)}
<1>1. SUFFICES ASSUME C # {} PROVE FALSE
  OBVIOUS
<1>2. PICK u \in C : \A v \in C : v \subseteq u => v = u
  <2>1. C \subseteq SUBSET S
    OBVIOUS
  <2> HIDE DEF C
  <2> QED BY <1>1, <2>1, LeastSet
<1>3. u \in SUBSET S /\ u # {} /\ ~HasBest(u)
  OBVIOUS
<1>4. PICK x \in u : TRUE
  BY <1>3
<1>5. u \ {x} # {}
  BY <1>3, <1>4
<1>6. HasBest(u \ {x})
  <2>1. u \ {x} \in SUBSET S /\ u \ {x} # u
    BY <1>3, <1>4
  <2>2. u \ {x} \notin C
    BY <1>2, <2>1
  <2> HIDE DEF HasBest
  <2> QED BY <1>5, <2>1, <2>2
<1>7. PICK a \in u \ {x} : \A b \in (u \ {x}) \ {a} : Better(s, a, b)
  BY <1>6
<1>8. a \in Order /\ x \in Order /\ a.id # x.id /\ u \subseteq Order
  BY <1>3
<1>9. CASE Better(s, a, x)
  <2>1. \A b \in u \ {a} : Better(s, a, b)
    BY <1>7, <1>9
  <2> QED BY <1>3, <2>1
<1>10. CASE Better(s, x, a)
  <2>1. ASSUME NEW b \in u \ {x} PROVE Better(s, x, b)
    <3>1. CASE b = a
      BY <1>10, <3>1
    <3>2. CASE b # a
      BY <1>7, <1>8, <1>10, <3>2, BetterOrders
    <3> QED BY <3>1, <3>2
  <2> QED BY <1>3, <1>4, <2>1
<1> QED BY <1>8, <1>9, <1>10, BetterOrders

\* What BestBid and BestAsk return: nothing on an empty side, otherwise an
\* order of the side, and none has a better price.
LEMMA BestIsBest ==
    ASSUME BookTypeOK, BookFinite, UniqueIds, NEW s \in Sides
    PROVE  /\ Best(s) \in Order
           /\ orders[s] = {} => Best(s) = NoOrder
           /\ orders[s] # {} => Best(s) \in orders[s]
           /\ \A o \in orders[s] : IF s = "bid" THEN o.price <= Best(s).price
                                   ELSE o.price >= Best(s).price
<1>1. CASE orders[s] = {}
  BY <1>1, NoOrderIsOrder DEF Best
<1>2. CASE orders[s] # {}
  <2>1. orders[s] \in SUBSET Order /\ IsFiniteSet(orders[s])
    BY DEF BookTypeOK, BookFinite
  <2>2. \E a \in orders[s] : \A b \in orders[s] \ {a} : Better(s, a, b)
    BY <1>2, <2>1, BestOf DEF UniqueIds
  <2>3. Best(s) \in orders[s] /\ \A b \in orders[s] \ {Best(s)} : Better(s, Best(s), b)
    BY <1>2, <2>2 DEF Best
  <2>4. ASSUME NEW o \in orders[s]
        PROVE  IF s = "bid" THEN o.price <= Best(s).price ELSE o.price >= Best(s).price
    <3>1. o \in Order /\ Best(s) \in Order
      BY <2>1, <2>3
    <3>2. o = Best(s) \/ Better(s, Best(s), o)
      BY <2>3
    <3> QED BY <3>1, <3>2 DEF Better, Order
  <2> QED BY <1>2, <2>1, <2>3, <2>4
<1> QED BY <1>1, <1>2

\* GetContainerPrice returns a Quantity.
LEMMA LevelIsQuantity ==
    ASSUME BookTypeOK, BookFinite, NEW s \in Sides, NEW p
    PROVE  Level(s, p) \in Quantity
<1>1. {o \in orders[s] : o.price = p} \in SUBSET Order /\ IsFiniteSet({o \in orders[s] : o.price = p})
  BY FS_Subset DEF BookTypeOK, BookFinite
<1> QED BY <1>1, QuantitiesFollow DEF Level

\* A thread at `at` whose update is m so far has read what the book holds.
Describes(m, at) ==
    /\ \A s \in Sides : lock[s] = NoThread
    /\ at \in ReaderPCs \cup {"returned"}
    /\ m.price["bid"] = Best("bid").price
    /\ at # "best_ask" => m.price["ask"] = Best("ask").price
    /\ at \in {"level_ask", "total_bid", "total_ask", "returned"} =>
         m.qty["bid"] = Level("bid", m.price["bid"])
    /\ at \in {"total_bid", "total_ask", "returned"} =>
         m.qty["ask"] = Level("ask", m.price["ask"])
    /\ at \in {"total_ask", "returned"} => m.total["bid"] = total["bid"]
    /\ at = "returned" => m.total["ask"] = total["ask"]

\* Every thread that no writer disturbed has.
CalmReads == \A t \in Threads : calm[t] => Describes(md[t], pc[t])

\* It is the book at the moment of the return.
LEMMA CalmReadsExact == IInv /\ SumInv /\ CalmReads => UpdateExact
<1> SUFFICES ASSUME IInv, SumInv, CalmReads,
                    NEW t \in Threads, pc[t] = "returned", calm[t], NEW s \in Sides
             PROVE  LET price == md[t].price[s]
                    IN  /\ \A o \in orders[s] : IF s = "bid" THEN o.price <= price ELSE o.price >= price
                        /\ IF orders[s] = {} THEN price = 0 ELSE \E o \in orders[s] : o.price = price
                        /\ md[t].qty[s] = Quantities({o \in orders[s] : o.price = price})
                        /\ md[t].total[s] = Quantities(orders[s])
  BY DEF UpdateExact
<1>1. /\ lock[s] = NoThread /\ md[t].price[s] = Best(s).price
      /\ md[t].qty[s] = Level(s, md[t].price[s]) /\ md[t].total[s] = total[s]
  BY DEF CalmReads, Describes, Sides
<1>2. total[s] = Quantities(orders[s])
  <2>1. Volume(s) = total[s]
    BY <1>1, OrderBookAssumption DEF Volume
  <2> QED BY <2>1, SumInvBySide
<1>3. /\ \A o \in orders[s] : IF s = "bid" THEN o.price <= Best(s).price ELSE o.price >= Best(s).price
      /\ IF orders[s] = {} THEN Best(s).price = 0 ELSE \E o \in orders[s] : o.price = Best(s).price
  BY BestIsBest DEF IInv, WriteExclusion, SumInv, NoOrder
<1> QED BY <1>1, <1>2, <1>3 DEF Level

\* The updates, as TypeOK has them.
MDUpdates == [price : [Sides -> Nat], qty : [Sides -> Quantity], total : [Sides -> Quantity]]

\* One price of one thread's update is filled in.
LEMMA PriceFilled ==
    ASSUME md \in [Threads -> MDUpdates], NEW t \in Threads, NEW s \in Sides, NEW v \in Nat,
           md' = [md EXCEPT ![t].price[s] = v]
    PROVE  /\ md' \in [Threads -> MDUpdates]
           /\ \A u \in Threads \ {t} : md'[u] = md[u]
           /\ md'[t].price = [md[t].price EXCEPT ![s] = v]
           /\ md'[t].qty = md[t].qty /\ md'[t].total = md[t].total
BY DEF MDUpdates

\* One quantity of it is.
LEMMA QtyFilled ==
    ASSUME md \in [Threads -> MDUpdates], NEW t \in Threads, NEW s \in Sides, NEW v \in Quantity,
           md' = [md EXCEPT ![t].qty[s] = v]
    PROVE  /\ md' \in [Threads -> MDUpdates]
           /\ \A u \in Threads \ {t} : md'[u] = md[u]
           /\ md'[t].qty = [md[t].qty EXCEPT ![s] = v]
           /\ md'[t].price = md[t].price /\ md'[t].total = md[t].total
BY DEF MDUpdates

\* One total of it is.
LEMMA TotalFilled ==
    ASSUME md \in [Threads -> MDUpdates], NEW t \in Threads, NEW s \in Sides, NEW v \in Quantity,
           md' = [md EXCEPT ![t].total[s] = v]
    PROVE  /\ md' \in [Threads -> MDUpdates]
           /\ \A u \in Threads \ {t} : md'[u] = md[u]
           /\ md'[t].total = [md[t].total EXCEPT ![s] = v]
           /\ md'[t].price = md[t].price /\ md'[t].qty = md[t].qty
BY DEF MDUpdates

\* The inductive invariant of GenerateMDUpdate.
ReadInv == UpdateTypeOK /\ CalmReads

\* A thread of GenerateMDUpdate moves on: its control state and its history.
LEMMA MovesOn ==
    ASSUME IInv, ReadInv, NEW t \in Threads, NEW at, pc' = [pc EXCEPT ![t] = at], Watch(t)
    PROVE  /\ pc'[t] = at /\ calm' \in [Threads -> BOOLEAN]
           /\ \A u \in Threads \ {t} : pc'[u] = pc[u] /\ calm'[u] = calm[u]
           /\ calm'[t] => IF pc[t] = "idle" THEN \A s \in Sides : lock[s] = NoThread
                          ELSE calm[t] /\ at # "idle"
BY DEF IInv, CallTypeOK, ReadInv, UpdateTypeOK, Watch, Shared

\* What it has read after a step is what the book holds, too, if it was undisturbed.
LEMMA StepReads ==
    ASSUME IInv, BookFinite, ReadInv, NEW t \in Readers, Read(t), Watch(t)
    PROVE  /\ md' \in [Threads -> MDUpdates] /\ calm' \in [Threads -> BOOLEAN]
           /\ \A u \in Threads \ {t} : md'[u] = md[u] /\ pc'[u] = pc[u] /\ calm'[u] = calm[u]
           /\ calm'[t] => Describes(md'[t], pc'[t])
<1> DEFINE Goal == /\ md' \in [Threads -> MDUpdates] /\ calm' \in [Threads -> BOOLEAN]
                   /\ \A u \in Threads \ {t} : md'[u] = md[u] /\ pc'[u] = pc[u] /\ calm'[u] = calm[u]
                   /\ calm'[t] => Describes(md'[t], pc'[t])
<1>1. t \in Threads /\ md \in [Threads -> MDUpdates] /\ "bid" \in Sides /\ "ask" \in Sides
  BY DEF Threads, ReadInv, UpdateTypeOK, MDUpdates, Sides
<1>2. /\ md[t].price \in [Sides -> Nat] /\ md[t].qty \in [Sides -> Quantity]
      /\ md[t].total \in [Sides -> Quantity] /\ total \in [Sides -> Quantity]
  BY <1>1 DEF MDUpdates, IInv, BookTypeOK
<1>3. calm[t] => Describes(md[t], pc[t])
  BY <1>1 DEF ReadInv, CalmReads
<1>4. \A s \in Sides : Best(s).price \in Nat /\ \A p : Level(s, p) \in Quantity
  BY BestIsBest, LevelIsQuantity DEF IInv, WriteExclusion, Order
<1> SUFFICES Goal
  OBVIOUS
<1>5. CASE GenBestBid(t)
  <2>1. /\ pc[t] = "idle" /\ pc' = [pc EXCEPT ![t] = "best_ask"]
        /\ md' = [md EXCEPT ![t].price["bid"] = Best("bid").price]
    BY <1>5 DEF GenBestBid
  <2>2. md' \in [Threads -> MDUpdates] /\ \A u \in Threads \ {t} : md'[u] = md[u]
    BY <1>1, <1>4, <2>1, PriceFilled
  <2>3. md'[t].price["bid"] = Best("bid").price
    BY <1>1, <1>2, <1>4, <2>1, PriceFilled
  <2>4. /\ pc'[t] = "best_ask" /\ calm' \in [Threads -> BOOLEAN]
        /\ \A u \in Threads \ {t} : pc'[u] = pc[u] /\ calm'[u] = calm[u]
        /\ calm'[t] => \A s \in Sides : lock[s] = NoThread
    BY <1>1, <2>1, MovesOn
  <2>5. calm'[t] => Describes(md'[t], pc'[t])
    BY <2>3, <2>4 DEF Describes, ReaderPCs
  <2> QED BY <2>2, <2>4, <2>5
<1>6. CASE GenBestAsk(t)
  <2>1. PICK at \in {"idle", "level_bid"} : pc' = [pc EXCEPT ![t] = at]
    BY <1>6 DEF GenBestAsk
  <2>2. pc[t] = "best_ask" /\ md' = [md EXCEPT ![t].price["ask"] = Best("ask").price]
    BY <1>6 DEF GenBestAsk
  <2>3. md' \in [Threads -> MDUpdates] /\ \A u \in Threads \ {t} : md'[u] = md[u]
    BY <1>1, <1>4, <2>2, PriceFilled
  <2>4. md'[t].price["ask"] = Best("ask").price /\ md'[t].price["bid"] = md[t].price["bid"]
    BY <1>1, <1>2, <1>4, <2>2, PriceFilled
  <2>5. /\ pc'[t] = at /\ calm' \in [Threads -> BOOLEAN]
        /\ \A u \in Threads \ {t} : pc'[u] = pc[u] /\ calm'[u] = calm[u]
        /\ calm'[t] => calm[t] /\ at # "idle"
    BY <1>1, <2>1, <2>2, MovesOn
  <2>6. calm'[t] => Describes(md'[t], pc'[t])
    BY <1>3, <2>1, <2>2, <2>4, <2>5 DEF Describes, ReaderPCs
  <2> QED BY <2>3, <2>5, <2>6
<1>7. CASE GenLevel(t, "bid", "level_bid", "level_ask")
  <2>1. /\ pc[t] = "level_bid" /\ pc' = [pc EXCEPT ![t] = "level_ask"]
        /\ md' = [md EXCEPT ![t].qty["bid"] = Level("bid", md[t].price["bid"])]
    BY <1>7 DEF GenLevel
  <2>2. md' \in [Threads -> MDUpdates] /\ \A u \in Threads \ {t} : md'[u] = md[u]
    BY <1>1, <1>4, <2>1, QtyFilled
  <2>3. md'[t].price = md[t].price /\ md'[t].qty["bid"] = Level("bid", md[t].price["bid"])
    BY <1>1, <1>2, <1>4, <2>1, QtyFilled
  <2>4. /\ pc'[t] = "level_ask" /\ calm' \in [Threads -> BOOLEAN]
        /\ \A u \in Threads \ {t} : pc'[u] = pc[u] /\ calm'[u] = calm[u]
        /\ calm'[t] => calm[t]
    BY <1>1, <2>1, MovesOn
  <2>5. calm'[t] => Describes(md'[t], pc'[t])
    BY <1>3, <2>1, <2>3, <2>4 DEF Describes, ReaderPCs
  <2> QED BY <2>2, <2>4, <2>5
<1>8. CASE GenLevel(t, "ask", "level_ask", "total_bid")
  <2>1. /\ pc[t] = "level_ask" /\ pc' = [pc EXCEPT ![t] = "total_bid"]
        /\ md' = [md EXCEPT ![t].qty["ask"] = Level("ask", md[t].price["ask"])]
    BY <1>8 DEF GenLevel
  <2>2. md' \in [Threads -> MDUpdates] /\ \A u \in Threads \ {t} : md'[u] = md[u]
    BY <1>1, <1>4, <2>1, QtyFilled
  <2>3. /\ md'[t].price = md[t].price /\ md'[t].qty["bid"] = md[t].qty["bid"]
        /\ md'[t].qty["ask"] = Level("ask", md[t].price["ask"])
    BY <1>1, <1>2, <1>4, <2>1, QtyFilled
  <2>4. /\ pc'[t] = "total_bid" /\ calm' \in [Threads -> BOOLEAN]
        /\ \A u \in Threads \ {t} : pc'[u] = pc[u] /\ calm'[u] = calm[u]
        /\ calm'[t] => calm[t]
    BY <1>1, <2>1, MovesOn
  <2>5. calm'[t] => Describes(md'[t], pc'[t])
    BY <1>3, <2>1, <2>3, <2>4 DEF Describes, ReaderPCs
  <2> QED BY <2>2, <2>4, <2>5
<1>9. CASE GenTotal(t, "bid", "total_bid", "total_ask")
  <2>1. /\ pc[t] = "total_bid" /\ pc' = [pc EXCEPT ![t] = "total_ask"]
        /\ md' = [md EXCEPT ![t].total["bid"] = total["bid"]]
    BY <1>9 DEF GenTotal
  <2>2. md' \in [Threads -> MDUpdates] /\ \A u \in Threads \ {t} : md'[u] = md[u]
    BY <1>1, <1>2, <2>1, TotalFilled
  <2>3. /\ md'[t].price = md[t].price /\ md'[t].qty = md[t].qty
        /\ md'[t].total["bid"] = total["bid"]
    BY <1>1, <1>2, <2>1, TotalFilled
  <2>4. /\ pc'[t] = "total_ask" /\ calm' \in [Threads -> BOOLEAN]
        /\ \A u \in Threads \ {t} : pc'[u] = pc[u] /\ calm'[u] = calm[u]
        /\ calm'[t] => calm[t]
    BY <1>1, <2>1, MovesOn
  <2>5. calm'[t] => Describes(md'[t], pc'[t])
    BY <1>3, <2>1, <2>3, <2>4 DEF Describes, ReaderPCs
  <2> QED BY <2>2, <2>4, <2>5
<1>10. CASE GenTotal(t, "ask", "total_ask", "returned")
  <2>1. /\ pc[t] = "total_ask" /\ pc' = [pc EXCEPT ![t] = "returned"]
        /\ md' = [md EXCEPT ![t].total["ask"] = total["ask"]]
    BY <1>10 DEF GenTotal
  <2>2. md' \in [Threads -> MDUpdates] /\ \A u \in Threads \ {t} : md'[u] = md[u]
    BY <1>1, <1>2, <2>1, TotalFilled
  <2>3. /\ md'[t].price = md[t].price /\ md'[t].qty = md[t].qty
        /\ md'[t].total["bid"] = md[t].total["bid"] /\ md'[t].total["ask"] = total["ask"]
    BY <1>1, <1>2, <2>1, TotalFilled
  <2>4. /\ pc'[t] = "returned" /\ calm' \in [Threads -> BOOLEAN]
        /\ \A u \in Threads \ {t} : pc'[u] = pc[u] /\ calm'[u] = calm[u]
        /\ calm'[t] => calm[t]
    BY <1>1, <2>1, MovesOn
  <2>5. calm'[t] => Describes(md'[t], pc'[t])
    BY <1>3, <2>1, <2>3, <2>4 DEF Describes, ReaderPCs
  <2> QED BY <2>2, <2>4, <2>5
<1>11. CASE Consume(t)
  <2>1. pc[t] = "returned" /\ pc' = [pc EXCEPT ![t] = "idle"] /\ md' = [md EXCEPT ![t] = NoUpdate]
    BY <1>11 DEF Consume
  <2>2. NoUpdate \in MDUpdates
    BY OrderBookAssumption DEF MDUpdates, NoUpdate, Zero, Quantity
  <2>3. md' \in [Threads -> MDUpdates] /\ \A u \in Threads \ {t} : md'[u] = md[u]
    BY <1>1, <2>1, <2>2
  <2> QED BY <1>1, <2>1, <2>3, MovesOn
<1> QED BY <1>5, <1>6, <1>7, <1>8, <1>9, <1>10, <1>11 DEF Read, ReaderStep

\* While the book stays as it is, so does what describes it.
LEMMA DescribesAlike ==
    ASSUME UNCHANGED <<orders, total, lock>>, NEW u
    PROVE  Describes(md[u], pc[u])' <=> Describes(md'[u], pc'[u])
<1>1. Best("bid")' = Best("bid") /\ Best("ask")' = Best("ask")
  BY DEF Best
<1>2. /\ Level("bid", md[u].price["bid"])' = Level("bid", md'[u].price["bid"])
      /\ Level("ask", md[u].price["ask"])' = Level("ask", md'[u].price["ask"])
  BY DEF Level
<1> QED BY <1>1, <1>2 DEF Describes

\* Every step of every thread keeps the invariant of GenerateMDUpdate.
LEMMA NextReadInv == IInv /\ BookFinite /\ ReadInv /\ [Next]_vars => ReadInv'
<1> SUFFICES ASSUME IInv, BookFinite, ReadInv, [Next]_vars PROVE ReadInv'
  OBVIOUS
<1>1. ASSUME NEW t \in Writers, Write(t), Disturb PROVE ReadInv'
  <2>1. md' = md
    BY <1>1 DEF Write, WriterStep, NewInsert, NewAdd, CancelSubtract, CancelErase, ReplaceSubtract,
               ReplaceAdd, ReplaceModify, Enter, Leave
  <2>2. CalmReads'
    BY <1>1 DEF Disturb, CalmReads
  <2> QED BY <1>1, <2>1, <2>2 DEF ReadInv, UpdateTypeOK, Disturb
<1>2. ASSUME NEW t \in Readers, Read(t), Watch(t) PROVE ReadInv'
  <2>1. UNCHANGED <<orders, total, lock>> /\ t \in Threads
    BY <1>2, ReadChangesPC DEF bookVars, IInv, Threads
  <2>2. ASSUME NEW u \in Threads, calm'[u] PROVE Describes(md[u], pc[u])'
    <3>1. Describes(md'[u], pc'[u])
      BY <1>2, <2>2, StepReads DEF ReadInv, CalmReads
    <3> QED BY <2>1, <3>1, DescribesAlike
  <2>3. CalmReads'
    BY <2>2 DEF CalmReads
  <2> QED BY <1>2, <2>3, StepReads DEF ReadInv, UpdateTypeOK, MDUpdates
<1>3. CASE UNCHANGED vars
  <2>1. ASSUME NEW u \in Threads, calm'[u] PROVE Describes(md[u], pc[u])'
    BY <1>3, <2>1, DescribesAlike DEF vars, ReadInv, CalmReads
  <2>2. CalmReads'
    BY <2>1 DEF CalmReads
  <2> QED BY <1>3, <2>2 DEF vars, ReadInv, UpdateTypeOK
<1> QED BY <1>1, <1>2, <1>3 DEF Next

\* Nothing has been read at first.
LEMMA InitReadInv == Init => ReadInv
BY OrderBookAssumption DEF Init, ReadInv, UpdateTypeOK, CalmReads, NoUpdate, Zero, Quantity

\* What GenerateMDUpdate returns describes one state of the book, the one at the
\* moment of the return, unless a writer was inside meanwhile.
THEOREM UpdatesExact == Spec => []UpdateExact
<1>1. IInv /\ SumInv /\ ReadInv => UpdateExact
  BY CalmReadsExact DEF ReadInv
<1>2. Init => SumInv
  BY InitSumInv
<1>3. SumInv => BookFinite
  BY DEF SumInv
<1> QED BY <1>1, <1>2, <1>3, InitIInv, NextIInv, NextSumInv, InitReadInv, NextReadInv, PTL DEF Spec

\* The type invariant of the whole book, the updates included: in particular
\* the quantity of a price level and the totals stay in the range of Quantity.
THEOREM TypeCorrect == Spec => []TypeOK
<1>1. IInv /\ ReadInv => TypeOK
  BY DEF IInv, ReadInv, TypeOK
<1>2. SumInv => BookFinite
  BY DEF SumInv
<1> QED BY <1>1, <1>2, InitIInv, NextIInv, InitSumInv, NextSumInv, InitReadInv, NextReadInv, PTL DEF Spec
=============================================================================
