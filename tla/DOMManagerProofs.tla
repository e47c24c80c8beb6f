--------------------------- MODULE DOMManagerProofs ---------------------------
(***************************************************************************)
(* DOMManager, for any clients and any bounds. The chain of ticks is never *)
(* lost, and nothing stays armed after a stop: a tick leaves the queue of  *)
(* the io thread only to arm the timer, or when broadcasting_ is not set.  *)
(* And what the broadcaster promises to one producer holds of the          *)
(* composition: no snapshot is lost, and no client goes back in time.      *)
(***************************************************************************)
EXTENDS DOMManager, SequenceTheorems, TLAPS

Ticking(q) == \E i \in 1 .. Len(q) : q[i].op = "tick"

ChainInv ==
    /\ io \in Seq(Handlers)
    /\ waits \in 0 .. 1
    /\ broadcasting \in BOOLEAN
    /\ broadcasting => waits = 1 \/ Ticking(io)
    /\ ~broadcasting => waits = 0

\* What is posted behind a tick leaves it where it is (operator(), cancel()).
LEMMA BehindTick ==
    ASSUME NEW q \in Seq(Handlers), NEW r \in Seq(Handlers)
    PROVE  q \o r \in Seq(Handlers) /\ (Ticking(q) => Ticking(q \o r))
BY DEF Ticking

\* A handler that is not a tick leaves the ticks behind it in the queue.
LEMMA TickStays ==
    ASSUME NEW q \in Seq(Handlers), q # <<>>
    PROVE  /\ Tail(q) \in Seq(Handlers) /\ Head(q) \in Handlers
           /\ Ticking(q) /\ Head(q).op # "tick" => Ticking(Tail(q))
<1>1. Tail(q) \in Seq(Handlers) /\ Head(q) \in Handlers /\ Head(q) = q[1] /\ Len(Tail(q)) = Len(q) - 1
  OBVIOUS
<1>2. ASSUME NEW i \in 1 .. Len(q), q[i].op = "tick", Head(q).op # "tick"
      PROVE  Ticking(Tail(q))
  <2>1. i - 1 \in 1 .. Len(Tail(q)) /\ Tail(q)[i - 1] = q[i]
    BY <1>1, <1>2
  <2> QED BY <2>1, <1>2 DEF Ticking
<1> QED BY <1>1, <1>2 DEF Ticking

\* A posted handler, and the one of an aborted wait, are handlers.
LEMMA HandlerTypes ==
    ASSUME NEW op \in Ops, NEW to \in Clients \cup {Everyone}
    PROVE  Handler(op, to) \in Handlers /\ Handler(op, to).op = op
BY DEF Handler, Handlers

\* Cancelling a pending wait posts handlers.
LEMMA CancelledTypes == ChainInv => Cancelled \in Seq(Handlers)
<1> SUFFICES ASSUME ChainInv PROVE Cancelled \in Seq(Handlers)
  OBVIOUS
<1>1. Handler("aborted", Everyone) \in Handlers
  BY HandlerTypes DEF Ops
<1>2. waits \in Nat
  BY DEF ChainInv
<1> QED BY <1>1, <1>2 DEF Cancelled

\* Every step keeps the chain.
LEMMA AlwaysChained == Spec => []ChainInv
<1>1. Init => ChainInv
  <2>1. <<>> \in Seq(Handlers)
    OBVIOUS
  <2>2. Init => io = <<>> /\ waits = 0 /\ ~broadcasting /\ broadcasting \in BOOLEAN
    BY DEF Init
  <2> QED BY <2>1, <2>2 DEF ChainInv
<1>2. ChainInv /\ [Next]_vars => ChainInv'
  <2> SUFFICES ASSUME ChainInv, [Next]_vars PROVE ChainInv'
    OBVIOUS
  <2>1. ASSUME NEW op \in Ops, NEW to \in Clients \cup {Everyone}, Dispatch(op, to)
        PROVE  ChainInv'
    <3>1. io' = io \o <<Handler(op, to)>> /\ <<Handler(op, to)>> \in Seq(Handlers)
      BY <2>1, HandlerTypes DEF Dispatch, ChainInv
    <3>2. io' \in Seq(Handlers) /\ (Ticking(io) => Ticking(io'))
      BY <3>1, BehindTick DEF ChainInv
    <3>3. Ticking(io)' = Ticking(io')
      BY DEF Ticking
    <3> QED BY <2>1, <3>2, <3>3 DEF Dispatch, ChainInv
  <2>2. CASE Expire
    <3>1. Handler("tick", Everyone) \in Handlers /\ Handler("tick", Everyone).op = "tick"
      BY HandlerTypes DEF Ops
    <3>2. io' = Append(io, Handler("tick", Everyone)) /\ io \in Seq(Handlers)
      BY <2>2 DEF Expire, ChainInv
    <3>3. io' \in Seq(Handlers) /\ io'[Len(io')].op = "tick" /\ Len(io') \in 1 .. Len(io')
      BY <3>1, <3>2
    <3>4. Ticking(io)'
      BY <3>3 DEF Ticking
    <3> QED BY <2>2, <3>3, <3>4 DEF Expire, ChainInv
  <2>3. CASE RunStart
    <3>1. io \in Seq(Handlers) /\ io # <<>> /\ Head(io).op = "start"
      BY <2>3 DEF RunStart, Due, ChainInv
    <3>2. CASE broadcasting
      <4>1. io' = Tail(io) /\ UNCHANGED <<broadcasting, waits>>
        BY <2>3, <3>2 DEF RunStart
      <4>2. Tail(io) \in Seq(Handlers) /\ (Ticking(io) => Ticking(Tail(io)))
        BY <3>1, TickStays
      <4>3. Ticking(io)' = Ticking(io')
        BY DEF Ticking
      <4> QED BY <4>1, <4>2, <4>3 DEF ChainInv
    <3>3. CASE ~broadcasting
      <4>1. broadcasting' = TRUE /\ waits' = 1 /\ io' = Tail(io) \o Cancelled
        BY <2>3, <3>3 DEF RunStart, Arm
      <4>2. Tail(io) \o Cancelled \in Seq(Handlers)
        BY <3>1, TickStays, CancelledTypes, BehindTick
      <4> QED BY <4>1, <4>2 DEF ChainInv
    <3> QED BY <3>2, <3>3 DEF ChainInv
  <2>4. CASE RunStop
    <3>1. io \in Seq(Handlers) /\ io # <<>>
      BY <2>4 DEF RunStop, Due, ChainInv
    <3>2. Tail(io) \o Cancelled \in Seq(Handlers)
      BY <3>1, TickStays, CancelledTypes, BehindTick
    <3>3. ~broadcasting' /\ broadcasting' \in BOOLEAN /\ waits' = 0 /\ io' = Tail(io) \o Cancelled
      BY <2>4 DEF RunStop
    <3> QED BY <3>2, <3>3 DEF ChainInv
  <2>5. CASE Tick
    <3>1. io \in Seq(Handlers) /\ io # <<>>
      BY <2>5 DEF Tick, Due, ChainInv
    <3>2. Tail(io) \o Cancelled \in Seq(Handlers)
      BY <3>1, TickStays, CancelledTypes, BehindTick
    <3> QED BY <2>5, <3>2 DEF Tick, Arm, ChainInv
  <2>6. CASE RunSendTo \/ RunNothing
    <3>1. io \in Seq(Handlers) /\ io # <<>> /\ io' = Tail(io) /\ UNCHANGED <<broadcasting, waits>>
      BY <2>6 DEF RunSendTo, RunNothing, Due, ChainInv
    <3>2. broadcasting => Head(io).op # "tick"
      BY <2>6 DEF RunSendTo, RunNothing, Due
    <3>3. Tail(io) \in Seq(Handlers) /\ (broadcasting /\ Ticking(io) => Ticking(Tail(io)))
      BY <3>1, <3>2, TickStays
    <3>4. Ticking(io)' = Ticking(io')
      BY DEF Ticking
    <3> QED BY <3>1, <3>3, <3>4 DEF ChainInv
  <2>7. CASE RunBroadcaster \/ RunPosted \/ UNCHANGED vars
    <3>1. UNCHANGED <<io, waits, broadcasting>>
      BY <2>7 DEF RunBroadcaster, RunPosted, DomStays, vars
    <3> QED BY <3>1 DEF ChainInv, Ticking
  <2> QED
    BY <2>1, <2>2, <2>3, <2>4, <2>5, <2>6, <2>7 DEF Next, RunHandler, Ops
<1> QED
  BY <1>1, <1>2, PTL DEF Spec

\* While broadcasting_ is set a tick is to come, and while it is not none is
\* armed (start_broadcasting, stop_broadcasting, schedule_next_broadcast).
THEOREM ChainNeverLost == Spec => []ChainAlive
<1>1. ChainInv => ChainAlive
  BY DEF ChainInv, ChainAlive, Ticking
<1> QED
  BY <1>1, AlwaysChained, PTL

-----------------------------------------------------------------------------
(* Delivery: the io thread is the one producer of the broadcaster.          *)

BP == INSTANCE BroadcasterProofs WITH
        Producers <- {}, Kinds <- {"snapshot"}, MaxPushes <- 0, held <- <<>>, pushes <- 0,
        running <- ~FALSE, owner <- "idle", absorbed <- ~TRUE, crashed <- ~TRUE

\* The types and the delivery invariant of the broadcaster.
PipeInv == BP!PipeTypeOK /\ BP!DInv

\* What DOMManager assumes is what the broadcaster does.
LEMMA BroadcasterAssumed == BP!BroadcasterAssumption
BY DOMManagerAssumption DEF BP!BroadcasterAssumption

\* What is taken and enqueued in one handler is newer than all on its way.
LEMMA SendKeepsPipe ==
    ASSUME PipeInv, NEW to \in Clients \cup {Everyone}, Send(to)
    PROVE  PipeInv' /\ sent' = sent
<1> DEFINE cmd == [kind |-> "snapshot", to |-> to, data |-> taken]
<1>1. cmd \in BP!Command
  BY DEF BP!Command, BP!PipeTypeOK, PipeInv
<1>2. /\ cmd.data <= taken
      /\ \A x \in BP!InFlight : x.data <= cmd.data
      /\ \A c \in Clients : sent[c] <= cmd.data /\ asked[c] <= cmd.data
  BY DEF BP!DInv, BP!Between, BP!PipeTypeOK, PipeInv
<1>3. queue' = BP!Pushed(queue, cmd) /\ UNCHANGED <<thread, hand, posted, sent>>
  BY DEF Send, B!Pushed, BP!Pushed
<1>4. asked' = BP!Asked(cmd)
  BY DEF Send, B!Asked, B!Addressees, BP!Asked, BP!Addressees
<1>9. taken' \in 0 .. MaxTaken /\ taken' \in Int /\ taken' >= taken
  <2>1. taken' = BP!Later(taken)
    BY DEF Send, B!Later, BP!Later
  <2>2. taken \in 0 .. MaxTaken
    BY DEF PipeInv, BP!PipeTypeOK
  <2>3. BP!Later(taken) \in 0 .. MaxTaken /\ BP!Later(taken) >= taken
    BY <2>2, BroadcasterAssumed, BP!LaterTypes
  <2> QED BY <2>1, <2>3
<1>5. \A q \in {} : (<<>>[q])' = BP!None
  OBVIOUS
<1>10. (~TRUE)' = (~TRUE \/ BP!Absorbs(queue, cmd))
  BY DEF BP!Absorbs
<1> HIDE DEF cmd
<1>6. BP!DInv'
  BY <1>1, <1>2, <1>3, <1>4, <1>5, <1>9, <1>10, BroadcasterAssumed, BP!PushedKeepsDInv DEF PipeInv
<1>7. queue' \in Seq(BP!Command) /\ asked' \in [Clients -> BP!Versions]
  BY <1>1, <1>3, <1>4, BroadcasterAssumed, BP!PushedTypes DEF PipeInv
<1>8. BP!PipeTypeOK'
  BY <1>3, <1>7, <1>9 DEF BP!PipeTypeOK, PipeInv
<1> QED BY <1>3, <1>6, <1>8 DEF PipeInv

\* The steps of the broadcaster thread and of its handlers.
LEMMA BroadcasterKeepsPipe ==
    ASSUME PipeInv, RunBroadcaster \/ RunPosted
    PROVE  PipeInv' /\ \A c \in Clients : sent'[c] >= sent[c]
<1>1. BP!Run \/ BP!HandleSnapshot
  BY DEF RunBroadcaster, RunPosted, B!Run, BP!Run,
         B!TestRunning, BP!TestRunning, B!Pop, BP!Pop, B!Post, BP!Post, B!None, BP!None,
         B!HandleSnapshot, BP!HandleSnapshot, B!Addressees, BP!Addressees
<1>2. BP!PipeTypeOK'
  BY <1>1, BroadcasterAssumed, BP!StepKeepsTypes DEF PipeInv, BP!Handle
<1>3. \A c \in Clients : sent[c] \in Int
  BY DEF PipeInv, BP!PipeTypeOK, BP!Versions
<1>5. CASE BP!HandleSnapshot
  BY <1>2, <1>5, BroadcasterAssumed, BP!HandleKeepsDInv DEF PipeInv
<1>6. CASE BP!Run
  BY <1>2, <1>3, <1>6, BroadcasterAssumed, BP!RunKeepsDInv DEF PipeInv
<1> QED BY <1>1, <1>5, <1>6

\* Every step keeps the pipeline, and no step takes a client back.
LEMMA NextPipe ==
    ChainInv /\ PipeInv /\ [Next]_vars => PipeInv' /\ [\A c \in Clients : sent'[c] >= sent[c]]_sent
<1> SUFFICES ASSUME ChainInv, PipeInv, [Next]_vars
             PROVE  PipeInv' /\ [\A c \in Clients : sent'[c] >= sent[c]]_sent
  OBVIOUS
<1>1. CASE RunSendTo \/ Tick
  <2>1. Head(io).to \in Clients \cup {Everyone}
    BY <1>1, TickStays DEF RunSendTo, Tick, Due, ChainInv, Handlers
  <2>2. Send(Head(io).to) \/ Send(Everyone)
    BY <1>1 DEF RunSendTo, Tick
  <2> QED BY <2>1, <2>2, SendKeepsPipe
<1>2. CASE RunBroadcaster \/ RunPosted
  BY <1>2, BroadcasterKeepsPipe
<1>3. CASE UNCHANGED <<taken, pipe>>
  BY <1>3 DEF pipe, PipeInv, BP!PipeTypeOK, BP!DInv, BP!Sorted, BP!Between, BP!SnapshotNotLost, BP!InFlight
<1>4. (\E op \in Ops, to \in Clients \cup {Everyone} : Dispatch(op, to))
      \/ Expire \/ RunStart \/ RunStop \/ RunNothing \/ UNCHANGED vars
      => UNCHANGED <<taken, pipe>>
  BY DEF Dispatch, Expire, RunStart, RunStop, RunNothing, vars, pipe
<1> QED BY <1>1, <1>2, <1>3, <1>4 DEF Next, RunHandler, Ops

\* Nothing is on its way at first.
LEMMA InitPipe == Init => PipeInv
<1> SUFFICES ASSUME Init PROVE PipeInv
  OBVIOUS
<1>1. /\ queue = <<>> /\ posted = <<>> /\ hand = BP!None /\ thread = "loop" /\ taken = 0
      /\ asked = [c \in Clients |-> -1] /\ sent = [c \in Clients |-> -1]
  BY DEF Init, B!None, BP!None
<1>2. Len(queue) = 0 /\ Len(posted) = 0 /\ BP!InFlight = {}
  BY <1>1 DEF BP!InFlight, BP!ToSet
<1>3. BP!PipeTypeOK
  <2>1. queue \in Seq(BP!Command) /\ posted \in Seq(BP!Command)
    BY <1>1, EmptySeq
  <2>2. asked \in [Clients -> BP!Versions] /\ sent \in [Clients -> BP!Versions]
    BY <1>1, DOMManagerAssumption DEF BP!Versions
  <2>3. taken \in 0 .. MaxTaken
    BY <1>1, DOMManagerAssumption
  <2>4. <<>> \in [{} -> BP!Command \cup {BP!None}]
    OBVIOUS
  <2> QED BY <1>1, <2>1, <2>2, <2>3, <2>4 DEF BP!PipeTypeOK
<1>4. BP!Sorted /\ BP!Between /\ BP!SnapshotNotLost
  BY <1>1, <1>2 DEF BP!Sorted, BP!Between, BP!SnapshotNotLost
<1> QED BY <1>3, <1>4 DEF PipeInv, BP!DInv

\* The composition keeps its types: in particular one wait at most is pending, so
\* that no second chain of ticks is ever started (schedule_next_broadcast).
THEOREM TypeCorrect == Spec => []TypeOK
<1>1. ChainInv /\ PipeInv => TypeOK
  <2> SUFFICES ASSUME ChainInv, PipeInv PROVE TypeOK
    OBVIOUS
  <2>1. B!TypeOK
    <3>1. B!Command = BP!Command /\ B!None = BP!None
      BY DEF B!Command, BP!Command, B!None, BP!None
    <3>2. <<>> \in [{} -> B!Command \cup {B!None}]
      OBVIOUS
    <3> QED BY <3>1, <3>2 DEF PipeInv, BP!PipeTypeOK, BP!Versions, B!TypeOK
  <2> QED BY <2>1 DEF ChainInv, TypeOK
<1> QED BY <1>1, InitPipe, NextPipe, AlwaysChained, PTL DEF Spec

\* No snapshot that a tick or a request by id has asked for is lost.
THEOREM NothingLost == Spec => []SnapshotNotLost
<1>1. PipeInv => SnapshotNotLost
  BY DEF PipeInv, BP!DInv, SnapshotNotLost, B!SnapshotNotLost, BP!SnapshotNotLost, B!InFlight,
         BP!InFlight, B!None, BP!None, B!Supplies, BP!Supplies, B!Addressees, BP!Addressees,
         B!ToSet, BP!ToSet
<1> QED BY <1>1, InitPipe, NextPipe, AlwaysChained, PTL DEF Spec

\* No client is taken back in time.
THEOREM InOrder == Spec => NeverBackwards
BY InitPipe, NextPipe, AlwaysChained, PTL DEF Spec, NeverBackwards, B!NeverBackwards
=============================================================================
