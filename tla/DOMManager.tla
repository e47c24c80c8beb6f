------------------------------ MODULE DOMManager ------------------------------
(***************************************************************************)
(* DOMManager of src/src/snapshots_broadcaster, composed with the command  *)
(* queue and the broadcaster thread (module Broadcaster): commands are     *)
(* posted to the io_context, whose single thread runs them in order with   *)
(* the handlers of the broadcast timer; a tick takes the next snapshot,    *)
(* enqueues it for everyone and arms the timer again.                      *)
(*                                                                         *)
(* The broadcaster runs from the constructor on.  The destructor, where it *)
(* is stopped, is in Broadcaster.                                          *)
(***************************************************************************)
EXTENDS Integers, Sequences, SequencesExt

CONSTANTS Clients, Everyone, MaxTaken,
          MaxIo,       \* bound: handlers in the io_context and commands queued
          MaxPosted    \* bound: handlers the broadcaster thread has posted

ASSUME DOMManagerAssumption ==
    /\ Everyone \notin Clients
    /\ MaxTaken \in Nat /\ MaxIo \in Nat /\ MaxPosted \in Nat

VARIABLES
    taken, queue, thread, hand, posted, asked, sent,   \* as in Broadcaster
    broadcasting,   \* broadcasting_
    waits,          \* how many async_wait of broadcast_timer_ are pending
    io              \* the handlers in the io_context, in order

pipe == <<queue, thread, hand, posted, asked, sent>>
vars == <<taken, pipe, broadcasting, waits, io>>

\* The producer is the io thread; what is written with ~ never changes here
\* (TLC does not take a bare TRUE for a state function).
B == INSTANCE Broadcaster WITH
        Producers <- {}, Kinds <- {"snapshot"}, MaxPushes <- 0, held <- <<>>, pushes <- 0,
        running <- ~FALSE, owner <- "idle", absorbed <- ~TRUE, crashed <- ~TRUE

\* A handler: a command, or the handler of an async_wait (a tick, or aborted by
\* a cancellation).
Ops == {"start", "stop", "send_to", "order", "tick", "aborted"}
Handler(op, to) == [op |-> op, to |-> to]
Handlers == [op : Ops, to : Clients \cup {Everyone}]

\* The type invariant: in particular one wait at most is pending.
TypeOK ==
    /\ B!TypeOK
    /\ broadcasting \in BOOLEAN
    /\ waits \in 0 .. 1
    /\ io \in Seq(Handlers)

Init ==
    /\ taken = 0
    /\ queue = <<>> /\ hand = B!None /\ posted = <<>>
    /\ thread = "loop"
    /\ asked = [c \in Clients |-> -1]
    /\ sent = [c \in Clients |-> -1]
    /\ broadcasting = FALSE
    /\ waits = 0
    /\ io = <<>>

-----------------------------------------------------------------------------
(* The callers and the timer.                                               *)

\* operator(): the command is posted.
Dispatch(op, to) ==
    /\ Len(io) + Len(queue) < MaxIo
    /\ io' = Append(io, Handler(op, to))
    /\ UNCHANGED <<taken, pipe, broadcasting, waits>>

Expire ==
    /\ waits > 0
    /\ Len(io) <= MaxIo
    /\ waits' = waits - 1
    /\ io' = Append(io, Handler("tick", Everyone))
    /\ UNCHANGED <<taken, pipe, broadcasting>>

-----------------------------------------------------------------------------
(* The io thread.                                                           *)

Due(op) == io # <<>> /\ Head(io).op = op

\* Cancelling the timer: its pending waits end with operation_aborted.
Cancelled == [i \in 1 .. waits |-> Handler("aborted", Everyone)]

\* Mutant: async_wait without expires_after.
ArmAnother(rest) ==
    /\ waits' = waits + 1
    /\ io' = rest

\* schedule_next_broadcast: expires_after cancels, then one wait is pending.
Arm(rest) ==
    /\ waits' = 1
    /\ io' = rest \o Cancelled

\* send_snapshot(_by_client_id): the next snapshot is taken, and enqueued.  The
\* book always has one: its source is made of several and hands them out in turn.
Send(to) ==
    LET cmd == [kind |-> "snapshot", to |-> to, data |-> taken]
    IN  /\ queue' = B!Pushed(queue, cmd)
        /\ asked' = B!Asked(cmd)
        /\ taken' = B!Later(taken)
        /\ UNCHANGED <<thread, hand, posted, sent>>

RunStart ==
    /\ Due("start")
    /\ IF broadcasting
       THEN io' = Tail(io) /\ UNCHANGED <<broadcasting, waits>>
       ELSE /\ broadcasting' = TRUE
            /\ Arm(Tail(io))
    /\ UNCHANGED <<taken, pipe>>

\* Mutant: the flag alone.
RunStopFlag ==
    /\ Due("stop")
    /\ broadcasting' = FALSE
    /\ io' = Tail(io)
    /\ UNCHANGED <<taken, pipe, waits>>

RunStop ==
    /\ Due("stop")
    /\ broadcasting' = FALSE
    /\ waits' = 0
    /\ io' = Tail(io) \o Cancelled
    /\ UNCHANGED <<taken, pipe>>

RunSendTo ==
    /\ Due("send_to")
    /\ Send(Head(io).to)
    /\ io' = Tail(io)
    /\ UNCHANGED <<broadcasting, waits>>

\* Mutant: the timer is not armed again.
TickOnce ==
    /\ Due("tick")
    /\ broadcasting
    /\ Send(Everyone)
    /\ io' = Tail(io)
    /\ UNCHANGED <<broadcasting, waits>>

\* The handler of async_wait: a snapshot for everyone, and the next wait.
Tick ==
    /\ Due("tick")
    /\ broadcasting
    /\ Send(Everyone)
    /\ Arm(Tail(io))
    /\ UNCHANGED broadcasting

\* A tick after a stop and an aborted wait do nothing; neither do the handlers
\* of AddOrderCmd and RemoveOrderCmd.
RunNothing ==
    /\ Due("aborted") \/ Due("order") \/ (Due("tick") /\ ~broadcasting)
    /\ io' = Tail(io)
    /\ UNCHANGED <<taken, pipe, broadcasting, waits>>

-----------------------------------------------------------------------------
RunHandler == RunStart \/ RunStop \/ RunSendTo \/ Tick \/ RunNothing

DomStays == UNCHANGED <<broadcasting, waits, io>>

RunBroadcaster == Len(posted) < MaxPosted /\ B!Run /\ DomStays
RunPosted      == B!HandleSnapshot /\ DomStays

Next ==
    \/ \E op \in {"start", "stop", "order"} : Dispatch(op, Everyone)
    \/ \E c \in Clients : Dispatch("send_to", c)
    \/ Expire
    \/ RunHandler
    \/ RunBroadcaster
    \/ RunPosted

Spec == Init /\ [][Next]_vars

\* The timer expires, the io thread runs its handlers and those the broadcaster
\* has posted, the broadcaster thread is scheduled.  Nobody has to call.
FairSpec == /\ Spec
            /\ WF_vars(Expire) /\ WF_vars(RunHandler)
            /\ WF_vars(RunBroadcaster) /\ WF_vars(RunPosted)

-----------------------------------------------------------------------------
(* Properties.                                                              *)

\* Stops, starts and cancellations in any order never lose the chain of ticks:
\* while broadcasting_ is set a wait is pending or a tick is about to run, and
\* while it is not nothing is pending.
ChainAlive ==
    /\ broadcasting => waits = 1 \/ \E i \in 1 .. Len(io) : io[i].op = "tick"
    /\ ~broadcasting => waits = 0

\* A client that a snapshot was taken for, by id or by a tick, has that snapshot
\* or a later one, or it is on its way: no broadcast absorbs it, no tick replaces it.
SnapshotNotLost == B!SnapshotNotLost

\* A snapshot waits while later ones are taken: ticks and requests by id together
\* never send a client one that was taken before the one it has.
NeverBackwards == B!NeverBackwards

\* While broadcasting goes on, snapshots keep coming: every client is sent the n-th
\* snapshot or a later one, whatever is asked for besides and for whomever.
SnapshotsKeepComing ==
    \A n \in 0 .. MaxTaken :
        broadcasting ~> (\A c \in Clients : sent[c] >= n) \/ ~broadcasting
=============================================================================
