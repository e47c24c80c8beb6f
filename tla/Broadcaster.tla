----------------------------- MODULE Broadcaster -----------------------------
(***************************************************************************)
(* The command queue and the broadcaster thread of                         *)
(* src/src/snapshots_broadcaster.  Producers capture what is to be sent    *)
(* and push a command; the broadcaster thread pops commands and posts one  *)
(* handler per command to the io_context, whose single thread runs them in *)
(* order.  The owner (DOMManager) starts the thread and stops it by        *)
(* clearing running_ and joining.                                          *)
(*                                                                         *)
(* pop() holds the mutex but for the wait, and waits with a predicate, so  *)
(* a notification is never missed: the thread in pop() is blocked exactly  *)
(* while the queue is empty.                                               *)
(***************************************************************************)
EXTENDS Integers, Sequences, SequencesExt

CONSTANTS Producers,   \* the threads that enqueue commands
          Clients,     \* client ids a command may name; all are subscribed
          Everyone,    \* client_id == std::nullopt
          Kinds,       \* the command types the producers use
          MaxTaken,    \* bound: the snapshots that are told apart
          MaxPushes    \* bound: how many commands are enqueued

ASSUME BroadcasterAssumption ==
    /\ Everyone \notin Clients
    /\ Kinds \subseteq {"snapshot", "md"}
    /\ MaxTaken \in Nat /\ MaxPushes \in Nat

\* A command: its type, its addressee and the number of the snapshot it carries.
\* GetTopSnapshot reads nothing of the orders: it hands out the snapshots of its
\* source in turn, so that a snapshot is known by when it was taken.
Command == [kind : Kinds, to : Clients \cup {Everyone}, data : 0 .. MaxTaken]
None    == [kind |-> "none"]

VARIABLES
    taken,     \* how many snapshots have been taken: the number of the next
    queue,     \* CommandQueue::queue_
    running,   \* running_
    thread,    \* thread_: where the broadcaster thread is
    hand,      \* cmd: the command it has popped
    posted,    \* the handlers waiting in the io_context
    owner,     \* the owner: idle, or in stop() waiting for the thread
    held,      \* the command each producer has built and not pushed yet
    pushes,    \* how many commands were pushed (for the bound)
    asked,     \* history: the latest snapshot a client was to be sent
    sent,      \* the last snapshot sent to each client
    absorbed,  \* history: an MD update has cleared a snapshot from the queue
    crashed    \* the process is gone

vars == <<taken, queue, running, thread, hand, posted, owner, held, pushes,
          asked, sent, absorbed, crashed>>

\* The type invariant.
TypeOK ==
    /\ taken \in 0 .. MaxTaken
    /\ queue \in Seq(Command)
    /\ running \in BOOLEAN
    /\ thread \in {"none", "loop", "pop", "post", "done"}
    /\ hand \in Command \cup {None}
    /\ posted \in Seq(Command)
    /\ owner \in {"idle", "joining"}
    /\ held \in [Producers -> Command \cup {None}]
    /\ pushes \in 0 .. MaxPushes
    /\ asked \in [Clients -> -1 .. MaxTaken]
    /\ sent \in [Clients -> -1 .. MaxTaken]
    /\ absorbed \in BOOLEAN
    /\ crashed \in BOOLEAN

Init ==
    /\ taken = 0
    /\ queue = <<>>
    /\ running = FALSE
    /\ thread = "none"
    /\ hand = None
    /\ posted = <<>>
    /\ owner = "idle"
    /\ held = [p \in Producers |-> None]
    /\ pushes = 0
    /\ asked = [c \in Clients |-> -1]
    /\ sent = [c \in Clients |-> -1]
    /\ absorbed = FALSE
    /\ crashed = FALSE

-----------------------------------------------------------------------------
(* The producers.                                                           *)

\* Numbers from the bound on are the same one.
Later(n) == IF n < MaxTaken THEN n + 1 ELSE n

\* send_snapshot and send_snapshot_by_client_id: the snapshot is taken now, and
\* pushed in a step of its own.
Build(p, kind, to) ==
    /\ held[p] = None
    /\ pushes < MaxPushes
    /\ held' = [held EXCEPT ![p] = [kind |-> kind, to |-> to, data |-> taken]]
    /\ taken' = IF kind = "snapshot" THEN Later(taken) ELSE taken
    /\ UNCHANGED <<queue, running, thread, hand, posted, owner, pushes, asked, sent, absorbed, crashed>>

\* Mutant: everything is absorbed by any command.
PushedAlone(q, cmd) == <<cmd>>

\* What a push makes of the queue: a command to everyone clears it first.
Pushed(q, cmd) == Append(IF cmd.to = Everyone THEN <<>> ELSE q, cmd)

\* The clients a command is for.
Addressees(cmd) == IF cmd.to = Everyone THEN Clients ELSE {cmd.to}

\* What the clients are to be sent once cmd has been pushed (history).
Asked(cmd) ==
    [c \in Clients |->
        IF cmd.kind = "snapshot" /\ c \in Addressees(cmd) /\ cmd.data > asked[c]
        THEN cmd.data ELSE asked[c]]

\* An MD update for everyone finds a snapshot in the queue, and clears it (history).
Absorbs(q, cmd) ==
    cmd.kind = "md" /\ cmd.to = Everyone /\ \E x \in ToSet(q) : x.kind = "snapshot"

\* enqueue, CommandQueue::push.
Push(p) ==
    /\ held[p] # None
    /\ pushes < MaxPushes
    /\ queue' = Pushed(queue, held[p])
    /\ held' = [held EXCEPT ![p] = None]
    /\ pushes' = pushes + 1
    /\ asked' = Asked(held[p])
    /\ absorbed' = (absorbed \/ Absorbs(queue, held[p]))
    /\ UNCHANGED <<taken, running, thread, hand, posted, owner, sent, crashed>>

-----------------------------------------------------------------------------
(* The owner.                                                               *)

Start ==
    /\ owner = "idle"
    /\ ~running
    /\ running' = TRUE
    /\ thread' = "loop"
    /\ UNCHANGED <<taken, queue, hand, posted, owner, held, pushes, asked, sent, absorbed, crashed>>

\* stop(): the flag, then join(); nobody notifies the condition variable.
Stop ==
    /\ owner = "idle"
    /\ running
    /\ running' = FALSE
    /\ owner' = "joining"
    /\ UNCHANGED <<taken, queue, thread, hand, posted, held, pushes, asked, sent, absorbed, crashed>>

Join ==
    /\ owner = "joining"
    /\ thread = "done"
    /\ thread' = "none"
    /\ owner' = "idle"
    /\ UNCHANGED <<taken, queue, running, hand, posted, held, pushes, asked, sent, absorbed, crashed>>

-----------------------------------------------------------------------------
(* The broadcaster thread: run().                                           *)

\* Mutant: while (true).
TestNothing ==
    /\ thread = "loop"
    /\ thread' = "pop"
    /\ UNCHANGED <<taken, queue, running, hand, posted, owner, held, pushes, asked, sent, absorbed, crashed>>

TestRunning ==
    /\ thread = "loop"
    /\ thread' = IF running THEN "pop" ELSE "done"
    /\ UNCHANGED <<taken, queue, running, hand, posted, owner, held, pushes, asked, sent, absorbed, crashed>>

\* Mutant: the newest command is taken.
PopBack ==
    /\ thread = "pop"
    /\ queue # <<>>
    /\ hand' = Last(queue)
    /\ queue' = Front(queue)
    /\ thread' = "post"
    /\ UNCHANGED <<taken, running, posted, owner, held, pushes, asked, sent, absorbed, crashed>>

Pop ==
    /\ thread = "pop"
    /\ queue # <<>>
    /\ hand' = Head(queue)
    /\ queue' = Tail(queue)
    /\ thread' = "post"
    /\ UNCHANGED <<taken, running, posted, owner, held, pushes, asked, sent, absorbed, crashed>>

\* Mutant: the command is dropped.
PostNothing ==
    /\ thread = "post"
    /\ hand' = None
    /\ thread' = "loop"
    /\ UNCHANGED <<taken, queue, running, posted, owner, held, pushes, asked, sent, absorbed, crashed>>

Post ==
    /\ thread = "post"
    /\ posted' = Append(posted, hand)
    /\ hand' = None
    /\ thread' = "loop"
    /\ UNCHANGED <<taken, queue, running, owner, held, pushes, asked, sent, absorbed, crashed>>

-----------------------------------------------------------------------------
(* The handlers, in the io thread.                                          *)

\* handle_send_snapshot_to, handle_send_snapshot_all.
HandleSnapshot ==
    /\ posted # <<>>
    /\ Head(posted).kind = "snapshot"
    /\ sent' = [c \in Clients |-> IF c \in Addressees(Head(posted)) THEN Head(posted).data ELSE sent[c]]
    /\ posted' = Tail(posted)
    /\ UNCHANGED <<taken, queue, running, thread, hand, owner, held, pushes, asked, absorbed, crashed>>

\* handle_send_md_update: the command holds a ::MDUpdate, get_data is asked for
\* a common::MDUpdate and answers nullopt, and the nullopt is dereferenced.  What
\* that does is undefined: bytes of some kind go out to every subscriber, whatever
\* the addressee, or the process dies.
HandleMDUpdate ==
    /\ posted # <<>>
    /\ Head(posted).kind = "md"
    /\ posted' = Tail(posted)
    /\ crashed' \in BOOLEAN
    /\ UNCHANGED <<taken, queue, running, thread, hand, owner, held, pushes, asked, sent, absorbed>>

-----------------------------------------------------------------------------
Produce == \E p \in Producers :
               \/ \E kind \in Kinds, to \in Clients \cup {Everyone} : Build(p, kind, to)
               \/ Push(p)
Run     == TestRunning \/ Pop \/ Post
Handle  == HandleSnapshot \/ HandleMDUpdate

Next == /\ ~crashed
        /\ \/ Produce
           \/ Start \/ Stop \/ Join
           \/ Run
           \/ Handle

Spec == Init /\ [][Next]_vars

\* The broadcaster thread and the io thread are scheduled; join() returns when
\* the thread has ended.  Nobody has to produce, start or stop.
FairSpec == /\ Spec
            /\ WF_vars(~crashed /\ Run) /\ WF_vars(~crashed /\ Handle) /\ WF_vars(~crashed /\ Join)

-----------------------------------------------------------------------------
(* Properties.                                                              *)

\* The commands that have been pushed and not handled yet.
InFlight == ToSet(posted) \cup ToSet(queue) \cup ({hand} \ {None})

Supplies(cmd, c, v) == cmd.kind = "snapshot" /\ c \in Addressees(cmd) /\ cmd.data >= v

\* Whatever snapshot absorbs a client's, and wherever the thread is stopped and
\* started again: a client that was to be sent a snapshot has been sent it or a
\* later one last, or a command that will do so is on its way.  This holds as long
\* as no MD update has absorbed a snapshot: the clear() of push makes no
\* difference between the two, though command_queue.h:111 does, and what such an
\* update clears is lost.
SnapshotNotLost ==
    ~absorbed => \A c \in Clients :
        sent[c] >= asked[c] \/ \E cmd \in InFlight : Supplies(cmd, c, asked[c])

\* Nobody is sent a snapshot taken before the one it was sent last.
NeverBackwards == [][\A c \in Clients : sent'[c] >= sent[c]]_sent

\* Once the broadcaster is left running, whatever was stopped, started and pushed
\* before: a snapshot that was asked for reaches the client, or a later one does,
\* unless at some time an MD update absorbs a snapshot, or its handler ends the
\* process.
Answered ==
    <>[]running /\ []~absorbed =>
        \A c \in Clients, n \in 0 .. MaxTaken : asked[c] = n ~> sent[c] >= n \/ crashed

\* stop() returns if there is a command for the thread to wake up on.
StopReturnsIfFed == owner = "joining" /\ queue # <<>> ~> owner = "idle" \/ crashed

\* stop() stops the thread and returns.
StopReturns == owner = "joining" ~> owner = "idle" \/ crashed
=============================================================================
