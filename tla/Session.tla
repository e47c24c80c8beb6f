------------------------------- MODULE Session -------------------------------
(***************************************************************************)
(* Session of src/src/TCP_server: one accepted socket, a read that is      *)
(* always outstanding, a queue of messages written one at a time, and a    *)
(* strand on which every handler runs.  Operations of other threads are    *)
(* tasks dispatched to the strand; from a handler of the strand itself     *)
(* they run at once.  An asynchronous operation first completes (with data *)
(* or an error) and its handler runs some time later.                      *)
(*                                                                         *)
(* Every handler holds a weak pointer: when the owner drops the session,   *)
(* they do nothing any more.                                               *)
(***************************************************************************)
EXTENDS Integers, Sequences, SequencesExt

CONSTANTS MaxSends,   \* bound: messages handed to SendMsg
          MaxTasks    \* bound: tasks waiting on the strand

ASSUME SessionAssumption == MaxSends \in Nat /\ MaxTasks \in Nat

VARIABLES
    alive,         \* somebody holds a shared pointer to the session
    open,          \* socket_->is_open()
    disconnected,  \* disconnected_
    in_progress,   \* write_in_progress_
    queue,         \* messages_queue_
    chunk,         \* the message the last async_write was given
    strand,        \* the tasks dispatched to strand_ and not run yet
    read, write,   \* the outstanding operations and how they completed
    peer,          \* the peer is there, or something it sent is still to be read
    sends,         \* how many messages SendMsg was given
    accepted,      \* history: the messages pushed on the queue
    wire,          \* history: the messages written to the socket
    notified,      \* history: how often on_disconnect_ was called
    stopped        \* history: Stop took effect

flow == <<queue, chunk, in_progress, write, accepted>>
vars == <<alive, open, disconnected, strand, read, peer, sends, wire, notified, stopped, flow>>

Tasks == [op : {"start", "stop"}, msg : {0}] \cup [op : {"send"}, msg : 1 .. MaxSends]
Task(op, m) == [op |-> op, msg |-> m]
Due(op) == strand # <<>> /\ Head(strand).op = op

\* The type invariant.
TypeOK ==
    /\ {alive, open, disconnected, in_progress, peer, stopped} \subseteq BOOLEAN
    /\ queue \in Seq(1 .. MaxSends) /\ accepted \in Seq(1 .. MaxSends) /\ wire \in Seq(1 .. MaxSends)
    /\ strand \in Seq(Tasks)
    /\ read \in {"none", "waiting", "data", "error"}
    /\ write \in {"none", "waiting", "ok", "error", "overlap"}
    /\ sends \in 0 .. MaxSends /\ chunk \in 0 .. MaxSends
    /\ notified \in Nat

Init ==
    /\ alive = TRUE /\ open = TRUE /\ disconnected = FALSE /\ in_progress = FALSE
    /\ queue = <<>> /\ chunk = 0 /\ strand = <<Task("start", 0)>> /\ read = "none" /\ write = "none"
    /\ peer = TRUE /\ sends = 0 /\ accepted = <<>> /\ wire = <<>>
    /\ notified = 0 /\ stopped = FALSE

-----------------------------------------------------------------------------
(* What the handlers are made of.                                           *)

\* Write() with message m at the front: async_write.
StartWrite(m) ==
    /\ chunk' = m
    /\ write' = IF write = "none" THEN "waiting" ELSE "overlap"

\* Mutant: only the socket is asked, which NotifyDisconnectOnce leaves open.
AcceptIfOpen(m) ==
    IF ~open
    THEN UNCHANGED flow
    ELSE /\ queue' = Append(queue, m)
         /\ accepted' = Append(accepted, m)
         /\ in_progress' = TRUE
         /\ IF in_progress THEN UNCHANGED <<chunk, write>> ELSE StartWrite(Head(queue'))

\* The body of SendMsg on the strand, for message m.
Accept(m) ==
    IF disconnected \/ ~open
    THEN UNCHANGED flow
    ELSE /\ queue' = Append(queue, m)
         /\ accepted' = Append(accepted, m)
         /\ in_progress' = TRUE
         /\ IF in_progress THEN UNCHANGED <<chunk, write>> ELSE StartWrite(Head(queue'))

\* Mutant: every failed operation tells the server.
NotifyAlways == disconnected' = TRUE /\ notified' = notified + 1

\* NotifyDisconnectOnce: the first call forgets the queue and tells the server.
\* The socket itself is left open.
Notify ==
    IF disconnected
    THEN UNCHANGED <<disconnected, notified>>
    ELSE disconnected' = TRUE /\ notified' = notified + 1

Forget ==
    IF disconnected
    THEN UNCHANGED <<queue, in_progress>>
    ELSE queue' = <<>> /\ in_progress' = FALSE

-----------------------------------------------------------------------------
(* The owner and the senders.                                               *)

SendMsg ==
    /\ sends < MaxSends /\ Len(strand) < MaxTasks
    /\ sends' = sends + 1
    /\ strand' = Append(strand, Task("send", sends + 1))
    /\ UNCHANGED <<alive, open, disconnected, read, peer, wire, notified, stopped, flow>>

Stop ==
    /\ Len(strand) < MaxTasks
    /\ strand' = Append(strand, Task("stop", 0))
    /\ UNCHANGED <<alive, open, disconnected, read, peer, sends, wire, notified, stopped, flow>>

\* The last shared pointer goes: the socket is closed with the session.
Release ==
    /\ alive' = FALSE /\ open' = FALSE
    /\ UNCHANGED <<disconnected, strand, read, peer, sends, wire, notified, stopped, flow>>

-----------------------------------------------------------------------------
(* The strand.                                                              *)

\* Read() on an open socket.  Nothing closes it before the first task runs:
\* only Stop and the destructor do.
RunStart ==
    /\ Due("start")
    /\ strand' = Tail(strand)
    /\ read' = "waiting"
    /\ UNCHANGED <<alive, open, disconnected, peer, sends, wire, notified, stopped, flow>>

RunStop ==
    /\ Due("stop")
    /\ strand' = Tail(strand)
    /\ disconnected' = TRUE
    /\ open' = (open /\ disconnected)
    /\ stopped' = (stopped \/ ~disconnected)
    /\ UNCHANGED <<alive, read, peer, sends, wire, notified, flow>>

RunSend ==
    /\ Due("send")
    /\ strand' = Tail(strand)
    /\ Accept(Head(strand).msg)
    /\ UNCHANGED <<alive, open, disconnected, read, peer, sends, wire, notified, stopped>>

\* ProcessRead with a frame: on_data_ answers with a message of its own (the
\* server's HandleMessage always does), then the next read is started.  The
\* socket is only ever closed by Stop, so a Read() that finds it closed has
\* nobody left to notify.
ReadFrame ==
    /\ read = "data"
    /\ IF sends < MaxSends
       THEN sends' = sends + 1 /\ Accept(sends + 1)
       ELSE UNCHANGED <<sends, flow>>
    /\ read' = IF open THEN "waiting" ELSE "none"
    /\ UNCHANGED <<alive, open, disconnected, strand, peer, wire, notified, stopped>>

\* Mutant: an error only ends the reading.
ReadFailedQuietly ==
    /\ read = "error"
    /\ read' = "none"
    /\ UNCHANGED <<alive, open, disconnected, strand, peer, sends, wire, notified, stopped, flow>>

ReadFailed ==
    /\ read = "error"
    /\ read' = "none"
    /\ Notify /\ Forget
    /\ UNCHANGED <<alive, open, strand, chunk, write, peer, sends, accepted, wire, stopped>>

\* Mutant: the message that was written stays at the front.
WriteDoneKeeps ==
    /\ write = "ok"
    /\ in_progress' = (queue # <<>> /\ open)
    /\ write' = IF queue # <<>> /\ open THEN "waiting" ELSE "none"
    /\ chunk' = IF queue # <<>> /\ open THEN Head(queue) ELSE chunk
    /\ UNCHANGED <<alive, open, disconnected, strand, read, peer, sends, queue, accepted, wire,
                   notified, stopped>>

\* Mutant: the next message waits for the next SendMsg.
WriteDoneRests ==
    /\ write = "ok"
    /\ queue' = IF queue = <<>> THEN <<>> ELSE Tail(queue)
    /\ in_progress' = FALSE
    /\ write' = "none"
    /\ UNCHANGED <<alive, open, disconnected, strand, read, chunk, peer, sends, accepted, wire,
                   notified, stopped>>

\* ProcessWrite without an error: pop, and write the next message if there is
\* one (a closed socket stops the writing instead).
WriteDone ==
    /\ write = "ok"
    /\ LET rest == IF queue = <<>> THEN <<>> ELSE Tail(queue)
       IN  /\ queue' = rest
           /\ in_progress' = (rest # <<>> /\ open)
           /\ write' = IF rest # <<>> /\ open THEN "waiting" ELSE "none"
           /\ chunk' = IF rest # <<>> /\ open THEN Head(rest) ELSE chunk
    /\ UNCHANGED <<alive, open, disconnected, strand, read, peer, sends, accepted, wire, notified,
                   stopped>>

WriteFailed ==
    /\ write = "error"
    /\ write' = "none"
    /\ Notify
    /\ in_progress' = FALSE
    /\ queue' = IF disconnected THEN queue ELSE <<>>
    /\ UNCHANGED <<alive, open, strand, read, chunk, peer, sends, accepted, wire, stopped>>

-----------------------------------------------------------------------------
(* The socket.                                                              *)

ReadCompletes ==
    /\ read = "waiting"
    /\ \/ open /\ peer /\ read' = "data"
       \/ ~(open /\ peer) /\ read' = "error"
    /\ UNCHANGED <<alive, open, disconnected, strand, peer, sends, wire, notified, stopped, flow>>

WriteCompletes ==
    /\ write = "waiting"
    /\ \/ open /\ write' = "ok" /\ wire' = Append(wire, chunk)
       \/ ~(open /\ peer) /\ write' = "error" /\ UNCHANGED wire
    /\ UNCHANGED <<alive, open, disconnected, strand, read, peer, sends, queue, chunk, in_progress,
                   accepted, notified, stopped>>

PeerGoes ==
    /\ peer
    /\ peer' = FALSE
    /\ UNCHANGED <<alive, open, disconnected, strand, read, sends, wire, notified, stopped, flow>>

-----------------------------------------------------------------------------
RunTask  == RunStart \/ RunStop \/ RunSend
ReadDone == ReadFrame \/ ReadFailed
WroteOne == WriteDone \/ WriteFailed

Next == /\ alive
        /\ \/ SendMsg \/ Stop \/ Release
           \/ RunTask \/ ReadDone \/ WroteOne
           \/ ReadCompletes \/ WriteCompletes \/ PeerGoes

Spec == Init /\ [][Next]_vars

\* The io thread runs what is ready.  The socket reports an error of the
\* connection, and takes or refuses a write; a peer need not send anything.
FairSpec == /\ Spec
            /\ WF_vars(alive /\ RunTask) /\ WF_vars(alive /\ ReadDone) /\ WF_vars(alive /\ WroteOne)
            /\ WF_vars(alive /\ WriteCompletes)
            /\ WF_vars(alive /\ ~(open /\ peer) /\ ReadCompletes)

-----------------------------------------------------------------------------
(* Properties.                                                              *)

\* What has been written is what was accepted, in that order, and what has not
\* been written yet is still queued: nothing is lost, repeated or overtaken
\* before the connection ends.
WireInOrder ==
    /\ IsPrefix(wire, accepted)
    /\ ~disconnected =>
          accepted = wire \o (IF write = "ok" THEN Tail(queue) ELSE queue)

\* No async_write is started while another is outstanding, not even after a
\* failed read has reset write_in_progress_; and messages never wait without one.
OneWriteAtATime ==
    /\ write # "overlap"
    /\ ~disconnected => (queue # <<>> <=> write # "none")

\* on_disconnect_ is called once at most, and not at all for a session that was
\* stopped: the server removes a client once, and never the one who replaced it.
NotifiedOnce == notified + (IF stopped THEN 1 ELSE 0) <= 1

\* The end of the connection is noticed while the session lives.
EndNoticed == ~peer ~> notified = 1 \/ stopped \/ ~alive

\* An accepted message is written or the connection ends.
Written == \A m \in 1 .. MaxSends :
    m \in ToSet(accepted) ~> m \in ToSet(wire) \/ disconnected \/ ~alive
=============================================================================
