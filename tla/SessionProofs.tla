----------------------------- MODULE SessionProofs -----------------------------
(***************************************************************************)
(* Session, for every number of messages and tasks: on_disconnect_ is      *)
(* called once at most, two writes never overlap, and the wire carries     *)
(* what was accepted in order.  The invariants tie the history to          *)
(* disconnected_, the outstanding write to write_in_progress_ and the      *)
(* queue, and what was written to what was accepted.                       *)
(***************************************************************************)
EXTENDS Session, SequenceTheorems, TLAPS

\* disconnected_ is exactly the record of the one notification or stop.
OnceInv ==
    /\ disconnected \in BOOLEAN /\ stopped \in BOOLEAN
    /\ notified = IF disconnected /\ ~stopped THEN 1 ELSE 0
    /\ stopped => disconnected

\* While the session is connected its socket is open, a write is outstanding
\* exactly when write_in_progress_ says so, and then its message is queued.
WriteInv ==
    /\ disconnected \in BOOLEAN /\ open \in BOOLEAN /\ in_progress \in BOOLEAN
    /\ ~disconnected => (in_progress <=> write # "none") /\ (in_progress <=> queue # <<>>)
    /\ alive /\ ~disconnected => open
    /\ write # "overlap"
    /\ queue \in Seq(Int)
    /\ strand \in Seq(Tasks)
    /\ sends \in Nat /\ MaxSends \in Nat
    /\ alive \in BOOLEAN

\* The tail of a queue that held one message is empty, and the queue it came
\* from was not (ProcessWrite's pop_front).
LEMMA TailOfSeq ==
    ASSUME NEW S, NEW q \in Seq(S), q # <<>>
    PROVE  Tail(q) \in Seq(S) /\ Head(q) \in S
PROOF OBVIOUS

\* A cleared queue is a queue (messages_queue_.clear).
LEMMA Cleared == <<>> \in Seq(Int)
PROOF OBVIOUS

\* NotifyDisconnectOnce keeps the count in step with disconnected_.
LEMMA NotifyOnce == OnceInv /\ Notify /\ UNCHANGED stopped => OnceInv'
<1> SUFFICES ASSUME OnceInv, Notify, stopped' = stopped PROVE OnceInv'
  OBVIOUS
<1>1. CASE disconnected
  BY <1>1 DEF OnceInv, Notify
<1>2. CASE ~disconnected
  BY <1>2 DEF OnceInv, Notify
<1> QED BY <1>1, <1>2

\* A session tells the server of its end once at most, and never after Stop
\* (NotifyDisconnectOnce and Stop both go through disconnected_).
THEOREM EndToldOnce == Spec => []NotifiedOnce
<1>1. Init => OnceInv
  BY DEF Init, OnceInv
<1>2. OnceInv /\ [Next]_vars => OnceInv'
  <2> SUFFICES ASSUME OnceInv, [Next]_vars PROVE OnceInv'
    OBVIOUS
  <2>1. CASE RunStop
    BY <2>1 DEF RunStop, OnceInv
  <2>2. CASE ReadFailed
    BY <2>2, NotifyOnce DEF ReadFailed
  <2>3. CASE WriteFailed
    BY <2>3, NotifyOnce DEF WriteFailed
  <2>4. CASE UNCHANGED <<disconnected, stopped, notified>>
    BY <2>4 DEF OnceInv
  <2>5. SendMsg \/ Stop \/ Release \/ RunStart \/ RunSend \/ ReadFrame \/ WriteDone
        \/ ReadCompletes \/ WriteCompletes \/ PeerGoes \/ UNCHANGED vars
        => UNCHANGED <<disconnected, stopped, notified>>
    BY DEF SendMsg, Stop, Release, RunStart, RunSend, ReadFrame, WriteDone, ReadCompletes,
           WriteCompletes, PeerGoes, vars
  <2> QED
    BY <2>1, <2>2, <2>3, <2>4, <2>5 DEF Next, RunTask, ReadDone, WroteOne
<1>3. OnceInv => NotifiedOnce
  BY DEF OnceInv, NotifiedOnce
<1> QED
  BY <1>1, <1>2, <1>3, PTL DEF Spec

\* SendMsg on the strand keeps the outstanding write in step with the queue.
LEMMA AcceptKeeps ==
    ASSUME WriteInv, alive, NEW m \in Int, Accept(m),
           UNCHANGED <<disconnected, open, alive>>
    PROVE  /\ queue' \in Seq(Int)
           /\ in_progress' \in BOOLEAN
           /\ write' # "overlap"
           /\ ~disconnected' => (in_progress' <=> write' # "none") /\ (in_progress' <=> queue' # <<>>)
<1>1. CASE disconnected \/ ~open
  BY <1>1 DEF Accept, flow, WriteInv
<1>2. CASE ~disconnected /\ open
  <2>1. queue' = Append(queue, m) /\ in_progress' = TRUE
    BY <1>2 DEF Accept
  <2>2. queue' \in Seq(Int) /\ queue' # <<>>
    BY <2>1 DEF WriteInv
  <2>3. write' # "none" /\ write' # "overlap"
    <3>1. CASE in_progress
      BY <1>2, <3>1 DEF Accept, WriteInv
    <3>2. CASE ~in_progress
      BY <1>2, <3>2 DEF Accept, WriteInv, StartWrite
    <3> QED BY <3>1, <3>2
  <2> QED BY <2>1, <2>2, <2>3
<1> QED BY <1>1, <1>2

LEMMA InitWriteInv == Init => WriteInv
<1> SUFFICES ASSUME Init PROVE WriteInv
  OBVIOUS
<1>1. Task("start", 0) \in Tasks
  BY DEF Task, Tasks
<1>2. strand \in Seq(Tasks)
  BY <1>1 DEF Init
<1> QED
  BY <1>2, SessionAssumption, Cleared DEF Init, WriteInv

\* Every step keeps write_in_progress_, the outstanding write and the queue in step.
LEMMA NextWriteInv == WriteInv /\ [Next]_vars => WriteInv'
<1> SUFFICES ASSUME WriteInv, [Next]_vars PROVE WriteInv'
  OBVIOUS
<1>1. CASE alive /\ RunSend
  <2>1. strand \in Seq(Tasks) /\ strand # <<>> /\ Head(strand).op = "send"
    BY <1>1 DEF RunSend, Due, WriteInv
  <2>2. Head(strand) \in Tasks /\ Tail(strand) \in Seq(Tasks)
    BY <2>1, TailOfSeq
  <2>3. Head(strand).msg \in Int
    BY <2>1, <2>2 DEF Tasks, WriteInv
  <2>4. UNCHANGED <<disconnected, open, alive, sends>> /\ strand' = Tail(strand)
    BY <1>1 DEF RunSend
  <2>5. /\ queue' \in Seq(Int)
        /\ in_progress' \in BOOLEAN
        /\ write' # "overlap"
        /\ ~disconnected' => (in_progress' <=> write' # "none") /\ (in_progress' <=> queue' # <<>>)
    BY <1>1, <2>3, <2>4, AcceptKeeps DEF RunSend
  <2> QED BY <2>2, <2>4, <2>5 DEF WriteInv
<1>2. CASE alive /\ ReadFrame
  <2>1. UNCHANGED <<disconnected, open, alive, strand>>
    BY <1>2 DEF ReadFrame
  <2>2. CASE sends < MaxSends
    <3>1. sends' = sends + 1 /\ Accept(sends + 1)
      BY <1>2, <2>2 DEF ReadFrame
    <3>2. sends + 1 \in Int /\ sends' \in Nat
      BY <3>1 DEF WriteInv
    <3>3. /\ queue' \in Seq(Int)
          /\ in_progress' \in BOOLEAN
          /\ write' # "overlap"
          /\ ~disconnected' => (in_progress' <=> write' # "none") /\ (in_progress' <=> queue' # <<>>)
      BY <1>2, <2>1, <3>1, <3>2, AcceptKeeps
    <3> QED BY <2>1, <3>2, <3>3 DEF WriteInv
  <2>3. CASE ~(sends < MaxSends)
    BY <1>2, <2>1, <2>3 DEF ReadFrame, flow, WriteInv
  <2> QED BY <2>2, <2>3
<1>3. CASE RunStop
  <2>1. strand' \in Seq(Tasks)
    BY <1>3, TailOfSeq DEF RunStop, Due, WriteInv
  <2> QED BY <1>3, <2>1 DEF RunStop, flow, WriteInv
<1>4. CASE RunStart
  <2>1. strand' \in Seq(Tasks)
    BY <1>4, TailOfSeq DEF RunStart, Due, WriteInv
  <2> QED BY <1>4, <2>1 DEF RunStart, flow, WriteInv
<1>5. CASE ReadFailed
  <2>1. CASE disconnected
    BY <1>5, <2>1 DEF ReadFailed, Notify, Forget, WriteInv
  <2>2. CASE ~disconnected
    BY <1>5, <2>2, Cleared DEF ReadFailed, Notify, Forget, WriteInv
  <2> QED BY <2>1, <2>2
<1>6. CASE WriteFailed
  <2>1. CASE disconnected
    BY <1>6, <2>1 DEF WriteFailed, Notify, WriteInv
  <2>2. CASE ~disconnected
    BY <1>6, <2>2, Cleared DEF WriteFailed, Notify, WriteInv
  <2> QED BY <2>1, <2>2
<1>7. CASE alive /\ WriteDone
  <2> DEFINE rest == IF queue = <<>> THEN <<>> ELSE Tail(queue)
  <2>1. rest \in Seq(Int)
    BY TailOfSeq DEF WriteInv
  <2>2. /\ queue' = rest
        /\ in_progress' = (rest # <<>> /\ open)
        /\ write' = IF rest # <<>> /\ open THEN "waiting" ELSE "none"
        /\ UNCHANGED <<alive, open, disconnected, strand, sends>>
    BY <1>7 DEF WriteDone
  <2> HIDE DEF rest
  <2> QED BY <1>7, <2>1, <2>2 DEF WriteInv
<1>8. CASE SendMsg
  BY <1>8 DEF SendMsg, flow, WriteInv, Task, Tasks
<1>9. CASE Stop
  BY <1>9 DEF Stop, flow, WriteInv, Task, Tasks
<1>10. CASE Release
  BY <1>10 DEF Release, flow, WriteInv
<1>11. CASE ReadCompletes \/ PeerGoes \/ UNCHANGED vars
  BY <1>11 DEF ReadCompletes, PeerGoes, vars, flow, WriteInv
<1>12. CASE WriteCompletes
  BY <1>12 DEF WriteCompletes, WriteInv
<1> QED
  BY <1>1, <1>2, <1>3, <1>4, <1>5, <1>6, <1>7, <1>8, <1>9, <1>10, <1>11, <1>12
     DEF Next, RunTask, ReadDone, WroteOne

\* No write is started while another is outstanding, and no message is queued
\* without one (SendMsg, Write and ProcessWrite around write_in_progress_).
THEOREM OneWrite == Spec => []OneWriteAtATime
<1>1. WriteInv => OneWriteAtATime
  BY DEF WriteInv, OneWriteAtATime
<1> QED
  BY <1>1, InitWriteInv, NextWriteInv, PTL DEF Spec

-----------------------------------------------------------------------------
(* What is on the wire.                                                     *)

\* A message appended to a queue is appended to all that was accepted.
LEMMA AppendToConcat ==
    ASSUME NEW s \in Seq(Int), NEW q \in Seq(Int), NEW m \in Int
    PROVE  /\ s \o Append(q, m) = Append(s \o q, m)
           /\ q # <<>> => Tail(Append(q, m)) = Append(Tail(q), m)
<1>1. s \o q \in Seq(Int) /\ Len(s \o q) = Len(s) + Len(q)
  BY ConcatProperties
<1>2. s \o Append(q, m) \in Seq(Int) /\ Append(s \o q, m) \in Seq(Int)
  BY <1>1, ConcatProperties
<1>3. Len(s) \in Nat /\ Len(q) \in Nat
  OBVIOUS
<1>4. Len(s \o Append(q, m)) = Len(s) + Len(q) + 1
  BY <1>3, ConcatProperties
<1>5. ASSUME NEW i \in 1 .. Len(s) + Len(q) + 1
      PROVE  (s \o Append(q, m))[i] = Append(s \o q, m)[i]
  BY <1>1, <1>3
<1>6. s \o Append(q, m) = Append(s \o q, m)
  BY <1>1, <1>2, <1>3, <1>4, <1>5, SeqEqual
<1>7. q # <<>> => Tail(Append(q, m)) = Append(Tail(q), m)
  OBVIOUS
<1> QED BY <1>6, <1>7

\* The front of a sequence, and one element more.
LEMMA PrefixOfConcat ==
    ASSUME NEW s \in Seq(Int), NEW q \in Seq(Int)
    PROVE  /\ IsPrefix(s, s \o q)
           /\ q # <<>> => IsPrefix(Append(s, Head(q)), s \o q)
<1>1. /\ s \o q \in Seq(Int) /\ Len(s \o q) = Len(s) + Len(q)
      /\ \A i \in 1 .. Len(s) + Len(q) : (s \o q)[i] = IF i <= Len(s) THEN s[i] ELSE q[i - Len(s)]
  BY ConcatProperties
<1>2. Len(s) \in Nat /\ Len(q) \in Nat
  OBVIOUS
<1>3. ASSUME NEW p \in Seq(Int), Len(p) <= Len(s \o q),
             \A i \in 1 .. Len(p) : p[i] = (s \o q)[i]
      PROVE  IsPrefix(p, s \o q)
  <2>1. SubSeq(p, 1, Len(p)) = SubSeq(s \o q, 1, Len(p))
    BY <1>1, <1>3
  <2> QED BY <1>3, <2>1 DEF IsPrefix
<1>4. IsPrefix(s, s \o q)
  BY <1>1, <1>2, <1>3
<1>5. ASSUME q # <<>> PROVE IsPrefix(Append(s, Head(q)), s \o q)
  <2>1. /\ Append(s, Head(q)) \in Seq(Int) /\ Len(Append(s, Head(q))) = Len(s) + 1
        /\ Len(q) >= 1 /\ Head(q) = q[1]
    BY <1>5
  <2>2. ASSUME NEW i \in 1 .. Len(s) + 1 PROVE Append(s, Head(q))[i] = (s \o q)[i]
    BY <1>1, <1>2, <2>1
  <2>3. Len(Append(s, Head(q))) <= Len(s \o q)
    BY <1>1, <1>2, <2>1
  <2>4. \A i \in 1 .. Len(Append(s, Head(q))) : Append(s, Head(q))[i] = (s \o q)[i]
    BY <2>1, <2>2
  <2>5. Append(s, Head(q)) \in Seq(Int)
    BY <2>1
  <2> QED BY <1>3, <2>3, <2>4, <2>5
<1> QED BY <1>4, <1>5

\* What is the front of all that was accepted remains so when more is.
LEMMA PrefixOfAppend ==
    ASSUME NEW p \in Seq(Int), NEW s \in Seq(Int), NEW m \in Int, IsPrefix(p, s)
    PROVE  IsPrefix(p, Append(s, m))
<1>1. Len(p) <= Len(s) /\ SubSeq(p, 1, Len(p)) = SubSeq(s, 1, Len(p))
  BY DEF IsPrefix
<1>2. Len(p) \in Nat /\ Len(s) \in Nat
  OBVIOUS
<1>3. SubSeq(Append(s, m), 1, Len(p)) = SubSeq(s, 1, Len(p))
  BY <1>1, <1>2
<1> QED BY <1>1, <1>2, <1>3 DEF IsPrefix

\* Taking the first element over.
LEMMA HeadMovesOver ==
    ASSUME NEW s \in Seq(Int), NEW q \in Seq(Int), q # <<>>
    PROVE  s \o q = Append(s, Head(q)) \o Tail(q)
<1>1. Head(q) \in Int /\ Tail(q) \in Seq(Int) /\ q = <<Head(q)>> \o Tail(q)
  OBVIOUS
<1>2. Append(s, Head(q)) = s \o <<Head(q)>> /\ <<Head(q)>> \in Seq(Int)
  BY <1>1
<1> QED BY <1>1, <1>2, ConcatAssociative

\* The messages that are not on the wire: one that is stays at the front of the
\* queue until its completion is handled.
Rest == IF write = "ok" THEN Tail(queue) ELSE queue

\* What is written is the front of what was accepted, with the message being
\* written too; while the session is connected, what is queued is the rest.
WireInv ==
    /\ accepted \in Seq(Int) /\ wire \in Seq(Int) /\ chunk \in Int
    /\ IsPrefix(wire, accepted)
    /\ write = "waiting" => IsPrefix(Append(wire, chunk), accepted)
    /\ write = "waiting" /\ ~disconnected => chunk = Head(queue)
    /\ ~disconnected => accepted = wire \o Rest
    /\ disconnected /\ open => queue = <<>>

\* SendMsg on the strand puts a message behind both.
LEMMA AcceptKeepsWire ==
    ASSUME WriteInv, WireInv, alive, NEW m \in Int, Accept(m),
           UNCHANGED <<disconnected, open, wire>>
    PROVE  WireInv'
<1>1. CASE disconnected \/ ~open
  BY <1>1 DEF Accept, flow, WireInv, Rest
<1>2. CASE ~disconnected /\ open
  <2>1. /\ queue' = Append(queue, m) /\ accepted' = Append(accepted, m)
        /\ wire' = wire /\ ~disconnected'
        /\ IF in_progress THEN UNCHANGED <<chunk, write>> ELSE StartWrite(Head(queue'))
    BY <1>2 DEF Accept
  <2>2. /\ queue \in Seq(Int) /\ accepted \in Seq(Int) /\ wire \in Seq(Int) /\ chunk \in Int
        /\ accepted = wire \o Rest /\ IsPrefix(wire, accepted)
    BY <1>2 DEF WireInv, WriteInv
  <2>3. accepted' \in Seq(Int) /\ wire' \in Seq(Int) /\ IsPrefix(wire', accepted')
    <3>1. accepted \in Seq(Int) /\ wire \in Seq(Int) /\ IsPrefix(wire, accepted)
      BY <2>2
    <3>2. IsPrefix(wire, Append(accepted, m))
      BY <3>1, PrefixOfAppend
    <3> QED BY <2>1, <3>1, <3>2
  <2>4. CASE in_progress
    <3>1. queue # <<>> /\ UNCHANGED <<chunk, write>>
      BY <1>2, <2>1, <2>4 DEF WriteInv
    <3>2. Rest \in Seq(Int) /\ Rest' = Append(Rest, m)
      BY <2>1, <2>2, <3>1, TailOfSeq, AppendToConcat DEF Rest
    <3>3. accepted' = wire' \o Rest'
      <4>1. wire \o Append(Rest, m) = Append(accepted, m)
        BY <2>2, <3>2, AppendToConcat
      <4> QED BY <2>1, <3>2, <4>1
    <3>4. write' = "waiting" => IsPrefix(Append(wire', chunk'), accepted') /\ chunk' = Head(queue')
      <4>1. ASSUME write = "waiting"
            PROVE  IsPrefix(Append(wire, chunk), accepted) /\ chunk = Head(queue)
        BY <1>2, <4>1 DEF WireInv
      <4>2. Append(wire, chunk) \in Seq(Int) /\ Head(Append(queue, m)) = Head(queue)
        BY <2>2, <3>1
      <4> QED BY <2>1, <2>2, <3>1, <4>1, <4>2, PrefixOfAppend
    <3> QED BY <2>1, <2>2, <2>3, <3>1, <3>3, <3>4 DEF WireInv
  <2>5. CASE ~in_progress
    <3>1. queue = <<>> /\ write = "none"
      BY <1>2, <2>5 DEF WriteInv
    <3>2. queue' # <<>> /\ Head(queue') = m /\ queue' \in Seq(Int)
      BY <2>1, <2>2, <3>1
    <3>3. chunk' = m /\ write' = "waiting"
      BY <2>1, <2>5, <3>1, <3>2 DEF StartWrite
    <3>4. accepted' = wire' \o queue'
      BY <2>1, <2>2, <3>1, AppendToConcat DEF Rest
    <3>5. IsPrefix(Append(wire', chunk'), accepted')
      BY <2>3, <3>2, <3>3, <3>4, PrefixOfConcat
    <3> QED BY <2>1, <2>3, <3>2, <3>3, <3>4, <3>5 DEF WireInv, Rest
  <2> QED BY <2>4, <2>5
<1> QED BY <1>1, <1>2

\* A write completes: its message is on the wire.
LEMMA WriteCompletesKeepsWire ==
    ASSUME WriteInv, WireInv, WriteCompletes
    PROVE  WireInv'
<1>1. write = "waiting" /\ UNCHANGED <<open, disconnected, queue, chunk, accepted>>
  BY DEF WriteCompletes
<1>2. CASE write' = "ok" /\ wire' = Append(wire, chunk)
  <2>1. wire' \in Seq(Int) /\ IsPrefix(wire', accepted')
    BY <1>1, <1>2 DEF WireInv
  <2>2. ASSUME ~disconnected PROVE accepted' = wire' \o Rest'
    <3>1. queue # <<>> /\ queue \in Seq(Int) /\ wire \in Seq(Int)
      BY <1>1, <2>2 DEF WriteInv, WireInv
    <3>2. accepted = wire \o queue /\ chunk = Head(queue)
      BY <1>1, <2>2 DEF WireInv, Rest
    <3>3. accepted = wire' \o Tail(queue)
      BY <1>2, <3>1, <3>2, HeadMovesOver
    <3> QED BY <1>1, <1>2, <3>3 DEF Rest
  <2> QED BY <1>1, <1>2, <2>1, <2>2 DEF WireInv
<1>3. CASE write' = "error" /\ UNCHANGED wire
  BY <1>1, <1>3 DEF WireInv, Rest
<1> QED BY <1>2, <1>3 DEF WriteCompletes

\* Its completion is handled: the message leaves the queue, the next is written.
LEMMA WriteDoneKeepsWire ==
    ASSUME WriteInv, WireInv, WriteDone
    PROVE  WireInv'
<1> DEFINE rest == IF queue = <<>> THEN <<>> ELSE Tail(queue)
<1>1. /\ write = "ok" /\ queue' = rest
      /\ write' = IF rest # <<>> /\ open THEN "waiting" ELSE "none"
      /\ chunk' = IF rest # <<>> /\ open THEN Head(rest) ELSE chunk
      /\ UNCHANGED <<open, disconnected, accepted, wire>>
  BY DEF WriteDone
<1>2. /\ rest \in Seq(Int)
      /\ ~disconnected => accepted = wire \o rest
      /\ disconnected /\ open => rest = <<>>
  BY <1>1, TailOfSeq, Cleared DEF WireInv, WriteInv, Rest
<1> HIDE DEF rest
<1>3. CASE rest # <<>> /\ open
  <2>1. ~disconnected /\ accepted = wire \o rest /\ wire \in Seq(Int)
    BY <1>2, <1>3 DEF WriteInv, WireInv
  <2>2. chunk' = Head(rest) /\ write' = "waiting" /\ chunk' \in Int
    BY <1>1, <1>2, <1>3, TailOfSeq
  <2>3. IsPrefix(Append(wire, chunk'), accepted)
    BY <1>2, <1>3, <2>1, <2>2, PrefixOfConcat
  <2> QED BY <1>1, <2>1, <2>2, <2>3 DEF WireInv, Rest
<1>4. CASE ~(rest # <<>> /\ open)
  <2>1. write' = "none" /\ chunk' = chunk
    BY <1>1, <1>4
  <2> QED BY <1>1, <1>2, <2>1 DEF WireInv, Rest
<1> QED BY <1>3, <1>4

\* Every step keeps what is written the front of what was accepted.
LEMMA NextWireInv == WriteInv /\ WireInv /\ [Next]_vars => WireInv'
<1> SUFFICES ASSUME WriteInv, WireInv, [Next]_vars PROVE WireInv'
  OBVIOUS
<1>1. CASE alive /\ RunSend
  <2>1. Head(strand) \in Tasks /\ Head(strand).op = "send"
    BY <1>1, TailOfSeq DEF RunSend, Due, WriteInv
  <2>2. Head(strand).msg \in Int
    BY <2>1 DEF Tasks, WriteInv
  <2> QED BY <1>1, <2>2, AcceptKeepsWire DEF RunSend
<1>2. CASE alive /\ ReadFrame
  <2>1. UNCHANGED <<disconnected, open, wire>>
    BY <1>2 DEF ReadFrame
  <2>2. CASE sends < MaxSends
    <3>1. Accept(sends + 1) /\ sends + 1 \in Int
      BY <1>2, <2>2 DEF ReadFrame, WriteInv
    <3> QED BY <1>2, <2>1, <3>1, AcceptKeepsWire
  <2>3. CASE ~(sends < MaxSends)
    <3>1. UNCHANGED flow
      BY <1>2, <2>3 DEF ReadFrame
    <3> QED BY <2>1, <3>1 DEF flow, WireInv, Rest
  <2> QED BY <2>2, <2>3
<1>3. CASE RunStop \/ Release
  <2>1. UNCHANGED <<wire, flow, Rest>>
    BY <1>3 DEF RunStop, Release, flow, Rest
  <2>2. \/ disconnected' = disconnected /\ ~open'
        \/ disconnected' /\ (open' => open /\ disconnected)
    BY <1>3 DEF RunStop, Release, WriteInv
  <2> QED BY <2>1, <2>2 DEF WireInv, flow
<1>4. CASE ReadFailed \/ WriteFailed
  <2>1. CASE disconnected
    <3>1. /\ UNCHANGED <<disconnected, open, queue, accepted, wire, chunk>>
          /\ write' = write \/ write' = "none"
      BY <1>4, <2>1 DEF ReadFailed, WriteFailed, Notify, Forget
    <3> QED BY <2>1, <3>1 DEF WireInv
  <2>2. CASE ~disconnected
    <3>1. /\ disconnected' /\ queue' = <<>> /\ UNCHANGED <<accepted, wire, chunk>>
          /\ write' = write \/ write' = "none"
      BY <1>4, <2>2 DEF ReadFailed, WriteFailed, Notify, Forget
    <3> QED BY <3>1, Cleared DEF WireInv
  <2> QED BY <2>1, <2>2
<1>5. CASE WriteDone \/ WriteCompletes
  BY <1>5, WriteDoneKeepsWire, WriteCompletesKeepsWire
<1>6. CASE SendMsg \/ Stop \/ RunStart \/ ReadCompletes \/ PeerGoes \/ UNCHANGED vars
  <2>1. UNCHANGED <<disconnected, open, wire, queue, accepted, chunk, write>>
    BY <1>6 DEF SendMsg, Stop, RunStart, ReadCompletes, PeerGoes, vars, flow
  <2> QED BY <2>1 DEF WireInv, Rest
<1> QED
  BY <1>1, <1>2, <1>3, <1>4, <1>5, <1>6 DEF Next, RunTask, ReadDone, WroteOne

\* The wire carries what was accepted, in that order, and what is not on it is
\* queued, until the session ends (SendMsg, Write, ProcessWrite).
THEOREM WireOrdered == Spec => []WireInOrder
<1>1. Init => WireInv
  <2>1. Init => accepted = <<>> \o <<>> /\ IsPrefix(<<>>, accepted) /\ Rest = <<>>
    BY Cleared, PrefixOfConcat, ConcatEmptySeq DEF Init, Rest
  <2> QED BY <2>1, Cleared DEF Init, WireInv
<1>2. WireInv => WireInOrder
  BY DEF WireInv, WireInOrder, Rest
<1> QED
  BY <1>1, <1>2, InitWriteInv, NextWriteInv, NextWireInv, PTL DEF Spec
=============================================================================
