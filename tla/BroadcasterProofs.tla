-------------------------- MODULE BroadcasterProofs --------------------------
(***************************************************************************)
(* Proofs about Broadcaster, for any producers, clients and bounds.  When  *)
(* one thread produces (what DOMManager does), snapshots reach their       *)
(* clients in the order they were taken; and none is lost but to an MD     *)
(* update that clears it from the queue.                                   *)
(***************************************************************************)
EXTENDS Broadcaster, SequenceTheorems, TLAPS

\* What the queue operations of the code do to a sequence.
LEMMA AppendIndex ==
    ASSUME NEW S, NEW s \in Seq(S), NEW e \in S
    PROVE  /\ Append(s, e) \in Seq(S)
           /\ Len(Append(s, e)) = Len(s) + 1
           /\ \A i \in 1 .. Len(s) : Append(s, e)[i] = s[i]
           /\ Append(s, e)[Len(s) + 1] = e
OBVIOUS

\* What is left behind a popped command keeps its place (pop_front).
LEMMA TailIndex ==
    ASSUME NEW S, NEW s \in Seq(S), s # <<>>
    PROVE  /\ Head(s) \in S /\ Head(s) = s[1]
           /\ Tail(s) \in Seq(S)
           /\ Len(Tail(s)) = Len(s) - 1 /\ Len(s) >= 1
           /\ \A i \in 1 .. Len(Tail(s)) : Tail(s)[i] = s[i + 1]
OBVIOUS

\* A cleared queue is empty.
LEMMA EmptyIndex ==
    ASSUME NEW S
    PROVE  <<>> \in Seq(S) /\ Len(<<>>) = 0
OBVIOUS

-----------------------------------------------------------------------------
(* Types of the pipeline, and that a thread is started when there is none.  *)

Versions == -1 .. MaxTaken

PipeTypeOK ==
    /\ taken \in 0 .. MaxTaken
    /\ queue \in Seq(Command)
    /\ posted \in Seq(Command)
    /\ hand \in Command \cup {None}
    /\ thread \in {"none", "loop", "pop", "post", "done"}
    /\ hand # None <=> thread = "post"
    /\ running => owner = "idle"
    /\ ~running /\ owner = "idle" => thread = "none"
    /\ held \in [Producers -> Command \cup {None}]
    /\ running \in BOOLEAN
    /\ owner \in {"idle", "joining"}
    /\ sent \in [Clients -> Versions]
    /\ asked \in [Clients -> Versions]

\* The next snapshot is no older, up to the bound.
LEMMA LaterTypes ==
    ASSUME NEW n \in 0 .. MaxTaken
    PROVE  Later(n) \in 0 .. MaxTaken /\ Later(n) >= n
BY BroadcasterAssumption DEF Later, BroadcasterAssumption

\* A command is not the null pointer.
LEMMA CommandNotNone == None \notin Command
BY DEF None, Command

\* A pushed command goes on a queue of commands.
LEMMA PushedTypes ==
    ASSUME PipeTypeOK, NEW cmd \in Command
    PROVE  Pushed(queue, cmd) \in Seq(Command) /\ Asked(cmd) \in [Clients -> Versions]
<1>1. Pushed(queue, cmd) \in Seq(Command)
  BY EmptyIndex, AppendIndex DEF PipeTypeOK, Pushed
<1>2. Asked(cmd) \in [Clients -> Versions]
  BY BroadcasterAssumption DEF PipeTypeOK, Asked, Command, Versions, BroadcasterAssumption
<1> QED BY <1>1, <1>2

\* The steps of the broadcaster thread and of the handlers keep the types, whoever
\* produces.
LEMMA StepKeepsTypes ==
    ASSUME PipeTypeOK, Run \/ Handle
    PROVE  PipeTypeOK'
<1> USE DEF PipeTypeOK
<1>2. CASE TestRunning
  BY <1>2 DEF TestRunning
<1>3. CASE Pop
  <2>1. Head(queue) \in Command /\ Tail(queue) \in Seq(Command)
    BY <1>3, TailIndex DEF Pop
  <2> QED BY <1>3, <2>1, CommandNotNone DEF Pop
<1>4. CASE Post
  BY <1>4, AppendIndex DEF Post
<1>5. CASE HandleSnapshot
  <2>1. Head(posted) \in Command /\ Tail(posted) \in Seq(Command)
    BY <1>5, TailIndex DEF HandleSnapshot
  <2>2. sent' \in [Clients -> Versions]
    BY <1>5, <2>1, BroadcasterAssumption DEF HandleSnapshot, Command, Versions, BroadcasterAssumption
  <2> QED BY <1>5, <2>1, <2>2 DEF HandleSnapshot
<1>6. CASE HandleMDUpdate
  BY <1>6, TailIndex DEF HandleMDUpdate
<1> QED BY <1>2, <1>3, <1>4, <1>5, <1>6 DEF Run, Handle

\* Queue, hand and posted handlers hold commands, whatever was enqueued.
LEMMA PipeTypes == Spec => []PipeTypeOK
<1>1. Init => PipeTypeOK
  <2> SUFFICES ASSUME Init PROVE PipeTypeOK
    OBVIOUS
  <2>1. queue \in Seq(Command) /\ posted \in Seq(Command)
    BY EmptyIndex DEF Init
  <2>2. taken \in 0 .. MaxTaken
    BY BroadcasterAssumption DEF Init, BroadcasterAssumption
  <2>3. held \in [Producers -> Command \cup {None}]
    BY DEF Init
  <2>4. sent \in [Clients -> Versions] /\ asked \in [Clients -> Versions]
    BY BroadcasterAssumption DEF Init, Versions, BroadcasterAssumption
  <2> HIDE DEF None
  <2> QED BY <2>1, <2>2, <2>3, <2>4 DEF Init, PipeTypeOK
<1>2. PipeTypeOK /\ [Next]_vars => PipeTypeOK'
  <2> SUFFICES ASSUME PipeTypeOK, [Next]_vars PROVE PipeTypeOK'
    OBVIOUS
  <2> USE DEF PipeTypeOK
  <2>1. CASE Run \/ Handle
    BY <2>1, StepKeepsTypes
  <2>2. ASSUME NEW p \in Producers, NEW kind \in Kinds, NEW to \in Clients \cup {Everyone},
               Build(p, kind, to)
        PROVE  PipeTypeOK'
    <3>1. taken' \in 0 .. MaxTaken
      BY <2>2, LaterTypes DEF Build
    <3> QED BY <2>2, <3>1 DEF Build, Command
  <2>3. ASSUME NEW p \in Producers, Push(p) PROVE PipeTypeOK'
    <3>1. held[p] \in Command
      BY <2>3 DEF Push
    <3> QED BY <2>3, <3>1, PushedTypes DEF Push
  <2>4. CASE Start \/ Stop \/ Join
    BY <2>4 DEF Start, Stop, Join
  <2>5. CASE UNCHANGED vars
    BY <2>5 DEF vars
  <2> QED BY <2>1, <2>2, <2>3, <2>4, <2>5 DEF Next, Produce
<1> QED BY <1>1, <1>2, PTL DEF Spec

\* All of TypeOK: the bound on the pushes and the flag are kept besides.
THEOREM TypeCorrect == Spec => []TypeOK
<1> DEFINE Rest == pushes \in 0 .. MaxPushes /\ absorbed \in BOOLEAN /\ crashed \in BOOLEAN
<1>1. Init => Rest
  <2>1. Init => pushes = 0 /\ absorbed \in BOOLEAN /\ crashed \in BOOLEAN
    BY DEF Init
  <2> QED BY <2>1, BroadcasterAssumption
<1>2. Rest /\ [Next]_vars => Rest'
  <2> SUFFICES ASSUME Rest, [Next]_vars PROVE Rest'
    OBVIOUS
  <2> USE BroadcasterAssumption
  <2>1. CASE \E p \in Producers : Push(p)
    <3>1. pushes' \in 0 .. MaxPushes /\ crashed' = crashed
      BY <2>1 DEF Push
    <3>2. absorbed' \in BOOLEAN
      BY <2>1 DEF Push
    <3> QED BY <3>1, <3>2
  <2>2. CASE \E p \in Producers, kind \in Kinds, to \in Clients \cup {Everyone} : Build(p, kind, to)
    BY <2>2 DEF Build
  <2>3. CASE Start \/ Stop \/ Join \/ Run \/ Handle \/ UNCHANGED vars
    BY <2>3 DEF vars, Start, Stop, Join, Run, TestRunning, Pop, Post,
                Handle, HandleSnapshot, HandleMDUpdate
  <2> QED BY <2>1, <2>2, <2>3 DEF Next, Produce
<1>3. PipeTypeOK /\ Rest => TypeOK
  BY DEF PipeTypeOK, TypeOK, Versions
<1> HIDE DEF Rest
<1> QED BY <1>1, <1>2, <1>3, PipeTypes, PTL DEF Spec

-----------------------------------------------------------------------------
(* One producer: order and delivery.                                        *)

\* What DOMManager does: it enqueues from one thread, the io thread.
SoleProducer == \A p, q \in Producers : p = q

\* The pipeline is sorted by snapshot: posted, then the hand, then the queue.
Sorted ==
    /\ \A i, j \in 1 .. Len(queue)  : i < j => queue[i].data <= queue[j].data
    /\ \A i, j \in 1 .. Len(posted) : i < j => posted[i].data <= posted[j].data
    /\ \A i \in 1 .. Len(posted), j \in 1 .. Len(queue) : posted[i].data <= queue[j].data
    /\ hand # None =>
          /\ \A i \in 1 .. Len(posted) : posted[i].data <= hand.data
          /\ \A j \in 1 .. Len(queue)  : hand.data <= queue[j].data

\* What is on its way is no older than what was sent last, and no newer than
\* what the producer holds or the book is at; nothing newer was asked for.
Between ==
    /\ \A x \in InFlight : x.data <= taken
    /\ \A c \in Clients, x \in InFlight : sent[c] <= x.data
    /\ \A c \in Clients : sent[c] <= taken /\ asked[c] <= taken
    /\ \A p \in Producers : held[p] # None =>
          /\ held[p].data <= taken
          /\ \A x \in InFlight : x.data <= held[p].data
          /\ \A c \in Clients : sent[c] <= held[p].data /\ asked[c] <= held[p].data

DInv == Sorted /\ Between /\ SnapshotNotLost

\* push_back adds its element to what the queue holds.
LEMMA AppendSet ==
    ASSUME NEW S, NEW s \in Seq(S), NEW e \in S
    PROVE  ToSet(Append(s, e)) = ToSet(s) \cup {e}
<1>1. DOMAIN Append(s, e) = 1 .. (Len(s) + 1) /\ DOMAIN s = 1 .. Len(s) /\ Len(s) \in Nat
  OBVIOUS
<1> QED BY <1>1, AppendIndex DEF ToSet

\* What a queue holds is its front and what pop_front leaves.
LEMMA TailSet ==
    ASSUME NEW S, NEW s \in Seq(S), s # <<>>
    PROVE  ToSet(s) = {Head(s)} \cup ToSet(Tail(s))
<1>1. DOMAIN s = 1 .. Len(s) /\ DOMAIN Tail(s) = 1 .. (Len(s) - 1) /\ Len(s) \in Nat
  OBVIOUS
<1>2. \A x \in ToSet(s) : x = Head(s) \/ x \in ToSet(Tail(s))
  <2> SUFFICES ASSUME NEW i \in 1 .. Len(s), i # 1 PROVE s[i] \in ToSet(Tail(s))
    BY <1>1, TailIndex DEF ToSet
  <2>1. i - 1 \in 1 .. (Len(s) - 1) /\ s[i] = Tail(s)[i - 1]
    BY <1>1, TailIndex
  <2> QED BY <1>1, <2>1 DEF ToSet
<1>3. Head(s) \in ToSet(s) /\ ToSet(Tail(s)) \subseteq ToSet(s)
  BY <1>1, TailIndex DEF ToSet
<1> QED BY <1>2, <1>3

\* A cleared queue holds the command pushed on it.
LEMMA SingletonSet ==
    ASSUME NEW e
    PROVE  ToSet(Append(<<>>, e)) = {e}
<1>1. Append(<<>>, e) = <<e>>
  OBVIOUS
<1>2. DOMAIN <<e>> = {1} /\ <<e>>[1] = e
  OBVIOUS
<1> QED BY <1>1, <1>2 DEF ToSet

\* A queue of commands holds commands.
LEMMA SetOfCommands ==
    ASSUME PipeTypeOK
    PROVE  /\ \A x \in InFlight : x \in Command /\ x.data \in Int
           /\ \A i \in 1 .. Len(queue)  : queue[i] \in InFlight
           /\ \A i \in 1 .. Len(posted) : posted[i] \in InFlight
           /\ hand # None => hand \in InFlight
<1>1. \A x \in InFlight : x \in Command
  BY DEF PipeTypeOK, InFlight, ToSet
<1>2. \A x \in Command : x.data \in Int
  BY DEF Command
<1>3. DOMAIN queue = 1 .. Len(queue) /\ DOMAIN posted = 1 .. Len(posted)
  BY DEF PipeTypeOK
<1> QED BY <1>1, <1>2, <1>3 DEF InFlight, ToSet

\* A push keeps the delivery invariant: what it absorbs, it supplies; whoever
\* pushes and takes snapshots besides, if nothing newer than the command is on its
\* way.
LEMMA PushedKeepsDInv ==
    ASSUME PipeTypeOK, DInv, NEW cmd \in Command,
           cmd.data <= taken,
           \A x \in InFlight : x.data <= cmd.data,
           \A c \in Clients : sent[c] <= cmd.data /\ asked[c] <= cmd.data,
           \A q \in Producers : held'[q] = None,
           queue' = Pushed(queue, cmd), asked' = Asked(cmd),
           absorbed' = (absorbed \/ Absorbs(queue, cmd)),
           UNCHANGED <<hand, posted, sent>>, taken' \in Int, taken' >= taken
    PROVE  DInv'
<1>a. cmd # None /\ cmd.data \in Int
  BY DEF Command, None
<1>c. \A c \in Clients :
          /\ asked[c] \in Int /\ sent[c] \in Int /\ sent[c] >= -1
          /\ asked[c] <= cmd.data /\ cmd.data >= sent[c]
  BY <1>a DEF PipeTypeOK, Versions
<1>d. \A c \in Clients :
          \/ asked'[c] = asked[c]
          \/ asked'[c] = cmd.data /\ cmd.kind = "snapshot" /\ c \in Addressees(cmd)
  BY <1>a DEF Asked
<1>1. /\ cmd \in Command /\ cmd # None /\ cmd.data \in Int
      /\ UNCHANGED <<hand, posted, sent>>
      /\ \A c \in Clients :
             /\ asked[c] \in Int /\ sent[c] \in Int /\ sent[c] >= -1 /\ asked[c] <= cmd.data
             /\ asked'[c] \in Int /\ asked'[c] <= cmd.data
             /\ \/ asked'[c] = asked[c]
                \/ asked'[c] = cmd.data /\ cmd.kind = "snapshot" /\ c \in Addressees(cmd)
  BY <1>a, <1>c, <1>d
<1>2. \A q \in Producers : held'[q] = None
  OBVIOUS
<1>3. \A x \in InFlight : x.data \in Int /\ x.data <= cmd.data
  BY SetOfCommands
<1>4. \/ cmd.to = Everyone /\ queue' = Append(<<>>, cmd)
      \/ cmd.to # Everyone /\ queue' = Append(queue, cmd)
  BY DEF Pushed
<1>5. /\ cmd \in ToSet(queue')
      /\ ToSet(queue') \subseteq ToSet(queue) \cup {cmd}
      /\ cmd.to # Everyone => ToSet(queue') = ToSet(queue) \cup {cmd}
  <2>1. ToSet(Append(<<>>, cmd)) = {cmd}
    BY SingletonSet
  <2>2. ToSet(Append(queue, cmd)) = ToSet(queue) \cup {cmd}
    BY <1>1, AppendSet DEF PipeTypeOK
  <2> QED BY <1>4, <2>1, <2>2
<1>6. /\ cmd \in InFlight'
      /\ InFlight' \subseteq InFlight \cup {cmd}
      /\ cmd.to # Everyone => InFlight' = InFlight \cup {cmd}
  BY <1>1, <1>5 DEF InFlight
<1>7. Sorted'
  <2>1. CASE queue' = Append(<<>>, cmd)
    <3>1. Len(queue') = 1 /\ queue'[1] = cmd
      BY <2>1, <1>1, AppendIndex, EmptyIndex
    <3>2. /\ \A i \in 1 .. Len(queue') : i = 1 /\ queue'[i] = cmd
          /\ posted' = posted /\ hand' = hand
      BY <3>1, <1>1
    <3>3. /\ \A i \in 1 .. Len(posted) : posted[i].data <= cmd.data
          /\ hand # None => hand.data <= cmd.data
      BY <1>3, SetOfCommands
    <3> QED BY <3>2, <3>3 DEF DInv, Sorted
  <2>2. CASE queue' = Append(queue, cmd)
    <3>1. /\ Len(queue') = Len(queue) + 1 /\ queue'[Len(queue) + 1] = cmd /\ Len(queue) \in Nat
          /\ \A i \in 1 .. Len(queue) : queue'[i] = queue[i]
      BY <2>2, <1>1, AppendIndex DEF PipeTypeOK
    <3>2. \A i, j \in 1 .. Len(queue') : i < j => queue'[i].data <= queue'[j].data
      <4>1. \A i \in 1 .. Len(queue) : queue[i].data <= cmd.data
        BY <1>3, SetOfCommands
      <4>2. \A i, j \in 1 .. Len(queue) : i < j => queue[i].data <= queue[j].data
        BY DEF DInv, Sorted
      <4> SUFFICES ASSUME NEW i \in 1 .. Len(queue'), NEW j \in 1 .. Len(queue'), i < j
                   PROVE  queue'[i].data <= queue'[j].data
        OBVIOUS
      <4>3. i \in 1 .. Len(queue) /\ (j \in 1 .. Len(queue) \/ j = Len(queue) + 1)
        BY <3>1
      <4> QED BY <3>1, <4>1, <4>2, <4>3
    <3>3. \A i \in 1 .. Len(posted), j \in 1 .. Len(queue') : posted[i].data <= queue'[j].data
      <4>1. \A i \in 1 .. Len(posted) : posted[i].data <= cmd.data
        BY <1>3, SetOfCommands
      <4>2. \A j \in 1 .. Len(queue') : j \in 1 .. Len(queue) \/ j = Len(queue) + 1
        BY <3>1
      <4> QED BY <3>1, <4>1, <4>2 DEF DInv, Sorted
    <3>4. hand # None => \A j \in 1 .. Len(queue') : hand.data <= queue'[j].data
      BY <3>1, <1>1, <1>3, SetOfCommands DEF DInv, Sorted
    <3> QED BY <3>2, <3>3, <3>4, <1>1 DEF DInv, Sorted
  <2> QED BY <2>1, <2>2, <1>4
<1>8. Between'
  <2>1. cmd.data <= taken' /\ \A c \in Clients : sent[c] <= cmd.data
    BY <1>1 DEF PipeTypeOK
  <2>2. /\ \A x \in InFlight' : x.data \in Int /\ x.data <= cmd.data
        /\ \A x \in InFlight' : x = cmd \/ x \in InFlight
    BY <1>a, <1>3, <1>6
  <2>3. \A c \in Clients : sent'[c] <= cmd.data /\ asked'[c] <= cmd.data /\ sent[c] \in Int /\ asked'[c] \in Int
    BY <1>1, <2>1
  <2>4. taken' \in Int /\ cmd.data \in Int /\ sent' = sent
    BY <1>a
  <2>5. \A x \in InFlight' : x.data <= taken'
    BY <2>1, <2>2, <2>4
  <2>6. \A c \in Clients, x \in InFlight' : sent'[c] <= x.data
    BY <2>1, <2>2, <2>4 DEF DInv, Between
  <2>7. \A c \in Clients : sent'[c] <= taken' /\ asked'[c] <= taken'
    BY <2>1, <2>3, <2>4
  <2> QED BY <1>2, <2>5, <2>6, <2>7 DEF Between
<1>9. SnapshotNotLost'
  <2> SUFFICES ASSUME ~absorbed', NEW c \in Clients
               PROVE  sent'[c] >= asked'[c] \/ \E x \in InFlight' : Supplies(x, c, asked'[c])
    BY DEF SnapshotNotLost, Supplies
  <2>1. CASE asked'[c] = cmd.data /\ cmd.kind = "snapshot" /\ c \in Addressees(cmd)
    BY <2>1, <1>1, <1>6 DEF Supplies
  <2>2. CASE asked'[c] = asked[c] /\ cmd.to # Everyone
    BY <2>2, <1>1, <1>6 DEF DInv, SnapshotNotLost, Supplies
  <2>3. CASE asked'[c] = asked[c] /\ cmd.to = Everyone /\ cmd.kind = "snapshot"
    <3>1. c \in Addressees(cmd) /\ cmd.data >= asked'[c]
      BY <2>3, <1>1 DEF Addressees
    <3> QED BY <2>3, <3>1, <1>6 DEF Supplies
  <2>4. CASE asked'[c] = asked[c] /\ cmd.to = Everyone /\ cmd.kind = "md"
    <3>1. ~absorbed /\ \A x \in ToSet(queue) : x.kind # "snapshot"
      BY <2>4 DEF Absorbs
    <3>2. \A x \in InFlight : x.kind = "snapshot" => x \in InFlight'
      BY <3>1, <1>1 DEF InFlight
    <3> QED BY <2>4, <3>1, <3>2, <1>1 DEF DInv, SnapshotNotLost, Supplies
  <2>5. cmd.kind \in {"snapshot", "md"}
    BY BroadcasterAssumption DEF Command, BroadcasterAssumption
  <2> QED BY <2>1, <2>2, <2>3, <2>4, <2>5, <1>1
<1> QED BY <1>1, <1>7, <1>8, <1>9 DEF DInv

\* push by the one producer keeps it: it holds the newest command there is.
LEMMA PushKeepsDInv ==
    ASSUME SoleProducer, PipeTypeOK, DInv, NEW p \in Producers, Push(p)
    PROVE  DInv' /\ sent' = sent
<1>1. held[p] \in Command /\ held[p] # None
  BY DEF PipeTypeOK, Push
<1>2. /\ held[p].data <= taken
      /\ \A x \in InFlight : x.data <= held[p].data
      /\ \A c \in Clients : sent[c] <= held[p].data /\ asked[c] <= held[p].data
  BY <1>1 DEF DInv, Between
<1>3. \A q \in Producers : held'[q] = None
  BY DEF Push, SoleProducer, PipeTypeOK
<1>4. /\ queue' = Pushed(queue, held[p]) /\ asked' = Asked(held[p])
      /\ absorbed' = (absorbed \/ Absorbs(queue, held[p]))
      /\ UNCHANGED <<hand, posted, sent>> /\ taken' \in Int /\ taken' >= taken
  BY DEF Push, PipeTypeOK
<1> QED BY <1>1, <1>2, <1>3, <1>4, PushedKeepsDInv

\* pop keeps it: the command is in the hand of the thread.
LEMMA PopKeepsDInv ==
    ASSUME PipeTypeOK, PipeTypeOK', DInv, Pop
    PROVE  DInv' /\ sent' = sent
<1>1. /\ UNCHANGED <<taken, posted, sent, asked, absorbed, held>>
      /\ hand = None /\ hand' = Head(queue) /\ queue' = Tail(queue) /\ queue # <<>>
  BY DEF Pop, PipeTypeOK
<1>2. /\ Head(queue) = queue[1] /\ Head(queue) # None
      /\ Len(queue') = Len(queue) - 1 /\ Len(queue) >= 1 /\ Len(queue) \in Nat
      /\ \A i \in 1 .. Len(queue') : queue'[i] = queue[i + 1]
  BY <1>1, TailIndex, CommandNotNone DEF PipeTypeOK
<1>3. InFlight' = InFlight
  <2>1. ToSet(queue) = {Head(queue)} \cup ToSet(Tail(queue))
    BY <1>1, TailSet DEF PipeTypeOK
  <2> QED BY <1>1, <1>2, <2>1 DEF InFlight
<1>4. Sorted'
  BY <1>1, <1>2 DEF DInv, Sorted
<1>5. Between' /\ SnapshotNotLost'
  BY <1>1, <1>3 DEF DInv, Between, SnapshotNotLost, Supplies
<1> QED BY <1>1, <1>4, <1>5 DEF DInv

\* Posting the handler keeps it: the command is with the io thread.
LEMMA PostKeepsDInv ==
    ASSUME PipeTypeOK, PipeTypeOK', DInv, Post
    PROVE  DInv' /\ sent' = sent
<1>1. /\ UNCHANGED <<taken, queue, sent, asked, absorbed, held>>
      /\ hand # None /\ hand' = None /\ posted' = Append(posted, hand)
      /\ hand \in Command
  BY DEF Post, PipeTypeOK
<1>2. /\ Len(posted') = Len(posted) + 1 /\ posted'[Len(posted) + 1] = hand
      /\ Len(posted) \in Nat
      /\ \A i \in 1 .. Len(posted) : posted'[i] = posted[i]
  BY <1>1, AppendIndex DEF PipeTypeOK
<1>3. InFlight' = InFlight
  <2>1. ToSet(posted') = ToSet(posted) \cup {hand}
    BY <1>1, AppendSet DEF PipeTypeOK
  <2> QED BY <1>1, <2>1 DEF InFlight
<1>4. Sorted'
  <2>1. \A i \in 1 .. Len(posted') : i \in 1 .. Len(posted) \/ i = Len(posted) + 1
    BY <1>2
  <2>2. \A i, j \in 1 .. Len(posted') : i < j => posted'[i].data <= posted'[j].data
    BY <1>1, <1>2, <2>1 DEF DInv, Sorted
  <2>3. \A i \in 1 .. Len(posted'), j \in 1 .. Len(queue) : posted'[i].data <= queue[j].data
    BY <1>1, <1>2, <2>1 DEF DInv, Sorted
  <2> QED BY <1>1, <2>2, <2>3 DEF DInv, Sorted
<1>5. Between' /\ SnapshotNotLost'
  BY <1>1, <1>3 DEF DInv, Between, SnapshotNotLost, Supplies
<1> QED BY <1>1, <1>4, <1>5 DEF DInv

\* So does the thread as a whole: testing running_ moves nothing.
LEMMA RunKeepsDInv ==
    ASSUME PipeTypeOK, PipeTypeOK', DInv, Run
    PROVE  DInv' /\ sent' = sent
<1>1. CASE TestRunning
  BY <1>1 DEF TestRunning, DInv, Sorted, Between, SnapshotNotLost, InFlight
<1> QED BY <1>1, PopKeepsDInv, PostKeepsDInv DEF Run

\* Running a handler keeps it: the snapshot is with the client, and an MD update
\* supplies none.
LEMMA HandleKeepsDInv ==
    ASSUME PipeTypeOK, PipeTypeOK', DInv, HandleSnapshot \/ HandleMDUpdate
    PROVE  DInv' /\ \A c \in Clients : sent'[c] >= sent[c]
<1> DEFINE cmd == posted[1]
<1>a. /\ UNCHANGED <<taken, queue, hand, asked, absorbed, held>>
      /\ posted # <<>> /\ Head(posted) = cmd /\ posted' = Tail(posted)
  BY TailIndex DEF HandleSnapshot, HandleMDUpdate, PipeTypeOK
<1>b. \A c \in Clients :
          \/ sent'[c] = cmd.data
          \/ sent'[c] = sent[c] /\ (c \notin Addressees(cmd) \/ cmd.kind # "snapshot")
  <2>1. CASE HandleSnapshot
    BY <1>a, <2>1 DEF HandleSnapshot
  <2>2. CASE HandleMDUpdate
    BY <1>a, <2>2 DEF HandleMDUpdate
  <2> QED BY <2>1, <2>2
<1>1. /\ UNCHANGED <<taken, queue, hand, asked, absorbed, held>>
      /\ posted # <<>> /\ Head(posted) = cmd /\ posted' = Tail(posted)
      /\ \A c \in Clients :
             \/ sent'[c] = cmd.data
             \/ sent'[c] = sent[c] /\ (c \notin Addressees(cmd) \/ cmd.kind # "snapshot")
  BY <1>a, <1>b
<1>2. /\ Len(posted') = Len(posted) - 1 /\ Len(posted) >= 1 /\ Len(posted) \in Nat
      /\ \A i \in 1 .. Len(posted') : posted'[i] = posted[i + 1]
  BY <1>1, TailIndex DEF PipeTypeOK
<1>3. cmd \in InFlight /\ InFlight = InFlight' \cup {cmd}
  <2>1. ToSet(posted) = {cmd} \cup ToSet(posted')
    BY <1>1, TailSet DEF PipeTypeOK
  <2> QED BY <1>1, <2>1 DEF InFlight
<1>4. \A x \in InFlight' : cmd.data <= x.data
  <2>1. \A i \in 1 .. Len(posted') : cmd.data <= posted'[i].data
    BY <1>2 DEF DInv, Sorted
  <2>2. \A j \in 1 .. Len(queue) : cmd.data <= queue[j].data
    BY <1>2 DEF DInv, Sorted
  <2>3. hand # None => cmd.data <= hand.data
    BY <1>2 DEF DInv, Sorted
  <2>4. /\ \A x \in ToSet(posted') : \E i \in 1 .. Len(posted') : x = posted'[i]
        /\ \A x \in ToSet(queue') : \E j \in 1 .. Len(queue') : x = queue'[j]
    BY DEF ToSet, PipeTypeOK
  <2> QED BY <1>1, <2>1, <2>2, <2>3, <2>4 DEF InFlight
<1>5. cmd.data \in Int /\ \A c \in Clients : sent[c] \in Int /\ asked[c] \in Int /\ sent[c] <= cmd.data
  BY <1>3, SetOfCommands DEF PipeTypeOK, DInv, Between, Versions
<1> HIDE DEF cmd
<1>6. Sorted'
  BY <1>1, <1>2 DEF DInv, Sorted
<1>7. Between'
  BY <1>1, <1>3, <1>4, <1>5 DEF DInv, Between
<1>8. SnapshotNotLost'
  <2> SUFFICES ASSUME ~absorbed', NEW c \in Clients, ~(sent'[c] >= asked'[c])
               PROVE  \E x \in InFlight' : Supplies(x, c, asked'[c])
    BY DEF SnapshotNotLost, Supplies
  <2>1. PICK x \in InFlight : Supplies(x, c, asked[c])
    BY <1>1, <1>5 DEF DInv, SnapshotNotLost
  <2>2. x # cmd
    BY <2>1, <1>1 DEF Supplies
  <2> QED BY <2>1, <2>2, <1>1, <1>3
<1>9. \A c \in Clients : sent'[c] >= sent[c]
  BY <1>1, <1>5
<1> QED BY <1>6, <1>7, <1>8, <1>9 DEF DInv

\* Building a command keeps it: the snapshot is newer than all on its way.
LEMMA BuildKeepsDInv ==
    ASSUME PipeTypeOK, DInv, NEW p \in Producers, NEW kind \in Kinds,
           NEW to \in Clients \cup {Everyone}, Build(p, kind, to)
    PROVE  DInv' /\ sent' = sent
<1>1. /\ taken \in Int /\ taken' \in Int /\ taken' >= taken
      /\ UNCHANGED <<queue, hand, posted, sent, asked, absorbed>>
  BY LaterTypes DEF Build, PipeTypeOK
<1>2. \A q \in Producers : held'[q] # None =>
          held'[q].data \in Int /\ (held'[q] = held[q] \/ held'[q].data = taken)
  BY <1>1 DEF Build, PipeTypeOK, Command
<1>3. /\ InFlight' = InFlight /\ \A x \in InFlight : x.data \in Int
      /\ \A c \in Clients : sent[c] \in Int /\ asked[c] \in Int
  BY <1>1, SetOfCommands DEF InFlight, PipeTypeOK, Versions
<1>4. Between'
  <2>1. /\ \A x \in InFlight : x.data <= taken'
        /\ \A c \in Clients : sent[c] <= taken' /\ asked[c] <= taken'
    BY <1>1, <1>3 DEF DInv, Between
  <2>2. ASSUME NEW q \in Producers, held'[q] # None
        PROVE  /\ held'[q].data <= taken'
               /\ \A x \in InFlight : x.data <= held'[q].data
               /\ \A c \in Clients : sent[c] <= held'[q].data /\ asked[c] <= held'[q].data
    BY <1>1, <1>2, <1>3, <2>2 DEF DInv, Between
  <2>3. \A c \in Clients, x \in InFlight : sent[c] <= x.data
    BY DEF DInv, Between
  <2> QED BY <1>1, <1>3, <2>1, <2>2, <2>3 DEF Between
<1>5. Sorted' /\ SnapshotNotLost'
  BY <1>1, <1>3 DEF DInv, Sorted, SnapshotNotLost
<1> QED BY <1>1, <1>4, <1>5 DEF DInv

\* Nothing is asked for at first.
LEMMA InitDInv == Init => DInv
<1> SUFFICES ASSUME Init PROVE DInv
  OBVIOUS
<1>1. Len(queue) = 0 /\ Len(posted) = 0 /\ InFlight = {}
  BY DEF Init, InFlight, ToSet
<1>2. Sorted
  BY <1>1 DEF Init, Sorted
<1>3. Between /\ SnapshotNotLost
  BY <1>1 DEF Init, Between, SnapshotNotLost
<1> QED BY <1>2, <1>3 DEF DInv

\* Every step keeps the delivery invariant.
LEMMA NextDInv ==
    ASSUME SoleProducer
    PROVE  PipeTypeOK /\ PipeTypeOK' /\ DInv /\ [Next]_vars =>
               DInv' /\ [\A c \in Clients : sent'[c] >= sent[c]]_sent
<1> SUFFICES ASSUME PipeTypeOK, PipeTypeOK', DInv, [Next]_vars
             PROVE  DInv' /\ [\A c \in Clients : sent'[c] >= sent[c]]_sent
  OBVIOUS
<1>2. ASSUME NEW p \in Producers, NEW kind \in Kinds, NEW to \in Clients \cup {Everyone},
             Build(p, kind, to)
      PROVE  DInv' /\ sent' = sent
  BY <1>2, BuildKeepsDInv
<1>3. ASSUME NEW p \in Producers, Push(p) PROVE DInv' /\ sent' = sent
  BY <1>3, PushKeepsDInv
<1>4. CASE Start \/ Stop \/ Join \/ UNCHANGED vars
  BY <1>4 DEF Start, Stop, Join, vars, DInv, Sorted, Between, SnapshotNotLost, InFlight
<1>5. CASE Run \/ Handle
  BY <1>5, RunKeepsDInv, HandleKeepsDInv DEF Handle
<1> QED BY <1>2, <1>3, <1>4, <1>5 DEF Next, Produce

\* No snapshot is lost to a later snapshot that absorbs it (push), to a stop or to a
\* restart; nor to an MD update, until one has cleared a snapshot from the queue.
THEOREM NothingLost == ASSUME SoleProducer PROVE Spec => []SnapshotNotLost
<1>1. DInv => SnapshotNotLost
  BY DEF DInv
<1> QED BY <1>1, InitDInv, NextDInv, PipeTypes, PTL DEF Spec

\* No client is sent an older snapshot after a newer one, MD updates or not.
THEOREM InOrder == ASSUME SoleProducer PROVE Spec => NeverBackwards
BY InitDInv, NextDInv, PipeTypes, PTL DEF Spec, NeverBackwards
=============================================================================
