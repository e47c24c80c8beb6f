------------------------------ MODULE TCPServer ------------------------------
(***************************************************************************)
(* TCPServer of src/src/TCP_server: the accept loop, the life of an        *)
(* accepted session, HELLO, and the end of the server, run by the threads  *)
(* of the io_context.  An accept handler holds the server (self).  Nobody  *)
(* holds a session but the accept handler that made it, which drops what   *)
(* OnAccept returns, the read handler that is running, and client_list_.   *)
(* The callbacks of a session hold a plain `this`.                         *)
(*                                                                         *)
(* What a session does is in Session, what the list does in ClientSessions *)
(* (its calls are atomic here), what DOMManager does in DOMManager: of its *)
(* ticks, which run on the same threads, there is the snapshot they take.  *)
(* StartServer is called once; calls of the acceptor are atomic.           *)
(***************************************************************************)
EXTENDS HelloLine, SnapshotSource, FiniteSets

CONSTANTS IoThreads,     \* the threads in io_context.run()
          Frames,        \* the lines a peer may send
          MaxAccepts,    \* bound: connections made
          MaxTicks       \* bound: snapshots taken

ASSUME TCPServerAssumption == Frames \subseteq Seq(Nat)

VARIABLES
    open,      \* acceptor_.is_open()
    accepts,   \* outstanding async_accepts
    owner,     \* what the owner of the server has done with it
    pc,        \* where each io thread is
    sess,      \* the session that the handler of a thread holds, 0 for none
    made,      \* the sessions made, which are numbered
    armed,     \* the sessions with an outstanding read
    list,      \* client_list_: client ids to sessions
    heard,     \* history: the line a thread is handling, and its answer
    over       \* "no", "terminated", or "undefined" behaviour

acceptVars  == <<open, accepts, owner>>
sessionVars == <<sess, made, armed, list, heard>>
vars        == <<acceptVars, pc, sessionVars, over, source>>

Silence == [line |-> <<>>, answer |-> "none"]

Init ==
    /\ open = TRUE /\ accepts = 0 /\ owner = "new"
    /\ pc = [t \in IoThreads |-> "idle"]
    /\ sess = [t \in IoThreads |-> 0]
    /\ made = 0 /\ armed = {} /\ list = <<>>
    /\ heard = [t \in IoThreads |-> Silence]
    /\ over = "no"
    /\ SourceInit

Goes(t, from, to) == pc[t] = from /\ pc' = [pc EXCEPT ![t] = to]

\* The threads whose accept handler is running: it holds the server.
Accepting == {t \in IoThreads : pc[t] \in {"return", "test", "arm"}}

\* The server has not been destroyed: somebody holds it.
Alive == owner # "gone" \/ accepts > 0 \/ Accepting # {}

\* Thread t lets go of its session; the last one to do so destroys it, and its
\* handlers find their weak pointers expired.
Drops(t) ==
    /\ sess' = [sess EXCEPT ![t] = 0]
    /\ UNCHANGED <<made, list>>
Held(n) == n \in {sess'[t] : t \in IoThreads} \cup {list'[id] : id \in DOMAIN list'}

-----------------------------------------------------------------------------
(* The owner.                                                               *)

StartServer ==
    /\ owner = "new"
    /\ owner' = "running"
    /\ accepts' = accepts + 1
    /\ UNCHANGED <<open, pc, sessionVars, over, source>>

\* The acceptor is closed, and every session in the list is stopped.
StopServer ==
    /\ owner = "running"
    /\ owner' = "stopped"
    /\ open' = FALSE
    /\ armed' = armed \ {list[id] : id \in DOMAIN list}
    /\ UNCHANGED <<accepts, pc, sess, made, list, heard, over, source>>

\* The owner's shared_ptr goes.
DropServer ==
    /\ owner \in {"running", "stopped"}
    /\ owner' = "gone"
    /\ UNCHANGED <<open, accepts, pc, sessionVars, over, source>>

-----------------------------------------------------------------------------
(* The accept handler.                                                      *)

\* OnAccept: the session is made, and Start begins its first read at once.
OnAccept(t) ==
    /\ accepts > 0
    /\ made < MaxAccepts
    /\ Goes(t, "idle", "return")
    /\ accepts' = accepts - 1
    /\ made' = made + 1
    /\ sess' = [sess EXCEPT ![t] = made']
    /\ armed' = armed \cup {made'}
    /\ UNCHANGED <<open, owner, list, heard, over, source>>

\* Mutant: an error ends the loop.
OnAcceptErrorEnds(t) ==
    /\ accepts > 0
    /\ pc[t] = "idle"
    /\ accepts' = accepts - 1
    /\ UNCHANGED <<open, owner, pc, sessionVars, over, source>>

\* OnAccept with an error, operation_aborted or any other: nothing is returned.
OnAcceptError(t) ==
    /\ accepts > 0
    /\ Goes(t, "idle", "test")
    /\ accepts' = accepts - 1
    /\ UNCHANGED <<open, owner, sessionVars, over, source>>

\* The handler drops the session that OnAccept returned.
OnAcceptReturns(t) ==
    /\ Goes(t, "return", "test")
    /\ Drops(t)
    /\ armed' = {n \in armed : Held(n)}
    /\ UNCHANGED <<acceptVars, heard, over, source>>

\* Mutant: the loop goes on whether the acceptor is open or not.
TestNothing(t) ==
    /\ Goes(t, "test", "arm")
    /\ UNCHANGED <<acceptVars, sessionVars, over, source>>

TestOpen(t) ==
    /\ Goes(t, "test", IF open THEN "arm" ELSE "idle")
    /\ UNCHANGED <<acceptVars, sessionVars, over, source>>

\* A closed acceptor takes it too, and completes it with an error.
DoAccept(t) ==
    /\ Goes(t, "arm", "idle")
    /\ accepts' = accepts + 1
    /\ UNCHANGED <<open, owner, sessionVars, over, source>>

-----------------------------------------------------------------------------
(* The read handler of a session, which runs on any io thread.              *)

\* The read completes, and the handler's weak pointer is locked in time.
ReadCompletes(t, n) ==
    /\ n \in armed
    /\ Goes(t, "idle", "read")
    /\ sess' = [sess EXCEPT ![t] = n]
    /\ armed' = armed \ {n}
    /\ UNCHANGED <<acceptVars, made, list, heard, over, source>>

\* HELLO of client id: get_session throws for an id that is not in the list, and
\* the exception leaves the thread.
Hello(t, id) ==
    IF id \in DOMAIN list
    THEN /\ list' = [list EXCEPT ![id] = sess[t]]
         /\ armed' = armed \ ({list[id]} \ {sess[t]})
         /\ UNCHANGED over
    ELSE over' = "terminated" /\ UNCHANGED <<list, armed>>

ClientIdOf == [frame \in Frames |-> ParseClientId(frame)]

HandleMessage(t, frame) ==
    LET id == ClientIdOf[frame]
    IN  /\ Alive
        /\ Goes(t, "read", "answered")
        /\ heard' = [heard EXCEPT ![t] = [line |-> frame, answer |->
                         IF id = 0 THEN "ERR" ELSE IF id \in DOMAIN list THEN "OK" ELSE "throws"]]
        /\ IF id = 0 THEN UNCHANGED <<list, armed, over>> ELSE Hello(t, id)
        /\ UNCHANGED <<acceptVars, sess, made, source>>

\* ProcessRead reads again, and lets go of the session.
ReadAgain(t) ==
    /\ Goes(t, "answered", "idle")
    /\ Drops(t)
    /\ armed' = IF Held(sess[t]) THEN armed \cup {sess[t]} ELSE armed
    /\ heard' = [heard EXCEPT ![t] = Silence]
    /\ UNCHANGED <<acceptVars, over, source>>

\* The read has failed: the client of the session, if it has one, is removed.
HandleDisconnect(t) ==
    /\ Alive
    /\ Goes(t, "read", "idle")
    /\ sess' = [sess EXCEPT ![t] = 0]
    /\ list' = [id \in {i \in DOMAIN list : list[i] # sess[t]} |-> list[id]]
    /\ UNCHANGED <<acceptVars, made, armed, heard, over, source>>

\* The callback's `this` is a server that has been destroyed.
CallbackDangles(t) ==
    /\ pc[t] = "read"
    /\ ~Alive
    /\ over' = "undefined"
    /\ UNCHANGED <<acceptVars, pc, sessionVars, source>>

\* A tick of the DOMManager that StartServer has started.
Tick(t) ==
    /\ pc[t] = "idle"
    /\ Alive /\ owner # "new"
    /\ current < MaxTicks
    /\ GetSnapshot
    /\ UNCHANGED <<acceptVars, pc, sessionVars, over>>

-----------------------------------------------------------------------------
\* The handler that a thread has begun goes on; an accept on a closed acceptor
\* is completed.
HandlerStep(t) ==
    \/ OnAcceptReturns(t) \/ TestOpen(t) \/ DoAccept(t)
    \/ pc[t] = "read" /\ \E frame \in Frames : HandleMessage(t, frame)
    \/ HandleDisconnect(t) \/ CallbackDangles(t) \/ ReadAgain(t)

Next ==
    /\ over = "no"
    /\ \/ StartServer \/ StopServer \/ DropServer
       \/ \E t \in IoThreads :
            \/ OnAccept(t) \/ OnAcceptError(t)
            \/ HandlerStep(t)
            \/ \E n \in 1 .. MaxAccepts : ReadCompletes(t, n)
            \/ Tick(t)

Spec == Init /\ [][Next]_vars

\* The io threads run what has been queued: handlers go on, and an accept on a
\* closed acceptor completes.  Nobody has to connect, to send, to stop.
FairSpec ==
    /\ Spec
    /\ \A t \in IoThreads :
        /\ WF_vars(over = "no" /\ HandlerStep(t))
        /\ WF_vars(over = "no" /\ ~open /\ OnAcceptError(t))

-----------------------------------------------------------------------------
(* Properties.                                                              *)

\* Errors, losses and a stop at any moment notwithstanding, a server that was
\* started and is open waits for one next connection, or a thread is about to:
\* the chain of accepts is neither lost nor doubled.
AcceptArmed ==
    over = "no" /\ open /\ owner # "new" => accepts + Cardinality(Accepting) = 1

\* A server that was stopped and that its owner has let go of is destroyed, though
\* every accept holds it and arms the next.
ServerReleased == owner = "gone" /\ ~open ~> ~Alive \/ over # "no"

\* The lines that say HELLO to a client id that is not 0.
Hellos == {frame \in Frames : \E n \in Numbers(frame) : n % IdWord # 0}

\* A line is answered ERR exactly when it is no HELLO of a client id that is not
\* 0 in the width of ClientId, and nothing but such a HELLO ends the process.
ErrExactly ==
    /\ \A t \in IoThreads : pc[t] = "answered" =>
          (heard[t].answer = "ERR" <=> heard[t].line \notin Hellos)
    /\ over = "terminated" => \E t \in IoThreads : heard[t].answer = "throws"

\* A HELLO is accepted: what it calls does not throw.
HelloAccepted == \A t \in IoThreads : heard[t].answer # "throws"
=============================================================================
