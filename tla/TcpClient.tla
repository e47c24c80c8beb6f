------------------------------ MODULE TcpClient ------------------------------
(***************************************************************************)
(* TcpClient of src/src/client.cpp: the application thread connects and    *)
(* disconnects, and one thread per connection blocks in a read and calls   *)
(* the callbacks.  `connected` is a plain bool that both threads write.    *)
(* Connect when connected and Disconnect when not change nothing.          *)
(*                                                                         *)
(* An application that makes its calls from one thread, and none of them   *)
(* from a callback, is assumed.  OnConnected may throw; what the other      *)
(* callbacks throw is left out.  Subscribing is in OrderBookClient.        *)
(***************************************************************************)
EXTENDS Integers

CONSTANTS MaxConnects,   \* bound: how often a connection is made
          BodySize       \* sizeof(common::Snapshot), likewise sizeof(common::MDUpdate)

ASSUME TcpClientAssumption == MaxConnects \in Nat /\ BodySize \in Nat

VARIABLES
    connected,    \* Impl::connected
    open,         \* Impl::socket holds a connection that is open on this side
    peer,         \* the server keeps the connection up
    reader,       \* Impl::io_thread: "none" if it is not joinable
    app,          \* where the application thread is in Connect or Disconnect
    leaving,      \* the client is being destroyed
    over,         \* it has been destroyed, or the process was terminated
    connects,     \* the connections made (for the bound)
    downs,        \* history: calls of OnDisconnected for this connection
    threw         \* history: OnConnected threw for this connection

counts == <<connects, downs, threw>>
vars == <<connected, open, peer, reader, app, leaving, over, counts>>

\* The type invariant.
TypeOK ==
    /\ {connected, open, peer, leaving, threw} \subseteq BOOLEAN
    /\ reader \in {"none", "loop", "read", "caught", "notify", "done"}
    /\ app \in {"idle", "starting", "closing", "joining", "notify", "gone"}
    /\ over \in {"no", "destroyed", "terminated"}
    /\ connects \in 0 .. MaxConnects
    /\ downs \in 0 .. 2

Init ==
    /\ connected = FALSE /\ open = FALSE /\ peer = FALSE
    /\ reader = "none" /\ app = "idle" /\ leaving = FALSE /\ over = "no"
    /\ connects = 0 /\ downs = 0 /\ threw = FALSE

-----------------------------------------------------------------------------
(* The application thread.                                                  *)

\* resolve fails, or boost::asio::connect does, which has closed what was open:
\* OnError, false.
ConnectFails ==
    /\ app = "idle" /\ ~leaving
    /\ ~connected
    /\ open' \in {open, FALSE}
    /\ UNCHANGED <<connected, peer, reader, app, leaving, over, counts>>

\* It succeeds: connected is set, then OnConnected is called.
Connect ==
    /\ app = "idle" /\ ~leaving
    /\ ~connected
    /\ connects < MaxConnects
    /\ connected' = TRUE /\ open' = TRUE /\ peer' = TRUE
    /\ app' = "starting"
    /\ connects' = connects + 1
    /\ downs' = 0 /\ threw' = FALSE
    /\ UNCHANGED <<reader, leaving, over>>

\* OnConnected throws, and the exception is caught: OnError, false.
OnConnectedThrows ==
    /\ app = "starting"
    /\ app' = "idle"
    /\ threw' = TRUE
    /\ UNCHANGED <<connected, open, peer, reader, leaving, over, connects, downs>>

\* io_thread = std::thread(...): std::terminate if io_thread is joinable still.
StartReader ==
    /\ app = "starting"
    /\ IF reader = "none"
       THEN reader' = "loop" /\ app' = "idle" /\ UNCHANGED over
       ELSE over' = "terminated" /\ UNCHANGED <<reader, app>>
    /\ UNCHANGED <<connected, open, peer, leaving, counts>>

\* Disconnect(), of the application or of ~TcpClient.
Disconnect ==
    /\ app = "idle"
    /\ connected
    /\ connected' = FALSE
    /\ app' = "closing"
    /\ UNCHANGED <<open, peer, reader, leaving, over, counts>>

\* Mutant: the socket is closed when the client is destroyed, not here.
CloseNothing ==
    /\ app = "closing"
    /\ app' = "joining"
    /\ UNCHANGED <<connected, open, peer, reader, leaving, over, counts>>

CloseSocket ==
    /\ app = "closing"
    /\ open' = FALSE
    /\ app' = "joining"
    /\ UNCHANGED <<connected, peer, reader, leaving, over, counts>>

Join ==
    /\ app = "joining"
    /\ reader \in {"none", "done"}
    /\ reader' = "none"
    /\ app' = "notify"
    /\ UNCHANGED <<connected, open, peer, leaving, over, counts>>

\* OnDisconnected, and Disconnect() returns.
NotifyAndReturn ==
    /\ app = "notify"
    /\ downs' = downs + 1
    /\ app' = "idle"
    /\ UNCHANGED <<connected, open, peer, reader, leaving, over, connects, threw>>

\* The client is destroyed: Disconnect() first, if it is connected.
Leave ==
    /\ app = "idle" /\ ~leaving
    /\ leaving' = TRUE
    /\ UNCHANGED <<connected, open, peer, reader, app, over, counts>>

\* ~Impl: the destructor of a joinable thread is std::terminate.
Destroy ==
    /\ app = "idle" /\ leaving
    /\ ~connected
    /\ app' = "gone"
    /\ over' = IF reader = "none" THEN "destroyed" ELSE "terminated"
    /\ UNCHANGED <<connected, open, peer, reader, leaving, counts>>

-----------------------------------------------------------------------------
(* The thread of the connection.                                            *)

ReaderTest ==
    /\ reader = "loop"
    /\ reader' = IF connected THEN "read" ELSE "done"
    /\ UNCHANGED <<connected, open, peer, app, leaving, over, counts>>

\* Snapshot::deserialize and MDUpdate::deserialize take a type byte and a body.
Deserializes(size) == size = BodySize + 1

\* ProcessMessage: the type byte has been read, and a buffer of the size of the
\* body is read and deserialized.  An unknown type, or what deserialize throws,
\* ends the reading.
ReadFrame(type) ==
    /\ reader = "read"
    /\ open /\ peer
    /\ IF type \in {"SNAPSHOT", "MD_UPDATE"} /\ Deserializes(BodySize)
       THEN reader' = "loop"
       ELSE reader' = "caught"
    /\ UNCHANGED <<connected, open, peer, app, leaving, over, counts>>

ReadFails ==
    /\ reader = "read"
    /\ ~(open /\ peer)
    /\ reader' = "caught"
    /\ UNCHANGED <<connected, open, peer, app, leaving, over, counts>>

\* Mutant: the flag is left to Disconnect.
GiveUpQuietly ==
    /\ reader = "caught"
    /\ reader' = "notify"
    /\ UNCHANGED <<connected, open, peer, app, leaving, over, counts>>

\* The exception is caught: connected is cleared, OnDisconnected is called.
GiveUp ==
    /\ reader = "caught"
    /\ connected' = FALSE
    /\ reader' = "notify"
    /\ UNCHANGED <<open, peer, app, leaving, over, counts>>

\* Mutant: OnDisconnected is left to Disconnect.
NotifyNobody ==
    /\ reader = "notify"
    /\ reader' = "done"
    /\ UNCHANGED <<connected, open, peer, app, leaving, over, counts>>

Notify ==
    /\ reader = "notify"
    /\ downs' = downs + 1
    /\ reader' = "done"
    /\ UNCHANGED <<connected, open, peer, app, leaving, over, connects, threw>>

\* The server closes the connection, or it breaks.
PeerGoes ==
    /\ peer
    /\ peer' = FALSE
    /\ UNCHANGED <<connected, open, reader, app, leaving, over, counts>>

-----------------------------------------------------------------------------
AppReturns == StartReader \/ CloseSocket \/ Join \/ NotifyAndReturn

ReaderStep == ReaderTest \/ ReadFails \/ GiveUp \/ Notify

Next == /\ over = "no"
        /\ \/ ConnectFails \/ Connect \/ OnConnectedThrows \/ Disconnect
           \/ Leave \/ Destroy
           \/ AppReturns
           \/ ReaderStep
           \/ \E type \in {"SNAPSHOT", "MD_UPDATE", "BID"} : ReadFrame(type)
           \/ PeerGoes

Spec == Init /\ [][Next]_vars

-----------------------------------------------------------------------------
(* Properties.                                                              *)

\* A client that says it is connected has a thread that will notice the end of
\* the connection, unless OnConnected threw; and a thread reads for nobody else:
\* only for a client that is connected, or whose Disconnect is about to wait.
ConnectedIsWatched ==
    over = "no" =>
        /\ connected /\ ~threw => reader \in {"loop", "read", "caught"} \/ app = "starting"
        /\ reader \in {"loop", "read", "caught"} => connected \/ app \in {"closing", "joining"}

\* The end of a connection is reported, however it comes about.
EndReported ==
    connects > 0 /\ ~connected ~> downs > 0 \/ over = "terminated"

\* Disconnect returns, whatever the reading thread is doing.
DisconnectReturns == app = "closing" ~> app = "idle"

\* A client whose server has closed the connection, or reset it, does not stay
\* connected, unless OnConnected threw and nobody reads.
LossNoticed == connected /\ ~peer ~> ~connected \/ threw \/ over = "terminated"

\* The loss of a connection is handled: it does not end in std::terminate.
LossIsSurvived == over # "terminated"
=============================================================================
