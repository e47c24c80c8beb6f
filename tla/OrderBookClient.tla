--------------------------- MODULE OrderBookClient ---------------------------
(***************************************************************************)
(* OrderBookClient of client_lib: the client library over TcpClient.  It   *)
(* keeps a state and the subscribed tickers of its own beside the          *)
(* connection, set from what its own calls return and from nothing else:   *)
(* neither the reading thread nor a callback changes them.                 *)
(*                                                                         *)
(* A step of TcpClient that ends a call of the library is conjoined with   *)
(* what the library does then.                                             *)
(***************************************************************************)
EXTENDS TcpClient

CONSTANT Tickers

VARIABLES
    state,      \* state_
    tickers,    \* tickers_
    told        \* history: the tickers subscribed over this connection

library == <<state, tickers, told>>
clientVars == <<vars, library>>

LibraryTypeOK ==
    /\ TypeOK
    /\ state \in {"Connected", "Disconnected"}
    /\ {tickers, told} \subseteq SUBSET Tickers

ClientInit == Init /\ state = "Disconnected" /\ tickers = {} /\ told = {}

\* The application may call: it is in no call, and keeps the client.
Free == over = "no" /\ app = "idle" /\ ~leaving

-----------------------------------------------------------------------------
(* Connect and Disconnect.                                                  *)

ConnectBegins == Connect /\ told' = {} /\ UNCHANGED <<state, tickers>>

\* Mutant: the state is left for a callback to set.
ConnectForgets == StartReader /\ UNCHANGED library

\* TcpClient::Connect returns true.
ConnectReturns == StartReader /\ state' = "Connected" /\ UNCHANGED <<tickers, told>>

\* It returns false: the state stays what it was.
ConnectRefused == (ConnectFails \/ OnConnectedThrows) /\ UNCHANGED library

\* It returns true at once.
ConnectAgain ==
    /\ Free /\ connected
    /\ state' = "Connected"
    /\ UNCHANGED <<vars, tickers, told>>

\* TcpClient::Disconnect returns; ~TcpClient calls it without the library.
DisconnectEnds ==
    /\ NotifyAndReturn
    /\ state' = IF leaving THEN state ELSE "Disconnected"
    /\ UNCHANGED <<tickers, told>>

DisconnectAgain ==
    /\ Free /\ ~connected
    /\ state' = "Disconnected"
    /\ UNCHANGED <<vars, tickers, told>>

-----------------------------------------------------------------------------
(* Subscribe and Unsubscribe: a line is written to the socket.  The write   *)
(* may succeed when the server has gone, and fails only then.               *)

Written == Free /\ connected /\ open
Refused == Free /\ ~(connected /\ open /\ peer)

Subscribe(k) ==
    /\ Written
    /\ tickers' = tickers \cup {k}
    /\ told' = told \cup {k}
    /\ UNCHANGED <<vars, state>>

Unsubscribe(k) ==
    /\ Written
    /\ tickers' = tickers \ {k}
    /\ told' = told \ {k}
    /\ UNCHANGED <<vars, state>>

\* Mutant: the ticker is erased whatever Unsubscribe of the connection returned.
UnsubscribeAnyway(k) ==
    /\ Refused
    /\ tickers' = tickers \ {k}
    /\ UNCHANGED <<vars, state, told>>

\* Not connected, or the write throws: false, and the set stays as it is.
NotWritten(k) == Refused /\ UNCHANGED clientVars

-----------------------------------------------------------------------------
ClientNext ==
    \/ /\ over = "no"
       /\ \/ ConnectBegins \/ ConnectReturns \/ ConnectRefused \/ DisconnectEnds
          \/ /\ UNCHANGED library
             /\ \/ Disconnect \/ CloseSocket \/ Join
                \/ Leave \/ Destroy
                \/ ReaderStep
                \/ \E type \in {"SNAPSHOT", "MD_UPDATE", "BID"} : ReadFrame(type)
                \/ PeerGoes
    \/ ConnectAgain \/ DisconnectAgain
    \/ \E k \in Tickers : Subscribe(k) \/ Unsubscribe(k) \/ NotWritten(k)

ClientSpec == ClientInit /\ [][ClientNext]_clientVars

\* As in TcpClient: both threads run, and nobody has to call.
ClientFairSpec ==
    /\ ClientSpec
    /\ WF_clientVars(over = "no" /\ (ConnectReturns \/ DisconnectEnds \/
                                     ((CloseSocket \/ Join) /\ UNCHANGED library)))
    /\ WF_clientVars(over = "no" /\ ReaderStep /\ UNCHANGED library)

-----------------------------------------------------------------------------
(* Properties.                                                              *)

\* The state differs from the connection only after a loss, between the reading
\* thread's noticing it and the application's next successful call; a library
\* whose OnConnected threw is connected without knowing.
StateHonest ==
    Free =>
        /\ state = "Connected" => connected \/ reader \in {"notify", "done"}
        /\ connected /\ ~threw => state = "Connected"

\* The library knows every ticker the server was told over this connection, and
\* until it connects again it keeps no other.
TickersTold == told \subseteq tickers /\ (connects <= 1 => tickers = told)
=============================================================================
