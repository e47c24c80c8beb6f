-------------------------- MODULE TcpClientProofs --------------------------
(***************************************************************************)
(* Proofs about TcpClient and the library over it, for any number of       *)
(* connections and tickers: a connected client is watched, the library     *)
(* does not change how the connection behaves, and its own state and       *)
(* tickers follow the connection.                                          *)
(***************************************************************************)
EXTENDS OrderBookClient, TLAPS

Reading == {"loop", "read", "caught"}
Ending  == {"closing", "joining", "notify"}

\* Connect goes on with a connection nobody reads from; a Disconnect that has
\* begun has cleared the flag, and after the join there is no thread.
Watched ==
    /\ connected /\ ~threw => reader \in Reading \/ app = "starting"
    /\ reader \in Reading => connected \/ app \in {"closing", "joining"}
    /\ app = "starting" => connected /\ reader \notin Reading
    /\ app \in Ending => ~connected
    /\ app = "notify" => reader = "none"

IInv == over = "no" => Watched

-----------------------------------------------------------------------------
(* The connection.                                                          *)

\* Every step of the application keeps it.
LEMMA AppKeepsWatched ==
    ASSUME Watched,
           \/ ConnectFails \/ Connect \/ OnConnectedThrows \/ Disconnect
           \/ Leave \/ Destroy \/ AppReturns
    PROVE  over' = "no" => Watched'
<1> USE DEF Watched, Reading, Ending
<1>1. CASE ConnectFails \/ Leave
  BY <1>1 DEF ConnectFails, Leave, counts
<1>2. CASE Connect
  BY <1>2 DEF Connect
<1>3. CASE OnConnectedThrows
  BY <1>3 DEF OnConnectedThrows
<1>4. CASE Disconnect
  BY <1>4 DEF Disconnect, counts
<1>5. CASE Destroy
  BY <1>5 DEF Destroy
<1>6. CASE StartReader
  BY <1>6 DEF StartReader, counts
<1>7. CASE CloseSocket \/ Join \/ NotifyAndReturn
  BY <1>7 DEF CloseSocket, Join, NotifyAndReturn, counts
<1> QED BY <1>1, <1>2, <1>3, <1>4, <1>5, <1>6, <1>7 DEF AppReturns

\* So does every step of the reading thread, and of the server.
LEMMA ReaderKeepsWatched ==
    ASSUME Watched, ReaderStep \/ PeerGoes \/ \E type : ReadFrame(type)
    PROVE  Watched'
<1> USE DEF Watched, Reading, Ending
<1>1. CASE ReaderTest \/ ReadFails
  BY <1>1 DEF ReaderTest, ReadFails, counts
<1>2. CASE GiveUp \/ Notify
  BY <1>2 DEF GiveUp, Notify, counts
<1>3. CASE PeerGoes \/ \E type : ReadFrame(type)
  BY <1>3 DEF PeerGoes, ReadFrame, counts
<1> QED BY <1>1, <1>2, <1>3 DEF ReaderStep

LEMMA NextIInv == IInv /\ [Next]_vars => IInv'
<1> SUFFICES ASSUME IInv, [Next]_vars PROVE IInv'
  OBVIOUS
<1>1. CASE Next
  BY <1>1, AppKeepsWatched, ReaderKeepsWatched DEF Next, IInv
<1>2. CASE UNCHANGED vars
  BY <1>2 DEF vars, counts, IInv, Watched
<1> QED BY <1>1, <1>2

LEMMA InitIInv == Init => IInv
BY DEF Init, IInv, Watched, Reading, Ending

-----------------------------------------------------------------------------
(* The library.                                                             *)

\* A step of the library is a step of the connection, or none.
LEMMA StepRefines == [ClientNext]_clientVars => [Next]_vars
<1> SUFFICES ASSUME [ClientNext]_clientVars PROVE Next \/ UNCHANGED vars
  OBVIOUS
<1>1. CASE ConnectAgain \/ DisconnectAgain \/ UNCHANGED clientVars
  BY <1>1 DEF ConnectAgain, DisconnectAgain, clientVars
<1>2. CASE \E k \in Tickers : Subscribe(k) \/ Unsubscribe(k) \/ NotWritten(k)
  BY <1>2 DEF Subscribe, Unsubscribe, NotWritten, clientVars
<1>3. CASE over = "no" /\ (ConnectBegins \/ ConnectReturns \/ ConnectRefused \/ DisconnectEnds)
  BY <1>3 DEF ConnectBegins, ConnectReturns, ConnectRefused, DisconnectEnds, Next, AppReturns
<1>4. CASE /\ over = "no"
           /\ \/ Disconnect \/ CloseSocket \/ Join
              \/ Leave \/ Destroy
              \/ ReaderStep
              \/ \E type \in {"SNAPSHOT", "MD_UPDATE", "BID"} : ReadFrame(type)
              \/ PeerGoes
  BY <1>4 DEF Next, AppReturns
<1> QED BY <1>1, <1>2, <1>3, <1>4 DEF ClientNext

\* The library uses the connection as any application may: what holds of
\* TcpClient holds of it under the library.
THEOREM LibraryUsesClient == ClientSpec => Spec
<1>1. ClientInit => Init
  BY DEF ClientInit
<1> QED BY <1>1, StepRefines, PTL DEF ClientSpec, Spec

\* A client that says it is connected is watched, and a thread reads for nobody
\* else.
THEOREM Watching == Spec => []ConnectedIsWatched
<1>1. IInv => ConnectedIsWatched
  BY DEF IInv, Watched, ConnectedIsWatched, Reading
<1> QED BY <1>1, InitIInv, NextIInv, PTL DEF Spec

-----------------------------------------------------------------------------
(* What the library keeps.                                                  *)

\* The state follows the connection but for a loss, and during the calls that
\* change both.
StateFollows ==
    over = "no" /\ ~leaving =>
        /\ state = "Connected" => connected \/ reader \in {"notify", "done"} \/ app \in Ending
        /\ connected /\ ~threw => state = "Connected" \/ app = "starting"

\* Without a connection so far, nothing was subscribed.
TickersFollow ==
    /\ connects \in Nat
    /\ connected => connects > 0
    /\ connects = 0 => tickers = {} /\ told = {}
    /\ TickersTold

LibInv == IInv /\ StateFollows

\* Connecting, and what the calls of a connected library do to its state.
LEMMA CallsKeepState ==
    ASSUME LibInv,
           \/ over = "no" /\ (ConnectBegins \/ ConnectReturns \/ ConnectRefused \/ DisconnectEnds)
           \/ ConnectAgain \/ DisconnectAgain
    PROVE  StateFollows'
<1> USE DEF LibInv, IInv, Watched, StateFollows, Reading, Ending, library, counts, Free
<1>1. CASE ConnectBegins
  BY <1>1 DEF ConnectBegins, Connect
<1>2. CASE over = "no" /\ ConnectReturns
  BY <1>2 DEF ConnectReturns, StartReader
<1>3. CASE over = "no" /\ ConnectRefused
  BY <1>3 DEF ConnectRefused, ConnectFails, OnConnectedThrows
<1>4. CASE over = "no" /\ DisconnectEnds
  BY <1>4 DEF DisconnectEnds, NotifyAndReturn
<1>5. CASE ConnectAgain \/ DisconnectAgain
  BY <1>5 DEF ConnectAgain, DisconnectAgain, vars
<1> QED BY <1>1, <1>2, <1>3, <1>4, <1>5

\* The steps that the library takes no part in.
LEMMA OthersKeepState ==
    ASSUME LibInv, over = "no", UNCHANGED library,
           \/ Disconnect \/ CloseSocket \/ Join \/ Leave \/ Destroy
           \/ ReaderStep \/ PeerGoes \/ \E type : ReadFrame(type)
    PROVE  StateFollows'
<1> USE DEF LibInv, IInv, Watched, StateFollows, Reading, Ending, library, counts
<1>1. CASE Disconnect \/ CloseSocket \/ Join
  BY <1>1 DEF Disconnect, CloseSocket, Join
<1>2. CASE Leave \/ Destroy
  BY <1>2 DEF Leave, Destroy
<1>3. CASE ReaderTest \/ ReadFails
  BY <1>3 DEF ReaderTest, ReadFails
<1>4. CASE GiveUp \/ Notify
  BY <1>4 DEF GiveUp, Notify
<1>5. CASE PeerGoes \/ \E type : ReadFrame(type)
  BY <1>5 DEF PeerGoes, ReadFrame
<1> QED BY <1>1, <1>2, <1>3, <1>4, <1>5 DEF ReaderStep

LEMMA NextLibInv == LibInv /\ [ClientNext]_clientVars => LibInv'
<1> SUFFICES ASSUME LibInv, [ClientNext]_clientVars PROVE LibInv'
  OBVIOUS
<1>1. IInv'
  BY StepRefines, NextIInv DEF LibInv
<1>2. ASSUME \/ UNCHANGED clientVars
             \/ \E k \in Tickers : Subscribe(k) \/ Unsubscribe(k) \/ NotWritten(k)
      PROVE  StateFollows'
  <2>1. UNCHANGED <<over, leaving, state, connected, reader, app, threw>>
    BY <1>2 DEF Subscribe, Unsubscribe, NotWritten, clientVars, vars, counts, library
  <2> QED BY <2>1 DEF LibInv, StateFollows
<1>3. ASSUME \/ over = "no" /\ (ConnectBegins \/ ConnectReturns \/ ConnectRefused \/ DisconnectEnds)
             \/ ConnectAgain \/ DisconnectAgain
      PROVE  StateFollows'
  BY <1>3, CallsKeepState
<1>4. ASSUME /\ over = "no"
             /\ UNCHANGED library
             /\ \/ Disconnect \/ CloseSocket \/ Join \/ Leave \/ Destroy
                \/ ReaderStep \/ PeerGoes \/ \E type : ReadFrame(type)
      PROVE  StateFollows'
  BY <1>4, OthersKeepState
<1>5. StateFollows'
  BY <1>2, <1>3, <1>4 DEF ClientNext
<1> QED BY <1>1, <1>5 DEF LibInv

\* The state of the library is wrong about the connection only after a loss.
THEOREM StateIsHonest == ClientSpec => []StateHonest
<1>1. ClientInit => LibInv
  BY InitIInv DEF ClientInit, Init, LibInv, StateFollows
<1>2. LibInv => StateHonest
  BY DEF LibInv, StateFollows, StateHonest, Free, Ending
<1> QED BY <1>1, <1>2, NextLibInv, PTL DEF ClientSpec

LEMMA NextTickers == TickersFollow /\ [ClientNext]_clientVars => TickersFollow'
<1> SUFFICES ASSUME TickersFollow, [ClientNext]_clientVars PROVE TickersFollow'
  OBVIOUS
<1> USE DEF TickersFollow, TickersTold
<1>1. CASE ConnectBegins
  BY <1>1 DEF ConnectBegins, Connect
<1>2. CASE \E k \in Tickers : Subscribe(k) \/ Unsubscribe(k)
  BY <1>2 DEF Subscribe, Unsubscribe, Written, vars, counts
<1>3. CASE UNCHANGED <<connects, tickers, told>> /\ (connected' => connected)
  BY <1>3
<1>4. CASE ConnectReturns \/ ConnectRefused \/ DisconnectEnds
  BY <1>3, <1>4
     DEF ConnectReturns, StartReader, ConnectRefused, ConnectFails, OnConnectedThrows,
         DisconnectEnds, NotifyAndReturn, counts, library
<1>5. CASE UNCHANGED library /\ (Disconnect \/ CloseSocket \/ Join \/ Leave \/ Destroy)
  BY <1>3, <1>5 DEF Disconnect, CloseSocket, Join, Leave, Destroy, counts, library
<1>6. CASE UNCHANGED library /\ (ReaderStep \/ PeerGoes \/ \E type : ReadFrame(type))
  BY <1>3, <1>6
     DEF ReaderStep, ReaderTest, ReadFails, GiveUp, Notify, ReadFrame, PeerGoes, counts, library
<1>7. CASE \/ ConnectAgain \/ DisconnectAgain \/ UNCHANGED clientVars
           \/ \E k \in Tickers : NotWritten(k)
  BY <1>3, <1>7 DEF ConnectAgain, DisconnectAgain, NotWritten, clientVars, vars, counts, library
<1> QED BY <1>1, <1>2, <1>4, <1>5, <1>6, <1>7 DEF ClientNext

\* The library knows all it has told the server over this connection.
THEOREM TickersAreTold == ClientSpec => []TickersTold
<1>1. ClientInit => TickersFollow
  BY DEF ClientInit, Init, TickersFollow, TickersTold
<1>2. TickersFollow => TickersTold
  BY DEF TickersFollow
<1> QED BY <1>1, <1>2, NextTickers, PTL DEF ClientSpec
=============================================================================
